------------------------------ MODULE MCServer ------------------------------
EXTENDS Server, TLC

CONSTANTS alice, bob, r1, r2, small, big, c1, c2

Sizes == small :> 1 @@ big :> 3
Listing == <<small, big>>
Roles == alice :> (r1 :> "write" @@ r2 :> "none") @@ bob :> (r1 :> "none" @@ r2 :> "admin")

Ask(endpoint, method, o, do) ==
  [endpoint |-> endpoint, method |-> method, do |-> do,
   oid |-> o, size |-> IF o = None THEN 0 ELSE Sizes[o]]
Batches == {Ask("batch", "POST", None, "upload"), Ask("batch", "POST", None, "download")}

\* Every endpoint, and methods they do not take.
Transfers(o) ==
  {Ask("object", "GET", o, "none"), Ask("object", "PUT", o, "none"), Ask("object", "DELETE", o, "none"),
   Ask("verify", "POST", o, "none"), Ask("multipart_start", "POST", o, "none"),
   Ask("multipart_part", "PUT", o, "none"), Ask("multipart_complete", "POST", o, "none"),
   Ask("multipart_abort", "DELETE", o, "none")}
Others(o) ==
  {Ask("locks", "GET", None, "none"), Ask("locks", "POST", None, "none"),
   Ask("locks_verify", "POST", None, "none"), Ask("unlock", "POST", None, "none"),
   Ask("unlock", "POST", None, "force"), Ask("storage_list", "GET", None, "none"),
   Ask("storage_list", "POST", None, "none"), Ask("storage_change", "POST", o, "restore"),
   Ask("storage_change", "POST", o, "trash"), Ask("storage_change", "POST", o, "tier")}
Session == Ask("session", "POST", None, "none")

Env(repos, mode, layout, transfer, encrypted, verify, actions, given, proxyMax, maxObject, quota) ==
  [ALLOWED_REPOS |-> repos, AUTH_MODE |-> mode, AUTH_HOST |-> mode = "gitea", STORAGE_LAYOUT |-> layout,
   TRANSFER_MODE |-> transfer, R2 |-> TRUE, ENCRYPTION_KEY |-> encrypted, VERIFY_UPLOADS |-> verify,
   ACTIONS_OIDC |-> actions, AUTH_TOKENS |-> given, PROXY_MAX_UPLOAD_MB |-> proxyMax,
   MAX_OBJECT_MB |-> maxObject, QUOTA_GB |-> quota]

Given == {[by |-> alice, scope |-> {r1, r2}, permission |-> "read"],
          [by |-> bob, scope |-> {r2}, permission |-> "admin"]}

\* Who may do what, in one deployment of each kind, and one whose settings do not go together.
Door(asks, env1) ==
  [env |-> env1, asks |-> asks \cup {Session} \cup Batches, who |-> {alice, bob}, calls |-> {c1},
   lists |-> {<<small>>, <<big>>}, most |-> 1, end |-> 0]
Doors == {
  Door(Transfers(small),
       Env({r1, r2}, "github", "per-repo", "proxy", "unset", TRUE, "write", {}, 2, {}, {})),
  Door(Transfers(big), Env({r1, r2}, "gitlab", "shared", "auto", "unset", TRUE, "none", {}, 1, {}, {})),
  Door(Transfers(big), Env({r1}, "bitbucket", "per-repo", "auto", "unset", FALSE, "read", {}, 2, {2}, {})),
  Door(Transfers(big) \cup Others(big),
       Env({r1, r2}, "token", "shared", "auto", "key", FALSE, "none", Given, 3, {}, {})),
  Door(Transfers(small),
       Env({r1, r2}, "github", "per-repo", "presigned", "key", TRUE, "write", {}, 2, {}, {})),
  Door(Others(small), Env({r1, r2}, "gitea", "per-repo", "proxy", "key", TRUE, "admin", {}, 2, {}, {}))}

\* An administrator, and objects that come and go while batches count.
Quota(layout, change, calls, lists, end) ==
  [env |-> Env({r2}, "github", layout, "proxy", "unset", TRUE, "none", {}, 3, {}, {4}),
   asks |-> {Ask("batch", "POST", None, "upload"), Ask("object", "PUT", small, "none"),
             Ask("object", "PUT", big, "none"), change},
   who |-> {bob}, calls |-> calls, lists |-> lists, most |-> 0, end |-> end]
Quotas == {
  Quota("per-repo", Ask("storage_change", "POST", big, "trash"), {c1},
        {<<big, small>>, <<small, small>>}, 3),
  Quota("shared", Ask("object", "PUT", small, "none"), {c1, c2}, {<<big>>}, 1)}

MCScenes == Doors \cup Quotas
=============================================================================
