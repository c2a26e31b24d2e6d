----------------------------- MODULE FrontDoor -----------------------------
(***************************************************************************)
(* How the Worker answers a request before a handler changes anything: the *)
(* settings it reads from its variables (src/domain/config.ts), what       *)
(* credentials are worth in a repository (src/app/authorize.ts,            *)
(* src/domain/access.ts), which requests an endpoint takes                 *)
(* (src/http/router.ts, src/http/handler.ts and the guards of the          *)
(* handlers), and what a batch answers for an object (src/domain/batch.ts, *)
(* src/app/lfs.ts).                                                        *)
(*                                                                         *)
(* A pattern is the set of repositories it covers; an optional number is a *)
(* set of at most one; sizes are counted in units.                         *)
(***************************************************************************)
EXTENDS Integers, Sequences

CONSTANTS
  Account, Repo, Oid,
  Size,       \* how large each object is
  Standing,   \* the account's role at the Git host, for each repository
  Public,     \* the repositories everybody may read there
  R2Max,      \* the most R2 accepts in one upload
  MinPart,    \* R2's smallest part
  MaxParts,   \* the most parts of an upload
  None

Role == {"none", "read", "write", "admin"}
GrantedPermission == Role \ {"none"}

ASSUME SizeAssumption == Size \in [Oid -> Nat]
ASSUME HostAssumption == Standing \in [Account -> [Repo -> Role]] /\ Public \subseteq Repo
ASSUME R2Assumption == R2Max \in Nat /\ MinPart \in Nat \ {0} /\ MaxParts \in Nat \ {0}
ASSUME NoneAssumption == None \notin Oid

Least(S) == CHOOSE n \in S : \A m \in S : n <= m
Greatest(S) == CHOOSE n \in S : \A m \in S : n >= m

-----------------------------------------------------------------------------
(* The settings. *)

StaticToken == [by : Account, scope : SUBSET Repo, permission : GrantedPermission]

\* The variables as an operator sets them; R2 says whether all four R2_* are there.
Environment ==
  [ALLOWED_REPOS : SUBSET Repo, AUTH_MODE : {"github", "gitlab", "gitea", "bitbucket", "token"},
   AUTH_HOST : BOOLEAN, STORAGE_LAYOUT : {"per-repo", "shared"},
   TRANSFER_MODE : {"auto", "presigned", "proxy"}, R2 : BOOLEAN,
   ENCRYPTION_KEY : {"unset", "key", "bad"}, VERIFY_UPLOADS : BOOLEAN,
   ACTIONS_OIDC : Role, AUTH_TOKENS : SUBSET StaticToken,
   PROXY_MAX_UPLOAD_MB : Int, MAX_OBJECT_MB : SUBSET Int, QUOTA_GB : SUBSET Int]

NotPositive(setting) == \E n \in setting : n <= 0

Misconfigured(env) ==
  \/ env.ALLOWED_REPOS = {}
  \/ env.AUTH_MODE = "gitea" /\ ~env.AUTH_HOST
  \/ env.AUTH_MODE = "bitbucket" /\ env.AUTH_HOST
  \/ env.PROXY_MAX_UPLOAD_MB <= 0
  \/ NotPositive(env.MAX_OBJECT_MB) \/ NotPositive(env.QUOTA_GB)
  \/ env.TRANSFER_MODE = "presigned" /\ (~env.R2 \/ env.ENCRYPTION_KEY = "key")
  \/ env.ENCRYPTION_KEY = "bad"

Presign(env) == env.TRANSFER_MODE # "proxy" /\ env.R2 /\ env.ENCRYPTION_KEY = "unset"
IsShared(env) == env.STORAGE_LAYOUT = "shared"
\* Presigned uploads wait for the check of their hash; only they have a copier.
Staged(env) == Presign(env) /\ env.VERIFY_UPLOADS

-----------------------------------------------------------------------------
(* Credentials.                                                            *)
(*                                                                         *)
(* An account has a password at the Git host, perhaps opaque tokens of the *)
(* server, and the JWT of a workflow in a repository.  A token the Worker  *)
(* signed carries a repository and a permission, and the one of a transfer *)
(* action an object.                                                       *)

Signed ==
  [kind : {"signed"}, by : Account, repo : Repo, permission : GrantedPermission,
   oid : Oid \cup {None}, at : {"anywhere", "object", "verify", "multipart", "link"}]
Opaque == [kind : {"opaque"}, by : Account, token : StaticToken]
Password == [kind : {"password"}, by : Account]
Workflow == [kind : {"jwt"}, by : Account, repo : Repo]

Rank == [none |-> 0, read |-> 1, write |-> 2, admin |-> 3]
HasPermission(actual, required) == Rank[actual] >= Rank[required]

Refused(status) == [status |-> status, permission |-> "none", oid |-> None]
LetIn(permission, oid) == [status |-> 200, permission |-> permission, oid |-> oid]

\* What a host says of an account that sees the repository, each in its own words.
FlagsOf(role) ==
  CASE role = "admin" -> {"admin", "maintain", "push", "pull"}
    [] role = "write" -> {"push", "pull"}
    [] OTHER -> {"pull"}
LevelOf(role) == CASE role = "admin" -> 40 [] role = "write" -> 30 [] role = "read" -> 20 [] OTHER -> 0

PermissionFromGithub(flags) ==
  IF flags \cap {"admin", "maintain"} # {} THEN "admin"
  ELSE IF "push" \in flags THEN "write"
  ELSE IF "pull" \in flags THEN "read"
  ELSE "none"
PermissionFromGitlab(level, visible) ==
  IF level >= 40 THEN "admin"
  ELSE IF level >= 30 THEN "write"
  ELSE IF level >= 20 \/ visible THEN "read"
  ELSE "none"
\* Bitbucket names the role itself, and does not list what everybody may read.
PermissionFromBitbucket(granted, private) ==
  IF granted = "none" /\ ~private THEN "read" ELSE granted

\* Hosts answer 404 about a private repository that the account cannot see.
Lookup(env, a, r) ==
  LET role == Standing[a][r]
      permission ==
        CASE env.AUTH_MODE = "gitlab" -> PermissionFromGitlab(LevelOf(role), r \in Public)
          [] env.AUTH_MODE = "bitbucket" -> PermissionFromBitbucket(role, r \notin Public)
          [] OTHER -> PermissionFromGithub(FlagsOf(role))
  IN  IF role = "none" /\ r \notin Public THEN Refused(404) ELSE LetIn(permission, None)

StrongestGrant(grants, r) ==
  LET covering == {g \in grants : r \in g.scope}
  IN  {g \in covering : \A h \in covering : Rank[g.permission] >= Rank[h.permission]}

GrantsFor(env, shown) ==
  IF shown.kind = "opaque" THEN {g \in env.AUTH_TOKENS : g = shown.token} ELSE {}

\* Who a request comes from, before it is looked at any closer.
Authorize(env, r, shown) ==
  IF r \notin env.ALLOWED_REPOS THEN Refused(403)
  ELSE IF shown.kind = "nothing" THEN Refused(401)
  ELSE IF shown.kind = "signed"
       THEN IF shown.repo = r THEN LetIn(shown.permission, shown.oid) ELSE Refused(404)
  ELSE IF env.ACTIONS_OIDC # "none" /\ shown.kind = "jwt"
       THEN IF shown.repo = r THEN LetIn(env.ACTIONS_OIDC, None) ELSE Refused(404)
  ELSE IF env.AUTH_MODE # "token"
       THEN IF shown.kind = "password" THEN Lookup(env, shown.by, r) ELSE Refused(401)
  ELSE IF GrantsFor(env, shown) = {} THEN Refused(401)
  ELSE LET best == StrongestGrant(GrantsFor(env, shown), r)
       IN  IF best = {} THEN Refused(404) ELSE LetIn((CHOOSE g \in best : TRUE).permission, None)

-----------------------------------------------------------------------------
(* Requests. *)

Methods ==
  [batch |-> {"POST"}, verify |-> {"POST"}, object |-> {"GET", "PUT"}, session |-> {"POST"},
   multipart_start |-> {"POST"}, multipart_part |-> {"PUT"}, multipart_complete |-> {"POST"},
   multipart_abort |-> {"DELETE"}, locks |-> {"GET", "POST"}, locks_verify |-> {"POST"},
   unlock |-> {"POST"}, storage_list |-> {"GET"}, storage_change |-> {"POST"}]
Endpoint == DOMAIN Methods

\* The operation of a batch, the change of objects, or whether an unlock is forced.
DoFor(endpoint) ==
  CASE endpoint = "batch" -> {"upload", "download"}
    [] endpoint = "storage_change" -> {"trash", "tier", "restore"}
    [] endpoint = "unlock" -> {"none", "force"}
    [] OTHER -> {"none"}
OfNoObject == {"batch", "session", "locks", "locks_verify", "unlock", "storage_list"}

HttpRequest ==
  {q \in [endpoint : Endpoint, method : {"GET", "POST", "PUT", "DELETE"}, oid : Oid \cup {None},
          size : Nat, do : UNION {DoFor(e) : e \in Endpoint}] :
     q.do \in DoFor(q.endpoint) /\ (q.oid = None <=> q.endpoint \in OfNoObject)}

\* Mutant: the token of a transfer opens the transfer of any object.
InScope_AnyObject(only, q) ==
  \/ only = None
  \/ q.endpoint \in {"verify", "object", "multipart_start", "multipart_part",
                     "multipart_complete", "multipart_abort"}

\* A transfer action's token is good for its object's transfer, and to verify.
InScope(only, q) ==
  \/ only = None
  \/ q.endpoint = "verify"
  \/ /\ q.endpoint \in {"object", "multipart_start", "multipart_part", "multipart_complete",
                        "multipart_abort"}
     /\ q.oid = only

\* The role each handler asks for.
Required(q) ==
  CASE q.endpoint \in {"session", "storage_list"} -> "read"
    [] q.endpoint = "batch" -> IF q.do = "upload" THEN "write" ELSE "read"
    [] q.endpoint \in {"object", "locks"} -> IF q.method = "GET" THEN "read" ELSE "write"
    [] q.endpoint = "storage_change" -> IF q.do = "restore" THEN "write" ELSE "admin"
    [] q.endpoint = "unlock" -> IF q.do = "force" THEN "admin" ELSE "write"
    [] OTHER -> "write"

PartSizeFor(env) == Greatest({MinPart, env.PROXY_MAX_UPLOAD_MB})
TooLargeFor(env, size) == \E n \in env.MAX_OBJECT_MB : size > n

\* What the handlers refuse beside that, for reasons a settled request can have.
Unfit(env, shown, only, q) ==
  CASE q.endpoint = "session" /\ shown.kind = "signed" -> 403
    [] q.endpoint = "verify" /\ only \notin {None, q.oid} -> 403
    [] q.endpoint = "object" /\ q.method = "PUT" /\ q.size > env.PROXY_MAX_UPLOAD_MB -> 413
    [] q.endpoint = "multipart_part" /\ q.size > PartSizeFor(env) -> 413
    [] q.endpoint = "multipart_start"
         /\ (TooLargeFor(env, q.size) \/ q.size > MaxParts * PartSizeFor(env)) -> 422
    [] q.endpoint \in {"storage_list", "storage_change"} /\ IsShared(env) -> 409
    [] OTHER -> 200

\* The answer of handleRepository, as far as it depends on nothing that is stored.
Gate(env, r, shown, q) ==
  LET auth == Authorize(env, r, shown)
  IN  IF Misconfigured(env) THEN Refused(500)
      ELSE IF auth.status # 200 THEN auth
      ELSE IF ~InScope(auth.oid, q) THEN Refused(403)
      ELSE IF q.method \notin Methods[q.endpoint] THEN Refused(405)
      ELSE IF ~HasPermission(auth.permission, Required(q)) THEN Refused(403)
      ELSE IF Unfit(env, shown, auth.oid, q) # 200 THEN Refused(Unfit(env, shown, auth.oid, q))
      ELSE auth

-----------------------------------------------------------------------------
(* Batches. *)

\* Whether the objects go in parts: where presigned links cannot go.
Multipart(env, offered, objects) ==
  offered /\ (~Presign(env) \/ \E i \in DOMAIN objects : Size[objects[i]] > R2Max)

\* Mutant: a batch does not look at what a single upload may hold.
DecideUpload_AnySize(env, o, multipart, stored, member) ==
  IF stored /\ member THEN "exists"
  ELSE IF TooLargeFor(env, Size[o]) THEN "refused"
  ELSE "upload"

DecideUpload(env, o, multipart, stored, member) ==
  IF stored /\ member THEN "exists"
  ELSE IF TooLargeFor(env, Size[o]) THEN "refused"
  ELSE IF multipart THEN "upload"
  ELSE IF Size[o] > (IF Presign(env) THEN R2Max ELSE env.PROXY_MAX_UPLOAD_MB) THEN "refused"
  ELSE "upload"

\* The uploads that still fit, in order; a sum over a prefix counts what fitted before.
ApplyQuota(uploads, used, quota) ==
  LET fits[i \in 0..Len(uploads)] ==
        IF i = 0 THEN [used |-> used, kept |-> {}]
        ELSE LET before == fits[i - 1]
                 size == IF uploads[i] = None THEN 0 ELSE Size[uploads[i]]
             IN  IF uploads[i] # None /\ before.used + size <= quota
                 THEN [used |-> before.used + size, kept |-> before.kept \cup {i}]
                 ELSE before
  IN  fits[Len(uploads)].kept

\* The tokens and links an answer carries for one object.
Handed(env, a, r, operation, multipart, o) ==
  LET token(permission, at) ==
        [kind |-> "signed", by |-> a, repo |-> r, permission |-> permission, oid |-> o, at |-> at]
  IN  IF operation = "download"
      THEN {token("read", IF Presign(env) THEN "link" ELSE "object")}
      ELSE IF multipart THEN {token("write", "multipart")}
      ELSE {token("write", IF Presign(env) THEN "link" ELSE "object"), token("write", "verify")}
=============================================================================
