------------------------------- MODULE Server -------------------------------
(***************************************************************************)
(* The Worker at work: accounts trade credentials for tokens and use them, *)
(* batches look at what is stored, count the repository's use and hand out *)
(* actions, and what is stored changes meanwhile.                          *)
(*                                                                         *)
(* What a handler other than batch does to the bucket is one step here, as *)
(* far as batches see it; Uploads, Trash and Locks take those apart.  What *)
(* the lifetimes of tokens add is in Access: here any token may expire at  *)
(* any moment.  Time passes in steps, and no request takes longer than     *)
(* Longest.                                                                *)
(***************************************************************************)
EXTENDS FrontDoor, FiniteSetsExt

CONSTANTS
  Isolates,
  Slot,      \* the batches that can be answered at once
  Pool,      \* where the objects of the shared layout are
  Order,     \* the order in which R2 lists the objects, a sequence
  TTL,       \* how long an isolate remembers what a repository uses
  Longest,   \* the longest a request takes
  Scenes     \* deployments, with bounds: what is asked of each, by whom, in how
             \* many batches of which objects, how many tokens, how long

ASSUME TTLAssumption == TTL \in Nat \ {0} /\ Longest \in Nat
ASSUME ListAssumption ==
  /\ Order \in Seq(Oid) /\ {Order[i] : i \in DOMAIN Order} = Oid
  /\ \A i, j \in DOMAIN Order : Order[i] = Order[j] => i = j
ASSUME SceneAssumption ==
  Scenes \subseteq [env : Environment, asks : SUBSET HttpRequest, who : SUBSET Account,
                    calls : SUBSET Slot, lists : SUBSET Seq(Oid), most : Nat, end : Nat]
ASSUME PoolAssumption == Pool \notin Repo

VARIABLES
  scene,    \* the deployment; it stays
  clock,    \* the time
  since,    \* since when each object is stored where
  left,     \* when it was last removed
  members,  \* the markers of the shared layout
  held,     \* the tokens and links handed out that still work
  usage,    \* what each isolate remembers of the use of each place
  batches   \* the batches that are being answered

bucket == <<since, left, members>>
serverVars == <<scene, clock, since, left, members, held, usage, batches>>

env == scene.env
Moment == 0 .. scene.end
Never == -1
Place == Repo \cup {Pool}
PlaceOf(r) == IF IsShared(env) THEN Pool ELSE r

NoBatch == [step |-> "idle"]
Verdict == {"head", "marker", "exists", "missing", "refused", "action", "over"}
Batch ==
  [step : {"plan", "usage", "list", "answered"}, by : Account, repo : Repo, isolate : Isolates,
   started : Moment, do : {"upload", "download"}, multipart : BOOLEAN, objects : Seq(Oid),
   plan : Seq(Verdict), page : Nat \ {0}, used : Nat]

ServerTypes ==
  /\ scene \in Scenes /\ clock \in Moment
  /\ since \in [Place -> [Oid -> Moment \cup {Never}]]
  /\ left \in [Place -> [Oid -> Moment \cup {Never}]]
  /\ members \subseteq Repo \X Oid
  /\ held \subseteq Signed
  /\ usage \in [Isolates -> [Place -> [bytes : Nat, expires : Nat]]]
  /\ batches \in [Slot -> Batch \cup {NoBatch}]
  /\ \A p \in Place, o \in Oid : left[p][o] <= clock /\ since[p][o] <= clock

ServerInit ==
  /\ scene \in Scenes
  /\ clock = 0
  /\ since = [p \in Place |-> [o \in Oid |-> Never]]
  /\ left = [p \in Place |-> [o \in Oid |-> Never]]
  /\ members = {}
  /\ held = {}
  /\ usage = [i \in Isolates |-> [p \in Place |-> [bytes |-> 0, expires |-> 0]]]
  /\ batches = [c \in Slot |-> NoBatch]

Stored(p, o) == since[p][o] # Never

\* Clients keep what they have a use for, within the bound.
Hand(handed) ==
  \E kept \in SUBSET (held \cup handed) :
    Cardinality(kept) <= scene.most /\ held' = kept

-----------------------------------------------------------------------------
(* Requests other than batches. *)

\* What an account can show: its own credentials and what it was handed.
Shown(a) ==
  {[kind |-> "nothing", by |-> a], [kind |-> "password", by |-> a]}
    \cup {[kind |-> "opaque", by |-> a, token |-> t] : t \in {t \in env.AUTH_TOKENS : t.by = a}}
    \cup {[kind |-> "jwt", by |-> a, repo |-> r] : r \in {r \in Repo : Standing[a][r] # "none"}}
    \cup {t \in held : t.by = a /\ t.at # "link"}

\* A new object dates from now; one that is stored already is not written again.
Put(p, o) ==
  /\ since' = IF Stored(p, o) THEN since ELSE [since EXCEPT ![p][o] = clock]
  /\ UNCHANGED left
Drop(p, o) ==
  /\ since' = [since EXCEPT ![p][o] = Never]
  /\ left' = IF Stored(p, o) THEN [left EXCEPT ![p][o] = clock] ELSE left

Mark(r, o) == members' = IF IsShared(env) THEN members \cup {<<r, o>>} ELSE members

\* Uploads end in an object in place and its marker, or in neither.
Stores(q) ==
  \/ q.endpoint = "object" /\ q.method = "PUT"
  \/ q.endpoint = "multipart_complete"
  \/ q.endpoint = "verify" /\ Staged(env)
  \/ q.endpoint = "storage_change" /\ q.do = "restore"
\* Without the check of hashes, verify takes a stored object for an upload.
Claims(q) == q.endpoint = "verify" /\ Presign(env) /\ ~env.VERIFY_UPLOADS

Handle(a, r, shown, q) ==
  /\ q.endpoint \notin {"batch", "session"}
  /\ Gate(env, r, shown, q).status = 200
  /\ \/ Stores(q) /\ Put(PlaceOf(r), q.oid) /\ Mark(r, q.oid)
     \/ Claims(q) /\ Stored(PlaceOf(r), q.oid) /\ Mark(r, q.oid) /\ UNCHANGED <<since, left>>
     \/ /\ q.endpoint = "storage_change" /\ q.do = "trash"
        /\ Drop(PlaceOf(r), q.oid) /\ UNCHANGED members
     \/ UNCHANGED bucket
  /\ UNCHANGED <<scene, clock, held, usage, batches>>

OpenSession(a, r, shown, q) ==
  LET auth == Gate(env, r, shown, q)
      token == [kind |-> "signed", by |-> a, repo |-> r, permission |-> auth.permission,
                oid |-> None, at |-> "anywhere"]
  IN  /\ q.endpoint = "session"
      /\ auth.status = 200
      /\ Hand({token})
      /\ UNCHANGED <<scene, clock, bucket, usage, batches>>

\* A presigned link goes to R2, to the live key unless uploads are staged.
FollowLink(t) ==
  /\ t \in held /\ t.at = "link" /\ t.permission = "write"
  /\ ~Staged(env)
  /\ Put(PlaceOf(t.repo), t.oid)
  /\ UNCHANGED <<scene, clock, members, held, usage, batches>>

-----------------------------------------------------------------------------
(* Batches. *)

Proceed(c, b) == batches' = [batches EXCEPT ![c] = b]

StartBatch(c, a, r, i, shown, q, objects, offered) ==
  /\ batches[c] = NoBatch
  /\ q.endpoint = "batch"
  /\ Gate(env, r, shown, q).status = 200
  /\ Proceed(c, [step |-> "plan", by |-> a, repo |-> r, isolate |-> i, started |-> clock, do |-> q.do,
            multipart |-> q.do = "upload" /\ Multipart(env, offered, objects),
            objects |-> objects, plan |-> [k \in DOMAIN objects |-> "head"],
            page |-> 1, used |-> 0])
  /\ UNCHANGED <<scene, clock, bucket, held, usage>>

\* What is decided once it is known whether the object is there and may be read.
Decision(b, o, stored, member) ==
  IF b.do = "download" THEN IF stored /\ member THEN "action" ELSE "missing"
  ELSE CASE DecideUpload(env, o, b.multipart, stored, member) = "upload" -> "action"
         [] OTHER -> DecideUpload(env, o, b.multipart, stored, member)

\* The objects of a batch are looked up at once, in any order.
LookUp(c, k) ==
  LET b == batches[c]
      stored == Stored(PlaceOf(b.repo), b.objects[k])
  IN  /\ b.step = "plan" /\ b.plan[k] = "head"
      /\ Proceed(c, [b EXCEPT !.plan[k] =
                  IF stored /\ IsShared(env) THEN "marker"
                  ELSE Decision(b, b.objects[k], stored, stored)])
      /\ UNCHANGED <<scene, clock, bucket, held, usage>>

AskMarker(c, k) ==
  LET b == batches[c]
  IN  /\ b.step = "plan" /\ b.plan[k] = "marker"
      /\ Proceed(c, [b EXCEPT !.plan[k] =
                  Decision(b, b.objects[k], TRUE, <<b.repo, b.objects[k]>> \in members)])
      /\ UNCHANGED <<scene, clock, bucket, held, usage>>

Planned(b) ==
  b.step = "plan" /\ \A k \in DOMAIN b.plan : b.plan[k] \notin {"head", "marker"}
Counted(b) == b.do = "upload" /\ env.QUOTA_GB # {}

\* Mutant: what was counted once is remembered for good.
Fresh_Forever(i, p) == usage[i][p].expires > 0

Fresh(i, p) == usage[i][p].expires > clock

\* The answer, with tokens for what the objects' actions are.
AnswerWith(c, b, plan) ==
  LET handed == UNION {Handed(env, b.by, b.repo, b.do, b.multipart, b.objects[k]) :
                         k \in {k \in DOMAIN plan : plan[k] = "action"}}
  IN  /\ Hand(handed)
      /\ Proceed(c, [b EXCEPT !.step = "answered", !.plan = plan])

\* What does not fit beside what is used.
WithinQuota(b, used) ==
  LET uploads == [k \in DOMAIN b.plan |-> IF b.plan[k] = "action" THEN b.objects[k] ELSE None]
      kept == ApplyQuota(uploads, used, Least(env.QUOTA_GB))
  IN  [k \in DOMAIN b.plan |-> IF uploads[k] # None /\ k \notin kept THEN "over" ELSE b.plan[k]]

AnswerAll(c) ==
  /\ Planned(batches[c]) /\ ~Counted(batches[c])
  /\ AnswerWith(c, batches[c], batches[c].plan)
  /\ UNCHANGED <<scene, clock, bucket, usage>>

AnswerRemembered(c) ==
  LET b == batches[c]
  IN  /\ Planned(b) /\ Counted(b)
      /\ Fresh(b.isolate, PlaceOf(b.repo))
      /\ AnswerWith(c, b, WithinQuota(b, usage[b.isolate][PlaceOf(b.repo)].bytes))
      /\ UNCHANGED <<scene, clock, bucket, usage>>

StartListing(c) ==
  LET b == batches[c]
  IN  /\ Planned(b) /\ Counted(b)
      /\ ~Fresh(b.isolate, PlaceOf(b.repo))
      /\ Proceed(c, [b EXCEPT !.step = "list"])
      /\ UNCHANGED <<scene, clock, bucket, held, usage>>

\* A page of the listing holds one object.
ListPage(c) ==
  LET b == batches[c]
  IN  /\ b.step = "list" /\ b.page <= Len(Order)
      /\ Proceed(c, [b EXCEPT !.page = b.page + 1,
                         !.used = IF Stored(PlaceOf(b.repo), Order[b.page])
                                  THEN b.used + Size[Order[b.page]] ELSE b.used])
      /\ UNCHANGED <<scene, clock, bucket, held, usage>>

AnswerListed(c) ==
  LET b == batches[c]
  IN  /\ b.step = "list" /\ b.page > Len(Order)
      /\ usage' = [usage EXCEPT ![b.isolate][PlaceOf(b.repo)] =
                     [bytes |-> b.used, expires |-> clock + TTL]]
      /\ AnswerWith(c, b, WithinQuota(b, b.used))
      /\ UNCHANGED <<scene, clock, bucket>>

Finish(c) ==
  /\ batches[c].step = "answered"
  /\ Proceed(c, NoBatch)
  /\ UNCHANGED <<scene, clock, bucket, held, usage>>

-----------------------------------------------------------------------------
(* The world. *)

Expire(t) ==
  /\ held' = held \ {t}
  /\ UNCHANGED <<scene, clock, bucket, usage, batches>>

\* R2 forgets nothing, but an isolate does when it ends.
Restart(i) ==
  /\ usage' = [usage EXCEPT ![i] = [p \in Place |-> [bytes |-> 0, expires |-> 0]]]
  /\ UNCHANGED <<scene, clock, bucket, held, batches>>

Later ==
  /\ clock < scene.end
  /\ \A c \in Slot : batches[c] # NoBatch => clock < batches[c].started + Longest
  /\ clock' = clock + 1
  /\ UNCHANGED <<scene, bucket, held, usage, batches>>

Busy == {c \in Slot : batches[c] # NoBatch}

ServerNext ==
  \/ \E a \in scene.who, r \in Repo : \E shown \in Shown(a), q \in scene.asks :
       \/ Handle(a, r, shown, q)
       \/ OpenSession(a, r, shown, q)
       \/ \E c \in scene.calls, i \in Isolates, objects \in scene.lists, offered \in BOOLEAN :
            StartBatch(c, a, r, i, shown, q, objects, offered)
  \/ \E t \in held : FollowLink(t) \/ Expire(t)
  \/ \E c \in Busy : \E k \in DOMAIN batches[c].plan : LookUp(c, k) \/ AskMarker(c, k)
  \/ \E c \in Busy : AnswerAll(c) \/ AnswerRemembered(c) \/ StartListing(c) \/ ListPage(c)
                     \/ AnswerListed(c) \/ Finish(c)
  \/ \E i \in Isolates : Restart(i)
  \/ Later

ServerSpec == ServerInit /\ [][ServerNext]_serverVars

-----------------------------------------------------------------------------
(* What has to hold. *)

\* The right a request makes use of, whatever the server thinks.
Right(q) ==
  IF q.do \in {"trash", "tier", "force"} THEN "admin"
  ELSE IF q.do = "download" \/ q.method = "GET" \/ q.endpoint = "session" THEN "read"
  ELSE "write"

\* The rights an operator and the host mean an account to have.
Entitled(a, r, right) ==
  /\ r \in env.ALLOWED_REPOS
  /\ \/ /\ env.AUTH_MODE # "token"
        /\ Rank[Standing[a][r]] >= Rank[right] \/ (right = "read" /\ r \in Public)
     \/ /\ env.AUTH_MODE = "token"
        /\ \E t \in env.AUTH_TOKENS : t.by = a /\ r \in t.scope /\ Rank[t.permission] >= Rank[right]
     \/ Standing[a][r] # "none" /\ Rank[env.ACTIONS_OIDC] >= Rank[right]

\* However credentials are traded for tokens, and tokens for tokens: nobody
\* holds a token that says more than their rights in its repository, and of the
\* requests an account can make with what it holds, none is let in beyond these
\* rights, nor to another object than that of the transfer its token is for.
NobodyOversteps ==
  /\ \A t \in held : Entitled(t.by, t.repo, t.permission)
  /\ \A a \in scene.who, r \in Repo : \A shown \in Shown(a), q \in scene.asks :
       Gate(env, r, shown, q).status = 200 =>
         /\ Entitled(a, r, Right(q))
         /\ shown.kind = "signed" /\ shown.at # "anywhere" => q.oid = shown.oid

\* The requests that the actions of a batch tell a client to make.  An object
\* may need more parts than R2 takes, which a batch does not look at.
Instructed(t) ==
  LET ask(endpoint, method, size) ==
        [endpoint |-> endpoint, method |-> method, oid |-> t.oid, size |-> size, do |-> "none"]
  IN  CASE t.at = "object" ->
             {ask("object", IF t.permission = "read" THEN "GET" ELSE "PUT", Size[t.oid])}
        [] t.at = "verify" -> {ask("verify", "POST", Size[t.oid])}
        [] t.at = "multipart" /\ Size[t.oid] <= MaxParts * PartSizeFor(env) ->
             {ask("multipart_start", "POST", Size[t.oid]),
              ask("multipart_part", "PUT", Least({PartSizeFor(env), Size[t.oid]})),
              ask("multipart_complete", "POST", 0), ask("multipart_abort", "DELETE", 0)}
        [] OTHER -> {}

\* What a batch offers can be done: while its token works, no request it asks
\* for is refused for the token, its object, the method or the size.
OffersCanBeTaken ==
  \A t \in held : \A q \in Instructed(t) : Gate(env, t.repo, t, q).status = 200

\* A batch knows of what was there before any listing it can go by began, and
\* of nothing that was gone by then.
Horizon(b) == b.started - TTL - Longest
SizeOf(objects) == MapThenSumSet(LAMBDA o : Size[o], objects)
Settled(b) ==
  {o \in Oid : Stored(PlaceOf(b.repo), o) /\ since[PlaceOf(b.repo)][o] <= Horizon(b)}
Possible(b) ==
  {o \in Oid : \/ Stored(PlaceOf(b.repo), o)
              \/ (left[PlaceOf(b.repo)][o] # Never /\ left[PlaceOf(b.repo)][o] > Horizon(b))}
UploadsOf(b, answers) ==
  MapThenSumSet(LAMBDA k : Size[b.objects[k]], {k \in DOMAIN b.plan : b.plan[k] \in answers})

\* Isolates go by a count up to TTL old and taken while objects come and go; a
\* batch all the same grants no more than fits beside what has long been there,
\* and refuses only what does not fit beside all that may be.
QuotaHolds ==
  \A c \in Busy : batches[c].step = "answered" /\ Counted(batches[c]) =>
    LET b == batches[c]
        quota == Least(env.QUOTA_GB)
    IN  /\ UploadsOf(b, {"action"}) > 0 =>
             UploadsOf(b, {"action"}) + SizeOf(Settled(b)) <= quota
        /\ (\E k \in DOMAIN b.plan : b.plan[k] = "over") =>
             UploadsOf(b, {"action", "over"}) + SizeOf(Possible(b)) > quota
=============================================================================
