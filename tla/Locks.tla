------------------------------- MODULE Locks -------------------------------
(***************************************************************************)
(* The file locks of one repository: the table of the RepoLocks Durable    *)
(* Object, the store that calls it and calls again when an answer is lost  *)
(* (src/infra/repo-locks.ts), and the handlers on top of it                *)
(* (src/app/locks.ts, src/app/admin-locks.ts).                             *)
(*                                                                         *)
(* One call of the Durable Object is atomic.  Everything between two calls *)
(* is not: other requests come in between finding a lock and removing it,  *)
(* and between two attempts of one call.                                   *)
(*                                                                         *)
(* An id stands for both the row's sequence number and its UUID: each is   *)
(* given to one lock only, since AUTOINCREMENT never reuses a number.      *)
(***************************************************************************)
EXTENDS Naturals, FiniteSets

CONSTANTS
  User,       \* people with write access
  Admin,      \* those who may unlock what others hold
  Path,
  Call,       \* requests in flight that lock or unlock
  Reader,     \* clients that list all locks, page by page
  Attempts,   \* the most times a call of the Durable Object is tried
  PageLimit,  \* locks on one page
  MaxLocks,   \* bound: locks ever created
  Scenes,     \* bound: who is there at once, which files, how many locks, attempts
  Nobody

ASSUME AdminAssumption == Admin \subseteq User /\ Nobody \notin User
ASSUME LimitsAssumption ==
  Attempts \in Nat \ {0} /\ PageLimit \in Nat \ {0} /\ MaxLocks \in Nat
ASSUME ScenesAssumption == Scenes \subseteq
  [users : SUBSET User, paths : SUBSET Path, calls : SUBSET Call,
   readers : SUBSET Reader, locks : 0..MaxLocks, attempts : 1..Attempts,
   force : SUBSET BOOLEAN]

VARIABLES
  scene,      \* the bounds of this behaviour; they stay
  locks,      \* the rows of the table
  lastId,     \* the last id given to a lock
  call,       \* what each request is doing
  listing,    \* what each reader has seen
  told,       \* who was told that they created which lock, ever
  gone        \* locks that their holder, or an admin, has asked to remove

vars == <<scene, locks, lastId, call, listing, told, gone>>

Lock == [id : 1..MaxLocks, path : Path, owner : User]

Idle == [op |-> "none", step |-> "idle"]
LockRequest == [op : {"lock"}, user : User, path : Path, attempt : 1..Attempts,
                step : {"create", "done"}, answer : {"none", "created", "taken", "error"}]
UnlockRequest == [op : {"unlock"}, user : User, id : 1..MaxLocks, force : BOOLEAN,
                  attempt : 1..Attempts, step : {"find", "remove", "done"},
                  answer : {"none", "unlocked", "missing", "forbidden", "error"}]
Listing == [step : {"idle", "reading", "done"}, cursor : 0..MaxLocks,
            seen : SUBSET Lock, shown : Nat, before : SUBSET Lock]

TypeOK ==
  /\ scene \in Scenes
  /\ locks \subseteq Lock
  /\ lastId \in 0..MaxLocks
  /\ call \in [Call -> {Idle} \cup LockRequest \cup UnlockRequest]
  /\ listing \in [Reader -> Listing]
  /\ told \subseteq User \X Lock
  /\ gone \subseteq Lock
  /\ \A c \in Call : call[c].step = "done" => call[c].answer # "none"

Unread == [step |-> "idle", cursor |-> 0, seen |-> {}, shown |-> 0, before |-> {}]

Init ==
  /\ scene \in Scenes
  /\ locks = {}
  /\ lastId = 0
  /\ call = [c \in Call |-> Idle]
  /\ listing = [r \in Reader |-> Unread]
  /\ told = {}
  /\ gone = {}

-----------------------------------------------------------------------------
At(c, step) == call[c].step = step
Answer(c, answer) == call' = [call EXCEPT ![c].step = "done", ![c].answer = answer]
Holding(p) == {l \in locks : l.path = p}
WithId(i) == {l \in locks : l.id = i}

\* Only the holder may unlock, or an admin who asks for it with force.
MayUnlock_Forced(u, force, l) == l.owner = u \/ force
MayUnlock(u, force, l) == l.owner = u \/ (force /\ u \in Admin)

\* A call that got no answer is tried again a few times, unless the error says
\* that this is no use.
Retry_Forever(c) ==   \* no limit, the count folded to keep it finite
  \/ call' = [call EXCEPT ![c].attempt = IF @ < scene.attempts THEN @ + 1 ELSE 1]
  \/ Answer(c, "error")
Retry(c) ==
  \/ call[c].attempt < scene.attempts /\ call' = [call EXCEPT ![c].attempt = @ + 1]
  \/ Answer(c, "error")

-----------------------------------------------------------------------------
(* Locking a file. *)

AskLock(c, u, p) ==
  /\ call[c] = Idle
  /\ call' = [call EXCEPT ![c] = [op |-> "lock", user |-> u, path |-> p, attempt |-> 1,
                                  step |-> "create", answer |-> "none"]]
  /\ UNCHANGED <<scene, locks, lastId, listing, told, gone>>

\* Without AUTOINCREMENT the highest number in the table is followed by the next.
NewId_Reused == 1 + Cardinality(locks)
NewId == lastId + 1

\* The row is inserted unless there is one for the path.
Insert(c) ==
  IF Holding(call[c].path) = {}
    THEN /\ lastId < scene.locks
         /\ locks' = locks \cup {[id |-> NewId, path |-> call[c].path, owner |-> call[c].user]}
         /\ lastId' = NewId
    ELSE UNCHANGED <<locks, lastId>>

\* A later attempt that finds a lock of the same holder takes it for the one an
\* earlier attempt made.
Earlier(c, l) == call[c].attempt > 1 /\ l.owner = call[c].user

CreateAnswered(c) ==
  /\ At(c, "create")
  /\ Insert(c)
  /\ \E l \in locks' :
       /\ l.path = call[c].path
       /\ IF l \notin locks \/ Earlier(c, l)
            THEN Answer(c, "created") /\ told' = told \cup {<<call[c].user, l>>}
            ELSE Answer(c, "taken") /\ told' = told
  /\ UNCHANGED <<scene, listing, gone>>

\* The call failed, or ran and lost its answer.
CreateLost(c) ==
  /\ At(c, "create")
  /\ Insert(c) \/ UNCHANGED <<locks, lastId>>
  /\ Retry(c)
  /\ UNCHANGED <<scene, listing, told, gone>>

-----------------------------------------------------------------------------
(* Unlocking it, with `git lfs unlock` or in the admin UI, which forces. *)

AskUnlock(c, u, i, force) ==
  /\ call[c] = Idle
  /\ i \in 1..lastId /\ force \in scene.force
  /\ call' = [call EXCEPT ![c] = [op |-> "unlock", user |-> u, id |-> i, force |-> force,
                                  attempt |-> 1, step |-> "find", answer |-> "none"]]
  /\ gone' = gone \cup {l \in WithId(i) : MayUnlock(u, force, l)}
  /\ UNCHANGED <<scene, locks, lastId, listing, told>>

Find(c) ==
  /\ At(c, "find")
  /\ \/ WithId(call[c].id) = {} /\ Answer(c, "missing")
     \/ \E l \in WithId(call[c].id) :
          IF MayUnlock(call[c].user, call[c].force, l)
            THEN call' = [call EXCEPT ![c].step = "remove", ![c].attempt = 1]
            ELSE Answer(c, "forbidden")
  /\ UNCHANGED <<scene, locks, lastId, listing, told, gone>>

FindLost(c) ==
  /\ At(c, "find")
  /\ Retry(c)
  /\ UNCHANGED <<scene, locks, lastId, listing, told, gone>>

\* The row is removed by its id, whatever happened since it was found.
Delete(c) == locks' = locks \ WithId(call[c].id)

Remove(c) ==
  /\ At(c, "remove")
  /\ Delete(c)
  /\ Answer(c, "unlocked")
  /\ UNCHANGED <<scene, lastId, listing, told, gone>>

RemoveLost(c) ==
  /\ At(c, "remove")
  /\ Delete(c) \/ UNCHANGED locks
  /\ Retry(c)
  /\ UNCHANGED <<scene, lastId, listing, told, gone>>

Respond(c) ==
  /\ At(c, "done")
  /\ call' = [call EXCEPT ![c] = Idle]
  /\ UNCHANGED <<scene, locks, lastId, listing, told, gone>>

-----------------------------------------------------------------------------
(* Listing all locks, as `git lfs locks` does and a push before it starts. *)

StartListing(r) ==
  /\ listing[r].step # "reading"
  /\ listing' = [listing EXCEPT ![r] = [Unread EXCEPT !.step = "reading", !.before = locks]]
  /\ UNCHANGED <<scene, locks, lastId, call, told, gone>>

After_Again(cursor) == {l \in locks : l.id >= cursor}
After(cursor) == {l \in locks : l.id > cursor}

\* Further pages start after the last lock of this one, not after the extra row
\* that only tells that there is more.
NextCursor_Skips(last) == last.id + 1
NextCursor(last) == last.id

Show(r, page, step, cursor) ==
  listing' = [listing EXCEPT ![r].seen = @ \cup page,
                             ![r].shown = @ + Cardinality(page),
                             ![r].step = step, ![r].cursor = cursor]

\* One page: the first locks in the order of their ids.
ReadPage(r) ==
  LET rows == After(listing[r].cursor)
  IN  /\ listing[r].step = "reading"
      /\ IF Cardinality(rows) <= PageLimit
           THEN Show(r, rows, "done", listing[r].cursor)
           ELSE \E page \in SUBSET rows : \E last \in page :
                  /\ Cardinality(page) = PageLimit
                  /\ \A l \in rows : l \in page <=> l.id <= last.id
                  /\ Show(r, page, "reading", NextCursor(last))
      /\ UNCHANGED <<scene, locks, lastId, call, told, gone>>

Next ==
  \/ \E c \in scene.calls :
       \/ \E u \in scene.users, p \in scene.paths : AskLock(c, u, p)
       \/ \E u \in scene.users, i \in 1..MaxLocks, force \in BOOLEAN : AskUnlock(c, u, i, force)
       \/ CreateAnswered(c)
       \/ CreateLost(c)
       \/ Find(c)
       \/ FindLost(c)
       \/ Remove(c)
       \/ RemoveLost(c)
       \/ Respond(c)
  \/ \E r \in scene.readers : StartListing(r) \/ ReadPage(r)

Spec == Init /\ [][Next]_vars

\* The Worker answers a request or is stopped, which is an error as well.
Progress(c) ==
  \/ CreateAnswered(c) \/ CreateLost(c)
  \/ Find(c) \/ FindLost(c)
  \/ Remove(c) \/ RemoveLost(c)

FairSpec == Spec /\ \A c \in Call : WF_vars(Progress(c))

-----------------------------------------------------------------------------
(* What has to hold. *)

\* A client that is told it created a lock holds it until its holder or an
\* admin asks to remove it: no retry, no late removal and no other client's
\* request takes it away, and nobody is told that somebody else's lock is theirs.
HoldersHold ==
  \A u \in User, l \in Lock :
    <<u, l>> \in told => l.owner = u /\ (l \in locks \/ l \in gone)

\* A client that goes through all pages sees each lock that stood the whole
\* time, so a push never misses a file that somebody else has locked.
ListingComplete ==
  \A r \in Reader : listing[r].step = "done" =>
    listing[r].before \cap locks \subseteq listing[r].seen

\* No lock is on two pages.
ListedOnce == \A r \in Reader : listing[r].shown = Cardinality(listing[r].seen)

\* A listing in pages (repo-locks.ts, list) misses nothing and repeats nothing, however
\* locks come and go between the pages.
ListingExact == ListingComplete /\ ListedOnce

\* Every request is answered, however many answers are lost on the way.
RequestsAnswered == \A c \in Call : call[c] # Idle ~> At(c, "done")

-----------------------------------------------------------------------------
(* The table, the retries and the two steps of an unlock implement the      *)
(* lock service.                                                            *)

Holder == [p \in Path |-> IF Holding(p) = {} THEN Nobody
                          ELSE (CHOOSE l \in Holding(p) : TRUE).owner]

Asked == [c \in Call |->
  CASE call[c].op = "lock" -> [op |-> "lock", user |-> call[c].user,
                               path |-> call[c].path, answer |-> call[c].answer]
    [] call[c].op = "unlock" -> [op |-> "unlock", user |-> call[c].user,
                                 force |-> call[c].force, answer |-> call[c].answer]
    [] OTHER -> [op |-> "none", answer |-> "none"]]

Service == INSTANCE LockService WITH holder <- Holder, asked <- Asked

\* Concurrent requests, retries and lost answers make it look like a service
\* that handles one request at a time.
ImplementsService == Service!Spec
=============================================================================
