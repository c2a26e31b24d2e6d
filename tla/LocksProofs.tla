---------------------------- MODULE LocksProofs ----------------------------
(***************************************************************************)
(* For any number of people, files, requests and attempts: whoever is told *)
(* that a lock was created keeps it until somebody entitled to asks for    *)
(* its removal; a client that pages through the locks misses none; and the *)
(* table with its retries implements the lock service.                     *)
(***************************************************************************)
EXTENDS Locks, FiniteSetTheorems, TLAPS

Request == LockRequest \cup UnlockRequest

\* What a request keeps when it moves on.
Moved(c, step, answer) ==
  /\ call' \in [Call -> {Idle} \cup Request]
  /\ \A d \in Call \ {c} : call'[d] = call[d]
  /\ call'[c] \in Request
  /\ call'[c].op = call[c].op /\ call'[c].user = call[c].user
  /\ call[c].op = "lock" => call'[c].path = call[c].path
  /\ call[c].op = "unlock" => call'[c].id = call[c].id /\ call'[c].force = call[c].force
  /\ call'[c].step = step /\ call'[c].answer = answer

LEMMA RequestOf ==
  ASSUME TypeOK, NEW c \in Call, call[c] # Idle
  PROVE  /\ call[c] \in Request
         /\ call[c].op = "lock" <=> call[c] \in LockRequest
         /\ call[c].op = "unlock" <=> call[c] \in UnlockRequest
         /\ call[c].op \in {"lock", "unlock"}
  BY DEF TypeOK, Request, LockRequest, UnlockRequest

LEMMA LockAnswered ==
  ASSUME NEW r \in LockRequest, NEW a \in {"created", "taken", "error"}
  PROVE  [r EXCEPT !.step = "done", !.answer = a] \in LockRequest
  BY DEF LockRequest

LEMMA UnlockAnswered ==
  ASSUME NEW r \in UnlockRequest, NEW a \in {"unlocked", "missing", "forbidden", "error"}
  PROVE  [r EXCEPT !.step = "done", !.answer = a] \in UnlockRequest
  BY DEF UnlockRequest

LEMMA AnswerMoves ==
  ASSUME TypeOK, NEW c \in Call, call[c] # Idle,
         NEW a \in {"created", "taken", "unlocked", "missing", "forbidden", "error"},
         a \in {"created", "taken"} => call[c].op = "lock",
         a \in {"unlocked", "missing", "forbidden"} => call[c].op = "unlock",
         Answer(c, a)
  PROVE  Moved(c, "done", a)
<1> DEFINE r == [call[c] EXCEPT !.step = "done", !.answer = a]
<1>1. r \in Request
  BY RequestOf, LockAnswered, UnlockAnswered DEF Request
<1>2. call' = [call EXCEPT ![c] = r]
  BY DEF Answer
<1>3. /\ r.op = call[c].op /\ r.user = call[c].user
      /\ call[c].op = "lock" => r.path = call[c].path
      /\ call[c].op = "unlock" => r.id = call[c].id /\ r.force = call[c].force
      /\ r.step = "done" /\ r.answer = a
  BY RequestOf DEF LockRequest, UnlockRequest
<1> HIDE DEF r
<1> QED
  BY <1>1, <1>2, <1>3 DEF Moved, TypeOK, Request

LEMMA RetryMoves ==
  ASSUME TypeOK, NEW c \in Call, call[c] # Idle, Retry(c)
  PROVE  Moved(c, call[c].step, call[c].answer) \/ Moved(c, "done", "error")
<1>1. CASE Answer(c, "error")
  BY <1>1, AnswerMoves
<1>2. CASE call[c].attempt < scene.attempts /\ call' = [call EXCEPT ![c].attempt = @ + 1]
  <2> DEFINE r == [call[c] EXCEPT !.attempt = @ + 1]
  <2>0. scene.attempts \in 1..Attempts
    BY ScenesAssumption DEF TypeOK
  <2>1. r \in Request
    <3>1. CASE call[c] \in LockRequest
      BY <1>2, <2>0, <3>1, LimitsAssumption DEF LockRequest, Request
    <3>2. CASE call[c] \in UnlockRequest
      BY <1>2, <2>0, <3>2, LimitsAssumption DEF UnlockRequest, Request
    <3> QED
      BY <3>1, <3>2, RequestOf DEF Request
  <2>2. call' = [call EXCEPT ![c] = r]
    BY <1>2
  <2>3. /\ r.op = call[c].op /\ r.user = call[c].user
        /\ call[c].op = "lock" => r.path = call[c].path
        /\ call[c].op = "unlock" => r.id = call[c].id /\ r.force = call[c].force
        /\ r.step = call[c].step /\ r.answer = call[c].answer
    BY RequestOf DEF LockRequest, UnlockRequest
  <2> HIDE DEF r
  <2> QED
    BY <2>1, <2>2, <2>3 DEF Moved, TypeOK, Request
<1> QED
  BY <1>1, <1>2 DEF Retry

LEMMA UnlockFound ==
  ASSUME NEW r \in UnlockRequest
  PROVE  [r EXCEPT !.step = "remove", !.attempt = 1] \in UnlockRequest
<1>1. 1 \in 1..Attempts
  BY LimitsAssumption
<1> QED
  BY <1>1 DEF UnlockRequest

LEMMA FoundMoves ==
  ASSUME TypeOK, NEW c \in Call, call[c] \in UnlockRequest,
         call' = [call EXCEPT ![c].step = "remove", ![c].attempt = 1]
  PROVE  Moved(c, "remove", call[c].answer)
<1> DEFINE r == [call[c] EXCEPT !.step = "remove", !.attempt = 1]
<1>1. r \in UnlockRequest
  BY UnlockFound
<1>2. call' = [call EXCEPT ![c] = r] /\ call[c].op = "unlock"
  BY DEF UnlockRequest
<1>3. /\ r.op = call[c].op /\ r.user = call[c].user
      /\ r.id = call[c].id /\ r.force = call[c].force
      /\ r.step = "remove" /\ r.answer = call[c].answer
  BY DEF UnlockRequest
<1> HIDE DEF r
<1> QED
  BY <1>1, <1>2, <1>3 DEF Moved, TypeOK, Request

-----------------------------------------------------------------------------
(* The inductive invariant. *)

OnePerPath == \A l, m \in locks : l.path = m.path => l = m

\* The locks that were ever given to somebody.
Issued == locks \cup gone \cup {l \in Lock : \E u \in User : <<u, l>> \in told}

IdsDiffer ==
  /\ \A l, m \in Issued : l.id = m.id => l = m
  /\ \A l \in Issued : l.id <= lastId

\* A request that will remove a lock has been counted as asking for it.
Entitled(c) ==
  call[c].op = "unlock" =>
    /\ call[c].id <= lastId
    /\ At(c, "find") =>
         \A l \in WithId(call[c].id) : MayUnlock(call[c].user, call[c].force, l) => l \in gone
    /\ At(c, "remove") =>
         \A l \in WithId(call[c].id) :
           MayUnlock(call[c].user, call[c].force, l) /\ l \in gone

\* A step belongs to one of the two operations, and only the last has an answer.
StepsFit(c) ==
  /\ At(c, "create") => call[c].op = "lock"
  /\ At(c, "find") \/ At(c, "remove") => call[c].op = "unlock"
  /\ call[c] # Idle /\ ~At(c, "done") => call[c].answer = "none"

\* A reader has seen what stood from the start up to its cursor.
SeenSoFar(r) ==
  /\ listing[r].step = "reading" =>
       \A l \in listing[r].before \cap locks : l.id <= listing[r].cursor => l \in listing[r].seen
  /\ listing[r].step = "done" => listing[r].before \cap locks \subseteq listing[r].seen
  /\ \A l \in listing[r].before : l.id <= lastId
  /\ IsFiniteSet(listing[r].seen) /\ listing[r].shown = Cardinality(listing[r].seen)
  /\ listing[r].step = "reading" => \A l \in listing[r].seen : l.id <= listing[r].cursor

Inv ==
  /\ TypeOK /\ IsFiniteSet(locks)
  /\ OnePerPath /\ IdsDiffer /\ HoldersHold
  /\ \A c \in Call : Entitled(c) /\ StepsFit(c)
  /\ \A r \in Reader : SeenSoFar(r)

\* The scene is part of what the constants allow, and stays.
LEMMA SceneFits ==
  ASSUME TypeOK
  PROVE  /\ scene.users \subseteq User /\ scene.paths \subseteq Path
         /\ scene.calls \subseteq Call /\ scene.readers \subseteq Reader
         /\ scene.locks \in 0..MaxLocks
  BY ScenesAssumption DEF TypeOK

LEMMA SceneStays == [Next]_vars => scene' = scene
  BY DEF Next, vars, AskLock, AskUnlock, CreateAnswered, CreateLost, Find, FindLost, Remove,
         RemoveLost, Respond, StartListing, ReadPage

LEMMA InitInv == Init => Inv
<1> SUFFICES ASSUME Init PROVE Inv
  OBVIOUS
<1>1. TypeOK
  BY LimitsAssumption DEF Init, TypeOK, Idle, Unread, Listing
<1>2. OnePerPath /\ IdsDiffer /\ HoldersHold
  BY DEF Init, OnePerPath, IdsDiffer, Issued, HoldersHold
<1>3. \A c \in Call : Entitled(c) /\ StepsFit(c)
  BY DEF Init, Entitled, StepsFit, At, Idle
<1>4. \A r \in Reader : SeenSoFar(r)
  BY FS_EmptySet DEF Init, SeenSoFar, Unread
<1> QED
  BY <1>1, <1>2, <1>3, <1>4, FS_EmptySet DEF Inv, Init

\* A request that moves on without a change to the table.
LEMMA MoveInv ==
  ASSUME Inv, scene' = scene, NEW c \in Call, NEW s, NEW a, Moved(c, s, a),
         UNCHANGED <<locks, lastId, listing, told, gone>>,
         s = "done" => a # "none", Entitled(c)', StepsFit(c)'
  PROVE  Inv'
<1>1. TypeOK'
  BY DEF Inv, TypeOK, Moved, Request, At
<1>2. OnePerPath' /\ IdsDiffer' /\ HoldersHold'
  BY DEF Inv, OnePerPath, IdsDiffer, Issued, HoldersHold
<1>3. \A d \in Call : Entitled(d)' /\ StepsFit(d)'
  <2>1. ASSUME NEW d \in Call \ {c} PROVE Entitled(d)' /\ StepsFit(d)'
    <3>1. call'[d] = call[d]
      BY DEF Moved
    <3> QED
      BY <3>1 DEF Inv, Entitled, StepsFit, At, WithId
  <2> QED
    BY <2>1
<1>4. IsFiniteSet(locks') /\ \A r \in Reader : SeenSoFar(r)'
  BY DEF Inv, SeenSoFar
<1> QED
  BY <1>1, <1>2, <1>3, <1>4 DEF Inv

-----------------------------------------------------------------------------
(* Every step keeps it. *)

LEMMA AskInv ==
  ASSUME Inv, scene' = scene, NEW c \in Call,
         \/ \E u \in User, p \in Path : AskLock(c, u, p)
         \/ \E u \in User, i \in 1..MaxLocks, force \in BOOLEAN : AskUnlock(c, u, i, force)
  PROVE  Inv'
<1>1. PICK r \in Request : call' = [call EXCEPT ![c] = r] /\ r.step # "done"
                           /\ r.answer = "none" /\ r # Idle
                           /\ (r.op = "unlock" => r.id \in 1..lastId /\ r.step = "find"
                                 /\ \A l \in WithId(r.id) :
                                      MayUnlock(r.user, r.force, l) => l \in gone')
                           /\ (r.op = "lock" => r.step = "create")
                           /\ r.op \in {"lock", "unlock"}
  <2>1. CASE \E u \in User, p \in Path : AskLock(c, u, p)
    <3>1. PICK u \in User, p \in Path : AskLock(c, u, p)
      BY <2>1
    <3> DEFINE r == [op |-> "lock", user |-> u, path |-> p, attempt |-> 1,
                     step |-> "create", answer |-> "none"]
    <3>2. r \in Request
      BY LimitsAssumption DEF Request, LockRequest
    <3> QED
      BY <3>1, <3>2 DEF AskLock, Idle
  <2>2. CASE \E u \in User, i \in 1..MaxLocks, force \in BOOLEAN : AskUnlock(c, u, i, force)
    <3>1. PICK u \in User, i \in 1..MaxLocks, force \in BOOLEAN : AskUnlock(c, u, i, force)
      BY <2>2
    <3> DEFINE r == [op |-> "unlock", user |-> u, id |-> i, force |-> force,
                     attempt |-> 1, step |-> "find", answer |-> "none"]
    <3>2. r \in Request
      BY LimitsAssumption DEF Request, UnlockRequest
    <3> QED
      BY <3>1, <3>2 DEF AskUnlock, Idle
  <2> QED
    BY <2>1, <2>2
<1>2. /\ UNCHANGED <<locks, lastId, listing, told>>
      /\ gone \subseteq gone' /\ gone' \subseteq gone \cup locks
  BY DEF AskLock, AskUnlock, WithId
<1>3. TypeOK'
  BY <1>1, <1>2 DEF Inv, TypeOK, Request, At
<1>4. OnePerPath' /\ IdsDiffer' /\ HoldersHold'
  BY <1>2 DEF Inv, OnePerPath, IdsDiffer, Issued, HoldersHold
<1>5. ASSUME NEW d \in Call PROVE Entitled(d)' /\ StepsFit(d)'
  <2>1. CASE d = c
    BY <1>1, <1>2, <2>1 DEF Inv, TypeOK, Entitled, StepsFit, At, WithId
  <2>2. CASE d # c
    <3>1. call'[d] = call[d]
      BY <1>1, <2>2 DEF Inv, TypeOK
    <3> QED
      BY <1>2, <3>1 DEF Inv, Entitled, StepsFit, At, WithId
  <2> QED
    BY <2>1, <2>2
<1>6. IsFiniteSet(locks') /\ \A x \in Reader : SeenSoFar(x)'
  BY <1>2 DEF Inv, SeenSoFar
<1> QED
  BY <1>3, <1>4, <1>5, <1>6 DEF Inv

LEMMA RespondInv ==
  ASSUME Inv, scene' = scene, NEW c \in Call, Respond(c)
  PROVE  Inv'
<1>1. /\ call' = [call EXCEPT ![c] = Idle]
      /\ UNCHANGED <<locks, lastId, listing, told, gone>>
  BY DEF Respond
<1>2. TypeOK'
  BY <1>1 DEF Inv, TypeOK, At, Idle
<1>3. OnePerPath' /\ IdsDiffer' /\ HoldersHold'
  BY <1>1 DEF Inv, OnePerPath, IdsDiffer, Issued, HoldersHold
<1>4. \A d \in Call : Entitled(d)' /\ StepsFit(d)'
  BY <1>1 DEF Inv, TypeOK, Entitled, StepsFit, At, WithId, Idle
<1>5. IsFiniteSet(locks') /\ \A r \in Reader : SeenSoFar(r)'
  BY <1>1 DEF Inv, SeenSoFar
<1> QED
  BY <1>2, <1>3, <1>4, <1>5 DEF Inv

\* An insert adds at most one lock, with an id that nobody has seen yet.
LEMMA InsertFacts ==
  ASSUME Inv, scene' = scene, NEW c \in Call, call[c] \in LockRequest, Insert(c)
  PROVE  /\ locks \subseteq locks' /\ locks' \subseteq Lock
         /\ lastId' \in 0..MaxLocks /\ lastId <= lastId'
         /\ \A l \in locks' \ locks :
              /\ l.id = lastId' /\ lastId < lastId'
              /\ l.owner = call[c].user /\ l.path = call[c].path
         /\ OnePerPath'
         /\ \A l, m \in locks' \ locks : l = m
         /\ IsFiniteSet(locks')
<1>1. CASE Holding(call[c].path) = {}
  <2> DEFINE new == [id |-> NewId, path |-> call[c].path, owner |-> call[c].user]
  <2>1. new \in Lock /\ locks' = locks \cup {new} /\ lastId' = lastId + 1 /\ lastId' \in 1..MaxLocks
    <3>1. scene.locks \in 0..MaxLocks /\ lastId \in 0..MaxLocks /\ lastId < scene.locks
      BY <1>1, SceneFits DEF Insert, Inv, TypeOK
    <3> QED
      BY <1>1, <3>1, LimitsAssumption DEF Insert, NewId, Lock, LockRequest, Inv, TypeOK
  <2>2. new.id = lastId' /\ new.path = call[c].path /\ new.owner = call[c].user
    BY <2>1 DEF NewId
  <2>3. \A l \in locks : l.path # new.path
    BY <1>1, <2>2 DEF Holding
  <2>4. OnePerPath'
    BY <2>1, <2>3 DEF Inv, OnePerPath
  <2>5. IsFiniteSet(locks')
    BY <2>1, FS_AddElement DEF Inv
  <2> HIDE DEF new
  <2> QED
    BY <2>1, <2>2, <2>4, <2>5 DEF Inv, TypeOK
<1>2. CASE Holding(call[c].path) # {}
  BY <1>2 DEF Insert, Inv, TypeOK, OnePerPath
<1> QED
  BY <1>1, <1>2

\* The table has grown as by an insert, and the holder may have been told.
LEMMA GrowInv ==
  ASSUME Inv, scene' = scene, NEW c \in Call, call[c] \in LockRequest, Insert(c),
         NEW s, NEW a, Moved(c, s, a), s \in {"create", "done"},
         s = "done" <=> a # "none", UNCHANGED <<listing, gone>>,
         \/ told' = told
         \/ \E l \in locks' : l.owner = call[c].user /\ told' = told \cup {<<call[c].user, l>>}
  PROVE  Inv'
<1>1. TypeOK'
  BY InsertFacts DEF Inv, TypeOK, Moved, Request, LockRequest, At
<1>2. Issued' \subseteq Issued \cup locks'
  BY DEF Issued
<1>3. IdsDiffer'
  <2>1. \A l \in Issued : l.id <= lastId /\ l.id \in Nat
    BY DEF Inv, TypeOK, IdsDiffer, Issued, Lock
  <2>2. \A l \in locks' : l \in Issued \/ (l \in locks' \ locks /\ l.id = lastId' /\ lastId < lastId')
    BY InsertFacts DEF Issued
  <2>3. lastId \in Nat /\ lastId' \in Nat /\ lastId <= lastId'
    BY InsertFacts DEF Inv, TypeOK
  <2>4. \A l \in Issued' : l.id <= lastId'
    BY <1>2, <2>1, <2>2, <2>3
  <2>5. \A l, m \in Issued' : l.id = m.id => l = m
    BY <1>2, <2>1, <2>2, <2>3, InsertFacts DEF Inv, IdsDiffer
  <2> QED
    BY <2>4, <2>5 DEF IdsDiffer
<1>4. HoldersHold'
  BY InsertFacts DEF Inv, TypeOK, HoldersHold, LockRequest
<1>5. OnePerPath'
  BY InsertFacts
<1>6. ASSUME NEW d \in Call PROVE Entitled(d)' /\ StepsFit(d)'
  <2>1. CASE d = c
    BY <2>1 DEF Moved, LockRequest, Entitled, StepsFit, At
  <2>2. CASE d # c
    <3>1. call'[d] = call[d]
      BY <2>2 DEF Moved
    <3>2. StepsFit(d)'
      BY <3>1 DEF Inv, StepsFit, At
    <3>3. Entitled(d)'
      <4>1. call[d].op = "unlock" => call[d].id \in Nat /\ call[d].id <= lastId
        BY DEF Inv, Entitled, TypeOK, UnlockRequest, LockRequest, Idle
      <4>2. call[d].op = "unlock" => WithId(call[d].id)' = WithId(call[d].id)
        BY <3>1, <4>1, InsertFacts DEF WithId, Inv, TypeOK
      <4> QED
        BY <3>1, <4>1, <4>2, InsertFacts DEF Inv, TypeOK, Entitled, At
    <3> QED
      BY <3>2, <3>3
  <2> QED
    BY <2>1, <2>2
<1>7. ASSUME NEW r \in Reader PROVE SeenSoFar(r)'
  <2>1. \A l \in listing[r].before : l \in locks' => l \in locks
    BY InsertFacts DEF Inv, SeenSoFar, TypeOK, Listing, Lock
  <2>2. \A l \in listing[r].before : l.id <= lastId'
    BY InsertFacts DEF Inv, SeenSoFar, TypeOK, Listing, Lock
  <2> QED
    BY <2>1, <2>2 DEF Inv, SeenSoFar
<1> QED
  BY <1>1, <1>3, <1>4, <1>5, <1>6, <1>7, InsertFacts DEF Inv

LEMMA CreateInv ==
  ASSUME Inv, scene' = scene, NEW c \in Call, CreateAnswered(c) \/ CreateLost(c)
  PROVE  Inv'
<1>1. call[c] # Idle /\ call[c] \in LockRequest /\ call[c].step = "create" /\ call[c].answer = "none"
  BY RequestOf DEF CreateAnswered, CreateLost, At, Idle, Inv, StepsFit
<1>2. CASE CreateAnswered(c)
  <2>1. PICK l \in locks' :
          /\ l.path = call[c].path
          /\ IF l \notin locks \/ Earlier(c, l)
               THEN Answer(c, "created") /\ told' = told \cup {<<call[c].user, l>>}
               ELSE Answer(c, "taken") /\ told' = told
    BY <1>2 DEF CreateAnswered
  <2>2. l \notin locks \/ Earlier(c, l) => l.owner = call[c].user
    BY <1>1, <1>2, <2>1, InsertFacts DEF CreateAnswered, Earlier
  <2>3. PICK a \in {"created", "taken"} : Moved(c, "done", a)
    BY <1>1, <2>1, AnswerMoves DEF Inv, LockRequest
  <2> QED
    BY <1>1, <1>2, <2>1, <2>2, <2>3, GrowInv DEF CreateAnswered
<1>3. CASE CreateLost(c) /\ Insert(c)
  <2>1. Moved(c, "create", "none") \/ Moved(c, "done", "error")
    BY <1>1, <1>3, RetryMoves DEF CreateLost, Inv
  <2> QED
    BY <1>1, <1>3, <2>1, GrowInv DEF CreateLost
<1>4. CASE CreateLost(c) /\ UNCHANGED <<locks, lastId>>
  <2>1. Moved(c, "create", "none") \/ Moved(c, "done", "error")
    BY <1>1, <1>4, RetryMoves DEF CreateLost, Inv
  <2>2. Entitled(c)' /\ StepsFit(c)'
    BY <1>1, <2>1 DEF Moved, Entitled, StepsFit, At, LockRequest
  <2> QED
    BY <1>1, <1>4, <2>1, <2>2, MoveInv DEF CreateLost
<1> QED
  BY <1>2, <1>3, <1>4 DEF CreateLost

LEMMA FindInv ==
  ASSUME Inv, scene' = scene, NEW c \in Call, Find(c) \/ FindLost(c)
  PROVE  Inv'
<1>1. call[c] # Idle /\ call[c] \in UnlockRequest /\ call[c].step = "find" /\ call[c].answer = "none"
  BY RequestOf DEF Find, FindLost, At, Idle, Inv, StepsFit
<1>2. UNCHANGED <<locks, lastId, listing, told, gone>>
  BY DEF Find, FindLost
<1>3. \/ \E a \in {"missing", "forbidden"} : Answer(c, a)
      \/ \E l \in WithId(call[c].id) :
           /\ MayUnlock(call[c].user, call[c].force, l)
           /\ call' = [call EXCEPT ![c].step = "remove", ![c].attempt = 1]
      \/ Retry(c)
  BY DEF Find, FindLost
<1>4. CASE \E a \in {"missing", "forbidden"} : Answer(c, a)
  <2>1. PICK a \in {"missing", "forbidden"} : Moved(c, "done", a)
    BY <1>1, <1>4, AnswerMoves DEF Inv, UnlockRequest
  <2>2. Entitled(c)' /\ StepsFit(c)'
    BY <1>1, <1>2, <2>1 DEF Inv, Moved, Entitled, StepsFit, At, UnlockRequest
  <2> QED
    BY <1>2, <2>1, <2>2, MoveInv
<1>5. ASSUME NEW l \in WithId(call[c].id), MayUnlock(call[c].user, call[c].force, l),
             call' = [call EXCEPT ![c].step = "remove", ![c].attempt = 1]
      PROVE  Inv'
  <2>1. Moved(c, "remove", "none")
    BY <1>1, <1>5, FoundMoves DEF Inv
  <2>2. \A m \in WithId(call[c].id) : m = l
    BY <1>5 DEF WithId, Inv, IdsDiffer, Issued
  <2>3. l \in gone
    BY <1>1, <1>5 DEF Inv, Entitled, At, UnlockRequest
  <2>4. Entitled(c)' /\ StepsFit(c)'
    BY <1>1, <1>2, <1>5, <2>1, <2>2, <2>3
    DEF Inv, Moved, Entitled, StepsFit, At, UnlockRequest, WithId
  <2> QED
    BY <1>2, <2>1, <2>4, MoveInv
<1>6. CASE Retry(c)
  <2>1. Moved(c, "find", "none") \/ Moved(c, "done", "error")
    BY <1>1, <1>6, RetryMoves DEF Inv
  <2>2. Entitled(c)' /\ StepsFit(c)'
    BY <1>1, <1>2, <2>1 DEF Inv, Moved, Entitled, StepsFit, At, UnlockRequest, WithId
  <2> QED
    BY <1>2, <2>1, <2>2, MoveInv
<1> QED
  BY <1>3, <1>4, <1>5, <1>6

\* What a removal takes away had been asked for by somebody entitled to.
LEMMA ShrinkInv ==
  ASSUME Inv, scene' = scene, NEW c \in Call, call[c] \in UnlockRequest, At(c, "remove"),
         Delete(c) \/ UNCHANGED locks, NEW s, NEW a, Moved(c, s, a),
         s \in {"remove", "done"}, s = "done" <=> a # "none",
         UNCHANGED <<lastId, listing, told, gone>>
  PROVE  Inv'
<1>1. locks' \subseteq locks /\ locks \ locks' \subseteq gone
  BY DEF Delete, Inv, Entitled, UnlockRequest
<1>2. TypeOK' /\ IsFiniteSet(locks')
  BY <1>1, FS_Subset DEF Inv, TypeOK, Moved, Request, At
<1>3. OnePerPath' /\ IdsDiffer' /\ HoldersHold'
  BY <1>1 DEF Inv, OnePerPath, IdsDiffer, Issued, HoldersHold
<1>4. ASSUME NEW d \in Call PROVE Entitled(d)' /\ StepsFit(d)'
  <2>1. CASE d = c
    BY <1>1, <2>1 DEF Inv, Moved, UnlockRequest, Entitled, StepsFit, At, WithId, MayUnlock
  <2>2. CASE d # c
    <3>1. call'[d] = call[d]
      BY <2>2 DEF Moved
    <3> QED
      BY <1>1, <3>1 DEF Inv, Entitled, StepsFit, At, WithId
  <2> QED
    BY <2>1, <2>2
<1>5. \A r \in Reader : SeenSoFar(r)'
  BY <1>1 DEF Inv, SeenSoFar
<1> QED
  BY <1>2, <1>3, <1>4, <1>5 DEF Inv

LEMMA RemoveInv ==
  ASSUME Inv, scene' = scene, NEW c \in Call, Remove(c) \/ RemoveLost(c)
  PROVE  Inv'
<1>1. call[c] # Idle /\ call[c] \in UnlockRequest /\ call[c].step = "remove" /\ call[c].answer = "none"
  BY RequestOf DEF Remove, RemoveLost, At, Idle, Inv, StepsFit
<1>2. \/ Moved(c, "done", "unlocked")
      \/ Moved(c, "remove", "none") \/ Moved(c, "done", "error")
  BY <1>1, AnswerMoves, RetryMoves DEF Remove, RemoveLost, Inv, UnlockRequest
<1> QED
  BY <1>1, <1>2, ShrinkInv DEF Remove, RemoveLost, At

\* What a reader has to know after a step of its own.
Continues(new) ==
  /\ new \in Listing
  /\ new.step = "reading" =>
       \A l \in new.before \cap locks : l.id <= new.cursor => l \in new.seen
  /\ new.step = "done" => new.before \cap locks \subseteq new.seen
  /\ \A l \in new.before : l.id <= lastId
  /\ IsFiniteSet(new.seen) /\ new.shown = Cardinality(new.seen)
  /\ new.step = "reading" => \A l \in new.seen : l.id <= new.cursor

\* A page continues right after the last one and leaves no gap.
LEMMA PageContinues ==
  ASSUME Inv, scene' = scene, NEW r \in Reader, NEW page \in SUBSET locks,
         NEW step \in {"reading", "done"}, NEW cursor \in 0..MaxLocks,
         Show(r, page, step, cursor), listing[r].step = "reading",
         \A l \in page : l.id > listing[r].cursor /\ (step = "reading" => l.id <= cursor),
         listing[r].cursor <= cursor,
         \A l \in locks : l.id > listing[r].cursor /\ (step = "done" \/ l.id <= cursor)
                           => l \in page
  PROVE  \E new : Continues(new) /\ listing' = [listing EXCEPT ![r] = new]
<1> DEFINE old == listing[r]
           seen == old.seen \cup page
           shown == old.shown + Cardinality(page)
           new == [old EXCEPT !.seen = seen, !.shown = shown, !.step = step, !.cursor = cursor]
<1>1. /\ old \in Listing /\ locks \subseteq Lock /\ old.cursor \in Nat
      /\ old.seen \subseteq Lock /\ old.shown \in Nat /\ old.before \subseteq Lock
  BY DEF Inv, TypeOK, Listing
<1>2. IsFiniteSet(page) /\ Cardinality(page) \in Nat
  BY FS_Subset, FS_CardinalityType DEF Inv
<1>3. seen \in SUBSET Lock /\ shown \in Nat
  BY <1>1, <1>2
<1>4. /\ new \in Listing
      /\ new.seen = seen /\ new.shown = shown /\ new.step = step
      /\ new.cursor = cursor /\ new.before = old.before
  <2> HIDE DEF old, seen, shown
  <2> QED
    BY <1>1, <1>3 DEF Listing
<1>5. /\ IsFiniteSet(seen) /\ shown = Cardinality(seen)
  <2>1. IsFiniteSet(old.seen) /\ old.shown = Cardinality(old.seen) /\ old.seen \cap page = {}
    BY <1>1 DEF Inv, SeenSoFar, Lock
  <2>2. Cardinality(old.seen \cap page) = 0
    BY <2>1, FS_EmptySet
  <2> HIDE DEF old
  <2>3. /\ IsFiniteSet(old.seen \cup page)
        /\ Cardinality(old.seen \cup page) =
             Cardinality(old.seen) + Cardinality(page) - Cardinality(old.seen \cap page)
    BY <1>2, <2>1, FS_Union
  <2> QED
    BY <1>1, <1>2, <2>1, <2>2, <2>3
<1>6. \A l \in old.before \cap locks :
        step = "done" \/ l.id <= cursor => l \in seen
  BY <1>1 DEF Inv, SeenSoFar, Lock
<1>7. \A l \in seen : step = "reading" => l.id <= cursor
  BY <1>1 DEF Inv, SeenSoFar, Lock
<1>8. \A l \in old.before : l.id <= lastId
  BY DEF Inv, SeenSoFar
<1>9. listing' = [listing EXCEPT ![r] = new]
  BY DEF Show
<1> HIDE DEF new, seen, shown
<1>10. Continues(new)
  BY <1>4, <1>5, <1>6, <1>7, <1>8 DEF Continues, old, seen
<1> QED
  BY <1>9, <1>10

LEMMA ListingInv ==
  ASSUME Inv, scene' = scene, NEW r \in Reader, StartListing(r) \/ ReadPage(r)
  PROVE  Inv'
<1>1. UNCHANGED <<locks, lastId, call, told, gone>>
  BY DEF StartListing, ReadPage
<1>2. OnePerPath' /\ IdsDiffer' /\ HoldersHold'
  BY <1>1 DEF Inv, OnePerPath, IdsDiffer, Issued, HoldersHold
<1>3. \A c \in Call : Entitled(c)' /\ StepsFit(c)'
  BY <1>1 DEF Inv, Entitled, StepsFit, At, WithId
<1>4. \E new : Continues(new) /\ listing' = [listing EXCEPT ![r] = new]
  <2>1. /\ locks \subseteq Lock /\ lastId \in Nat
        /\ listing[r].cursor \in 0..MaxLocks
    BY DEF Inv, TypeOK, Listing
  <2>2. CASE StartListing(r)
    <3> DEFINE new == [Unread EXCEPT !.step = "reading", !.before = locks]
    <3>1. Unread \in Listing
      BY LimitsAssumption DEF Unread, Listing
    <3>2. /\ new \in Listing /\ new.step = "reading" /\ new.before = locks
          /\ new.cursor = 0 /\ new.seen = {} /\ new.shown = 0
      BY <2>1, <3>1 DEF Listing, Unread
    <3>3. \A l \in locks : l.id <= lastId /\ ~(l.id <= 0)
      BY <2>1 DEF Inv, IdsDiffer, Issued, Lock
    <3>4. listing' = [listing EXCEPT ![r] = new]
      BY <2>2 DEF StartListing
    <3> HIDE DEF new
    <3>5. Continues(new)
      BY <3>2, <3>3, FS_EmptySet DEF Continues
    <3> QED
      BY <3>4, <3>5
  <2>3. CASE ReadPage(r) /\ Show(r, After(listing[r].cursor), "done", listing[r].cursor)
    <3>1. listing[r].cursor <= listing[r].cursor
      BY <2>1
    <3> QED
      BY <2>1, <2>3, <3>1, PageContinues DEF ReadPage, After
  <2>4. ASSUME ReadPage(r), NEW page \in SUBSET After(listing[r].cursor), NEW last \in page,
               \A l \in After(listing[r].cursor) : l \in page <=> l.id <= last.id,
               Show(r, page, "reading", NextCursor(last))
        PROVE  \E new : Continues(new) /\ listing' = [listing EXCEPT ![r] = new]
    <3>1. NextCursor(last) \in 0..MaxLocks /\ listing[r].cursor <= NextCursor(last)
      BY <2>1 DEF NextCursor, After, Lock
    <3>2. page \in SUBSET locks
      BY DEF After
    <3> QED
      BY <2>1, <2>4, <3>1, <3>2, PageContinues DEF ReadPage, After, NextCursor
  <2> QED
    BY <2>2, <2>3, <2>4 DEF ReadPage
<1>5. TypeOK'
  BY <1>1, <1>4 DEF Inv, TypeOK, At, Continues
<1>6. \A s \in Reader : SeenSoFar(s)'
  BY <1>1, <1>4 DEF Inv, TypeOK, SeenSoFar, Continues
<1> QED
  BY <1>1, <1>2, <1>3, <1>5, <1>6 DEF Inv

LEMMA StepInv == Inv /\ [Next]_vars => Inv'
<1> SUFFICES ASSUME Inv, [Next]_vars PROVE Inv'
  OBVIOUS
<1> scene' = scene
  BY SceneStays
<1>1. CASE UNCHANGED vars
  <2>1. UNCHANGED <<locks, lastId, call, listing, told, gone>>
    BY <1>1 DEF vars
  <2>2. TypeOK' /\ IsFiniteSet(locks')
    BY <2>1 DEF Inv, TypeOK, At
  <2>3. OnePerPath' /\ IdsDiffer' /\ HoldersHold'
    BY <2>1 DEF Inv, OnePerPath, IdsDiffer, Issued, HoldersHold
  <2>4. \A c \in Call : Entitled(c)' /\ StepsFit(c)'
    BY <2>1 DEF Inv, Entitled, StepsFit, At, WithId
  <2>5. \A r \in Reader : SeenSoFar(r)'
    BY <2>1 DEF Inv, SeenSoFar
  <2> QED
    BY <2>2, <2>3, <2>4, <2>5 DEF Inv
<1>2. CASE Next
  BY <1>2, SceneFits, AskInv, CreateInv, FindInv, RemoveInv, RespondInv, ListingInv DEF Next, Inv
<1> QED
  BY <1>1, <1>2

THEOREM LocksInvariant == Spec => []Inv
  BY InitInv, StepInv, PTL DEF Spec

-----------------------------------------------------------------------------
(* What follows from it. *)

\* Every state of the locks is of the declared types (repo-locks.ts).
THEOREM LocksTyped == Spec => []TypeOK
<1>1. Inv => TypeOK
  BY DEF Inv
<1> QED
  BY <1>1, LocksInvariant, PTL

\* Whoever was told that they created a lock holds it until its holder or an
\* admin asks to remove it (app/locks.ts, createLock and unlock).
THEOREM HoldersKeep == Spec => []HoldersHold
<1>1. Inv => HoldersHold
  BY DEF Inv
<1> QED
  BY <1>1, LocksInvariant, PTL

\* A client that pages through the locks sees each one that stood the whole
\* time (repo-locks.ts, list).
THEOREM ListingMissesNothing == Spec => []ListingComplete
<1>1. Inv => ListingComplete
  BY DEF Inv, SeenSoFar, ListingComplete
<1> QED
  BY <1>1, LocksInvariant, PTL

\* And it sees none of them twice.
THEOREM ListingRepeatsNothing == Spec => []ListedOnce
<1>1. Inv => ListedOnce
  BY DEF Inv, SeenSoFar, ListedOnce
<1> QED
  BY <1>1, LocksInvariant, PTL

\* Together: a listing is exact.
THEOREM ListingIsExact == Spec => []ListingExact
<1>1. ListingComplete /\ ListedOnce => ListingExact
  BY DEF ListingExact
<1> QED
  BY <1>1, ListingMissesNothing, ListingRepeatsNothing, PTL

-----------------------------------------------------------------------------
(* The refinement.  The table of locks, called again whenever an answer is *)
(* lost, implements the lock service: for any number of people, files and  *)
(* requests, it looks as if each request took effect at one moment and     *)
(* then was answered.  An insert is the service's Take, a removal its      *)
(* Release, and every other step leaves the holders alone.                 *)


\* The two parts of the refinement mapping, of any table and of any request.
OwnerOf(rows) == IF rows = {} THEN Nobody ELSE (CHOOSE l \in rows : TRUE).owner
HolderOf(table, p) == OwnerOf({l \in table : l.path = p})

AskedOf(r) ==
  CASE r.op = "lock" -> [op |-> "lock", user |-> r.user, path |-> r.path, answer |-> r.answer]
    [] r.op = "unlock" -> [op |-> "unlock", user |-> r.user, force |-> r.force, answer |-> r.answer]
    [] OTHER -> [op |-> "none", answer |-> "none"]

LEMMA MappingOf ==
  /\ Holder = [p \in Path |-> HolderOf(locks, p)]
  /\ Holder' = [p \in Path |-> HolderOf(locks', p)]
  /\ Asked = [c \in Call |-> AskedOf(call[c])]
  /\ Asked' = [c \in Call |-> AskedOf(call'[c])]
  BY DEF Holder, Holding, HolderOf, OwnerOf, Asked, AskedOf

LEMMA FreeFile ==
  ASSUME NEW table, NEW p, \A l \in table : l.path # p
  PROVE  HolderOf(table, p) = Nobody
  BY DEF HolderOf, OwnerOf

LEMMA HeldFile ==
  ASSUME NEW table, NEW l \in table, \A m \in table : m.path = l.path => m = l
  PROVE  HolderOf(table, l.path) = l.owner
  BY DEF HolderOf, OwnerOf

LEMMA OtherFile ==
  ASSUME NEW table, NEW other, NEW p,
         {l \in table : l.path = p} = {l \in other : l.path = p}
  PROVE  HolderOf(table, p) = HolderOf(other, p)
  BY DEF HolderOf

\* A new row makes its owner the holder of its file, and changes no other file.
LEMMA InsertTakes ==
  ASSUME NEW new, locks' = locks \cup {new}, new.path \in Path,
         \A l \in locks : l.path # new.path
  PROVE  Holder' = [Holder EXCEPT ![new.path] = new.owner] /\ Holder[new.path] = Nobody
<1>1. HolderOf(locks', new.path) = new.owner
  BY HeldFile
<1>2. ASSUME NEW p \in Path, p # new.path PROVE HolderOf(locks', p) = HolderOf(locks, p)
  <2>1. {l \in locks' : l.path = p} = {l \in locks : l.path = p}
    BY <1>2
  <2> QED
    BY <2>1, OtherFile
<1>3. HolderOf(locks, new.path) = Nobody
  BY FreeFile
<1> QED
  BY <1>1, <1>2, <1>3, MappingOf

\* Without its row the file is free.
LEMMA DeleteReleases ==
  ASSUME OnePerPath, NEW old \in locks, locks' = locks \ {old}, old.path \in Path
  PROVE  Holder' = [Holder EXCEPT ![old.path] = Nobody] /\ Holder[old.path] = old.owner
<1>1. HolderOf(locks, old.path) = old.owner
  BY HeldFile DEF OnePerPath
<1>2. HolderOf(locks', old.path) = Nobody
  BY FreeFile DEF OnePerPath
<1>3. ASSUME NEW p \in Path, p # old.path PROVE HolderOf(locks', p) = HolderOf(locks, p)
  <2>1. {l \in locks' : l.path = p} = {l \in locks : l.path = p}
    BY <1>3
  <2> QED
    BY <2>1, OtherFile
<1> QED
  BY <1>1, <1>2, <1>3, MappingOf

LEMMA TableKept == locks' = locks => Holder' = Holder
  BY MappingOf

\* What the service sees of a request.
LEMMA AskedFields ==
  ASSUME TypeOK, NEW c \in Call, call[c] # Idle
  PROVE  /\ Asked[c].op = call[c].op /\ Asked[c].user = call[c].user
         /\ Asked[c].answer = call[c].answer
         /\ call[c].op = "lock" => Asked[c].path = call[c].path
         /\ call[c].op = "unlock" => Asked[c].force = call[c].force
  BY RequestOf, MappingOf DEF AskedOf

\* A request that moves on looks to the service like one that gets its answer.
LEMMA MoveAnswers ==
  ASSUME TypeOK, NEW c \in Call, call[c] # Idle, NEW s, NEW a, Moved(c, s, a)
  PROVE  Service!Answer(c, a)
<1>1. AskedOf(call'[c]) = [AskedOf(call[c]) EXCEPT !.answer = a]
  <2>1. CASE call[c].op = "lock"
    <3>1. AskedOf(call'[c]) = [op |-> "lock", user |-> call[c].user,
                               path |-> call[c].path, answer |-> a]
      BY <2>1 DEF AskedOf, Moved
    <3>2. AskedOf(call[c]) = [op |-> "lock", user |-> call[c].user,
                              path |-> call[c].path, answer |-> call[c].answer]
      BY <2>1 DEF AskedOf
    <3> QED
      BY <3>1, <3>2
  <2>2. CASE call[c].op = "unlock"
    <3>1. AskedOf(call'[c]) = [op |-> "unlock", user |-> call[c].user,
                               force |-> call[c].force, answer |-> a]
      BY <2>2 DEF AskedOf, Moved
    <3>2. AskedOf(call[c]) = [op |-> "unlock", user |-> call[c].user,
                              force |-> call[c].force, answer |-> call[c].answer]
      BY <2>2 DEF AskedOf
    <3> QED
      BY <3>1, <3>2
  <2> QED
    BY <2>1, <2>2, RequestOf
<1>2. \A d \in Call \ {c} : AskedOf(call'[d]) = AskedOf(call[d])
  BY DEF Moved
<1> QED
  BY <1>1, <1>2, MappingOf DEF Service!Answer

\* As long as there is no answer, the service sees nothing.
LEMMA UnansweredStutters ==
  ASSUME TypeOK, NEW c \in Call, call[c] # Idle, call[c].answer = "none",
         NEW s, Moved(c, s, "none")
  PROVE  Asked' = Asked
<1>1. AskedOf(call'[c]) = AskedOf(call[c])
  BY RequestOf DEF AskedOf, Moved
<1>2. \A d \in Call \ {c} : AskedOf(call'[d]) = AskedOf(call[d])
  BY DEF Moved
<1> QED
  BY <1>1, <1>2, MappingOf

-----------------------------------------------------------------------------
(* Each step is one of the service's, or none. *)

\* What a step of the service or a stutter comes to.
Simulated == Service!Next \/ UNCHANGED Service!vars

LEMMA StutterSimulated ==
  ASSUME Holder' = Holder, Asked' = Asked PROVE Simulated
  BY DEF Simulated, Service!vars

LEMMA AskSimulated ==
  ASSUME Inv, NEW c \in Call,
         \/ \E u \in User, p \in Path : AskLock(c, u, p)
         \/ \E u \in User, i \in 1..MaxLocks, force \in BOOLEAN : AskUnlock(c, u, i, force)
  PROVE  Simulated
<1>1. call[c] = Idle /\ Holder' = Holder
  BY TableKept DEF AskLock, AskUnlock
<1>2. Asked[c] = Service!Nothing
  BY <1>1, MappingOf DEF AskedOf, Idle, Service!Nothing
<1>3. CASE \E u \in User, p \in Path : AskLock(c, u, p)
  <2>1. PICK u \in User, p \in Path : AskLock(c, u, p)
    BY <1>3
  <2> DEFINE asks == [op |-> "lock", user |-> u, path |-> p, answer |-> "none"]
  <2>2. AskedOf(call'[c]) = asks /\ \A d \in Call \ {c} : call'[d] = call[d]
    BY <2>1 DEF AskLock, AskedOf, Inv, TypeOK
  <2>3. Asked' = [Asked EXCEPT ![c] = asks]
    BY <2>2, MappingOf
  <2> QED
    BY <1>1, <1>2, <2>3 DEF Simulated, Service!Next, Service!Ask
<1>4. CASE \E u \in User, i \in 1..MaxLocks, force \in BOOLEAN : AskUnlock(c, u, i, force)
  <2>1. PICK u \in User, i \in 1..MaxLocks, force \in BOOLEAN : AskUnlock(c, u, i, force)
    BY <1>4
  <2> DEFINE asks == [op |-> "unlock", user |-> u, force |-> force, answer |-> "none"]
  <2>2. AskedOf(call'[c]) = asks /\ \A d \in Call \ {c} : call'[d] = call[d]
    BY <2>1 DEF AskUnlock, AskedOf, Inv, TypeOK
  <2>3. Asked' = [Asked EXCEPT ![c] = asks]
    BY <2>2, MappingOf
  <2> QED
    BY <1>1, <1>2, <2>3 DEF Simulated, Service!Next, Service!Ask
<1> QED
  BY <1>3, <1>4

LEMMA RespondSimulated ==
  ASSUME Inv, NEW c \in Call, Respond(c)
  PROVE  Simulated
<1>1. call[c] # Idle /\ call[c].answer # "none" /\ Holder' = Holder
  BY TableKept DEF Respond, At, Idle, Inv, TypeOK
<1>2. Asked[c].answer # "none"
  BY <1>1, AskedFields DEF Inv
<1>3. AskedOf(call'[c]) = Service!Nothing /\ \A d \in Call \ {c} : call'[d] = call[d]
  BY DEF Respond, Inv, TypeOK, AskedOf, Idle, Service!Nothing
<1>4. Asked' = [Asked EXCEPT ![c] = Service!Nothing]
  BY <1>3, MappingOf
<1> QED
  BY <1>1, <1>2, <1>4 DEF Simulated, Service!Next, Service!Forget

\* A request that moves on, or gets an error, without a change to the table.
LEMMA KeptSimulated ==
  ASSUME Inv, NEW c \in Call, call[c] # Idle, call[c].answer = "none",
         locks' = locks, NEW s, Moved(c, s, "none") \/ Moved(c, "done", "error")
  PROVE  Simulated
<1>1. CASE Moved(c, s, "none")
  BY <1>1, TableKept, UnansweredStutters, StutterSimulated DEF Inv
<1>2. CASE Moved(c, "done", "error")
  <2>1. Service!Answer(c, "error")
    BY <1>2, MoveAnswers DEF Inv
  <2>2. Service!Pending(c, "lock") \/ Service!Pending(c, "unlock")
    BY AskedFields, RequestOf DEF Inv, Service!Pending
  <2> QED
    BY <2>1, <2>2, TableKept DEF Simulated, Service!Next, Service!Decline
<1> QED
  BY <1>1, <1>2

\* An insert that adds a row is the service's Take, whatever the answer.
LEMMA InsertSimulated ==
  ASSUME Inv, NEW c \in Call, call[c] \in LockRequest, call[c] # Idle,
         call[c].answer = "none", Insert(c), Holding(call[c].path) = {},
         NEW s, NEW a \in {"none", "created", "error"}, Moved(c, s, a)
  PROVE  Simulated
<1> DEFINE new == [id |-> NewId, path |-> call[c].path, owner |-> call[c].user]
<1>1. locks' = locks \cup {new} /\ \A l \in locks : l.path # new.path
  BY DEF Insert, Holding
<1>2. new.path = call[c].path /\ new.owner = call[c].user /\ call[c].path \in Path
  BY DEF LockRequest
<1> HIDE DEF new
<1>3. /\ Holder' = [Holder EXCEPT ![call[c].path] = call[c].user]
      /\ Holder[call[c].path] = Nobody
  BY <1>1, <1>2, InsertTakes
<1>4. Service!Answer(c, a)
  BY MoveAnswers DEF Inv
<1>5. /\ Asked[c].path = call[c].path /\ Asked[c].user = call[c].user
      /\ Service!Pending(c, "lock")
  BY AskedFields DEF Inv, LockRequest, Service!Pending
<1>6. Service!Take(c)
  BY <1>3, <1>4, <1>5 DEF Service!Take
<1> QED
  BY <1>6 DEF Simulated, Service!Next

LEMMA CreateSimulated ==
  ASSUME Inv, NEW c \in Call, CreateAnswered(c) \/ CreateLost(c)
  PROVE  Simulated
<1>1. /\ call[c] # Idle /\ call[c] \in LockRequest /\ call[c].step = "create"
      /\ call[c].answer = "none"
  BY RequestOf DEF CreateAnswered, CreateLost, At, Idle, Inv, StepsFit
<1>2. CASE CreateLost(c)
  <2>1. Moved(c, "create", "none") \/ Moved(c, "done", "error")
    BY <1>1, <1>2, RetryMoves DEF CreateLost, Inv
  <2>2. locks' = locks \/ (Insert(c) /\ Holding(call[c].path) = {})
    BY <1>2 DEF CreateLost, Insert
  <2> QED
    BY <1>1, <2>1, <2>2, KeptSimulated, InsertSimulated
<1>3. CASE CreateAnswered(c)
  <2>1. PICK l \in locks' :
          /\ l.path = call[c].path
          /\ IF l \notin locks \/ Earlier(c, l) THEN Answer(c, "created")
                                               ELSE Answer(c, "taken")
    BY <1>3 DEF CreateAnswered
  <2>2. CASE Holding(call[c].path) = {}
    <3>1. l \notin locks
      BY <2>1, <2>2 DEF Holding
    <3>2. Moved(c, "done", "created")
      BY <1>1, <2>1, <3>1, AnswerMoves DEF Inv, LockRequest
    <3> QED
      BY <1>1, <1>3, <2>2, <3>2, InsertSimulated DEF CreateAnswered
  <2>3. CASE Holding(call[c].path) # {}
    <3>1. locks' = locks /\ l \in locks
      BY <1>3, <2>1, <2>3 DEF CreateAnswered, Insert
    <3>2. Holder[call[c].path] = l.owner /\ l.owner \in User
      <4>1. l \in Lock /\ l.path \in Path /\ l.owner \in User
        BY <3>1 DEF Inv, TypeOK, Lock
      <4>2. HolderOf(locks, l.path) = l.owner
        BY <3>1, HeldFile DEF Inv, OnePerPath
      <4> QED
        BY <2>1, <4>1, <4>2, MappingOf
    <3>3. /\ Asked[c].path = call[c].path /\ Asked[c].user = call[c].user
          /\ Service!Pending(c, "lock")
      BY <1>1, AskedFields DEF Inv, LockRequest, Service!Pending
    <3>4. CASE Earlier(c, l)
      <4>1. Moved(c, "done", "created")
        BY <1>1, <2>1, <3>4, AnswerMoves DEF Inv, LockRequest
      <4>2. Service!Answer(c, "created")
        BY <1>1, <4>1, MoveAnswers DEF Inv
      <4>3. Service!Confirm(c)
        BY <3>1, <3>2, <3>3, <3>4, <4>2, TableKept DEF Earlier, Service!Confirm
      <4> QED
        BY <4>3 DEF Simulated, Service!Next
    <3>5. CASE ~Earlier(c, l)
      <4>1. Moved(c, "done", "taken")
        BY <1>1, <2>1, <3>1, <3>5, AnswerMoves DEF Inv, LockRequest
      <4>2. Service!Answer(c, "taken")
        BY <1>1, <4>1, MoveAnswers DEF Inv
      <4>3. Service!Refuse(c)
        BY <3>1, <3>2, <3>3, <4>2, TableKept, AdminAssumption DEF Service!Refuse
      <4> QED
        BY <4>3 DEF Simulated, Service!Next
    <3> QED
      BY <3>4, <3>5
  <2> QED
    BY <2>2, <2>3
<1> QED
  BY <1>2, <1>3

LEMMA FindSimulated ==
  ASSUME Inv, NEW c \in Call, Find(c) \/ FindLost(c)
  PROVE  Simulated
<1>1. /\ call[c] # Idle /\ call[c] \in UnlockRequest /\ call[c].step = "find"
      /\ call[c].answer = "none" /\ locks' = locks
  BY RequestOf DEF Find, FindLost, At, Idle, Inv, StepsFit
<1>2. \/ \E a \in {"missing", "forbidden"} : Answer(c, a)
      \/ call' = [call EXCEPT ![c].step = "remove", ![c].attempt = 1]
      \/ Retry(c)
  BY DEF Find, FindLost
<1>3. CASE \E a \in {"missing", "forbidden"} : Answer(c, a)
  <2>1. PICK a \in {"missing", "forbidden"} : Answer(c, a)
    BY <1>3
  <2>2. Moved(c, "done", a)
    BY <1>1, <2>1, AnswerMoves DEF Inv, UnlockRequest
  <2>3. Service!Answer(c, a)
    BY <1>1, <2>2, MoveAnswers DEF Inv
  <2>4. Service!Pending(c, "unlock")
    BY <1>1, AskedFields DEF Inv, UnlockRequest, Service!Pending
  <2>5. Service!Decline(c)
    BY <1>1, <2>3, <2>4, TableKept DEF Service!Decline
  <2> QED
    BY <2>5 DEF Simulated, Service!Next
<1>4. CASE call' = [call EXCEPT ![c].step = "remove", ![c].attempt = 1]
  <2>1. Moved(c, "remove", "none")
    BY <1>1, <1>4, FoundMoves DEF Inv
  <2> QED
    BY <1>1, <2>1, KeptSimulated
<1>5. CASE Retry(c)
  <2>1. Moved(c, "find", "none") \/ Moved(c, "done", "error")
    BY <1>1, <1>5, RetryMoves DEF Inv
  <2> QED
    BY <1>1, <2>1, KeptSimulated
<1> QED
  BY <1>2, <1>3, <1>4, <1>5

LEMMA RemoveSimulated ==
  ASSUME Inv, NEW c \in Call, Remove(c) \/ RemoveLost(c)
  PROVE  Simulated
<1>1. /\ call[c] # Idle /\ call[c] \in UnlockRequest /\ call[c].step = "remove"
      /\ call[c].answer = "none"
  BY RequestOf DEF Remove, RemoveLost, At, Idle, Inv, StepsFit
<1>2. PICK a \in {"none", "unlocked", "error"} : \E s : Moved(c, s, a)
  <2>1. CASE Remove(c)
    <3>1. Moved(c, "done", "unlocked")
      BY <1>1, <2>1, AnswerMoves DEF Remove, Inv, UnlockRequest
    <3> QED
      BY <3>1
  <2>2. CASE RemoveLost(c)
    <3>1. Moved(c, "remove", "none") \/ Moved(c, "done", "error")
      BY <1>1, <2>2, RetryMoves DEF RemoveLost, Inv
    <3> QED
      BY <3>1
  <2> QED
    BY <2>1, <2>2
<1>3. PICK s : Moved(c, s, a)
  BY <1>2
<1>4. Service!Answer(c, a)
  BY <1>1, <1>3, MoveAnswers DEF Inv
<1>5. /\ Asked[c].user = call[c].user /\ Asked[c].force = call[c].force
      /\ Service!Pending(c, "unlock")
  BY <1>1, AskedFields DEF Inv, UnlockRequest, Service!Pending
<1>6. CASE locks' = locks
  <2>1. CASE a = "none"
    BY <1>1, <1>3, <1>6, <2>1, KeptSimulated
  <2>2. CASE a # "none"
    <3>1. Service!Decline(c)
      BY <1>4, <1>5, <1>6, <2>2, TableKept DEF Service!Decline
    <3> QED
      BY <3>1 DEF Simulated, Service!Next
  <2> QED
    BY <2>1, <2>2
<1>7. CASE locks' # locks
  <2>1. locks' = locks \ WithId(call[c].id)
    BY <1>7 DEF Remove, RemoveLost, Delete
  <2>2. PICK l \in WithId(call[c].id) : TRUE
    BY <1>7, <2>1
  <2>3. WithId(call[c].id) = {l}
    BY <2>2 DEF WithId, Inv, IdsDiffer, Issued
  <2>4. l \in locks /\ l.path \in Path /\ l.owner \in User
    BY <2>2 DEF WithId, Inv, TypeOK, Lock
  <2>5. /\ Holder' = [Holder EXCEPT ![l.path] = Nobody]
        /\ Holder[l.path] = l.owner
    BY <2>1, <2>3, <2>4, DeleteReleases DEF Inv
  <2>6. MayUnlock(call[c].user, call[c].force, l)
    BY <1>1, <2>2 DEF Inv, Entitled, At, UnlockRequest
  <2>7. Service!Release(c, l.path)
    BY <1>4, <1>5, <2>4, <2>5, <2>6, AdminAssumption DEF Service!Release, MayUnlock
  <2> QED
    BY <2>4, <2>7 DEF Simulated, Service!Next
<1> QED
  BY <1>6, <1>7

LEMMA UnchangedSimulated ==
  ASSUME UNCHANGED <<locks, call>> PROVE Simulated
<1>1. Asked' = Asked
  BY MappingOf
<1> QED
  BY <1>1, TableKept, StutterSimulated

LEMMA StepSimulated ==
  ASSUME Inv, [Next]_vars PROVE Simulated
<1>1. CASE UNCHANGED vars
  BY <1>1, UnchangedSimulated DEF vars
<1>2. CASE \E r \in Reader : StartListing(r) \/ ReadPage(r)
  BY <1>2, UnchangedSimulated DEF StartListing, ReadPage
<1> QED
  BY <1>1, <1>2, AskSimulated, CreateSimulated, FindSimulated, RemoveSimulated,
     RespondSimulated, SceneFits DEF Next, Inv

LEMMA InitSimulated == Init => Service!Init
<1> SUFFICES ASSUME Init PROVE Service!Init
  OBVIOUS
<1>1. \A p \in Path : HolderOf(locks, p) = Nobody
  BY FreeFile DEF Init
<1>2. \A c \in Call : AskedOf(call[c]) = Service!Nothing
  BY DEF Init, AskedOf, Idle, Service!Nothing
<1> QED
  BY <1>1, <1>2, MappingOf DEF Service!Init

\* Concurrent requests, retries and lost answers look like a service that
\* handles one request at a time (repo-locks.ts, app/locks.ts).
THEOREM LocksImplementService == Spec => ImplementsService
<1>1. Inv /\ [Next]_vars => [Service!Next]_Service!vars
  BY StepSimulated DEF Simulated
<1> QED
  BY <1>1, InitSimulated, LocksInvariant, PTL DEF Spec, ImplementsService, Service!Spec

=============================================================================
