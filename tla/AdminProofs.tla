---------------------------- MODULE AdminProofs ----------------------------
(***************************************************************************)
(* The trash procedures and the admin UI over them.  With one removal at a *)
(* time per object no object is ever in neither place and every answer is  *)
(* true when it is given; the page moves objects by those procedures only, *)
(* and its reports and entries account for what it moved; its lists of     *)
(* locks and tokens take away what a dialog named; the pages of the audit  *)
(* log show each entry once; and the memory of the signing keys keeps      *)
(* nobody out.  For any number of objects, movers, rows, entries, pages    *)
(* and checks.                                                             *)
(***************************************************************************)
EXTENDS MCAdmin, FiniteSetTheorems, WellFoundedInduction, TLAPS

-----------------------------------------------------------------------------
(* The trash procedures. *)

\* While one call removes an object, the others on it at most tier it.
Exclusion ==
  \A m, n \in Mover :
    m # n /\ Busy(m) /\ Busy(n) /\ job[m].oid = job[n].oid
          /\ job[m].op \in Removals
      => job[n].op = "tier"

\* What a call knows at each of its steps about the two copies of its object.
Knows(m) ==
  /\ At(m, "delete") => job[m].op \in Removals
  /\ At(m, "check") => job[m].op = "trash"
  /\ At(m, "delete") /\ job[m].op = "trash" => job[m].oid \in trash
  /\ At(m, "check") => job[m].oid \in trash
  /\ At(m, "drop") => /\ job[m].oid \in live
                      /\ \/ job[m].op = "restore" /\ job[m].answer = "restored"
                         \/ job[m].op = "trash"
                            /\ job[m].answer \in {"locked", "refused"}
  /\ At(m, "done") =>
       /\ job[m].answer \in {"trashed", "unchecked"} =>
            job[m].op = "trash" /\ job[m].oid \in trash
       /\ job[m].answer \in {"locked", "refused"} =>
            job[m].op \in Removals /\ job[m].oid \in live
       /\ job[m].answer = "restored" =>
            job[m].op = "restore" /\ job[m].oid \in live

\* The inductive invariant: both safety properties follow from it.
Inv == TypeOK /\ NeverInNeitherPlace /\ Exclusion /\ \A m \in Mover : Knows(m)

-----------------------------------------------------------------------------
\* The program starts with any set of stored objects and nothing in flight.
LEMMA InitInv == Init => Inv
  BY DEF Init, Inv, TypeOK, NeverInNeitherPlace, Exclusion, Knows, Busy, At, Idle

\* A step by which mover n moves its own call on keeps the exclusion: its
\* object and operation stay, or it is done with both.
LEMMA ExclusionKept ==
  ASSUME TypeOK, Exclusion, NEW n \in Mover, Busy(n),
         job' \in [Mover -> {Idle} \cup Running \cup Finished],
         \A m \in Mover \ {n} : job'[m] = job[m],
         \/ job'[n] = Idle
         \/ job'[n].op = job[n].op /\ job'[n].oid = job[n].oid
  PROVE  Exclusion'
  BY DEF Exclusion, Busy

\* Accepting a request, whatever it asks for.
LEMMA StartInv ==
  ASSUME Exclusive, Inv, NEW m \in Mover, NEW op \in Ops, NEW o \in Oid,
         Start(m, op, o)
  PROVE  Inv'
<1> USE OpsAssumption DEF Inv
<1> DEFINE new == [op |-> op, oid |-> o, step |-> FirstStep(op), answer |-> "none"]
<1>1. new \in Running /\ ~(new.step \in {"check", "drop", "done"})
  BY DEF Running, FirstStep, Steps
<1>2. job' = [job EXCEPT ![m] = new] /\ live' = live /\ trash' = trash /\ kept' = kept
  BY DEF Start
<1>3. TypeOK'
  BY <1>1, <1>2 DEF TypeOK
<1>4. NeverInNeitherPlace'
  BY <1>2 DEF NeverInNeitherPlace
<1>5. Exclusion'
  <2> SUFFICES ASSUME NEW a \in Mover, NEW b \in Mover, a # b,
                      Busy(a)', Busy(b)', job'[a].oid = job'[b].oid,
                      job'[a].op \in Removals
               PROVE  job'[b].op = "tier"
    BY DEF Exclusion
  <2>1. ASSUME NEW n \in Mover, n # m, Busy(n), job[n].oid = o, op # "tier"
        PROVE  /\ job[n].op \notin Removals
               /\ op \in Removals => job[n].op = "tier"
    <3>1. job[n].op \in {"trash", "restore", "tier", "delete"}
      BY <2>1 DEF Busy, TypeOK, Running, Finished
    <3>2. QED BY <2>1, <3>1 DEF Start, MayStart, WorksOn, Removals
  <2>2. CASE a = m
    BY <1>1, <1>2, <2>1, <2>2 DEF TypeOK, Busy, Removals
  <2>3. CASE b = m
    BY <1>1, <1>2, <2>1, <2>3 DEF TypeOK, Busy
  <2>4. CASE a # m /\ b # m
    BY <1>2, <2>4 DEF Exclusion, Busy, TypeOK
  <2>5. QED BY <2>2, <2>3, <2>4
<1>6. ASSUME NEW n \in Mover PROVE Knows(n)'
  <2>1. CASE n = m
    BY <2>1, <1>1, <1>2 DEF Knows, TypeOK, At, Busy, FirstStep, Removals
  <2>2. CASE n # m
    BY <2>2, <1>2 DEF Knows, TypeOK, At, Busy
  <2>3. QED BY <2>1, <2>2
<1>7. QED BY <1>3, <1>4, <1>5, <1>6

\* Steps that only move the call on: nothing is written.
LEMMA ReadingInv ==
  ASSUME Inv, NEW m \in Mover,
         TierHead(m) \/ CopyRead(m) \/ CheckLive(m) \/ Acknowledge(m) \/ Crash(m)
  PROVE  Inv'
<1> USE DEF Inv
<1>0. job[m] # Idle /\ job[m] \in Running \cup Finished
  BY DEF TierHead, CopyRead, CheckLive, Acknowledge, Crash, At, Busy, TypeOK
<1>1. /\ live' = live /\ trash' = trash /\ kept' = kept
      /\ Busy(m)
      /\ job' \in [Mover -> {Idle} \cup Running \cup Finished]
      /\ \A n \in Mover \ {m} : job'[n] = job[n]
      /\ job'[m] = Idle \/ (job'[m].op = job[m].op /\ job'[m].oid = job[m].oid)
  BY <1>0 DEF TierHead, CopyRead, CheckLive, Acknowledge, Crash, At, Busy, TypeOK, Go,
     GoPending, Answer, Unchecked, Running, Finished, Steps, Answers
<1>2. TypeOK' /\ NeverInNeitherPlace'
  BY <1>1 DEF TypeOK, NeverInNeitherPlace
<1>3. Exclusion'
  BY <1>1, ExclusionKept
<1>4. ASSUME NEW n \in Mover PROVE Knows(n)'
  <2>1. CASE n = m
    BY <1>0, <1>1, <2>1 DEF TierHead, CopyRead, CheckLive, Acknowledge, Crash, At, Busy, TypeOK, Go,
     GoPending, Answer, Unchecked, Running, Finished, Knows, Removals
  <2>2. CASE n # m
    BY <1>1, <2>2 DEF Knows, At, Busy
  <2>3. QED BY <2>1, <2>2
<1>5. QED BY <1>2, <1>3, <1>4

\* Writing the copy.  Nothing that is there is removed.
LEMMA CopyWriteInv ==
  ASSUME Inv, NEW m \in Mover, CopyWrite(m)
  PROVE  Inv'
<1> USE DEF Inv
<1>0. job[m] # Idle /\ job[m] \in Running /\ job[m].step = "write"
  BY DEF CopyWrite, At, Busy, TypeOK, Finished
<1>1. /\ kept' = kept
      /\ live \subseteq live' /\ trash \subseteq trash'
      /\ live' \subseteq Oid /\ trash' \subseteq Oid
  BY <1>0 DEF CopyWrite, PutTarget, TypeOK, Running
<1>2. /\ Busy(m)
      /\ job' \in [Mover -> {Idle} \cup Running \cup Finished]
      /\ \A n \in Mover \ {m} : job'[n] = job[n]
      /\ job'[m].op = job[m].op /\ job'[m].oid = job[m].oid
      /\ \/ /\ job[m].op = "trash" /\ job'[m].step = "delete"
            /\ job[m].oid \in trash'
         \/ /\ job[m].op = "restore" /\ job'[m].step = "drop"
            /\ job'[m].answer = "restored" /\ job[m].oid \in live'
         \/ /\ job'[m].step = "done"
            /\ job'[m].answer \in {"tiered", "copy-refused"}
  BY <1>0 DEF CopyWrite, PutTarget, Target, AfterCopy, AfterLockedCopy, AfterRefusedCopy,
     At, Busy, TypeOK, Go, GoPending, Answer, Running, Finished, Steps, Answers
<1>3. TypeOK' /\ NeverInNeitherPlace'
  BY <1>1, <1>2 DEF TypeOK, NeverInNeitherPlace
<1>4. Exclusion'
  BY <1>2, ExclusionKept
<1>5. ASSUME NEW n \in Mover PROVE Knows(n)'
  <2>1. CASE n = m
    BY <1>1, <1>2, <2>1 DEF Knows, At, Busy, Removals
  <2>2. CASE n # m
    BY <1>1, <1>2, <2>2 DEF Knows, At, Busy
  <2>3. QED BY <2>1, <2>2
<1>6. QED BY <1>3, <1>4, <1>5

\* Deleting the live key.  A trash call has its copy, and every other call on
\* the object is a tier, which counts on neither copy.
LEMMA DeleteLiveInv ==
  ASSUME Inv, NEW m \in Mover, DeleteLive(m)
  PROVE  Inv'
<1> USE DEF Inv
<1>0. /\ job[m] # Idle /\ job[m] \in Running /\ job[m].step = "delete"
      /\ job[m].op \in Removals
      /\ job[m].op = "trash" => job[m].oid \in trash
  BY DEF DeleteLive, Knows, At, Busy, TypeOK, Finished
<1>1. /\ trash' = trash
      /\ live' \in {live, live \ {job[m].oid}}
      /\ kept' \subseteq kept
      /\ job[m].op = "delete" /\ job[m].oid \notin live' \cup trash /\ live' # live
           => job[m].oid \notin kept'
  BY DEF DeleteLive, RemoveLive, GiveUp
<1>2. /\ Busy(m)
      /\ job' \in [Mover -> {Idle} \cup Running \cup Finished]
      /\ \A n \in Mover \ {m} : job'[n] = job[n]
      /\ job'[m].op = job[m].op /\ job'[m].oid = job[m].oid
      /\ \/ /\ job[m].op = "trash" /\ job'[m].step = "check"
         \/ /\ job[m].op = "trash" /\ job'[m].step = "drop"
            /\ job'[m].answer = "locked" /\ job[m].oid \in live'
         \/ /\ job'[m].step = "done" /\ job[m].op = "trash"
            /\ job'[m].answer = "trashed"
         \/ /\ job'[m].step = "done" /\ job[m].op = "delete"
            /\ \/ job'[m].answer \in {"deleted", "failed"}
               \/ job'[m].answer = "locked" /\ job[m].oid \in live'
  BY <1>0 DEF DeleteLive, AfterDelete, AfterLockedDelete, AfterFailedDelete, Removals,
     At, Busy, TypeOK, Go, GoPending, Answer, Running, Finished, Steps, Answers
<1>3. TypeOK'
  BY <1>1, <1>2 DEF TypeOK
<1>4. NeverInNeitherPlace'
  BY <1>0, <1>1 DEF NeverInNeitherPlace, Removals
<1>5. Exclusion'
  BY <1>2, ExclusionKept
<1>6. ASSUME NEW n \in Mover PROVE Knows(n)'
  <2>1. CASE n = m
    BY <1>0, <1>1, <1>2, <2>1 DEF Knows, At, Busy, Removals
  <2>2. CASE n # m /\ Busy(n) /\ job[n].oid = job[m].oid
    <3>1. job[n].op = "tier"
      BY <1>0, <2>2 DEF Exclusion, Busy
    <3>2. QED BY <1>1, <1>2, <2>2, <3>1 DEF Knows, At, Busy, Removals
  <2>3. CASE n # m /\ ~(Busy(n) /\ job[n].oid = job[m].oid)
    BY <1>1, <1>2, <2>3 DEF Knows, At, Busy
  <2>4. QED BY <2>1, <2>2, <2>3
<1>7. QED BY <1>3, <1>4, <1>5, <1>6

\* Dropping the trash copy: the object was seen under its live key, and no
\* other call on it can have removed it or be counting on the copy.
LEMMA DropCopyInv ==
  ASSUME Inv, NEW m \in Mover, DropCopy(m)
  PROVE  Inv'
<1> USE DEF Inv
<1>0. /\ job[m] # Idle /\ job[m] \in Running /\ job[m].step = "drop"
      /\ job[m].oid \in live
      /\ \/ job[m].op = "restore" /\ job[m].answer = "restored"
         \/ job[m].op = "trash" /\ job[m].answer \in {"locked", "refused"}
  BY DEF DropCopy, Knows, At, Busy, TypeOK, Finished
<1>1. live' = live /\ kept' = kept /\ trash' \in {trash, trash \ {job[m].oid}}
  BY DEF DropCopy
<1>2. /\ Busy(m)
      /\ job' \in [Mover -> {Idle} \cup Running \cup Finished]
      /\ \A n \in Mover \ {m} : job'[n] = job[n]
      /\ job'[m].op = job[m].op /\ job'[m].oid = job[m].oid
      /\ job'[m].step = "done" /\ job'[m].answer = job[m].answer
  BY <1>0 DEF DropCopy, At, Busy, TypeOK, GoPending, Answer, Running, Finished, Answers
<1>3. TypeOK' /\ NeverInNeitherPlace'
  BY <1>0, <1>1, <1>2 DEF TypeOK, NeverInNeitherPlace
<1>4. Exclusion'
  BY <1>2, ExclusionKept
<1>5. ASSUME NEW n \in Mover PROVE Knows(n)'
  <2>1. CASE n = m
    BY <1>0, <1>1, <1>2, <2>1 DEF Knows, At, Busy, Removals
  <2>2. CASE n # m /\ Busy(n) /\ job[n].oid = job[m].oid
    <3>1. job[n].op # "trash"
      BY <1>0, <2>2 DEF Exclusion, Busy, Removals
    <3>2. QED BY <1>1, <1>2, <2>2, <3>1 DEF Knows, At, Busy
  <2>3. CASE n # m /\ ~(Busy(n) /\ job[n].oid = job[m].oid)
    BY <1>1, <1>2, <2>3 DEF Knows, At, Busy
  <2>4. QED BY <2>1, <2>2, <2>3
<1>6. QED BY <1>3, <1>4, <1>5

\* What the rest of the system does: an upload only adds, and an expiring copy
\* is not one that a trash call has just written.
LEMMA EnvironmentInv ==
  ASSUME Inv, NEW o \in Oid, Upload(o) \/ Expire(o)
  PROVE  Inv'
<1> USE DEF Inv
<1>1. TypeOK' /\ NeverInNeitherPlace'
  BY DEF Upload, Expire, TypeOK, NeverInNeitherPlace
<1>2. Exclusion'
  BY DEF Upload, Expire, Exclusion, Busy
<1>3. ASSUME NEW n \in Mover PROVE Knows(n)'
  <2>1. CASE Upload(o)
    BY <2>1 DEF Upload, Knows, At, Busy
  <2>2. CASE Expire(o)
    BY <2>2 DEF Expire, WorksOn, Knows, At, Busy
  <2>3. QED BY <2>1, <2>2
<1>4. QED BY <1>1, <1>2, <1>3

-----------------------------------------------------------------------------
LEMMA StepInv == Exclusive /\ Inv /\ [Next]_vars => Inv'
<1> SUFFICES ASSUME Exclusive, Inv, [Next]_vars PROVE Inv'
  OBVIOUS
<1>1. ASSUME NEW m \in Mover, NEW op \in Ops, NEW o \in Oid, Start(m, op, o) PROVE Inv'
  BY <1>1, StartInv
<1>2. ASSUME NEW m \in Mover,
             TierHead(m) \/ CopyRead(m) \/ CheckLive(m) \/ Acknowledge(m) \/ Crash(m)
      PROVE  Inv'
  BY <1>2, ReadingInv
<1>3. ASSUME NEW m \in Mover, CopyWrite(m) PROVE Inv'
  BY <1>3, CopyWriteInv
<1>4. ASSUME NEW m \in Mover, DeleteLive(m) PROVE Inv'
  BY <1>4, DeleteLiveInv
<1>5. ASSUME NEW m \in Mover, DropCopy(m) PROVE Inv'
  BY <1>5, DropCopyInv
<1>6. ASSUME NEW o \in Oid, Upload(o) \/ Expire(o) PROVE Inv'
  BY <1>6, EnvironmentInv
<1>7. CASE UNCHANGED vars
  BY <1>7 DEF vars, Inv, TypeOK, NeverInNeitherPlace, Exclusion, Knows, At, Busy
<1>8. QED BY <1>1, <1>2, <1>3, <1>4, <1>5, <1>6, <1>7 DEF Next

\* With one removal at a time per object, every reachable state of the trash
\* procedures satisfies the inductive invariant.
THEOREM TrashInvariant == Exclusive /\ Spec => []Inv
<1> SUFFICES ASSUME Exclusive PROVE Spec => []Inv
  OBVIOUS
<1>1. Inv /\ [Next]_vars => Inv'
  BY StepInv
<1>2. QED BY InitInv, <1>1, PTL DEF Spec

\* The state of moveToTrash, restoreFromTrash, tier and delete is well typed,
\* for any number of objects and of concurrent calls.
THEOREM TypeCorrect == Exclusive /\ Spec => []TypeOK
<1>1. Inv => TypeOK
  BY DEF Inv
<1>2. QED BY <1>1, TrashInvariant, PTL

\* moveToTrash and restoreFromTrash lose no object to a refusal, a lost answer,
\* a crash or an upload, as long as no two of them remove one object at once.
THEOREM NoObjectLost == Exclusive /\ Spec => []NeverInNeitherPlace
<1>1. Inv => NeverInNeitherPlace
  BY DEF Inv
<1>2. QED BY <1>1, TrashInvariant, PTL

\* The outcome of moveToTrash and restoreFromTrash is true of the bucket.
THEOREM AnswersAreTrue == Exclusive /\ Spec => []AnswersHold
<1>1. Inv => AnswersHold
  BY DEF Inv, Knows, AnswersHold
<1>2. QED BY <1>1, TrashInvariant, PTL

-----------------------------------------------------------------------------
(* The page over the procedures of the trash. *)

\* The types alone are kept whether or not the work on an object is exclusive: what a
\* step makes of its mover's call is a call of the same operation on the same object.
LEMMA JobMade ==
  ASSUME TypeOK, NEW m \in Mover, Busy(m), job[m].step \in Steps,
         NEW step \in Steps, NEW answer \in Answers
  PROVE  /\ Go(m, step) => \E j \in Running : /\ job' = [job EXCEPT ![m] = j] /\ j # Idle
                                              /\ j.op = job[m].op /\ j.oid = job[m].oid
                                              /\ j.step = step /\ j.answer = job[m].answer
         /\ GoPending(m, step, answer) => \E j \in Running : /\ job' = [job EXCEPT ![m] = j] /\ j # Idle
                                                             /\ j.op = job[m].op /\ j.oid = job[m].oid
                                                             /\ j.step = step /\ j.answer = answer
         /\ Answer(m, answer) => \E j \in Finished : /\ job' = [job EXCEPT ![m] = j] /\ j # Idle
                                                     /\ j.op = job[m].op /\ j.oid = job[m].oid
                                                     /\ j.step = "done" /\ j.answer = answer
<1>1. job[m] \in Running
  BY DEF TypeOK, Busy, Running, Finished, Idle, Steps
<1>2. ASSUME Go(m, step)
      PROVE  \E j \in Running : /\ job' = [job EXCEPT ![m] = j] /\ j # Idle
                                /\ j.op = job[m].op /\ j.oid = job[m].oid
                                /\ j.step = step /\ j.answer = job[m].answer
  <2> PICK j : j = [job[m] EXCEPT !.step = step]
    OBVIOUS
  <2>1. job' = [job EXCEPT ![m] = j]
    BY <1>2 DEF Go
  <2>2. /\ j \in Running
        /\ j.op = job[m].op /\ j.oid = job[m].oid /\ j.step = step /\ j.answer = job[m].answer
    BY <1>1 DEF Running
  <2>3. j # Idle
    BY <2>2 DEF Idle, Steps
  <2>4. QED BY <2>1, <2>2, <2>3
<1>3. ASSUME GoPending(m, step, answer)
      PROVE  \E j \in Running : /\ job' = [job EXCEPT ![m] = j] /\ j # Idle
                                /\ j.op = job[m].op /\ j.oid = job[m].oid
                                /\ j.step = step /\ j.answer = answer
  <2> PICK j : j = [job[m] EXCEPT !.step = step, !.answer = answer]
    OBVIOUS
  <2>1. job' = [job EXCEPT ![m] = j]
    BY <1>3 DEF GoPending
  <2>2. /\ j \in Running
        /\ j.op = job[m].op /\ j.oid = job[m].oid /\ j.step = step /\ j.answer = answer
    BY <1>1 DEF Running
  <2>3. j # Idle
    BY <2>2 DEF Idle, Steps
  <2>4. QED BY <2>1, <2>2, <2>3
<1>4. ASSUME Answer(m, answer)
      PROVE  \E j \in Finished : /\ job' = [job EXCEPT ![m] = j] /\ j # Idle
                                 /\ j.op = job[m].op /\ j.oid = job[m].oid
                                 /\ j.step = "done" /\ j.answer = answer
  <2> PICK j : j = [job[m] EXCEPT !.step = "done", !.answer = answer]
    OBVIOUS
  <2>1. job' = [job EXCEPT ![m] = j]
    BY <1>4 DEF Answer, GoPending
  <2>2. /\ j \in Finished
        /\ j.op = job[m].op /\ j.oid = job[m].oid /\ j.step = "done" /\ j.answer = answer
    BY <1>1 DEF Running, Finished
  <2>3. j # Idle
    BY <2>2 DEF Idle
  <2>4. QED BY <2>1, <2>2, <2>3
<1>5. QED BY <1>2, <1>3, <1>4

\* The types, with what makes them inductive: a copy is dropped once the answer is known.
Typed == TypeOK /\ \A m \in Mover : At(m, "drop") => job[m].answer # "none"

\* A call of the page's has no answer before it has one, and only a move to the
\* trash deletes.
Early == {"head", "read", "write", "delete"}
Orderly(j) ==
  /\ j.step \in Early \cup {"check"} => j.answer = "none"
  /\ j.step = "delete" => j.op = "trash"

\* What a step of a call may have done to the object: a move to the trash has left it
\* alone as long as it may still find it locked.
Effect(old, new) ==
  /\ Orderly(new)
  /\ new.op = "trash" /\ new.step \in Early => old.step \in Early /\ live' = live
  /\ new.answer = "locked" =>
       live' = live /\ (old.answer = "locked" \/ (old.op = "trash" /\ old.step \in Early))

LEMMA MoveEffect ==
  ASSUME Typed, NEW m \in Mover, Moves(m)
  PROVE  /\ live' \subseteq Oid /\ trash' \subseteq Oid /\ kept' \subseteq Oid
         /\ Busy(m)
         /\ \E j \in Running \cup Finished :
              /\ job' = [job EXCEPT ![m] = j] /\ j # Idle
              /\ j.op = job[m].op /\ j.oid = job[m].oid
              /\ j.step = "drop" => j.answer # "none"
              /\ Orderly(job[m]) => Effect(job[m], j)
<1>0. TypeOK
  BY DEF Typed
<1> PICK old : old = job[m]
  OBVIOUS
<1>1. Busy(m) /\ old \in Running /\ old.oid \in Oid /\ old.step \in Steps
  <2>1. Busy(m) /\ old.step \in Steps /\ old # Idle
    BY DEF Moves, TierHead, CopyRead, CopyWrite, DeleteLive, CheckLive, DropCopy, At, Busy, Steps
  <2>2. old \in Running
    BY <1>0, <2>1 DEF TypeOK, Finished, Steps
  <2>3. QED BY <2>1, <2>2 DEF Running
<1> USE DEF Effect, Orderly, Early
<1>2. CASE TierHead(m)
  <2>1. old.step = "head" /\ UNCHANGED <<live, trash, kept>>
    BY <1>2 DEF TierHead, At
  <2>2. Answer(m, "failed") \/ Answer(m, "tiered") \/ Go(m, "read")
    BY <1>2 DEF TierHead
  <2>3. "failed" \in Answers /\ "tiered" \in Answers /\ "read" \in Steps
    BY DEF Answers, Steps
  <2>4. QED BY <1>0, <1>1, <2>1, <2>2, <2>3, JobMade DEF TypeOK
<1>3. CASE CopyRead(m)
  <2>1. old.step = "read" /\ UNCHANGED <<live, trash, kept>>
    BY <1>3 DEF CopyRead, At
  <2>2. Answer(m, "copy-refused") \/ Go(m, "write")
    BY <1>3 DEF CopyRead
  <2>3. "copy-refused" \in Answers /\ "write" \in Steps
    BY DEF Answers, Steps
  <2>4. QED BY <1>0, <1>1, <2>1, <2>2, <2>3, JobMade DEF TypeOK
<1>4. CASE CopyWrite(m)
  <2>1. old.step = "write" /\ kept' = kept
    BY <1>4 DEF CopyWrite, At
  <2>2. live' \subseteq Oid /\ trash' \subseteq Oid /\ (old.op = "trash" => live' = live)
    BY <1>0, <1>1, <1>4 DEF CopyWrite, PutTarget, TypeOK
  <2>3. \/ Answer(m, "copy-refused") \/ Answer(m, "tiered")
        \/ GoPending(m, "drop", "restored")
        \/ Go(m, "delete") /\ old.op = "trash"
    BY <1>4 DEF CopyWrite, AfterCopy, AfterLockedCopy, AfterRefusedCopy
  <2>4. {"copy-refused", "tiered", "restored"} \subseteq Answers /\ {"drop", "delete"} \subseteq Steps
    BY DEF Answers, Steps
  <2>5. QED BY <1>0, <1>1, <2>1, <2>2, <2>3, <2>4, JobMade DEF TypeOK
<1>5. CASE DeleteLive(m)
  <2>1. old.step = "delete" /\ trash' = trash
    BY <1>5 DEF DeleteLive, At
  <2>2. live' \subseteq Oid /\ kept' \subseteq Oid
    BY <1>0, <1>5 DEF DeleteLive, RemoveLive, GiveUp, TypeOK
  <2>3. \/ Answer(m, "trashed") \/ Answer(m, "deleted") \/ Answer(m, "failed") \/ Go(m, "check")
        \/ GoPending(m, "drop", "locked") /\ live' = live
        \/ Answer(m, "locked") /\ live' = live /\ old.op # "trash"
    BY <1>5 DEF DeleteLive, AfterDelete, AfterLockedDelete, AfterFailedDelete
  <2>4. {"trashed", "deleted", "failed", "locked"} \subseteq Answers /\ {"drop", "check"} \subseteq Steps
    BY DEF Answers, Steps
  <2>5. QED BY <1>0, <1>1, <2>1, <2>2, <2>3, <2>4, JobMade DEF TypeOK
<1>6. CASE CheckLive(m)
  <2>1. old.step = "check" /\ UNCHANGED <<live, trash, kept>>
    BY <1>6 DEF CheckLive, At
  <2>2. Answer(m, "unchecked") \/ Answer(m, "trashed") \/ GoPending(m, "drop", "refused")
    BY <1>6 DEF CheckLive, Unchecked
  <2>3. {"unchecked", "trashed", "refused"} \subseteq Answers /\ "drop" \in Steps
    BY DEF Answers, Steps
  <2>4. QED BY <1>0, <1>1, <2>1, <2>2, <2>3, JobMade DEF TypeOK
<1>7. CASE DropCopy(m)
  <2>1. old.step = "drop" /\ UNCHANGED <<live, kept>> /\ trash' \subseteq Oid
    BY <1>0, <1>7 DEF DropCopy, At, TypeOK
  <2>2. Answer(m, old.answer)
    BY <1>7 DEF DropCopy
  <2>3. old.answer \in Answers
    BY <1>1, <2>1 DEF Typed, At, Running
  <2>4. QED BY <1>0, <1>1, <2>1, <2>2, <2>3, JobMade DEF TypeOK
<1>8. QED BY <1>2, <1>3, <1>4, <1>5, <1>6, <1>7 DEF Moves

\* Every other step of the trash keeps the types.
LEMMA OtherTypes ==
  ASSUME Typed, NEW m \in Mover,
         (\E op \in Ops, o \in Oid : Start(m, op, o)) \/ Acknowledge(m) \/ Crash(m)
  PROVE  /\ Typed' /\ live' = live
         /\ \A n \in Mover \ {m} : job'[n] = job[n]
<1>1. \E j \in {Idle} \cup Running : job' = [job EXCEPT ![m] = j] /\ (j # Idle => j.step # "drop")
  <2>1. ASSUME NEW op \in Ops, NEW o \in Oid, Start(m, op, o)
        PROVE  \E j \in {Idle} \cup Running : job' = [job EXCEPT ![m] = j] /\ (j # Idle => j.step # "drop")
    <3> PICK j : j = [op |-> op, oid |-> o, step |-> FirstStep(op), answer |-> "none"]
      OBVIOUS
    <3>1. j \in Running /\ j.step # "drop"
      BY DEF Running, FirstStep, Steps
    <3>2. job' = [job EXCEPT ![m] = j]
      BY <2>1 DEF Start
    <3>3. QED BY <3>1, <3>2
  <2>2. CASE Acknowledge(m) \/ Crash(m)
    BY <2>2 DEF Acknowledge, Crash
  <2>3. QED BY <2>1, <2>2
<1>2. UNCHANGED <<live, trash, kept>>
  BY DEF Start, Acknowledge, Crash
<1>3. PICK j \in {Idle} \cup Running : job' = [job EXCEPT ![m] = j] /\ (j # Idle => j.step # "drop")
  BY <1>1
<1>4. \A n \in Mover : job'[n] = IF n = m THEN j ELSE job[n]
  BY <1>3 DEF Typed, TypeOK
<1>5. TypeOK'
  BY <1>2, <1>3 DEF Typed, TypeOK
<1>6. \A n \in Mover : At(n, "drop")' => job'[n].answer # "none"
  BY <1>3, <1>4 DEF Typed, At, Busy
<1>7. QED BY <1>2, <1>4, <1>5, <1>6 DEF Typed

LEMMA MoveTypes ==
  ASSUME Typed, NEW m \in Mover, Moves(m)
  PROVE  /\ Typed'
         /\ \A n \in Mover \ {m} : job'[n] = job[n]
<1>1. PICK j \in Running \cup Finished : job' = [job EXCEPT ![m] = j] /\ (j.step = "drop" => j.answer # "none")
  BY MoveEffect
<1>2. \A n \in Mover : job'[n] = IF n = m THEN j ELSE job[n]
  BY <1>1 DEF Typed, TypeOK
<1>3. TypeOK'
  BY <1>1, MoveEffect DEF Typed, TypeOK
<1>4. \A n \in Mover : At(n, "drop")' => job'[n].answer # "none"
  BY <1>1, <1>2 DEF Typed, At, Busy
<1>5. QED BY <1>2, <1>3, <1>4 DEF Typed

LEMMA BucketTypes ==
  ASSUME Typed, NEW o \in Oid, Upload(o) \/ Expire(o)
  PROVE  Typed' /\ job' = job
  BY DEF Typed, TypeOK, Upload, Expire, At, Busy

-----------------------------------------------------------------------------
\* The page's operations, and the objects of a request.
Asked == {"trash", "restore", "tier"}
Batch(q) == IF q = None THEN {} ELSE q.todo \cup DOMAIN q.replies

Table ==
  [where : {"live", "trash"}, listing : SUBSET Oid, selected : SUBSET Oid,
   dialog : [kind : Asked, oids : SUBSET Oid] \cup {None}, report : Report \cup {None}]

\* The call j that works for the request q: its object is one the request still has to
\* do, and one that is found locked has not moved.
JobFits(j, q, mine) ==
  j # Idle =>
    /\ q # None /\ q.entry = "none" /\ j.oid \in q.todo
    /\ j.op \in Asked /\ Orderly(j)
    /\ j.op = "trash" /\ j.step \in Early => j.oid \notin mine
    /\ j.answer = "locked" => j.oid \notin mine

\* The request q: none of the objects it still has to do has moved, but that of its call.
RequestFits(j, q, mine) ==
  q # None =>
    /\ q.kind \in Asked
    /\ Cardinality(Batch(q)) <= MaxChanges
    /\ q.todo \cap DOMAIN q.replies = {}
    /\ \A o \in q.todo \cap mine : j # Idle /\ j.oid = o
    /\ \A o \in DOMAIN q.replies \cap mine : q.replies[o] # "locked"
    /\ q.entry = "done" => q.todo = {}

\* The run u: what moved has its result, or is one of the request's.
RunFits(q, u, mine) ==
  u # None =>
    /\ u.kind \in Asked
    /\ u.rest \cap DOMAIN u.results = {}
    /\ Batch(q) \cap u.rest = {} /\ Batch(q) \cap DOMAIN u.results = {}
    /\ mine \subseteq DOMAIN u.results \cup Batch(q)
    /\ \A o \in DOMAIN u.results \cap mine : u.results[o] # "locked"
    /\ q # None /\ q.entry = "refused" => mine \subseteq DOMAIN u.results

\* The report r: what it does not tell of is of the request that went unanswered, which
\* may still go on.
ReportFits(r, q, u, mine) ==
  /\ u = None
  /\ q # None => /\ r.stopped /\ mine \ DOMAIN r.results \subseteq Batch(q)
                 /\ Batch(q) \cap DOMAIN r.results = {}
  /\ mine \ DOMAIN r.results # {} => r.stopped
  /\ Cardinality(mine \ DOMAIN r.results) <= MaxChanges
  /\ \A o \in DOMAIN r.results \cap mine : r.results[o] # "locked"

Fits(j, q, u, mine) == JobFits(j, q, mine) /\ RequestFits(j, q, mine) /\ RunFits(q, u, mine)

ReportOf(r) == r # None => ReportFits(r, request[r.by], runOf[r.by], moved[r.by])

\* The inductive invariant of the page.
PageInv ==
  /\ Typed
  /\ page \in Table
  /\ runOf \in [Tab -> Run \cup {None}]
  /\ request \in [Tab -> Request \cup {None}]
  /\ moved \in [Tab -> SUBSET Oid]
  /\ \A m \in Tab : Fits(job[m], request[m], runOf[m], moved[m])
  /\ ReportOf(page.report)

\* The objects of a request are finitely many.
LEMMA BatchFinite ==
  ASSUME NEW q \in Request \cup {None}
  PROVE  Batch(q) \subseteq Oid /\ IsFiniteSet(Batch(q)) /\ Cardinality(Batch(q)) \in Nat
<1>1. ASSUME q # None PROVE DOMAIN q.replies \subseteq Oid /\ q.todo \subseteq Oid
  <2>1. q.replies \in Results /\ q.todo \subseteq Oid
    BY <1>1 DEF Request
  <2>2. QED BY <2>1 DEF Results
<1>2. Batch(q) \subseteq Oid
  BY <1>1 DEF Batch
<1>3. QED BY <1>2, AdminPageAssumption, FS_Subset, FS_CardinalityType

\* A step of one run or of its request: the others stay as they are, and the report
\* is the old one or this run's.
LEMMA TabKept ==
  ASSUME PageInv, Typed', NEW m \in Tab,
         NEW q \in Request \cup {None}, NEW u \in Run \cup {None}, NEW mine \in SUBSET Oid,
         \A n \in Tab \ {m} : job'[n] = job[n],
         request' = [request EXCEPT ![m] = q], runOf' = [runOf EXCEPT ![m] = u],
         moved' = [moved EXCEPT ![m] = mine],
         Fits(job'[m], q, u, mine),
         page' \in Table,
         page'.report # None /\ page'.report.by = m => ReportFits(page'.report, q, u, mine),
         page'.report # None /\ page'.report.by # m => page'.report = page.report
  PROVE  PageInv'
<1>1. /\ request' \in [Tab -> Request \cup {None}] /\ runOf' \in [Tab -> Run \cup {None}]
      /\ moved' \in [Tab -> SUBSET Oid]
  BY DEF PageInv
<1>2. request'[m] = q /\ runOf'[m] = u /\ moved'[m] = mine
  BY DEF PageInv
<1>3. \A n \in Tab \ {m} : request'[n] = request[n] /\ runOf'[n] = runOf[n] /\ moved'[n] = moved[n]
  BY DEF PageInv
<1>4. ASSUME NEW n \in Tab PROVE Fits(job[n], request[n], runOf[n], moved[n])'
  <2>1. CASE n = m
    BY <1>2, <2>1 DEF Fits
  <2>2. CASE n # m
    BY <1>3, <2>2 DEF PageInv
  <2>3. QED BY <2>1, <2>2
<1>5. ReportOf(page.report)'
  <2> SUFFICES ASSUME page'.report # None
               PROVE  ReportFits(page.report, request[page.report.by], runOf[page.report.by],
                                 moved[page.report.by])'
    BY DEF ReportOf
  <2>1. page'.report.by \in Tab
    BY DEF Table, Report
  <2>2. CASE page'.report.by = m
    BY <1>2, <2>2 DEF ReportFits
  <2>3. CASE page'.report.by # m
    BY <1>3, <2>1, <2>3 DEF PageInv, ReportOf
  <2>4. QED BY <2>2, <2>3
<1>6. QED BY <1>1, <1>4, <1>5 DEF PageInv

\* Nothing is known of what the page leaves alone that was not known before.
LEMMA TabOf ==
  ASSUME PageInv, NEW m \in Tab
  PROVE  /\ m \in Mover /\ Typed /\ page \in Table
         /\ request[m] \in Request \cup {None} /\ runOf[m] \in Run \cup {None} /\ moved[m] \in SUBSET Oid
         /\ JobFits(job[m], request[m], moved[m]) /\ RequestFits(job[m], request[m], moved[m])
         /\ RunFits(request[m], runOf[m], moved[m])
         /\ page.report # None /\ page.report.by = m => ReportFits(page.report, request[m], runOf[m], moved[m])
         /\ request = [request EXCEPT ![m] = request[m]]
         /\ runOf = [runOf EXCEPT ![m] = runOf[m]]
         /\ moved = [moved EXCEPT ![m] = moved[m]]
  BY AdminPageAssumption DEF PageInv, Fits, ReportOf

LEMMA TypedStays == Typed /\ UNCHANGED vars => Typed'
  BY DEF Typed, TypeOK, vars, At, Busy

LEMMA PageInitInv == Init /\ PageInit => PageInv
<1> SUFFICES ASSUME Init, PageInit PROVE PageInv
  OBVIOUS
<1>1. Typed
  BY DEF Init, Typed, TypeOK, At, Busy
<1>2. page \in Table /\ page.report = None
  BY <1>1 DEF PageInit, Mounted, Table, Typed, TypeOK
<1>3. ASSUME NEW m \in Tab PROVE Fits(job[m], request[m], runOf[m], moved[m])
  BY AdminPageAssumption DEF Init, PageInit, Fits, JobFits, RequestFits, RunFits
<1>4. QED BY <1>1, <1>2, <1>3 DEF PageInit, PageInv, ReportOf

\* The person's steps before a run, and another tab or page.
LEMMA PersonInv ==
  ASSUME PageInv,
         \/ (\E o \in Oid : Toggle(o)) \/ (\E kind \in Ops : Ask(kind)) \/ Cancel
         \/ (\E where \in {"live", "trash"} : Browse(where))
  PROVE  PageInv'
<1>1. Typed'
  BY TypedStays DEF PageInv, Toggle, Ask, Cancel, Browse
<1>2. ASSUME page' \in Table, page'.report = page.report, UNCHANGED <<runOf, request, moved, vars>>
      PROVE  PageInv'
  BY <1>1, <1>2 DEF PageInv, ReportOf, ReportFits, vars
<1>3. ASSUME NEW o \in Oid, Toggle(o) PROVE PageInv'
  <2>1. page' \in Table /\ page'.report = page.report
    BY <1>3 DEF PageInv, Toggle, Table
  <2>2. QED BY <1>2, <1>3, <2>1 DEF Toggle
<1>4. ASSUME NEW kind \in Ops, Ask(kind) PROVE PageInv'
  <2>1. kind \in Asked
    BY <1>4 DEF Ask, Kinds, Asked
  <2> PICK asks : asks = [kind |-> kind, oids |-> page.listing \cap page.selected]
    OBVIOUS
  <2>2. page \in Table /\ asks \in [kind : Asked, oids : SUBSET Oid]
    BY <2>1 DEF PageInv, Table
  <2>3. page' = [page EXCEPT !.dialog = asks]
    BY <1>4 DEF Ask
  <2>4. page' \in Table /\ page'.report = page.report
    BY <2>2, <2>3 DEF Table
  <2>5. QED BY <1>2, <1>4, <2>4 DEF Ask
<1>5. CASE Cancel
  <2>1. page' \in Table /\ page'.report = page.report
    BY <1>5 DEF PageInv, Cancel, Table
  <2>2. QED BY <1>2, <1>5, <2>1 DEF Cancel
<1>6. ASSUME NEW where \in {"live", "trash"}, Browse(where) PROVE PageInv'
  <2>1. page' \in Table /\ page'.report = None
    BY <1>6 DEF PageInv, Browse, Mounted, Stored, Table, Typed, TypeOK
  <2>2. UNCHANGED <<request, moved, vars>>
    BY <1>6 DEF Browse
  <2>3. ASSUME NEW m \in Tab
        PROVE  /\ runOf'[m] \in Run \cup {None}
               /\ RunFits(request[m], runOf'[m], moved[m])
    <3> PICK u : u = runOf[m]
      OBVIOUS
    <3>1. runOf'[m] = IF u = None THEN None ELSE [u EXCEPT !.shown = FALSE]
      BY <1>6, <2>3 DEF Browse
    <3>2. u \in Run \cup {None} /\ RunFits(request[m], u, moved[m])
      BY TabOf
    <3>3. CASE u = None
      BY <3>1, <3>2, <3>3
    <3>4. CASE u # None
      <4> PICK new : new = [u EXCEPT !.shown = FALSE]
        OBVIOUS
      <4>1. new \in Run /\ new.kind = u.kind /\ new.rest = u.rest /\ new.results = u.results
        BY <3>2, <3>4 DEF Run
      <4>2. RunFits(request[m], new, moved[m])
        BY <3>2, <3>4, <4>1 DEF RunFits
      <4>3. QED BY <3>1, <3>4, <4>1, <4>2
    <3>5. QED BY <3>3, <3>4
  <2>4. runOf' \in [Tab -> Run \cup {None}]
    BY <1>6, <2>3 DEF Browse
  <2>5. ASSUME NEW m \in Tab PROVE Fits(job[m], request[m], runOf[m], moved[m])'
    <3>1. Fits(job[m], request[m], runOf'[m], moved[m])
      BY <2>3, TabOf DEF Fits
    <3>2. QED BY <2>2, <3>1 DEF vars
  <2>6. QED BY <1>1, <2>1, <2>2, <2>4, <2>5 DEF PageInv, ReportOf
<1>7. QED BY <1>3, <1>4, <1>5, <1>6

LEMMA NothingFits == Nothing \in Results /\ DOMAIN Nothing = {}
  BY DEF Nothing, Results

\* The results of a run, and those of the request it adds to them.
LEMMA OverFits ==
  ASSUME NEW new \in Results, NEW old \in Results
  PROVE  /\ Over(new, old) \in Results
         /\ DOMAIN Over(new, old) = DOMAIN new \cup DOMAIN old
         /\ \A o \in DOMAIN new : Over(new, old)[o] = new[o]
         /\ \A o \in DOMAIN old : o \notin DOMAIN new => Over(new, old)[o] = old[o]
<1> PICK S \in SUBSET Oid : S = DOMAIN new \cup DOMAIN old
  BY DEF Results
<1>1. \A o \in S : (IF o \in DOMAIN new THEN new[o] ELSE old[o]) \in Outcomes
  BY DEF Results
<1>2. Over(new, old) = [o \in S |-> IF o \in DOMAIN new THEN new[o] ELSE old[o]]
  BY DEF Over
<1>3. Over(new, old) \in [S -> Outcomes]
  BY <1>1, <1>2
<1>4. Over(new, old) \in Results
  BY <1>3 DEF Results
<1>5. QED BY <1>2, <1>4

\* A run starts, of the dialog's objects or of those to undo.
LEMMA BeginInv ==
  ASSUME PageInv, NEW m \in Tab, Confirm(m) \/ Undo(m)
  PROVE  PageInv'
<1>1. PICK kind \in Asked, oids \in SUBSET Oid : Begin(m, kind, oids)
  <2>1. CASE Confirm(m)
    <3>1. page.dialog \in [kind : Asked, oids : SUBSET Oid]
      BY <2>1 DEF PageInv, Table, Confirm
    <3>2. QED BY <2>1, <3>1 DEF Confirm
  <2>2. CASE Undo(m)
    <3>1. page.report \in Report
      BY <2>2 DEF PageInv, Table, Undo
    <3>2. page.report.results \in Results
      BY <3>1 DEF Report
    <3>3. Reported("trashed") \in SUBSET Oid
      BY <3>2 DEF Reported, Results
    <3>4. QED BY <2>2, <3>3 DEF Undo, Asked
  <2>3. QED BY <2>1, <2>2
<1> PICK u : u = [kind |-> kind, rest |-> oids, results |-> Nothing, shown |-> TRUE]
  OBVIOUS
<1>2. /\ runOf[m] = None /\ request[m] = None /\ runOf' = [runOf EXCEPT ![m] = u]
      /\ page' = [page EXCEPT !.dialog = None, !.report = None]
      /\ moved' = [moved EXCEPT ![m] = {}]
      /\ UNCHANGED <<request, vars>>
  BY <1>1 DEF Begin
<1>3. u \in Run /\ u.kind = kind /\ u.rest = oids /\ u.results = Nothing
  BY NothingFits, AdminPageAssumption DEF Run, Asked
<1>4. page' \in Table /\ page'.report = None
  BY <1>2, TabOf DEF Table
<1>5. job' = job /\ job[m] = Idle
  BY <1>2, TabOf DEF JobFits, vars
<1>6. Fits(job'[m], request[m], u, {})
  BY <1>2, <1>3, <1>5, NothingFits DEF Fits, JobFits, RequestFits, RunFits, Batch
<1>7. Typed'
  BY <1>2, TypedStays DEF PageInv
<1>8. request' = [request EXCEPT ![m] = request[m]]
  BY <1>2, TabOf
<1> PICK q : q = request[m]
  OBVIOUS
<1>9. q \in Request \cup {None} /\ {} \in SUBSET Oid
  BY TabOf
<1>10. QED BY <1>2, <1>3, <1>4, <1>5, <1>6, <1>7, <1>8, <1>9, TabKept

\* The next objects go out in a request; each goes in one request at most.
LEMMA SendInv ==
  ASSUME PageInv, NEW m \in Tab, Send(m)
  PROVE  PageInv'
<1> PICK old, mine : old = runOf[m] /\ mine = moved[m]
  OBVIOUS
<1>1. /\ old # None /\ old \in Run /\ request[m] = None /\ mine \in SUBSET Oid
      /\ JobFits(job[m], request[m], mine) /\ RunFits(request[m], old, mine)
  BY TabOf DEF Send
<1>2. PICK batch \in Batches(old.rest) \ {{}} :
        /\ request' = [request EXCEPT ![m] = [kind |-> old.kind, todo |-> batch,
                                              replies |-> Nothing, entry |-> "none"]]
        /\ runOf' = [runOf EXCEPT ![m].rest = @ \ batch]
  BY DEF Send
<1> PICK q : q = [kind |-> old.kind, todo |-> batch, replies |-> Nothing, entry |-> "none"]
  OBVIOUS
<1> PICK u : u = [old EXCEPT !.rest = old.rest \ batch]
  OBVIOUS
<1>3. UNCHANGED <<page, moved, runs, vars>>
  BY DEF Send
<1>4. old.rest \in SUBSET Oid /\ old.kind \in Ops
  BY <1>1 DEF Run
<1>5. batch \subseteq old.rest /\ Cardinality(batch) <= MaxChanges
  <2>1. IsFiniteSet(old.rest) /\ Cardinality(old.rest) \in Nat
    BY <1>4, AdminPageAssumption, FS_Subset, FS_CardinalityType
  <2>2. batch \in SUBSET old.rest /\ Cardinality(batch) = Fewer(MaxChanges, Cardinality(old.rest))
    BY <1>2 DEF Batches, kSubset
  <2>3. QED BY <2>1, <2>2, AdminPageAssumption DEF Fewer
<1>6. q \in Request /\ q.kind = old.kind /\ q.todo = batch /\ q.replies = Nothing /\ q.entry = "none"
  BY <1>4, <1>5, NothingFits DEF Request
<1>7. /\ u \in Run /\ u.kind = old.kind /\ u.rest = old.rest \ batch /\ u.results = old.results
      /\ runOf' = [runOf EXCEPT ![m] = u] /\ request' = [request EXCEPT ![m] = q]
  BY <1>1, <1>2, <1>4 DEF Run
<1>8. job' = job /\ job[m] = Idle
  BY <1>1, <1>3 DEF JobFits, vars
<1>9. mine \subseteq DOMAIN old.results
  BY <1>1 DEF RunFits, Batch
<1>10. q = None \/ Batch(q) = batch
  BY <1>6, NothingFits DEF Batch
<1>11. Batch(q) \subseteq batch /\ DOMAIN q.replies = {}
  BY <1>6, <1>10, NothingFits DEF Batch
<1>12. RequestFits(Idle, q, mine)
  BY <1>1, <1>5, <1>6, <1>9, <1>10, <1>11 DEF RequestFits, RunFits
<1>13. RunFits(q, u, mine)
  BY <1>1, <1>5, <1>6, <1>7, <1>9, <1>11 DEF RunFits
<1>14. Fits(job'[m], q, u, mine)
  BY <1>8, <1>12, <1>13 DEF Fits, JobFits
<1>15. Typed' /\ page' = page /\ page \in Table
  BY <1>3, TypedStays DEF PageInv
<1>16. page.report # None => page.report.by # m
  BY <1>1, TabOf DEF ReportFits
<1>17. moved' = [moved EXCEPT ![m] = mine]
  BY <1>3, TabOf
<1>18. QED BY <1>1, <1>6, <1>7, <1>8, <1>14, <1>15, <1>16, <1>17, TabKept

\* A run that stopped tells so, and what it leaves out is of its last request.
LEMMA StoppedFits ==
  ASSUME PageInv, NEW m \in Tab, runOf[m] # None, NEW r,
         r.results = runOf[m].results, r.stopped = TRUE,
         NEW q \in {request[m], None}
  PROVE  ReportFits(r, q, None, moved[m])
<1> PICK u, mine : u = runOf[m] /\ mine = moved[m]
  OBVIOUS
<1> PICK last : last = request[m]
  OBVIOUS
<1>1. /\ last \in Request \cup {None} /\ mine \subseteq DOMAIN u.results \cup Batch(last)
      /\ Batch(last) \cap DOMAIN u.results = {}
      /\ \A o \in DOMAIN u.results \cap mine : u.results[o] # "locked"
      /\ last # None => Cardinality(Batch(last)) <= MaxChanges
  BY TabOf DEF RunFits, RequestFits
<1>2. mine \ DOMAIN u.results \subseteq Batch(last)
  BY <1>1
<1>3. Cardinality(mine \ DOMAIN u.results) <= MaxChanges
  <2>1. IsFiniteSet(Batch(last)) /\ Cardinality(Batch(last)) \in Nat
    BY <1>1, BatchFinite
  <2>2. Cardinality(mine \ DOMAIN u.results) \in Nat
        /\ Cardinality(mine \ DOMAIN u.results) <= Cardinality(Batch(last))
    BY <1>2, <2>1, FS_Subset, FS_CardinalityType
  <2>3. CASE last # None
    BY <1>1, <2>1, <2>2, <2>3, AdminPageAssumption
  <2>4. CASE last = None
    <3>1. Cardinality(Batch(last)) = 0
      BY <2>4, FS_EmptySet DEF Batch
    <3>2. QED BY <2>1, <2>2, <3>1, AdminPageAssumption
  <2>5. QED BY <2>3, <2>4
<1>4. q # None => q = last
  OBVIOUS
<1>5. QED BY <1>1, <1>2, <1>3, <1>4 DEF ReportFits

\* A run ends with a report, which the page shows if it knows of the run.
LEMMA EndedKept ==
  ASSUME PageInv, Typed', NEW m \in Tab, runOf[m] # None, NEW stopped \in BOOLEAN,
         NEW q \in {request[m], None},
         \A n \in Tab \ {m} : job'[n] = job[n],
         request' = [request EXCEPT ![m] = q], runOf' = [runOf EXCEPT ![m] = None],
         moved' = moved,
         JobFits(job'[m], q, moved[m]), RequestFits(job'[m], q, moved[m]),
         page' \in Table, page'.report = Reporting(m, stopped),
         stopped \/ (q = None /\ moved[m] \subseteq DOMAIN runOf[m].results)
  PROVE  PageInv'
<1> PICK u, mine : u = runOf[m] /\ mine = moved[m]
  OBVIOUS
<1>1. u \in Run /\ mine \in SUBSET Oid /\ q \in Request \cup {None} /\ RunFits(request[m], u, mine)
  BY TabOf
<1>2. moved' = [moved EXCEPT ![m] = mine]
  BY TabOf
<1>3. Fits(job'[m], q, None, mine)
  BY DEF Fits, RunFits
<1>4. CASE ~u.shown
  <2>1. page'.report = page.report
    BY <1>4 DEF Reporting
  <2>2. page.report # None => page.report.by # m
    BY TabOf DEF ReportFits
  <2>3. QED BY <1>1, <1>2, <1>3, <2>1, <2>2, TabKept
<1>5. CASE u.shown
  <2> PICK r : r = [by |-> m, kind |-> u.kind, results |-> u.results, stopped |-> stopped]
    OBVIOUS
  <2>1. page'.report = r /\ r.by = m /\ r.results = u.results /\ r.stopped = stopped
    BY <1>5 DEF Reporting
  <2>2. ReportFits(r, q, None, mine)
    <3>1. CASE stopped
      <4>1. stopped = TRUE
        BY <3>1
      <4>2. QED BY <2>1, <4>1, StoppedFits
    <3>2. CASE q = None /\ mine \subseteq DOMAIN u.results
      <4>1. mine \ DOMAIN r.results = {}
        BY <2>1, <3>2
      <4>2. Cardinality(mine \ DOMAIN r.results) = 0
        BY <4>1, FS_EmptySet
      <4>3. Cardinality(mine \ DOMAIN r.results) <= MaxChanges
        BY <4>2, AdminPageAssumption
      <4>4. QED BY <1>1, <2>1, <3>2, <4>1, <4>3 DEF ReportFits, RunFits
    <3>3. QED BY <3>1, <3>2
  <2>3. ReportFits(page'.report, q, None, mine) /\ page'.report.by = m
    BY <2>1, <2>2
  <2>4. QED BY <1>1, <1>2, <1>3, <2>3, TabKept
<1>6. QED BY <1>4, <1>5

LEMMA ReportMade ==
  ASSUME PageInv, NEW m \in Tab, runOf[m] # None, NEW stopped \in BOOLEAN
  PROVE  Reporting(m, stopped) \in Report \cup {None}
<1>1. runOf[m] \in Run /\ page \in Table
  BY TabOf
<1>2. CASE runOf[m].shown
  BY <1>1, <1>2 DEF Reporting, Report, Run
<1>3. CASE ~runOf[m].shown
  BY <1>1, <1>3 DEF Reporting, Table
<1>4. QED BY <1>2, <1>3

\* The connection breaks, or the run has had all its answers.
LEMMA RunEndsInv ==
  ASSUME PageInv, NEW m \in Tab, LoseAnswer(m) \/ Finish(m)
  PROVE  PageInv'
<1>1. runOf[m] # None /\ UNCHANGED <<request, moved, runs, vars>> /\ runOf' = [runOf EXCEPT ![m] = None]
  BY DEF LoseAnswer, Finish, AfterFailure
<1>2. Typed' /\ job' = job
  BY <1>1, TypedStays DEF PageInv, vars
<1> PICK q : q = request[m]
  OBVIOUS
<1>3. request' = [request EXCEPT ![m] = q]
  BY <1>1, TabOf
<1>4. JobFits(job'[m], q, moved[m]) /\ RequestFits(job'[m], q, moved[m])
  BY <1>2, TabOf
<1>5. page \in Table
  BY DEF PageInv
<1>6. CASE LoseAnswer(m)
  <2> PICK report \in Report \cup {None} : report = Reporting(m, TRUE)
    BY <1>1, ReportMade
  <2>1. page' = [page EXCEPT !.report = report]
    BY <1>6 DEF LoseAnswer, AfterFailure
  <2>2. page' \in Table /\ page'.report = Reporting(m, TRUE)
    BY <1>5, <2>1 DEF Table
  <2>3. QED BY <1>1, <1>2, <1>3, <1>4, <2>2, EndedKept
<1>7. CASE Finish(m)
  <2> PICK report \in Report \cup {None} : report = Reporting(m, FALSE)
    BY <1>1, ReportMade
  <2> PICK listing \in SUBSET Oid, selected \in SUBSET Oid :
        page' = [page EXCEPT !.report = report, !.listing = listing, !.selected = selected]
    BY <1>5, <1>7 DEF Finish, Stored, PageInv, Typed, TypeOK, Table
  <2>1. page' \in Table /\ page'.report = Reporting(m, FALSE)
    BY <1>5 DEF Table
  <2>2. q = None /\ moved[m] \subseteq DOMAIN runOf[m].results
    BY <1>7, TabOf DEF Finish, RunFits, Batch
  <2>3. QED BY <1>1, <1>2, <1>3, <1>4, <2>1, <2>2, EndedKept
<1>8. QED BY <1>6, <1>7

\* An answer arrives: its results are the run's, or it says that nothing was done.
LEMMA ReceiveInv ==
  ASSUME PageInv, NEW m \in Tab, Receive(m)
  PROVE  PageInv'
<1> PICK old, last, mine : old = runOf[m] /\ last = request[m] /\ mine = moved[m]
  OBVIOUS
<1>1. /\ old # None /\ last # None /\ last.entry # "none"
      /\ request' = [request EXCEPT ![m] = None] /\ UNCHANGED <<moved, runs, vars>>
  BY DEF Receive
<1>2. /\ old \in Run /\ last \in Request /\ mine \in SUBSET Oid /\ page \in Table
      /\ JobFits(job[m], last, mine) /\ RequestFits(job[m], last, mine) /\ RunFits(last, old, mine)
  BY <1>1, TabOf
<1>3. Typed' /\ job' = job /\ job'[m] = Idle
  BY <1>1, <1>2, TypedStays DEF PageInv, vars, JobFits
<1>4. JobFits(job'[m], None, mine) /\ RequestFits(job'[m], None, mine)
  BY <1>3 DEF JobFits, RequestFits
<1>5. CASE last.todo # {}
  <2>1. runOf' = [runOf EXCEPT ![m] = None]
    BY <1>5 DEF Receive, AfterFailure
  <2> PICK report \in Report \cup {None} : report = Reporting(m, TRUE)
    BY <1>1, ReportMade
  <2>2. page' = [page EXCEPT !.report = report]
    BY <1>5 DEF Receive, AfterFailure
  <2>3. page' \in Table /\ page'.report = Reporting(m, TRUE)
    BY <1>2, <2>2 DEF Table
  <2>4. QED BY <1>1, <1>3, <1>4, <2>1, <2>3, EndedKept
<1>6. CASE last.todo = {}
  <2> PICK results : results = Over(last.replies, old.results)
    OBVIOUS
  <2> PICK u : u = [old EXCEPT !.results = results]
    OBVIOUS
  <2>1. runOf' = [runOf EXCEPT ![m] = u] /\ page' = page
    BY <1>6 DEF Receive
  <2>2. last.replies \in Results /\ old.results \in Results
    BY <1>2 DEF Request, Run
  <2>3. /\ results \in Results /\ DOMAIN results = DOMAIN last.replies \cup DOMAIN old.results
        /\ \A o \in DOMAIN last.replies : results[o] = last.replies[o]
        /\ \A o \in DOMAIN old.results : o \notin DOMAIN last.replies => results[o] = old.results[o]
    <3> PICK new \in Results, before \in Results : new = last.replies /\ before = old.results
      BY <2>2
    <3>1. results = Over(new, before)
      OBVIOUS
    <3>2. /\ Over(new, before) \in Results /\ DOMAIN Over(new, before) = DOMAIN new \cup DOMAIN before
          /\ \A o \in DOMAIN new : Over(new, before)[o] = new[o]
          /\ \A o \in DOMAIN before : o \notin DOMAIN new => Over(new, before)[o] = before[o]
      BY OverFits
    <3>3. QED BY <3>1, <3>2, Zenon
  <2>4. u \in Run /\ u.kind = old.kind /\ u.rest = old.rest /\ u.results = results
    BY <1>2, <2>3 DEF Run
  <2>5. Batch(last) = DOMAIN last.replies
    BY <1>1, <1>6 DEF Batch
  <2>6. ASSUME NEW o \in DOMAIN results \cap mine PROVE results[o] # "locked"
    <3>1. CASE o \in DOMAIN last.replies
      BY <1>1, <1>2, <2>3, <2>6, <3>1 DEF RequestFits
    <3>2. CASE o \notin DOMAIN last.replies
      BY <1>1, <1>2, <2>3, <2>6, <3>2 DEF RunFits
    <3>3. QED BY <3>1, <3>2
  <2>7. RunFits(None, u, mine)
    BY <1>1, <1>2, <2>3, <2>4, <2>5, <2>6 DEF RunFits, Batch
  <2>8. Fits(job'[m], None, u, mine)
    BY <1>4, <2>7 DEF Fits
  <2>9. page.report # None => page.report.by # m
    BY <1>1, TabOf DEF ReportFits
  <2>10. moved' = [moved EXCEPT ![m] = mine]
    BY <1>1, TabOf
  <2>11. QED BY <1>1, <1>2, <1>3, <2>1, <2>4, <2>8, <2>9, <2>10, TabKept
<1>7. QED BY <1>5, <1>6

-----------------------------------------------------------------------------
(* The requests, in the Worker. *)

\* A step of one request: the run and the page stay as they are.
LEMMA RequestKept ==
  ASSUME PageInv, Typed', NEW m \in Tab, NEW q \in Request \cup {None}, NEW mine \in SUBSET Oid,
         request[m] # None, q # None => Batch(q) = Batch(request[m]),
         \A n \in Tab \ {m} : job'[n] = job[n],
         request' = [request EXCEPT ![m] = q], UNCHANGED <<page, runOf>>,
         moved' = [moved EXCEPT ![m] = mine],
         mine \subseteq moved[m] \cup Batch(q), moved[m] \subseteq mine,
         JobFits(job'[m], q, mine), RequestFits(job'[m], q, mine),
         RunFits(q, runOf[m], mine)
  PROVE  PageInv'
<1> PICK u, old, last : u = runOf[m] /\ old = moved[m] /\ last = request[m]
  OBVIOUS
<1>1. /\ last \in Request \cup {None} /\ page \in Table /\ u \in Run \cup {None} /\ runOf' = [runOf EXCEPT ![m] = u]
      /\ RequestFits(job[m], last, old)
      /\ page.report # None /\ page.report.by = m => ReportFits(page.report, last, u, old)
  BY TabOf
<1>2. Fits(job'[m], q, u, mine)
  BY DEF Fits
<1>3. ASSUME page.report # None, page.report.by = m PROVE ReportFits(page.report, q, u, mine)
  <2> PICK r : r = page.report
    OBVIOUS
  <2>1. /\ u = None /\ r.stopped
        /\ old \ DOMAIN r.results \subseteq Batch(last) /\ Batch(last) \cap DOMAIN r.results = {}
        /\ \A o \in DOMAIN r.results \cap old : r.results[o] # "locked"
        /\ Cardinality(old \ DOMAIN r.results) <= MaxChanges
    BY <1>1, <1>3 DEF ReportFits
  <2>2. CASE q = None
    <3>1. mine = old
      BY <2>2 DEF Batch
    <3>2. QED BY <2>1, <2>2, <3>1 DEF ReportFits
  <2>3. CASE q # None
    <3>1. mine \ DOMAIN r.results \subseteq Batch(last) /\ DOMAIN r.results \cap mine \subseteq old
      BY <2>1, <2>3
    <3>2. Cardinality(mine \ DOMAIN r.results) <= MaxChanges
      <4>1. Cardinality(Batch(last)) <= MaxChanges
        BY <1>1 DEF RequestFits
      <4>2. IsFiniteSet(Batch(last)) /\ Cardinality(Batch(last)) \in Nat
        BY <1>1, BatchFinite
      <4>3. Cardinality(mine \ DOMAIN r.results) \in Nat
            /\ Cardinality(mine \ DOMAIN r.results) <= Cardinality(Batch(last))
        BY <3>1, <4>2, FS_Subset, FS_CardinalityType
      <4>4. QED BY <4>1, <4>2, <4>3, AdminPageAssumption
    <3>3. QED BY <2>1, <2>3, <3>1, <3>2 DEF ReportFits
  <2>4. QED BY <2>2, <2>3
<1>4. QED BY <1>1, <1>2, <1>3, TabKept

\* The request is refused, its entry is written, or nobody waits for it any more.
LEMMA EntryInv ==
  ASSUME PageInv, NEW m \in Tab, Refuse(m) \/ Record(m) \/ Unheard(m)
  PROVE  PageInv'
<1> PICK last, u, mine : last = request[m] /\ u = runOf[m] /\ mine = moved[m]
  OBVIOUS
<1>1. last # None /\ UNCHANGED <<page, runOf, moved, runs, vars>>
  BY DEF Refuse, Record, Unheard, Working
<1>2. /\ last \in Request /\ mine \in SUBSET Oid
      /\ JobFits(job[m], last, mine) /\ RequestFits(job[m], last, mine) /\ RunFits(last, u, mine)
      /\ moved' = [moved EXCEPT ![m] = mine]
  BY <1>1, TabOf
<1>3. Typed' /\ job' = job
  BY <1>1, TypedStays DEF PageInv, vars
<1>4. job[m] = Idle
  <2>1. CASE Refuse(m)
    BY <2>1 DEF Refuse
  <2>2. CASE Record(m)
    BY <1>2, <2>2 DEF Record, JobFits
  <2>3. CASE Unheard(m)
    BY <1>2, <2>3 DEF Unheard, JobFits
  <2>4. QED BY <2>1, <2>2, <2>3
<1>5. CASE Unheard(m)
  <2>1. request' = [request EXCEPT ![m] = None] /\ u = None
    BY <1>5 DEF Unheard
  <2>2. JobFits(Idle, None, mine) /\ RequestFits(Idle, None, mine) /\ RunFits(None, u, mine)
    BY <2>1 DEF JobFits, RequestFits, RunFits
  <2>3. QED BY <1>1, <1>2, <1>3, <1>4, <2>1, <2>2, RequestKept
<1>6. ASSUME NEW entry \in {"done", "refused", "lost"}, request' = [request EXCEPT ![m].entry = entry],
             entry = "done" => last.todo = {},
             entry = "refused" => last.replies = Nothing
      PROVE  PageInv'
  <2> PICK q : q = [last EXCEPT !.entry = entry]
    OBVIOUS
  <2>1. request' = [request EXCEPT ![m] = q]
    BY <1>6
  <2>2. /\ q \in Request
        /\ q.kind = last.kind /\ q.todo = last.todo /\ q.replies = last.replies /\ q.entry = entry
    BY <1>2 DEF Request
  <2>3. Batch(q) = Batch(last)
    BY <1>1, <2>2, NoneAssumption DEF Batch
  <2>4. RequestFits(Idle, q, mine)
    BY <1>1, <1>2, <1>4, <1>6, <2>2, <2>3 DEF RequestFits
  <2>5. ASSUME entry = "refused", u # None PROVE mine \subseteq DOMAIN u.results
    <3>1. Batch(last) = last.todo
      BY <1>1, <1>6, <2>5, NothingFits DEF Batch
    <3>2. last.todo \cap mine = {}
      BY <1>1, <1>2, <1>4 DEF RequestFits
    <3>3. QED BY <1>2, <2>5, <3>1, <3>2 DEF RunFits
  <2>6. RunFits(q, u, mine)
    BY <1>2, <2>2, <2>3, <2>5 DEF RunFits
  <2>7. JobFits(job'[m], q, mine)
    BY <1>3, <1>4 DEF JobFits
  <2>8. RequestFits(job'[m], q, mine)
    BY <1>3, <1>4, <2>4
  <2>9. QED BY <1>1, <1>2, <1>3, <2>1, <2>2, <2>3, <2>6, <2>7, <2>8, RequestKept
<1>7. QED BY <1>5, <1>6 DEF Refuse, Record, Written

\* The request takes up an object it has not done yet.
LEMMA TakeInv ==
  ASSUME PageInv, NEW m \in Tab, NEW o \in Oid, Take(m, o)
  PROVE  PageInv'
<1> PICK q, u, mine : q = request[m] /\ u = runOf[m] /\ mine = moved[m]
  OBVIOUS
<1>1. /\ q # None /\ q.entry = "none" /\ o \in q.todo /\ Start(m, q.kind, o)
      /\ UNCHANGED <<page, runOf, request, moved, runs>>
  BY DEF Take, Working, pageVars
<1>2. /\ m \in Mover /\ Typed /\ q \in Request /\ mine \in SUBSET Oid
      /\ JobFits(job[m], q, mine) /\ RequestFits(job[m], q, mine) /\ RunFits(q, u, mine)
      /\ request' = [request EXCEPT ![m] = q] /\ moved' = [moved EXCEPT ![m] = mine]
  BY <1>1, TabOf
<1>3. q.kind \in Asked /\ q.kind \in Ops
  BY <1>1, <1>2, AdminPageAssumption DEF RequestFits, Asked
<1>4. Typed' /\ \A n \in Tab \ {m} : job'[n] = job[n]
  <2>1. Typed' /\ \A n \in Mover \ {m} : job'[n] = job[n]
    BY <1>1, <1>2, <1>3, OtherTypes
  <2>2. QED BY <2>1, AdminPageAssumption
<1> PICK j : j = [op |-> q.kind, oid |-> o, step |-> FirstStep(q.kind), answer |-> "none"]
  OBVIOUS
<1>5. job[m] = Idle /\ job'[m] = j
  BY <1>1, <1>2 DEF Start, Busy, Typed, TypeOK
<1>6. j.op \in Asked /\ j.oid = o /\ Orderly(j) /\ j.answer = "none"
  BY <1>3 DEF Orderly, FirstStep, Asked
<1>7. q.todo \cap mine = {}
  BY <1>1, <1>2, <1>5 DEF RequestFits
<1>8. JobFits(j, q, mine)
  BY <1>1, <1>6, <1>7 DEF JobFits
<1>9. RequestFits(j, q, mine)
  BY <1>2, <1>7 DEF RequestFits
<1>10. JobFits(job'[m], q, mine) /\ RequestFits(job'[m], q, mine)
  BY <1>5, <1>8, <1>9
<1>11. mine \subseteq moved[m] \cup Batch(q) /\ moved[m] \subseteq mine
  OBVIOUS
<1>12. QED BY <1>1, <1>2, <1>4, <1>10, <1>11, RequestKept

\* A step of the request's call, which may move its object.
LEMMA WorkInv ==
  ASSUME PageInv, NEW m \in Tab, Work(m)
  PROVE  PageInv'
<1> PICK q, u, old : q = request[m] /\ u = runOf[m] /\ old = moved[m]
  OBVIOUS
<1> PICK call : call = job[m]
  OBVIOUS
<1>1. Moves(m) /\ UNCHANGED <<page, runOf, request, runs>>
  BY DEF Work
<1>2. /\ m \in Mover /\ Typed /\ q \in Request \cup {None} /\ old \in SUBSET Oid
      /\ JobFits(call, q, old) /\ RequestFits(call, q, old) /\ RunFits(q, u, old)
      /\ request' = [request EXCEPT ![m] = q]
  BY <1>1, TabOf
<1>3. PICK j \in Running \cup Finished :
        /\ job' = [job EXCEPT ![m] = j] /\ j # Idle /\ j.op = call.op /\ j.oid = call.oid
        /\ Orderly(call) => Effect(call, j)
  BY <1>1, <1>2, MoveEffect
<1>4. /\ call # Idle /\ q # None /\ q.entry = "none" /\ call.oid \in q.todo /\ call.op \in Asked
      /\ call.op = "trash" /\ call.step \in Early => call.oid \notin old
      /\ call.answer = "locked" => call.oid \notin old
      /\ Effect(call, j)
  <2>1. call # Idle
    BY <1>1, <1>2, MoveEffect DEF Busy
  <2>2. QED BY <1>2, <1>3, <2>1 DEF JobFits
<1>5. Typed' /\ \A n \in Tab \ {m} : job'[n] = job[n]
  <2>1. Typed' /\ \A n \in Mover \ {m} : job'[n] = job[n]
    BY <1>1, <1>2, MoveTypes
  <2>2. QED BY <2>1, AdminPageAssumption
<1>6. job'[m] = j
  BY <1>2, <1>3 DEF Typed, TypeOK
<1> PICK mine : mine = IF live' = live THEN old ELSE old \cup {call.oid}
  OBVIOUS
<1>7. moved' = [moved EXCEPT ![m] = mine]
  <2>1. CASE live' = live
    BY <2>1, TabOf DEF Work
  <2>2. CASE live' # live
    BY <2>2 DEF Work
  <2>3. QED BY <2>1, <2>2
<1>8. q.todo \subseteq Batch(q) /\ Batch(q) \subseteq Oid
  BY <1>2, <1>4, BatchFinite DEF Batch
<1>9. mine \in SUBSET Oid /\ old \subseteq mine /\ mine \subseteq old \cup {call.oid}
      /\ (live' = live => mine = old)
  BY <1>2, <1>4, <1>8
<1>10. JobFits(j, q, mine)
  BY <1>3, <1>4, <1>9 DEF JobFits, Effect
<1>11. RequestFits(j, q, mine)
  BY <1>2, <1>3, <1>4, <1>9 DEF RequestFits
<1>12. RunFits(q, u, mine)
  BY <1>2, <1>4, <1>8, <1>9 DEF RunFits
<1>13. mine \subseteq moved[m] \cup Batch(q) /\ moved[m] \subseteq mine
  BY <1>4, <1>8, <1>9
<1>14. QED BY <1>1, <1>2, <1>4, <1>5, <1>6, <1>7, <1>9, <1>10, <1>11, <1>12, <1>13, RequestKept

\* The call answers, and its object is one the request has done.
LEMMA CollectInv ==
  ASSUME PageInv, NEW m \in Tab, Collect(m)
  PROVE  PageInv'
<1> PICK last, u, mine : last = request[m] /\ u = runOf[m] /\ mine = moved[m]
  OBVIOUS
<1> PICK call : call = job[m]
  OBVIOUS
<1>1. /\ last # None /\ last.entry = "none" /\ Acknowledge(m)
      /\ UNCHANGED <<page, runOf, moved, runs>>
  BY DEF Collect, Working
<1>2. /\ m \in Mover /\ Typed /\ last \in Request /\ mine \in SUBSET Oid
      /\ JobFits(call, last, mine) /\ RequestFits(call, last, mine) /\ RunFits(last, u, mine)
      /\ moved' = [moved EXCEPT ![m] = mine]
  BY <1>1, TabOf
<1>3. call # Idle /\ call.oid \in last.todo /\ (call.answer = "locked" => call.oid \notin mine)
  BY <1>1, <1>2 DEF Acknowledge, At, Busy, JobFits
<1>4. Typed' /\ \A n \in Tab \ {m} : job'[n] = job[n]
  <2>1. Typed' /\ \A n \in Mover \ {m} : job'[n] = job[n]
    BY <1>1, <1>2, OtherTypes
  <2>2. QED BY <2>1, AdminPageAssumption
<1>5. job'[m] = Idle
  BY <1>1, <1>2 DEF Acknowledge, Typed, TypeOK
<1> PICK reply : reply = [o \in {call.oid} |-> Outcome(call.answer)]
  OBVIOUS
<1> PICK replies : replies = Over(last.replies, reply)
  OBVIOUS
<1>6. last.replies \in Results /\ last.todo \subseteq Oid
  BY <1>2 DEF Request
<1>7. reply \in Results /\ DOMAIN reply = {call.oid} /\ (reply[call.oid] = "locked" => call.answer = "locked")
  <2>1. Outcome(call.answer) \in Outcomes
    BY DEF Outcome, Outcomes
  <2>2. reply \in [{call.oid} -> Outcomes] /\ {call.oid} \in SUBSET Oid
    BY <1>3, <1>6, <2>1
  <2>3. QED BY <2>2 DEF Results, Outcome, Outcomes
<1>8. /\ replies \in Results /\ DOMAIN replies = DOMAIN last.replies \cup {call.oid}
      /\ \A o \in DOMAIN last.replies : replies[o] = last.replies[o]
      /\ call.oid \notin DOMAIN last.replies => replies[call.oid] = reply[call.oid]
  <2> PICK new : new = last.replies
    OBVIOUS
  <2>1. replies = Over(new, reply) /\ new \in Results /\ reply \in Results
    BY <1>6, <1>7
  <2>2. /\ Over(new, reply) \in Results /\ DOMAIN Over(new, reply) = DOMAIN new \cup DOMAIN reply
        /\ \A o \in DOMAIN new : Over(new, reply)[o] = new[o]
        /\ \A o \in DOMAIN reply : o \notin DOMAIN new => Over(new, reply)[o] = reply[o]
    BY ONLY <2>1, OverFits, Zenon
  <2>3. QED BY <1>7, <2>1, <2>2
<1> PICK q : q = [last EXCEPT !.todo = last.todo \ {call.oid}, !.replies = replies]
  OBVIOUS
<1>9. request' = [request EXCEPT ![m] = q]
  BY DEF Collect
<1>10. /\ q \in Request /\ q # None /\ q.kind = last.kind /\ q.entry = last.entry
       /\ q.todo = last.todo \ {call.oid} /\ q.replies = replies
  <2>1. /\ last \in [kind : Ops, todo : SUBSET Oid, replies : Results, entry : {"none", "done", "refused", "lost"}]
        /\ replies \in Results /\ last.todo \ {call.oid} \in SUBSET Oid
    BY <1>2, <1>6, <1>8 DEF Request
  <2>2. /\ q \in [kind : Ops, todo : SUBSET Oid, replies : Results, entry : {"none", "done", "refused", "lost"}]
        /\ q.kind = last.kind /\ q.entry = last.entry
        /\ q.todo = last.todo \ {call.oid} /\ q.replies = replies
    BY <2>1
  <2>3. QED BY <2>2, NoneAssumption DEF Request
<1>11. Batch(q) = Batch(last)
  BY <1>1, <1>3, <1>8, <1>10 DEF Batch
<1>12. call.oid \notin DOMAIN last.replies
  BY <1>1, <1>2, <1>3 DEF RequestFits
<1>13. ASSUME NEW o \in DOMAIN replies \cap mine PROVE replies[o] # "locked"
  <2>1. CASE o = call.oid
    BY <1>3, <1>7, <1>8, <1>12, <1>13, <2>1
  <2>2. CASE o \in DOMAIN last.replies
    BY <1>1, <1>2, <1>8, <1>13, <2>2 DEF RequestFits
  <2>3. QED BY <1>8, <1>13, <2>1, <2>2
<1>14. q.todo \cap mine = {} /\ q.todo \cap DOMAIN q.replies = {}
  BY <1>1, <1>2, <1>3, <1>8, <1>10, <1>12 DEF RequestFits
<1>15. RequestFits(Idle, q, mine)
  BY <1>1, <1>2, <1>10, <1>11, <1>13, <1>14 DEF RequestFits
<1>16. JobFits(job'[m], q, mine) /\ RequestFits(job'[m], q, mine)
  BY <1>5, <1>15 DEF JobFits
<1>17. RunFits(q, u, mine)
  BY <1>1, <1>2, <1>10, <1>11 DEF RunFits
<1>18. QED BY <1>1, <1>2, <1>4, <1>9, <1>10, <1>11, <1>16, <1>17, RequestKept

\* The isolate stops: the request is no more, and its run ends without its answer.
LEMMA EvictInv ==
  ASSUME PageInv, NEW m \in Tab, Evict(m)
  PROVE  PageInv'
<1> PICK mine : mine = moved[m]
  OBVIOUS
<1>1. /\ request[m] # None /\ request' = [request EXCEPT ![m] = None] /\ UNCHANGED <<moved, runs>>
      /\ Crash(m) \/ (job[m] = Idle /\ UNCHANGED vars)
  BY DEF Evict, Working
<1>2. /\ m \in Mover /\ Typed /\ mine \in SUBSET Oid /\ page \in Table
      /\ moved' = [moved EXCEPT ![m] = mine]
  BY <1>1, TabOf
<1>3. Typed' /\ job'[m] = Idle /\ \A n \in Tab \ {m} : job'[n] = job[n]
  <2>1. CASE Crash(m)
    <3>1. Typed' /\ \A n \in Mover \ {m} : job'[n] = job[n]
      BY <1>2, <2>1, OtherTypes
    <3>2. QED BY <1>2, <2>1, <3>1, AdminPageAssumption DEF Crash, Typed, TypeOK
  <2>2. CASE job[m] = Idle /\ UNCHANGED vars
    BY <1>2, <2>2, TypedStays DEF vars
  <2>3. QED BY <1>1, <2>1, <2>2
<1>4. JobFits(job'[m], None, mine) /\ RequestFits(job'[m], None, mine)
  BY <1>3 DEF JobFits, RequestFits
<1>5. CASE runOf[m] = None
  <2>1. UNCHANGED <<page, runOf>>
    BY <1>5 DEF Evict
  <2>2. RunFits(None, runOf[m], mine)
    BY <1>5 DEF RunFits
  <2>3. QED BY <1>1, <1>2, <1>3, <1>4, <2>1, <2>2, RequestKept
<1>6. CASE runOf[m] # None
  <2>1. runOf' = [runOf EXCEPT ![m] = None]
    BY <1>6 DEF Evict, AfterFailure
  <2> PICK report \in Report \cup {None} : report = Reporting(m, TRUE)
    BY <1>6, ReportMade
  <2>2. page' = [page EXCEPT !.report = report]
    BY <1>6 DEF Evict, AfterFailure
  <2>3. page' \in Table /\ page'.report = Reporting(m, TRUE)
    BY <1>2, <2>2 DEF Table
  <2>4. QED BY <1>1, <1>3, <1>4, <1>6, <2>1, <2>3, EndedKept
<1>7. QED BY <1>5, <1>6

\* gc, restore commands, uploads and the lifecycle rule touch nothing of the page's.
LEMMA OthersInv ==
  ASSUME PageInv, Others
  PROVE  PageInv'
<1>1. Typed /\ UNCHANGED <<page, runOf, request, moved, runs>>
  BY DEF PageInv, Others, pageVars
<1>2. Typed' /\ \A m \in Tab : job'[m] = job[m]
  <2>1. ASSUME NEW m \in Mover \ Tab,
               \/ \E op \in Ops, o \in Oid : Start(m, op, o)
               \/ Acknowledge(m) \/ Crash(m)
        PROVE  Typed' /\ \A n \in Tab : job'[n] = job[n]
    <3>1. Typed' /\ \A n \in Mover \ {m} : job'[n] = job[n]
      BY <1>1, <2>1, OtherTypes
    <3>2. QED BY <3>1, AdminPageAssumption
  <2>2. ASSUME NEW m \in Mover \ Tab, Moves(m)
        PROVE  Typed' /\ \A n \in Tab : job'[n] = job[n]
    <3>1. Typed' /\ \A n \in Mover \ {m} : job'[n] = job[n]
      BY <1>1, <2>2, MoveTypes
    <3>2. QED BY <3>1, AdminPageAssumption
  <2>3. ASSUME NEW o \in Oid, Upload(o) \/ Expire(o)
        PROVE  Typed' /\ \A n \in Tab : job'[n] = job[n]
    BY <1>1, <2>3, BucketTypes
  <2>4. QED BY <2>1, <2>2, <2>3 DEF Others
<1>3. \A m \in Tab : Fits(job[m], request[m], runOf[m], moved[m])'
  BY <1>1, <1>2 DEF PageInv
<1>4. QED BY <1>1, <1>2, <1>3 DEF PageInv, ReportOf

-----------------------------------------------------------------------------
LEMMA PageStep == PageInv /\ [PageNext]_<<vars, pageVars>> => PageInv'
<1> SUFFICES ASSUME PageInv, [PageNext]_<<vars, pageVars>> PROVE PageInv'
  OBVIOUS
<1>1. CASE UNCHANGED <<vars, pageVars>>
  <2>1. Typed' /\ UNCHANGED <<page, runOf, request, moved, job>>
    BY <1>1, TypedStays DEF PageInv, pageVars, vars
  <2>2. QED BY <2>1 DEF PageInv, ReportOf
<1>2. ASSUME NEW m \in Tab, Confirm(m) \/ Undo(m) PROVE PageInv'
  BY <1>2, BeginInv
<1>3. ASSUME NEW m \in Tab, LoseAnswer(m) \/ Finish(m) PROVE PageInv'
  BY <1>3, RunEndsInv
<1>4. ASSUME NEW m \in Tab, Refuse(m) \/ Record(m) \/ Unheard(m) PROVE PageInv'
  BY <1>4, EntryInv
<1>5. ASSUME NEW m \in Tab,
             Send(m) \/ Receive(m) \/ (\E o \in Oid : Take(m, o)) \/ Work(m) \/ Collect(m) \/ Evict(m)
      PROVE  PageInv'
  BY <1>5, SendInv, ReceiveInv, TakeInv, WorkInv, CollectInv, EvictInv
<1>6. QED BY <1>1, <1>2, <1>3, <1>4, <1>5, PersonInv, OthersInv DEF PageNext

\* What the invariant says of the report and of the entries.
LEMMA PageTells == PageInv => RunAccounted /\ EntriesTell
<1> SUFFICES ASSUME PageInv PROVE RunAccounted /\ EntriesTell
  OBVIOUS
<1>1. RunAccounted
  BY DEF PageInv, ReportOf, ReportFits, RunAccounted
<1>2. ASSUME NEW m \in Tab, runOf[m] # None, request[m] # None
      PROVE  LET its == moved[m] \ DOMAIN runOf[m].results
             IN /\ request[m].entry = "done" => its \subseteq DOMAIN request[m].replies
                /\ request[m].entry = "refused" => its = {}
  <2>1. RequestFits(job[m], request[m], moved[m]) /\ RunFits(request[m], runOf[m], moved[m])
    BY TabOf
  <2>2. QED BY <1>2, <2>1 DEF RequestFits, RunFits, Batch
<1>3. QED BY <1>1, <1>2 DEF EntriesTell

\* Whatever is lost, refused or stopped, and whoever else works on the objects: a run's
\* report accounts for what the run has moved (repos.$owner.$name.tsx, useAction and the
\* results dialog), for any number of objects, runs and changes per request.
THEOREM RunsAreAccounted == PageSpec => []RunAccounted
<1>1. PageSpec => []PageInv
  BY PageInitInv, PageStep, PTL DEF PageSpec
<1>2. QED BY <1>1, PageTells, PTL

\* The entry of a change covers what the change moved, and that of a refusal is of a
\* request that moved nothing (src/app/admin-audit.ts, audited).
THEOREM EntriesAreTrue == PageSpec => []EntriesTell
<1>1. PageSpec => []PageInv
  BY PageInitInv, PageStep, PTL DEF PageSpec
<1>2. QED BY <1>1, PageTells, PTL

\* The page asks for nothing but steps of the trash procedures.
LEMMA PageMoves ==
  ASSUME PageInv, [PageNext]_<<vars, pageVars>>
  PROVE  [Next]_vars
<1>1. ASSUME NEW m \in Mover, Moves(m) PROVE Next
  BY <1>1 DEF Moves, Next
<1>2. ASSUME NEW m \in Tab, NEW o \in Oid, Take(m, o) PROVE Next
  <2>1. request[m].kind \in Asked
    BY <1>2, TabOf DEF Take, Working, RequestFits
  <2>2. m \in Mover /\ request[m].kind \in Ops
    BY <2>1, AdminPageAssumption DEF Asked
  <2>3. QED BY <1>2, <2>2 DEF Take, Next
<1>3. ASSUME Others PROVE Next
  BY <1>1, <1>3 DEF Others, Next
<1>4. ASSUME NEW m \in Tab, Work(m) \/ Collect(m) PROVE Next
  BY <1>1, <1>4, AdminPageAssumption DEF Work, Collect, Next
<1>5. ASSUME NEW m \in Tab, Evict(m) PROVE [Next]_vars
  BY <1>5, AdminPageAssumption DEF Evict, Next
<1>6. ASSUME NEW m \in Tab,
             \/ Confirm(m) \/ Undo(m) \/ Send(m) \/ Receive(m) \/ LoseAnswer(m) \/ Finish(m)
             \/ Refuse(m) \/ Record(m) \/ Unheard(m)
      PROVE  UNCHANGED vars
  BY <1>6 DEF Confirm, Undo, Begin, Send, Receive, LoseAnswer, Finish, Refuse, Record, Unheard
<1>7. ASSUME \/ (\E where \in {"live", "trash"} : Browse(where)) \/ (\E o \in Oid : Toggle(o))
             \/ (\E kind \in Ops : Ask(kind)) \/ Cancel
      PROVE  UNCHANGED vars
  BY <1>7 DEF Browse, Toggle, Ask, Cancel
<1>8. QED BY <1>2, <1>3, <1>4, <1>5, <1>6, <1>7 DEF PageNext

\* The page implements the trash procedures: whatever the person, the browser and the
\* isolates do, objects move by steps of Trash and no others.
THEOREM PageIsTrash == PageSpec => Spec
<1>1. PageSpec => []PageInv
  BY PageInitInv, PageStep, PTL DEF PageSpec
<1>2. PageInv /\ [PageNext]_<<vars, pageVars>> => [Next]_vars
  BY PageMoves
<1>3. QED BY <1>1, <1>2, PTL DEF PageSpec, Spec

\* So where the movers' work is exclusive, no run of the page, stopped or not, leaves an
\* object in neither place, and what its calls answer is so.
THEOREM PageLosesNothing == Exclusive /\ PageSpec => [](NeverInNeitherPlace /\ AnswersHold)
  BY PageIsTrash, NoObjectLost, AnswersAreTrue, PTL

\* All variables of the trash and of the page keep their types.
THEOREM PageTypesHold == PageSpec => [](TypeOK /\ PageTypes)
<1> DEFINE Counted == runs \in 0..MaxRuns
<1>1. Init /\ PageInit => PageInv /\ Counted
  BY PageInitInv, AdminPageAssumption DEF PageInit
<1>2. PageInv /\ Counted /\ [PageNext]_<<vars, pageVars>> => PageInv' /\ Counted'
  <2>1. [PageNext]_<<vars, pageVars>> => runs' = runs \/ (runs < MaxRuns /\ runs' = runs + 1)
    BY DEF PageNext, pageVars, Browse, Toggle, Ask, Cancel, Confirm, Undo, Begin, Send, Receive, LoseAnswer,
           Finish, Refuse, Take, Work, Collect, Record, Unheard, Evict, Others
  <2>2. Counted /\ [PageNext]_<<vars, pageVars>> => Counted'
    BY <2>1, AdminPageAssumption
  <2>3. QED BY <2>2, PageStep
<1>3. PageInv /\ Counted => TypeOK /\ PageTypes
  BY DEF PageInv, Typed, Table, PageTypes
<1>4. QED BY <1>1, <1>2, <1>3, PTL DEF PageSpec

-----------------------------------------------------------------------------
(* The pages of locks and tokens: an id says one thing for ever. *)

\* What a line says is what the store says of its id, as long as the id is there.
Says(line) == line.id \in spent /\ (line.id \in DOMAIN rows => rows[line.id] = line.says)

\* A change has taken nothing before it is carried out, and its entry is of its result.
Consistent(v) ==
  /\ v.took \subseteq {v.line}
  /\ v.step = "sent" \/ v.step = "found" => v.took = {} /\ v.result = "none" /\ v.entry = "none"
  /\ v.step = "record" => v.entry = "none" /\ v.result # "none"
  /\ v.step = "answered" => v.result # "none" /\ v.entry \in EntryFor(v.result)
  /\ v.entry # "none" => v.result # "none" /\ v.entry \in EntryFor(v.result)
  /\ v.took # {} => v.result \in {"done", "thrown"}
  /\ v.result = "done" => v.line.id \notin DOMAIN rows

\* The inductive invariant of the two pages.
RowsInv ==
  /\ rows \in Partial /\ listed \in Partial
  /\ spent \subseteq Row /\ DOMAIN rows \subseteq spent /\ DOMAIN listed \subseteq spent
  /\ \A id \in DOMAIN rows \cap DOMAIN listed : rows[id] = listed[id]
  /\ asked \in Line \cup {NoRow}
  /\ asked # NoRow => Says(asked) /\ changes < Changes
  /\ changes \in 0..Changes
  /\ change \in Seq(Change) /\ Len(change) = changes
  /\ \A c \in 1..changes : Says(change[c].line) /\ Consistent(change[c])

\* What Partial is, one function at a time.
LEMMA PartialElement ==
  ASSUME NEW f \in Partial
  PROVE  /\ DOMAIN f \subseteq Row /\ f = [i \in DOMAIN f |-> f[i]]
         /\ \A i \in DOMAIN f : f[i] \in Reading
  BY DEF Partial

LEMMA PartialMade ==
  ASSUME NEW S \in SUBSET Row, NEW f \in [S -> Reading]
  PROVE  f \in Partial /\ DOMAIN f = S
  BY DEF Partial

\* A step of one change: that change keeps its line and is consistent, the others stay.
LEMMA ChangeKept ==
  ASSUME RowsInv, NEW c \in 1..changes, NEW v \in Change, v.line = change[c].line, Consistent(v),
         change' = [change EXCEPT ![c] = v],
         UNCHANGED <<rows, spent, listed, asked, changes>>
  PROVE  RowsInv'
<1>1. change' \in Seq(Change) /\ Len(change') = changes'
  BY DEF RowsInv
<1>2. ASSUME NEW d \in 1..changes PROVE Says(change[d].line)' /\ Consistent(change[d])'
  <2>1. CASE d = c
    <3>1. change'[d] = v
      BY <2>1 DEF RowsInv
    <3>2. Says(v.line)
      BY DEF RowsInv
    <3>3. QED BY <3>1, <3>2 DEF Says, Consistent
  <2>2. CASE d # c
    <3>1. change'[d] = change[d]
      BY <2>2 DEF RowsInv
    <3>2. QED BY <3>1 DEF RowsInv, Says, Consistent
  <2>3. QED BY <2>1, <2>2
<1>3. QED BY <1>1, <1>2 DEF RowsInv, Says

\* What has gone stays gone: a step that takes rows away keeps what the lines say.
LEMMA SaysKept ==
  ASSUME NEW line, Says(line), spent \subseteq spent',
         \A id \in DOMAIN rows' : id \in DOMAIN rows /\ rows'[id] = rows[id]
  PROVE  Says(line)'
  BY DEF Says

LEMMA RowsInitInv == RowsInit => RowsInv
  BY AdminRowsAssumption, PartialElement DEF RowsInit, RowsInv

\* The person's steps on the lists and the dialog.
LEMMA LookingInv ==
  ASSUME RowsInv,
         Load \/ CancelRow \/ ConfirmRow \/ \E id \in Row : AskRow(id)
  PROVE  RowsInv'
<1>1. CASE Load
  BY <1>1 DEF Load, RowsInv, Says, Consistent
<1>2. CASE CancelRow
  BY <1>2 DEF CancelRow, RowsInv, Says, Consistent
<1>3. ASSUME NEW id \in Row, AskRow(id) PROVE RowsInv'
  <2>1. asked' \in Line /\ Says(asked)'
    BY <1>3, PartialElement DEF AskRow, RowsInv, Line, Says
  <2>2. QED BY <1>3, <2>1 DEF AskRow, RowsInv, Says, Consistent
<1>4. CASE ConfirmRow
  <2> PICK v : v = [line |-> asked, step |-> "sent", result |-> "none",
                    took |-> {}, entry |-> "none", heard |-> TRUE]
    OBVIOUS
  <2>1. asked \in Line /\ Says(asked) /\ v \in Change
    BY <1>4 DEF ConfirmRow, RowsInv, Change
  <2>2. change' = Append(change, v) /\ changes' = changes + 1 /\ UNCHANGED <<rows, spent, listed>>
    BY <1>4 DEF ConfirmRow
  <2>3. change' \in Seq(Change) /\ Len(change') = changes'
    BY <2>1, <2>2 DEF RowsInv
  <2>4. \A c \in 1..changes : change'[c] = change[c]
    BY <2>1, <2>2 DEF RowsInv
  <2>5. change'[changes'] = v
    BY <2>1, <2>2 DEF RowsInv
  <2>6. ASSUME NEW c \in 1..changes' PROVE Says(change[c].line)' /\ Consistent(change[c])'
    <3>1. CASE c = changes'
      <4>1. Says(v.line) /\ Consistent(v)
        BY <2>1 DEF Consistent
      <4>2. Says(v.line)' /\ Consistent(v)'
        BY <2>2, <4>1 DEF Says, Consistent
      <4>3. QED BY <3>1, <2>5, <4>2
    <3>2. CASE c # changes'
      <4>1. c \in 1..changes /\ change'[c] = change[c]
        BY <3>2, <2>2, <2>4 DEF RowsInv
      <4>2. Says(change[c].line) /\ Consistent(change[c])
        BY <4>1 DEF RowsInv
      <4>3. QED BY <4>1, <4>2, <2>2 DEF Says, Consistent
    <3>3. QED BY <3>1, <3>2
  <2>7. changes' \in 0..Changes /\ asked' = NoRow
    BY <1>4, <2>2, AdminRowsAssumption DEF ConfirmRow, RowsInv
  <2>8. QED BY <2>2, <2>3, <2>6, <2>7 DEF RowsInv
<1>5. QED BY <1>1, <1>2, <1>3, <1>4

\* The steps of a change that leave the rows alone.
LEMMA ChangeInv ==
  ASSUME RowsInv, NEW c \in 1..changes,
         Leave(c) \/ RefuseChange(c) \/ Find(c) \/ RecordChange(c) \/ EvictChange(c)
  PROVE  RowsInv'
<1>1. change[c] \in Change /\ Consistent(change[c])
  BY DEF RowsInv
<1>2. CASE Leave(c)
  <2> PICK v : v = [change[c] EXCEPT !.heard = FALSE]
    OBVIOUS
  <2>1. v \in Change /\ v.line = change[c].line /\ Consistent(v)
    BY <1>1 DEF Change, Consistent
  <2>2. QED BY <1>2, <2>1, ChangeKept DEF Leave
<1>3. CASE RefuseChange(c)
  <2> PICK v : v = [change[c] EXCEPT !.step = "record", !.result = "refused"]
    OBVIOUS
  <2>1. v \in Change /\ v.line = change[c].line /\ Consistent(v)
    BY <1>1, <1>3 DEF Change, Consistent, RefuseChange
  <2>2. QED BY <1>3, <2>1, ChangeKept DEF RefuseChange, EndsAs
<1>4. CASE Find(c)
  <2>1. CASE change[c].line.id \in DOMAIN rows
    <3> PICK v : v = [change[c] EXCEPT !.step = "found"]
      OBVIOUS
    <3>1. v \in Change /\ v.line = change[c].line /\ Consistent(v)
      BY <1>1, <1>4 DEF Change, Consistent, Find
    <3>2. QED BY <1>4, <2>1, <3>1, ChangeKept DEF Find
  <2>2. CASE change[c].line.id \notin DOMAIN rows
    <3> PICK v : v = [change[c] EXCEPT !.step = "record", !.result = "failed"]
      OBVIOUS
    <3>1. v \in Change /\ v.line = change[c].line /\ Consistent(v)
      BY <1>1, <1>4 DEF Change, Consistent, Find
    <3>2. change' = [change EXCEPT ![c] = v] /\ UNCHANGED <<rows, spent, listed, asked, changes>>
      BY <1>4, <2>2 DEF Find, EndsAs
    <3>3. QED BY <3>1, <3>2, ChangeKept
  <2>3. QED BY <2>1, <2>2
<1>5. CASE RecordChange(c)
  <2>1. PICK entry \in EntryFor(change[c].result) :
          change' = [change EXCEPT ![c].step = "answered", ![c].entry = entry]
    BY <1>5 DEF RecordChange
  <2> PICK v : v = [change[c] EXCEPT !.step = "answered", !.entry = entry]
    OBVIOUS
  <2>2. change[c].step = "record" /\ change[c].result \in {"done", "failed", "refused", "thrown"}
    BY <1>1, <1>5 DEF RecordChange, Change, Consistent
  <2>3. v \in Change /\ v.line = change[c].line /\ Consistent(v)
    BY <1>1, <2>2 DEF Change, Consistent, EntryFor, Written
  <2>4. change' = [change EXCEPT ![c] = v] /\ UNCHANGED <<rows, spent, listed, asked, changes>>
    BY <1>5, <2>1 DEF RecordChange
  <2>5. QED BY <2>3, <2>4, ChangeKept
<1>6. CASE EvictChange(c)
  <2> PICK v : v = [change[c] EXCEPT !.step = "over", !.heard = FALSE]
    OBVIOUS
  <2>1. v \in Change /\ v.line = change[c].line /\ Consistent(v)
    BY <1>1, <1>6 DEF Change, Consistent, EvictChange
  <2>2. QED BY <1>6, <2>1, ChangeKept DEF EvictChange
<1>7. QED BY <1>2, <1>3, <1>4, <1>5, <1>6

\* The answer arrives, and may load the list again.
LEMMA HearInv ==
  ASSUME RowsInv, NEW c \in 1..changes, Hear(c)
  PROVE  RowsInv'
<1>0. change[c] \in Change /\ Consistent(change[c]) /\ change[c].step = "answered"
  BY DEF RowsInv, Hear
<1> PICK v : v = [change[c] EXCEPT !.heard = FALSE, !.step = "over"]
  OBVIOUS
<1>1. v \in Change /\ v.line = change[c].line /\ Consistent(v)
  BY <1>0 DEF Change, Consistent
<1>2. change' = [change EXCEPT ![c] = v] /\ UNCHANGED <<rows, spent, asked, changes>>
  BY DEF Hear
<1>3. change' \in Seq(Change) /\ Len(change') = changes'
  BY <1>1, <1>2 DEF RowsInv
<1>4. ASSUME NEW d \in 1..changes PROVE Says(change[d].line)' /\ Consistent(change[d])'
  <2>1. CASE d = c
    <3>1. change'[d] = v /\ Says(v.line)
      BY <1>1, <1>2, <2>1 DEF RowsInv
    <3>2. Says(v.line)' /\ Consistent(v)'
      BY <1>1, <1>2, <3>1 DEF Says, Consistent
    <3>3. QED BY <3>1, <3>2
  <2>2. CASE d # c
    <3>1. change'[d] = change[d] /\ Says(change[d].line) /\ Consistent(change[d])
      BY <1>2, <2>2 DEF RowsInv
    <3>2. QED BY <1>2, <3>1 DEF Says, Consistent
  <2>3. QED BY <2>1, <2>2
<1>5. listed' = rows \/ listed' = listed
  BY DEF Hear
<1>6. QED BY <1>2, <1>3, <1>4, <1>5 DEF RowsInv, Says

\* Rows go, and what is left says what it said.
LEMMA FewerRows ==
  ASSUME RowsInv, NEW ids, rows' = [id \in DOMAIN rows \ ids |-> rows[id]]
  PROVE  /\ rows' \in Partial /\ DOMAIN rows' = DOMAIN rows \ ids
         /\ \A id \in DOMAIN rows' : id \in DOMAIN rows /\ rows'[id] = rows[id]
<1>1. DOMAIN rows \ ids \in SUBSET Row /\ rows' \in [DOMAIN rows \ ids -> Reading]
  BY PartialElement DEF RowsInv
<1>2. QED BY <1>1, PartialMade

\* Everybody else's steps, and the change that is carried out.
LEMMA RowsMoveInv ==
  ASSUME RowsInv,
         \/ \E id \in Row : TakeRow(id) \/ \E says \in Reading : MakeRow(id, says)
         \/ \E c \in 1..changes : TakeAway(c)
  PROVE  RowsInv'
<1>1. ASSUME NEW id \in Row, TakeRow(id) PROVE RowsInv'
  <2>1. /\ rows' \in Partial /\ DOMAIN rows' = DOMAIN rows \ {id}
        /\ \A i \in DOMAIN rows' : i \in DOMAIN rows /\ rows'[i] = rows[i]
    BY <1>1, FewerRows DEF TakeRow
  <2>2. UNCHANGED <<spent, listed, asked, change, changes>>
    BY <1>1 DEF TakeRow
  <2>3. ASSUME NEW c \in 1..changes PROVE Says(change[c].line)' /\ Consistent(change[c])'
    <3>1. Says(change[c].line) /\ Consistent(change[c])
      BY DEF RowsInv
    <3>2. QED BY <2>1, <2>2, <3>1 DEF Says, Consistent
  <2>4. QED BY <2>1, <2>2, <2>3 DEF RowsInv, Says
<1>2. ASSUME NEW id \in Row, NEW says \in Reading, MakeRow(id, says) PROVE RowsInv'
  <2>1. /\ rows' = [i \in DOMAIN rows \cup {id} |-> IF i = id THEN says ELSE rows[i]]
        /\ id \notin spent /\ spent' = spent \cup {id}
        /\ UNCHANGED <<listed, asked, change, changes>>
    BY <1>2 DEF MakeRow
  <2>2. rows' \in [DOMAIN rows \cup {id} -> Reading] /\ DOMAIN rows \cup {id} \in SUBSET Row
    BY <2>1, PartialElement DEF RowsInv
  <2>3. rows' \in Partial /\ DOMAIN rows' = DOMAIN rows \cup {id}
    BY <2>2, PartialMade
  <2>4. \A i \in DOMAIN rows : i # id /\ rows'[i] = rows[i]
    BY <2>1 DEF RowsInv
  <2>5. ASSUME NEW c \in 1..changes PROVE Says(change[c].line)' /\ Consistent(change[c])'
    <3>1. Says(change[c].line) /\ Consistent(change[c])
      BY DEF RowsInv
    <3>2. change[c].line.id # id
      BY <2>1, <3>1 DEF Says
    <3>3. QED BY <2>1, <2>3, <2>4, <3>1, <3>2 DEF Says, Consistent
  <2>6. asked # NoRow => Says(asked)'
    BY <2>1, <2>3, <2>4 DEF RowsInv, Says
  <2>7. QED BY <2>1, <2>3, <2>4, <2>5, <2>6 DEF RowsInv
<1>3. ASSUME NEW c \in 1..changes, TakeAway(c) PROVE RowsInv'
  <2> PICK line : line = change[c].line
    OBVIOUS
  <2>1. change[c] \in Change /\ Consistent(change[c]) /\ change[c].step = "found" /\ Says(line)
    <3>1. change[c] \in Change /\ Consistent(change[c]) /\ Says(change[c].line)
      BY DEF RowsInv
    <3>2. QED BY <1>3, <3>1 DEF TakeAway
  <2>2. UNCHANGED <<spent, listed, asked, changes>>
    BY <1>3 DEF TakeAway
  <2>3. ASSUME NEW result \in {"failed", "thrown"}, EndsAs(c, result), rows' = rows PROVE RowsInv'
    <3> PICK v : v = [change[c] EXCEPT !.step = "record", !.result = result]
      OBVIOUS
    <3>1. v \in Change /\ v.line = change[c].line /\ Consistent(v)
      BY <2>1 DEF Change, Consistent
    <3>2. QED BY <2>2, <2>3, <3>1, ChangeKept DEF EndsAs
  <2>4. ASSUME NEW result \in {"done", "thrown"},
               change' = [change EXCEPT ![c].step = "record", ![c].result = result,
                                        ![c].took = {LineAt(id) : id \in Meant(line)}],
               rows' = [id \in DOMAIN rows \ Meant(line) |-> rows[id]]
        PROVE  RowsInv'
    <3> PICK v : v = [change[c] EXCEPT !.step = "record", !.result = result,
                                       !.took = {LineAt(id) : id \in Meant(line)}]
      OBVIOUS
    <3>1. line \in Line
      BY <2>1 DEF Change
    <3>2. {LineAt(id) : id \in Meant(line)} \subseteq {line}
      BY <2>1, <3>1 DEF Meant, LineAt, Says, Line
    <3>3. v \in Change /\ v.line = line
      BY <2>1, <3>1, <3>2 DEF Change
    <3>4. /\ rows' \in Partial /\ DOMAIN rows' = DOMAIN rows \ Meant(line)
          /\ \A i \in DOMAIN rows' : i \in DOMAIN rows /\ rows'[i] = rows[i]
      BY <2>4, FewerRows
    <3>5. line.id \notin DOMAIN rows'
      BY <3>4 DEF Meant
    <3>6. Consistent(v)'
      BY <2>1, <3>2, <3>5 DEF Consistent, Change
    <3>7. change' \in Seq(Change) /\ Len(change') = changes'
      <4>1. change' = [change EXCEPT ![c] = v]
        BY <2>4
      <4>2. QED BY <2>2, <3>3, <4>1 DEF RowsInv
    <3>8. ASSUME NEW d \in 1..changes PROVE Says(change[d].line)' /\ Consistent(change[d])'
      <4>1. CASE d = c
        <5>1. change'[d] = v
          BY <2>4, <4>1 DEF RowsInv
        <5>2. Says(line)'
          BY <2>1, <2>2, <3>4 DEF Says
        <5>3. QED BY <5>1, <5>2, <3>3, <3>6
      <4>2. CASE d # c
        <5>1. change'[d] = change[d] /\ Says(change[d].line) /\ Consistent(change[d])
          BY <2>4, <4>2 DEF RowsInv
        <5>2. QED BY <2>2, <3>4, <5>1 DEF Says, Consistent
      <4>3. QED BY <4>1, <4>2
    <3>9. asked # NoRow => Says(asked)'
      BY <2>2, <3>4 DEF RowsInv, Says
    <3>10. QED BY <2>2, <3>4, <3>7, <3>8, <3>9 DEF RowsInv
  <2>5. QED BY <1>3, <2>3, <2>4 DEF TakeAway
<1>4. QED BY <1>1, <1>2, <1>3

LEMMA RowsStep == RowsInv /\ [RowsNext]_rowVars => RowsInv'
<1> SUFFICES ASSUME RowsInv, [RowsNext]_rowVars PROVE RowsInv'
  OBVIOUS
<1>1. CASE UNCHANGED rowVars
  BY <1>1 DEF rowVars, RowsInv, Says, Consistent
<1>2. CASE RowsNext
  BY <1>2, LookingInv, ChangeInv, HearInv, RowsMoveInv DEF RowsNext
<1>3. QED BY <1>1, <1>2

\* A change confirmed on the page of locks or tokens takes away the row that the
\* dialog named, and no other, whoever else takes rows away or makes some that
\* read alike.
THEOREM NamedRows == RowsSpec => []NamedRowOnly
<1>1. RowsInv => NamedRowOnly
  BY DEF RowsInv, Consistent, NamedRowOnly
<1>2. QED BY <1>1, RowsInitInv, RowsStep, PTL DEF RowsSpec

\* What those changes took away is in the audit log, unless the isolate stopped or
\* the log could not be written, and no entry there is untrue.
THEOREM RowsAreRecorded == RowsSpec => []RowsRecorded
<1>1. RowsInv => RowsRecorded
  BY DEF RowsInv, Consistent, RowsRecorded, EntryFor, Written, Change
<1>2. QED BY <1>1, RowsInitInv, RowsStep, PTL DEF RowsSpec

-----------------------------------------------------------------------------
(* The signing keys: a memory that is never older than an answer can be. *)

\* What is known of a verification at each of its steps: an answer is no older than
\* its fetch, and holds the key if it is published all along.
InWindow(v) ==
  /\ v.from <= instant
  /\ v.step = "fetch" \/ v.step = "answered" \/ v.step = "decide" => instant <= v.from + Wait

Follows(v) ==
  /\ v.current => v.kid \in published \/ withdrawn[v.kid] # NotYet
  /\ v.step = "answered" /\ v.answer # NoAnswer =>
       /\ v.current /\ v.kid \in published => v.kid \in v.answer
       /\ \A k \in v.answer : withdrawn[k] # NotYet => v.from <= withdrawn[k]
  /\ v.step = "no key" /\ v.current /\ v.kid \in published => v.failed
  /\ (v.step = "decide" \/ v.step = "let in") /\ withdrawn[v.kid] # NotYet /\ ~v.failed =>
       v.from <= withdrawn[v.kid] + Wait + KeysTTL

Serves(v) == InWindow(v) /\ Follows(v)

\* What is remembered counts as fresh no longer after a key's withdrawal than a fetch
\* takes and the memory lasts.
MemoryEnds ==
  /\ known.keys \subseteq KeyId /\ known.expires \in 0..EndOfKeys + KeysTTL
  /\ known.expires <= instant + KeysTTL
  /\ \A k \in known.keys : withdrawn[k] # NotYet => known.expires <= withdrawn[k] + Wait + KeysTTL

\* The inductive invariant of the verifications.
KeysInv ==
  /\ instant \in Instant
  /\ published \subseteq KeyId
  /\ withdrawn \in [KeyId -> Instant \cup {NotYet}]
  /\ \A k \in published : withdrawn[k] = NotYet
  /\ MemoryEnds
  /\ check \in [Check -> {Resting} \cup Verification]
  /\ \A c \in Check : check[c] # Resting => Serves(check[c])

LEMMA KeysInitInv == KeysInit => KeysInv
  BY SigningKeysAssumption DEF KeysInit, KeysInv, MemoryEnds, Instant, NotYet, Resting, Verification

LEMMA VerificationElement ==
  ASSUME NEW v \in Verification
  PROVE  /\ v.from \in Nat /\ v.kid \in KeyId /\ v.step # "resting" /\ v.hit \subseteq KeyId
         /\ v.answer # NoAnswer => v.answer \subseteq KeyId
<1>1. v.from \in Instant /\ v.kid \in KeyId
  BY DEF Verification
<1>2. v.from \in Nat
  BY <1>1, SigningKeysAssumption DEF Instant
<1>3. v.step # "resting"
  BY DEF Verification
<1>4. v.hit \in SUBSET KeyId /\ v.answer \in (SUBSET KeyId) \cup {NoAnswer}
  BY DEF Verification
<1>5. QED BY <1>1, <1>2, <1>3, <1>4

LEMMA ServesStays ==
  ASSUME NEW v, Serves(v), UNCHANGED <<instant, published, withdrawn>>
  PROVE  Serves(v)'
  BY DEF Serves, InWindow, Follows

\* A step of one verification.
LEMMA CheckMoved ==
  ASSUME KeysInv, NEW c \in Check, NEW v \in {Resting} \cup Verification, v # Resting => Serves(v),
         check' = [check EXCEPT ![c] = v], MemoryEnds',
         UNCHANGED <<instant, published, withdrawn>>
  PROVE  KeysInv'
<1>1. check' \in [Check -> {Resting} \cup Verification]
  BY DEF KeysInv
<1>2. ASSUME NEW d \in Check, check'[d] # Resting PROVE Serves(check[d])'
  <2>1. CASE d = c
    <3>1. check'[d] = v
      BY <2>1 DEF KeysInv
    <3>2. Serves(v)'
      BY <1>2, <3>1, ServesStays
    <3>3. QED BY <3>1, <3>2
  <2>2. CASE d # c
    <3> PICK w : w = check[d]
      OBVIOUS
    <3>1. check'[d] = w
      BY <2>2 DEF KeysInv
    <3>2. Serves(w)
      BY <1>2, <3>1 DEF KeysInv
    <3>3. Serves(w)'
      BY <3>2, ServesStays
    <3>4. QED BY <3>1, <3>3
  <2>3. QED BY <2>1, <2>2
<1>3. QED BY <1>1, <1>2 DEF KeysInv

LEMMA CheckKept ==
  ASSUME KeysInv, NEW c \in Check, NEW v \in {Resting} \cup Verification, v # Resting => Serves(v),
         check' = [check EXCEPT ![c] = v],
         UNCHANGED <<instant, published, withdrawn, known>>
  PROVE  KeysInv'
<1>1. MemoryEnds'
  BY DEF KeysInv, MemoryEnds
<1>2. QED BY <1>1, CheckMoved

\* Looking a key up in what was remembered or answered.
LEMMA FoundServes ==
  ASSUME KeysInv, NEW v \in Verification, NEW keys, NEW hit \in SUBSET KeyId,
         v.current => v.kid \in published \/ withdrawn[v.kid] # NotYet,
         v.kid \in keys /\ withdrawn[v.kid] # NotYet /\ ~v.failed =>
           instant <= withdrawn[v.kid] + Wait + KeysTTL,
         v.kid \notin keys /\ v.refresh /\ v.current /\ v.kid \in published => v.failed
  PROVE  Found(v, keys, hit) \in Verification /\ Serves(Found(v, keys, hit))
<1>1. instant \in Instant /\ instant \in Nat /\ Wait \in Nat
  BY SigningKeysAssumption DEF KeysInv, Instant
<1>2. CASE v.kid \in keys
  <2> PICK new : new = [v EXCEPT !.step = "decide", !.from = instant, !.refresh = FALSE, !.hit = {},
                                 !.answer = NoAnswer]
    OBVIOUS
  <2>1. Found(v, keys, hit) = new
    BY <1>2 DEF Found, Looked
  <2>2. /\ new \in Verification
        /\ new.step = "decide" /\ new.from = instant
        /\ new.kid = v.kid /\ new.current = v.current /\ new.failed = v.failed
    BY <1>1 DEF Verification
  <2>3. Serves(new)
    BY <1>1, <1>2, <2>2 DEF Serves, InWindow, Follows
  <2>4. QED BY <2>1, <2>2, <2>3
<1>3. CASE v.kid \notin keys /\ v.refresh
  <2> PICK new : new = [v EXCEPT !.step = "no key", !.from = instant, !.refresh = FALSE, !.hit = {},
                                 !.answer = NoAnswer]
    OBVIOUS
  <2>1. Found(v, keys, hit) = new
    BY <1>3 DEF Found, Unknown, Looked
  <2>2. /\ new \in Verification
        /\ new.step = "no key" /\ new.from = instant
        /\ new.kid = v.kid /\ new.current = v.current /\ new.failed = v.failed
    BY <1>1 DEF Verification
  <2>3. Serves(new)
    BY <1>1, <1>3, <2>2 DEF Serves, InWindow, Follows
  <2>4. QED BY <2>1, <2>2, <2>3
<1>4. CASE v.kid \notin keys /\ ~v.refresh
  <2> PICK new : new = [v EXCEPT !.step = "fetch", !.refresh = TRUE, !.from = instant, !.hit = hit,
                                 !.answer = NoAnswer]
    OBVIOUS
  <2>1. Found(v, keys, hit) = new
    BY <1>4 DEF Found, Unknown, Fetching
  <2>2. /\ new \in Verification
        /\ new.step = "fetch" /\ new.from = instant
        /\ new.kid = v.kid /\ new.current = v.current /\ new.failed = v.failed
    BY <1>1 DEF Verification
  <2>3. Serves(new)
    BY <1>1, <2>2 DEF Serves, InWindow, Follows
  <2>4. QED BY <2>1, <2>2, <2>3
<1>5. QED BY <1>2, <1>3, <1>4

\* Time passes, and the issuer publishes and withdraws keys.
LEMMA WorldInv ==
  ASSUME KeysInv, Pass \/ \E k \in KeyId : Publish(k) \/ Withdraw(k)
  PROVE  KeysInv'
<1>1. ASSUME Pass PROVE KeysInv'
  <2>1. instant' = instant + 1 /\ instant' \in Instant /\ UNCHANGED <<published, withdrawn, known, check>>
    BY <1>1, SigningKeysAssumption DEF Pass, KeysInv, Instant
  <2>2. MemoryEnds'
    BY <2>1, SigningKeysAssumption DEF KeysInv, MemoryEnds, Instant
  <2>3. ASSUME NEW c \in Check, check[c] # Resting PROVE Serves(check[c])'
    <3> PICK v : v = check[c]
      OBVIOUS
    <3>1. Serves(v) /\ v \in Verification /\ check' = check
      BY <2>1, <2>3 DEF KeysInv
    <3>2. v.step = "fetch" \/ v.step = "answered" \/ v.step = "decide" => instant < v.from + Wait
      BY <1>1 DEF Pass, InTime
    <3>3. v.from \in Nat /\ instant \in Nat /\ Wait \in Nat
      BY <3>1, VerificationElement, SigningKeysAssumption DEF Instant, KeysInv
    <3>4. InWindow(v)'
      BY <2>1, <3>1, <3>2, <3>3 DEF Serves, InWindow
    <3>5. Follows(v)'
      BY <2>1, <3>1 DEF Serves, Follows
    <3>6. QED BY <3>1, <3>4, <3>5 DEF Serves
  <2>4. QED BY <2>1, <2>2, <2>3 DEF KeysInv
<1>2. ASSUME NEW k \in KeyId, Publish(k) PROVE KeysInv'
  <2>1. /\ withdrawn[k] = NotYet /\ k \notin published /\ published' = published \cup {k}
        /\ UNCHANGED <<instant, withdrawn, known, check>>
    BY <1>2 DEF Publish
  <2>2. ASSUME NEW c \in Check, check[c] # Resting PROVE Serves(check[c])'
    <3> PICK v : v = check[c]
      OBVIOUS
    <3>1. Serves(v) /\ check' = check
      BY <2>1, <2>2 DEF KeysInv
    <3>2. Serves(v)'
      BY <2>1, <3>1 DEF Serves, InWindow, Follows
    <3>3. QED BY <3>1, <3>2
  <2>3. QED BY <2>1, <2>2 DEF KeysInv, MemoryEnds
<1>3. ASSUME NEW k \in KeyId, Withdraw(k) PROVE KeysInv'
  <2>1. /\ k \in published /\ published' = published \ {k}
        /\ withdrawn' = [withdrawn EXCEPT ![k] = instant]
        /\ UNCHANGED <<instant, known, check>>
    BY <1>3 DEF Withdraw
  <2>2. /\ withdrawn' \in [KeyId -> Instant \cup {NotYet}]
        /\ withdrawn'[k] = instant
        /\ \A l \in KeyId : l # k => withdrawn'[l] = withdrawn[l]
        /\ instant \in Nat /\ instant # NotYet
    BY <2>1 DEF KeysInv, Instant, NotYet
  <2>3. MemoryEnds'
    <3>1. MemoryEnds /\ KeysTTL \in Nat /\ Wait \in Nat /\ EndOfKeys \in Nat
      BY SigningKeysAssumption DEF KeysInv
    <3>2. QED BY <2>1, <2>2, <3>1 DEF MemoryEnds
  <2>4. ASSUME NEW c \in Check, check[c] # Resting PROVE Serves(check[c])'
    <3> PICK v : v = check[c]
      OBVIOUS
    <3>1. Serves(v) /\ v \in Verification /\ check' = check
      BY <2>1, <2>4 DEF KeysInv
    <3>2. /\ v.from \in Nat /\ v.kid \in KeyId
          /\ v.answer # NoAnswer => v.answer \subseteq KeyId
      BY <3>1, VerificationElement
    <3>3. InWindow(v)'
      BY <2>1, <3>1 DEF Serves, InWindow
    <3>4. v.kid = k => withdrawn[v.kid] = NotYet /\ v.from <= instant /\ v.kid \notin published'
      BY <2>1, <3>1 DEF KeysInv, Serves, InWindow
    <3>5. (v.current => v.kid \in published \/ withdrawn[v.kid] # NotYet)'
      BY <2>1, <2>2, <3>1, <3>2 DEF Serves, Follows
    <3>6. (v.step = "answered" /\ v.answer # NoAnswer =>
             /\ v.current /\ v.kid \in published => v.kid \in v.answer
             /\ \A l \in v.answer : withdrawn[l] # NotYet => v.from <= withdrawn[l])'
      BY <2>1, <2>2, <3>1, <3>2 DEF Serves, InWindow, Follows
    <3>7. (v.step = "no key" /\ v.current /\ v.kid \in published => v.failed)'
      BY <2>1, <2>2, <3>1, <3>2 DEF Serves, Follows
    <3>8. ((v.step = "decide" \/ v.step = "let in") /\ withdrawn[v.kid] # NotYet /\ ~v.failed =>
             v.from <= withdrawn[v.kid] + Wait + KeysTTL)'
      <4>1. KeysTTL \in Nat /\ Wait \in Nat
        BY SigningKeysAssumption
      <4>2. CASE v.kid = k
        <5>1. withdrawn'[v.kid] = instant /\ v.from <= instant
          BY <2>2, <3>4, <4>2
        <5>2. v.from <= instant + Wait + KeysTTL
          BY <2>2, <3>2, <4>1, <5>1
        <5>3. QED BY <5>1, <5>2
      <4>3. CASE v.kid # k
        BY <2>1, <2>2, <3>1, <3>2, <4>3 DEF Serves, Follows
      <4>4. QED BY <4>2, <4>3
    <3>9. Follows(v)'
      BY <3>5, <3>6, <3>7, <3>8 DEF Follows
    <3>10. QED BY <3>1, <3>3, <3>9 DEF Serves
  <2>5. QED BY <2>1, <2>2, <2>3, <2>4 DEF KeysInv
<1>4. QED BY <1>1, <1>2, <1>3

\* A token comes in.
LEMMA VerifyInv ==
  ASSUME KeysInv, NEW c \in Check, NEW kid \in KeyId, NEW ends \in Ends, Verify(c, kid, ends)
  PROVE  KeysInv'
<1> PICK b \in BOOLEAN : b = (kid \in published)
  <2>1. CASE kid \in published
    BY <2>1, Zenon
  <2>2. CASE kid \notin published
    <3>1. FALSE = (kid \in published)
      BY <2>2, SMT
    <3>2. QED BY <3>1, Zenon
  <2>3. QED BY <2>1, <2>2
<1> PICK v : v = [step |-> "fetch", kid |-> kid, ends |-> ends, current |-> b,
                  refresh |-> FALSE, from |-> instant, hit |-> known.keys, answer |-> NoAnswer,
                  failed |-> FALSE]
  OBVIOUS
<1>0. v = [step |-> "fetch", kid |-> kid, ends |-> ends, current |-> kid \in published,
           refresh |-> FALSE, from |-> instant, hit |-> known.keys, answer |-> NoAnswer,
           failed |-> FALSE]
  BY Zenon
<1>1. /\ v \in Verification
      /\ v.step = "fetch" /\ v.kid = kid /\ v.from = instant /\ v.refresh = FALSE /\ v.answer = NoAnswer
      /\ v.current => kid \in published
  BY DEF Verification, KeysInv, MemoryEnds
<1>2. instant \in Nat /\ Wait \in Nat /\ KeysTTL \in Nat
  BY SigningKeysAssumption DEF KeysInv, Instant
<1>3. Serves(v)
  BY <1>1, <1>2 DEF Serves, InWindow, Follows
<1>4. CASE known.expires > instant
  <2> DEFINE new == Found(v, known.keys, known.keys)
  <2>1. known.keys \in SUBSET KeyId /\ known.expires \in Int
    BY DEF KeysInv, MemoryEnds
  <2>2. kid \in known.keys /\ withdrawn[kid] # NotYet => instant <= withdrawn[kid] + Wait + KeysTTL
    <3>1. withdrawn[kid] \in Int
      BY DEF KeysInv, Instant, NotYet
    <3>2. QED BY <1>2, <1>4, <2>1, <3>1 DEF KeysInv, MemoryEnds
  <2>3. new \in Verification /\ Serves(new)
    BY <1>1, <2>1, <2>2, FoundServes
  <2>4. check' = [check EXCEPT ![c] = new] /\ UNCHANGED <<instant, published, withdrawn, known>>
    BY <1>0, <1>4 DEF Verify
  <2> HIDE DEF new
  <2>5. QED BY <2>3, <2>4, CheckKept
<1>5. CASE ~(known.expires > instant)
  <2>1. check' = [check EXCEPT ![c] = v] /\ UNCHANGED <<instant, published, withdrawn, known>>
    BY <1>0, <1>5 DEF Verify
  <2>2. QED BY <1>1, <1>3, <2>1, CheckKept
<1>6. QED BY <1>4, <1>5

\* The issuer answers with what it publishes at that moment, or not at all.
LEMMA AnswersInv ==
  ASSUME KeysInv, NEW c \in Check, IssuerAnswers(c)
  PROVE  KeysInv'
<1> PICK v : v = check[c]
  OBVIOUS
<1>1. v.step = "fetch" /\ v \in Verification /\ Serves(v)
  BY DEF IssuerAnswers, KeysInv, Resting
<1> PICK answer \in {published, NoAnswer} :
      check' = [check EXCEPT ![c].step = "answered", ![c].answer = answer]
  BY DEF IssuerAnswers
<1> PICK new : new = [v EXCEPT !.step = "answered", !.answer = answer]
  OBVIOUS
<1>2. check' = [check EXCEPT ![c] = new] /\ UNCHANGED <<instant, published, withdrawn, known>>
  BY DEF IssuerAnswers
<1>3. new \in Verification
  BY <1>1 DEF Verification, KeysInv
<1>4. /\ new.step = "answered" /\ new.answer = answer /\ new.from = v.from
      /\ new.kid = v.kid /\ new.current = v.current /\ new.failed = v.failed
  BY <1>1 DEF Verification
<1>5. InWindow(new)
  BY <1>1, <1>4 DEF Serves, InWindow
<1>6. \A k \in published : withdrawn[k] = NotYet
  BY DEF KeysInv
<1>7. Follows(new)
  BY <1>1, <1>4, <1>6 DEF Serves, Follows
<1>8. QED BY <1>2, <1>3, <1>5, <1>7, CheckKept DEF Serves

\* The key is looked up in the answer or, in place of one that failed, in what was
\* remembered before.
LEMMA AnswerServes ==
  ASSUME KeysInv, NEW v \in Verification, NEW hit \in SUBSET KeyId, NEW keys,
         keys = IF v.answer = NoAnswer THEN v.hit ELSE v.answer,
         v.step = "answered", Serves(v), v.answer = NoAnswer => v.failed
  PROVE  Found(v, keys, hit) \in Verification /\ Serves(Found(v, keys, hit))
<1>1. instant \in Nat /\ Wait \in Nat /\ KeysTTL \in Nat
  BY SigningKeysAssumption DEF KeysInv, Instant
<1>2. v.from \in Nat /\ instant <= v.from + Wait
  BY VerificationElement DEF Serves, InWindow
<1>3. v.current => v.kid \in published \/ withdrawn[v.kid] # NotYet
  BY DEF Serves, Follows
<1>4. v.kid \in keys /\ withdrawn[v.kid] # NotYet /\ ~v.failed =>
        instant <= withdrawn[v.kid] + Wait + KeysTTL
  <2> SUFFICES ASSUME v.kid \in keys, withdrawn[v.kid] # NotYet, ~v.failed
               PROVE  instant <= withdrawn[v.kid] + Wait + KeysTTL
    OBVIOUS
  <2>1. v.from <= withdrawn[v.kid]
    BY DEF Serves, Follows
  <2>2. withdrawn[v.kid] \in Int
    BY VerificationElement DEF KeysInv, Instant, NotYet
  <2>3. QED BY <1>1, <1>2, <2>1, <2>2
<1>5. v.kid \notin keys /\ v.refresh /\ v.current /\ v.kid \in published => v.failed
  BY DEF Serves, Follows
<1>6. QED BY <1>3, <1>4, <1>5, FoundServes

\* The verification with the fetch accounted for.
LEMMA FetchedOne ==
  ASSUME KeysInv, NEW c \in Check, Fetched(c)
  PROVE  \E v \in Verification :
           /\ v.step = "answered" /\ Serves(v) /\ (v.answer = NoAnswer => v.failed)
           /\ known' = Remembered(v)
           /\ check' = [check EXCEPT ![c] = Found(v, IF v.answer = NoAnswer THEN v.hit ELSE v.answer, known'.keys)]
           /\ UNCHANGED <<instant, published, withdrawn>>
<1> PICK u : u = check[c]
  OBVIOUS
<1>1. u.step = "answered" /\ u \in Verification /\ Serves(u)
  BY DEF Fetched, KeysInv, Resting
<1> PICK failed \in BOOLEAN : failed = (u.failed \/ u.answer = NoAnswer)
  <2>1. (u.failed \/ u.answer = NoAnswer) \in BOOLEAN
    BY SMT
  <2>2. QED BY <2>1, Zenon
<1>2. /\ u.answer = NoAnswer => failed
      /\ u.failed => failed
  BY Zenon
<1> PICK v : v = [u EXCEPT !.failed = failed]
  OBVIOUS
<1>3. /\ v \in Verification /\ v.failed = failed /\ v.answer = u.answer /\ v.step = u.step
      /\ v.from = u.from /\ v.kid = u.kid /\ v.current = u.current
  BY <1>1 DEF Verification
<1>4. v = [check[c] EXCEPT !.failed = @ \/ check[c].answer = NoAnswer]
  BY Zenon
<1>5. /\ known' = Remembered(v)
      /\ check' = [check EXCEPT ![c] = Found(v, IF v.answer = NoAnswer THEN v.hit ELSE v.answer, known'.keys)]
      /\ UNCHANGED <<instant, published, withdrawn>>
  BY <1>4 DEF Fetched
<1>6. Serves(v)
  BY <1>1, <1>2, <1>3 DEF Serves, InWindow, Follows
<1>7. v.answer = NoAnswer => v.failed
  BY <1>2, <1>3
<1>8. v \in Verification /\ v.step = "answered"
  BY <1>1, <1>3
<1>9. QED BY <1>5, <1>6, <1>7, <1>8, Zenon

\* What the answer leaves in the memory is no older than the fetch.
LEMMA FetchedInv ==
  ASSUME KeysInv, NEW c \in Check, Fetched(c)
  PROVE  KeysInv'
<1>1. PICK v \in Verification :
      /\ v.step = "answered" /\ Serves(v) /\ (v.answer = NoAnswer => v.failed)
      /\ known' = Remembered(v)
      /\ check' = [check EXCEPT ![c] = Found(v, IF v.answer = NoAnswer THEN v.hit ELSE v.answer, known'.keys)]
      /\ UNCHANGED <<instant, published, withdrawn>>
  BY FetchedOne
<1>2. MemoryEnds'
  <2>1. CASE v.answer = NoAnswer
    BY <1>1, <2>1 DEF Remembered, KeysInv, MemoryEnds
  <2>2. CASE v.answer # NoAnswer
    <3>1. known'.keys = v.answer /\ known'.expires = instant + KeysTTL
      BY <1>1, <2>2 DEF Remembered
    <3>2. /\ instant \in Nat /\ instant <= EndOfKeys
          /\ Wait \in Nat /\ KeysTTL \in Nat /\ EndOfKeys \in Nat
          /\ v.from \in Nat /\ instant <= v.from + Wait
          /\ v.answer \subseteq KeyId
      BY <1>1, <2>2, VerificationElement, SigningKeysAssumption
      DEF KeysInv, Instant, Serves, InWindow
    <3>3. ASSUME NEW k \in v.answer, withdrawn[k] # NotYet
          PROVE  instant + KeysTTL <= withdrawn[k] + Wait + KeysTTL
      <4>1. withdrawn[k] \in Int
        BY <3>2 DEF KeysInv, Instant, NotYet
      <4>2. v.from <= withdrawn[k]
        BY <1>1, <2>2, <3>3 DEF Serves, Follows
      <4>3. QED BY <3>2, <4>1, <4>2
    <3>4. QED BY <1>1, <3>1, <3>2, <3>3 DEF MemoryEnds
  <2>3. QED BY <2>1, <2>2
<1>3. PICK hit \in SUBSET KeyId : hit = known'.keys
  BY <1>2 DEF MemoryEnds
<1>4. PICK keys : keys = IF v.answer = NoAnswer THEN v.hit ELSE v.answer
  OBVIOUS
<1>5. Found(v, keys, hit) \in Verification /\ Serves(Found(v, keys, hit))
  BY <1>1, <1>4, AnswerServes
<1>6. PICK new : new = Found(v, keys, hit)
  OBVIOUS
<1>7. new \in Verification /\ Serves(new)
  BY <1>5, <1>6
<1>8. check' = [check EXCEPT ![c] = new] /\ UNCHANGED <<instant, published, withdrawn>>
  BY <1>1, <1>3, <1>4, <1>6
<1>9. QED BY <1>2, <1>7, <1>8, CheckMoved

\* The checks that follow, and the end of a verification.
LEMMA EndInv ==
  ASSUME KeysInv, NEW c \in Check, Decide(c) \/ Done(c)
  PROVE  KeysInv'
<1>1. CASE Decide(c)
  <2> PICK v : v = check[c]
    OBVIOUS
  <2>1. v.step = "decide" /\ v \in Verification /\ Serves(v)
    <3>1. v.step = "decide"
      BY <1>1 DEF Decide
    <3>2. v # Resting
      BY <3>1 DEF Resting
    <3>3. QED BY <3>1, <3>2 DEF KeysInv
  <2> PICK step \in {"unfit", "let in"} :
        step = IF check[c].ends + Skew < instant THEN "unfit" ELSE "let in"
    OBVIOUS
  <2> PICK new : new = [v EXCEPT !.step = step]
    OBVIOUS
  <2>2. check' = [check EXCEPT ![c] = new] /\ UNCHANGED <<instant, published, withdrawn, known>>
    BY <1>1 DEF Decide
  <2>3. /\ new \in Verification
        /\ new.step = step /\ new.answer = v.answer /\ new.from = v.from
        /\ new.kid = v.kid /\ new.current = v.current /\ new.failed = v.failed
    BY <2>1 DEF Verification
  <2>4. InWindow(new) /\ Follows(new)
    BY <2>1, <2>3 DEF Serves, InWindow, Follows
  <2>5. QED BY <2>2, <2>3, <2>4, CheckKept DEF Serves
<1>2. CASE Done(c)
  BY <1>2, CheckKept DEF Done
<1>3. QED BY <1>1, <1>2

LEMMA KeysStep == KeysInv /\ [KeysNext]_keyVars => KeysInv'
<1> SUFFICES ASSUME KeysInv, [KeysNext]_keyVars PROVE KeysInv'
  OBVIOUS
<1>1. CASE UNCHANGED keyVars
  <2>1. ASSUME NEW c \in Check, check'[c] # Resting PROVE Serves(check[c])'
    <3> PICK v : v = check[c]
      OBVIOUS
    <3>1. check'[c] = v /\ Serves(v)
      BY <1>1, <2>1 DEF keyVars, KeysInv
    <3>2. Serves(v)'
      BY <1>1, <3>1, ServesStays DEF keyVars
    <3>3. QED BY <3>1, <3>2
  <2>2. QED BY <1>1, <2>1 DEF keyVars, KeysInv, MemoryEnds
<1>2. CASE KeysNext
  BY <1>2, WorldInv, VerifyInv, AnswersInv, FetchedInv, EndInv DEF KeysNext
<1>3. QED BY <1>1, <1>2

\* A rotation of the issuer's keys goes unnoticed and takes effect, whatever the
\* fetches do: no token is refused for want of a key that is published all along,
\* and a withdrawn key lets nobody in for longer than the memory lasts.
THEOREM KeysAreServed == KeysSpec => []KeysServe
<1>1. KeysInv => KeysServe
  BY DEF KeysInv, Serves, Follows, KeysServe
<1>2. QED BY <1>1, KeysInitInv, KeysStep, PTL DEF KeysSpec

-----------------------------------------------------------------------------
(* The audit log: paging through what is listed.                           *)

\* Some number of a set of numbers is the least.
LEMMA LeastNumber ==
  ASSUME NEW T \in SUBSET Nat, T # {}
  PROVE  \E x \in T : \A y \in T : x <= y
<1>1. PICK x \in T : \A y \in T : ~ (<<y, x>> \in OpToRel(<, Nat))
  BY WFMin, NatLessThanWellFounded
<1>2. \A y \in Nat : y < x => <<y, x>> \in OpToRel(<, Nat)
  BY DEF OpToRel
<1>3. \A y \in T : ~ (y < x)
  BY <1>1, <1>2
<1>4. QED BY <1>3

\* The keys as they are made: what is left is left from the entry's time on.
Stamped == {k \in Key : k.left = TimeLeft(k.at)}

\* They are in one order.
LEMMA KeysInOrder ==
  /\ \A k \in Stamped : ~ Before(k, k)
  /\ \A k, l, m \in Stamped : Before(k, l) /\ Before(l, m) => Before(k, m)
  /\ \A k, l \in Stamped : k # l => Before(k, l) \/ Before(l, k)
  /\ \A k, l \in Stamped : Before(k, l) => ~ Before(l, k) /\ k.at >= l.at
<1>1. \A k \in Stamped : /\ k.at \in Int /\ k.left \in Int /\ k.random \in Int
                         /\ k.left = EndOfLog - k.at /\ EndOfLog \in Int
                         /\ k = [at |-> k.at, left |-> k.left, random |-> k.random]
  <2> SUFFICES ASSUME NEW k \in Key, k.left = EndOfLog - k.at
               PROVE  /\ k.at \in Int /\ k.left \in Int /\ k.random \in Int /\ EndOfLog \in Int
                      /\ k = [at |-> k.at, left |-> k.left, random |-> k.random]
    BY DEF Stamped, TimeLeft
  <2>1. k.at \in 0..EndOfLog /\ k.left \in 0..EndOfLog /\ k.random \in Random
    BY DEF Key
  <2>2. k = [at |-> k.at, left |-> k.left, random |-> k.random]
    BY DEF Key
  <2>3. EndOfLog \in Int /\ k.random \in Int
    <3>1. EndOfLog \in Nat /\ Random \in SUBSET Nat
      BY AuditLogAssumption
    <3>2. k.random \in Nat
      BY <2>1, <3>1, Zenon
    <3>3. QED BY ONLY <3>1, <3>2
  <2>4. k.at \in Int /\ k.left \in Int
    BY ONLY <2>1, <2>3
  <2>5. QED BY <2>2, <2>3, <2>4
<1>2. \A k \in Stamped : ~ Before(k, k)
  BY <1>1 DEF Before
<1>3. \A k, l, m \in Stamped : Before(k, l) /\ Before(l, m) => Before(k, m)
  BY <1>1 DEF Before
<1>4. ASSUME NEW k \in Stamped, NEW l \in Stamped, k # l PROVE Before(k, l) \/ Before(l, k)
  <2>1. k.left # l.left \/ k.random # l.random
    BY <1>1, <1>4
  <2>2. QED BY <1>1, <2>1 DEF Before
<1>5. \A k, l \in Stamped : Before(k, l) => ~ Before(l, k) /\ k.at >= l.at
  BY <1>1 DEF Before
<1>6. QED BY <1>2, <1>3, <1>4, <1>5

\* A cursor is the last key of the page before.
Closes(cursor, keys) == \E m \in keys : cursor = {m} /\ \A l \in keys \ {m} : Before(l, m)

\* A page is what comes first: none when there is nothing, it has a last, and what it leaves
\* out comes after it.
LEMMA PageIsFirst ==
  ASSUME IsFiniteSet(log), log \in SUBSET Stamped, NEW cursor
  PROVE  /\ Listing(cursor) \in SUBSET Behind(cursor)
         /\ Behind(cursor) # {} => \E m \in Listing(cursor) : \A l \in Listing(cursor) \ {m} : Before(l, m)
         /\ \A k \in Behind(cursor) \ Listing(cursor), l \in Listing(cursor) : Before(l, k)
<1> PICK B : B = Behind(cursor)
  OBVIOUS
<1> PICK L : L = Listing(cursor)
  OBVIOUS
<1> DEFINE Ahead(k) == {j \in B : Before(j, k)}
<1>1. IsFiniteSet(B) /\ B \in SUBSET Stamped
  <2>1. B \in SUBSET log
    BY DEF Behind
  <2>2. QED BY <2>1, FS_Subset
<1>2. L = {k \in B : Cardinality(Ahead(k)) < PageLimit} /\ L \in SUBSET B
  BY DEF Listing
<1>3. ASSUME NEW k \in B PROVE IsFiniteSet(Ahead(k)) /\ Cardinality(Ahead(k)) \in Nat
  <2>1. Ahead(k) \in SUBSET B
    OBVIOUS
  <2>2. IsFiniteSet(Ahead(k))
    BY <1>1, <2>1, FS_Subset
  <2>3. QED BY <2>2, FS_CardinalityType
<1>4. ASSUME NEW j \in B, NEW k \in B, Before(j, k)
      PROVE  Cardinality(Ahead(j)) < Cardinality(Ahead(k))
  <2>1. Ahead(j) \in SUBSET Ahead(k)
    BY <1>1, <1>4, KeysInOrder
  <2>2. j \in Ahead(k) /\ j \notin Ahead(j)
    BY <1>1, <1>4, KeysInOrder
  <2> HIDE DEF Ahead
  <2>3. Cardinality(Ahead(j)) <= Cardinality(Ahead(k)) /\ Cardinality(Ahead(j)) # Cardinality(Ahead(k))
    <3>1. /\ Cardinality(Ahead(j)) <= Cardinality(Ahead(k))
          /\ Cardinality(Ahead(k)) = Cardinality(Ahead(j)) => Ahead(k) = Ahead(j)
      BY <1>3, <2>1, FS_Subset
    <3>2. QED BY <2>2, <3>1
  <2>4. QED BY <1>3, <2>3
<1> HIDE DEF Ahead
<1>5. ASSUME B # {} PROVE \E m \in L : \A l \in L \ {m} : Before(l, m)
  <2>1. L # {}
    <3> PICK T \in SUBSET Nat : T = {Cardinality(Ahead(k)) : k \in B}
      BY <1>3
    <3>0. T # {}
      BY <1>5
    <3>1. PICK t \in T : \A y \in T : t <= y
      BY ONLY <3>0, T \in SUBSET Nat, LeastNumber
    <3>2. PICK k \in B : t = Cardinality(Ahead(k))
      OBVIOUS
    <3>3. Ahead(k) = {}
      <4> SUFFICES ASSUME NEW j \in B, Before(j, k) PROVE FALSE
        BY DEF Ahead
      <4>1. Cardinality(Ahead(j)) < t /\ Cardinality(Ahead(j)) \in T /\ Cardinality(Ahead(j)) \in Nat
        BY <1>3, <1>4, <3>2
      <4>2. QED BY <3>1, <4>1
    <3>4. Cardinality(Ahead(k)) < PageLimit
      BY <3>3, FS_EmptySet, AuditLogAssumption
    <3>5. QED BY <1>2, <3>4
  <2>2. PICK T \in SUBSET Nat : T = {PageLimit - Cardinality(Ahead(k)) : k \in L}
    <3>1. \A k \in L : PageLimit - Cardinality(Ahead(k)) \in Nat
      BY <1>2, <1>3, AuditLogAssumption
    <3>2. QED BY <3>1
  <2>3. PICK t \in T : \A y \in T : t <= y
    <3>1. T # {}
      BY <2>1, <2>2
    <3>2. QED BY ONLY <3>1, T \in SUBSET Nat, LeastNumber
  <2>4. PICK m \in L : t = PageLimit - Cardinality(Ahead(m))
    BY <2>2
  <2>5. ASSUME NEW l \in L \ {m} PROVE Before(l, m)
    <3> SUFFICES ASSUME Before(m, l) PROVE FALSE
      BY <1>1, <1>2, KeysInOrder
    <3>1. Cardinality(Ahead(m)) < Cardinality(Ahead(l))
      BY <1>2, <1>4
    <3>2. PageLimit - Cardinality(Ahead(l)) \in T
      BY <2>2
    <3>3. t <= PageLimit - Cardinality(Ahead(l))
      BY <2>3, <3>2
    <3>4. Cardinality(Ahead(m)) \in Nat /\ Cardinality(Ahead(l)) \in Nat
      BY <1>2, <1>3
    <3>5. QED BY <2>4, <3>1, <3>3, <3>4, AuditLogAssumption
  <2>6. QED BY <2>5
<1>6. ASSUME NEW k \in B \ L, NEW l \in L PROVE Before(l, k)
  <2> SUFFICES ASSUME Before(k, l) PROVE FALSE
    BY <1>1, <1>2, KeysInOrder
  <2>1. Cardinality(Ahead(k)) < Cardinality(Ahead(l)) /\ Cardinality(Ahead(l)) < PageLimit
    BY <1>2, <1>4
  <2>2. Cardinality(Ahead(k)) \in Nat /\ Cardinality(Ahead(l)) \in Nat
    BY <1>2, <1>3
  <2>3. QED BY <1>2, <2>1, <2>2, AuditLogAssumption
<1>7. QED BY <1>2, <1>5, <1>6

-----------------------------------------------------------------------------
\* The way to a page: the n pages before it, each closed by the cursor of the next, in order,
\* and with everything that was there at first and comes no later.
Way(p, c, n, b) ==
  /\ c[1] = {}
  /\ \A i \in 1..n : p[i] \in SUBSET log /\ Closes(c[i + 1], p[i])
  /\ \A i, j \in 1..n : i < j => \A k \in p[i], l \in p[j] : Before(k, l)
  /\ \A i \in 1..n, k \in b : (\E j \in 1..i : k \in p[j]) \/ \A m \in c[i + 1] : Before(m, k)

\* And the page itself, the n-th, which closes if there is an older one behind it.
Arrived(p, n, b, more) ==
  /\ p[n] \in SUBSET log
  /\ \A i \in 1..n - 1 : \A k \in p[i], l \in p[n] : Before(k, l)
  /\ \A k \in b : (\E j \in 1..n : k \in p[j]) \/ (more /\ \A j \in 1..n : \A l \in p[j] : Before(l, k))
  /\ more => \E m \in p[n] : \A l \in p[n] \ {m} : Before(l, m)

Cursors == Append(search.prev, search.cursor)

LogInv ==
  /\ now \in 0..EndOfLog /\ older \in BOOLEAN
  /\ landing \in SUBSET Stamped /\ log \in SUBSET Stamped /\ IsFiniteSet(log)
  /\ began \in SUBSET log
  /\ search = [cursor |-> search.cursor, prev |-> search.prev]
  /\ search.cursor \in SUBSET Stamped /\ search.prev \in Seq(SUBSET Stamped)
  /\ seen \in Seq(SUBSET Stamped) /\ Len(seen) = Len(search.prev) + 1
  /\ Way(seen, Cursors, Len(seen) - 1, began)
  /\ Arrived(seen, Len(seen), began, older)

\* A page is shown as it should be wherever a way leads.
LEMMA ShownWell ==
  ASSUME IsFiniteSet(log), log \in SUBSET Stamped, NEW n \in Nat \ {0}, NEW p, NEW c, NEW b,
         Way(p, c, n - 1, b), b \in SUBSET log, p[n] = Listing(c[n]),
         \A i \in 1..n : c[i] \in SUBSET Stamped
  PROVE  Arrived(p, n, b, Truncated(c[n]))
<1> PICK cursor : cursor = c[n]
  OBVIOUS
<1> PICK L : L = Listing(cursor)
  OBVIOUS
<1>1. /\ L \in SUBSET Behind(cursor)
      /\ Behind(cursor) # {} => \E m \in L : \A l \in L \ {m} : Before(l, m)
      /\ \A k \in Behind(cursor) \ L, l \in L : Before(l, k)
  BY PageIsFirst
<1>2. p[n] = L /\ L \in SUBSET log
  BY <1>1 DEF Behind
<1>3. ASSUME NEW i \in 1..n - 1, NEW k \in p[i], NEW l \in Stamped, \A m \in cursor : Before(m, l)
      PROVE  Before(k, l)
  <2> PICK h : h = n - 1
    OBVIOUS
  <2>1. h \in 1..n - 1 /\ h + 1 = n
    OBVIOUS
  <2>2. p[i] \in SUBSET Stamped /\ p[h] \in SUBSET Stamped /\ Closes(cursor, p[h])
    BY <2>1 DEF Way
  <2>3. PICK m \in p[h] : cursor = {m} /\ \A x \in p[h] \ {m} : Before(x, m)
    BY <2>2 DEF Closes
  <2>4. k = m \/ Before(k, m)
    <3>1. CASE i = h
      BY <2>3, <3>1
    <3>2. CASE i < h
      BY <2>1, <3>2 DEF Way
    <3>3. QED BY <2>1, <3>1, <3>2
  <2>5. Before(m, l) /\ m \in Stamped
    BY <1>3, <2>2, <2>3
  <2>6. QED BY <2>2, <2>4, <2>5, KeysInOrder
<1>4. ASSUME NEW i \in 1..n - 1, NEW k \in p[i], NEW l \in p[n] PROVE Before(k, l)
  <2>1. l \in Stamped /\ \A m \in cursor : Before(m, l)
    BY <1>1, <1>2 DEF Behind
  <2>2. QED BY <1>3, <2>1
<1>5. ASSUME NEW k \in b, \A j \in 1..n : k \notin p[j]
      PROVE  Truncated(cursor) /\ \A j \in 1..n : \A l \in p[j] : Before(l, k)
  <2>1. \A m \in cursor : Before(m, k)
    <3>1. CASE n = 1
      BY <3>1 DEF Way
    <3>2. CASE n > 1
      <4>1. n - 1 \in 1..n - 1 /\ (n - 1) + 1 = n
        BY <3>2
      <4>2. (\E j \in 1..n - 1 : k \in p[j]) \/ \A m \in c[(n - 1) + 1] : Before(m, k)
        BY <4>1 DEF Way
      <4>3. QED BY <1>5, <4>1, <4>2
    <3>3. QED BY <3>1, <3>2
  <2>2. k \in Behind(cursor) \ L
    BY <1>2, <1>5, <2>1 DEF Behind
  <2>3. ASSUME NEW j \in 1..n, NEW l \in p[j] PROVE Before(l, k)
    <3>1. CASE j = n
      BY <1>1, <1>2, <2>2, <2>3, <3>1
    <3>2. CASE j \in 1..n - 1
      BY <1>3, <2>1, <2>3, <3>2
    <3>3. QED BY <3>1, <3>2
  <2>4. QED BY <2>2, <2>3 DEF Truncated
<1>6. Truncated(cursor) => \E m \in p[n] : \A l \in p[n] \ {m} : Before(l, m)
  BY <1>1, <1>2 DEF Truncated
<1>7. QED BY <1>2, <1>4, <1>5, <1>6 DEF Arrived

\* Going back one page is the way to an earlier one, and an older one goes on from it.
LEMMA WayBack ==
  ASSUME NEW n \in Nat \ {0}, NEW p, NEW c, NEW b, Way(p, c, n, b)
  PROVE  Way(p, c, n - 1, b)
<1>1. \A i \in 1..n - 1 : i \in 1..n
  OBVIOUS
<1>2. QED BY <1>1 DEF Way

\* It is the way to pages of the same names too.
LEMMA SameWay ==
  ASSUME NEW n \in Nat, NEW p, NEW c, NEW q, NEW d, NEW b, Way(p, c, n, b),
         \A i \in 1..n : q[i] = p[i], \A i \in 1..n + 1 : d[i] = c[i]
  PROVE  Way(q, d, n, b)
<1>1. \A i \in 1..n : i + 1 \in 1..n + 1 /\ 1 \in 1..n + 1 /\ \A j \in 1..i : j \in 1..n
  OBVIOUS
<1>2. 1 \in 1..n + 1
  OBVIOUS
<1>3. d[1] = {}
  BY <1>2 DEF Way
<1>4. \A i \in 1..n : q[i] \in SUBSET log /\ Closes(d[i + 1], q[i])
  BY <1>1 DEF Way
<1>5. \A i, j \in 1..n : i < j => \A k \in q[i], l \in q[j] : Before(k, l)
  BY DEF Way
<1>6. ASSUME NEW i \in 1..n, NEW k \in b
      PROVE  (\E j \in 1..i : k \in q[j]) \/ \A m \in d[i + 1] : Before(m, k)
  <2>1. (\E j \in 1..i : k \in p[j]) \/ \A m \in c[i + 1] : Before(m, k)
    BY DEF Way
  <2>2. QED BY <1>1, <2>1
<1>7. QED BY <1>3, <1>4, <1>5, <1>6 DEF Way

LEMMA WayOn ==
  ASSUME log \in SUBSET Stamped, NEW n \in Nat \ {0}, NEW p, NEW c, NEW b,
         Way(p, c, n - 1, b), Arrived(p, n, b, TRUE), c[n + 1] = LastOf(p[n])
  PROVE  Way(p, c, n, b) /\ c[n + 1] \in SUBSET Stamped
<1>1. PICK m \in p[n] : \A l \in p[n] \ {m} : Before(l, m)
  BY DEF Arrived
<1>2. p[n] \in SUBSET Stamped
  BY DEF Arrived
<1>3. LastOf(p[n]) = {m}
  <2>1. m \in LastOf(p[n])
    BY <1>1 DEF LastOf
  <2>2. \A k \in LastOf(p[n]) : k = m
    BY <1>1, <1>2, KeysInOrder DEF LastOf
  <2>3. QED BY <2>1, <2>2
<1>4. Closes(c[n + 1], p[n])
  BY <1>1, <1>3 DEF Closes
<1>5. \A i \in 1..n : i = n \/ i \in 1..n - 1
  OBVIOUS
<1>6. \A i \in 1..n : p[i] \in SUBSET log /\ Closes(c[i + 1], p[i])
  BY <1>4, <1>5 DEF Way, Arrived
<1>7. ASSUME NEW i \in 1..n, NEW j \in 1..n, i < j PROVE \A k \in p[i], l \in p[j] : Before(k, l)
  <2>1. i \in 1..n - 1 /\ (j = n \/ j \in 1..n - 1)
    BY <1>7
  <2>2. QED BY <1>7, <2>1 DEF Way, Arrived
<1>8. ASSUME NEW i \in 1..n, NEW k \in b
      PROVE  (\E j \in 1..i : k \in p[j]) \/ \A x \in c[i + 1] : Before(x, k)
  <2>1. CASE i \in 1..n - 1
    BY <2>1 DEF Way
  <2>2. CASE i = n
    <3>1. (\E j \in 1..n : k \in p[j]) \/ \A j \in 1..n : \A l \in p[j] : Before(l, k)
      BY DEF Arrived
    <3>2. n \in 1..n
      OBVIOUS
    <3>3. (\E j \in 1..n : k \in p[j]) \/ Before(m, k)
      BY <3>1, <3>2
    <3>4. QED BY <1>3, <2>2, <3>3
  <2>3. QED BY <2>1, <2>2
<1>9. QED BY <1>2, <1>3, <1>6, <1>7, <1>8 DEF Way

\* A page shown where a way leads, be it an older one, a newer one or the same again.
LEMMA ShowInv ==
  ASSUME LogInv, NEW place, NEW before, Show(place, before),
         before \in Seq(SUBSET Stamped), place.prev \in Seq(SUBSET Stamped),
         Len(before) = Len(place.prev), place.cursor \in SUBSET Stamped,
         place = [cursor |-> place.cursor, prev |-> place.prev],
         Way(before, Append(place.prev, place.cursor), Len(before), IF before = <<>> THEN log ELSE began)
  PROVE  LogInv'
<1> PICK n \in Nat \ {0} : n = Len(before) + 1
  OBVIOUS
<1> PICK p : p = Append(before, Listing(place.cursor))
  OBVIOUS
<1> PICK c : c = Append(place.prev, place.cursor)
  OBVIOUS
<1> PICK b : b = IF before = <<>> THEN log ELSE began
  OBVIOUS
<1>1. /\ search' = place /\ seen' = p /\ older' = Truncated(place.cursor) /\ began' = b
      /\ now' = now /\ landing' = landing /\ log' = log
  BY DEF Show
<1>2. IsFiniteSet(log) /\ log \in SUBSET Stamped /\ b \in SUBSET log
  BY DEF LogInv
<1>3. Listing(place.cursor) \in SUBSET Stamped
  BY <1>2, PageIsFirst DEF Behind
<1>4. /\ p \in Seq(SUBSET Stamped) /\ Len(p) = n /\ p[n] = Listing(place.cursor)
      /\ \A i \in 1..n - 1 : p[i] = before[i]
  BY <1>3
<1>5. /\ c[n] = place.cursor /\ \A i \in 1..n : c[i] \in SUBSET Stamped
  OBVIOUS
<1>6. Way(p, c, n - 1, b)
  <2>1. Way(before, c, n - 1, b)
    OBVIOUS
  <2>2. \A i \in 1..n - 1 : \A j \in 1..i : j \in 1..n - 1
    OBVIOUS
  <2>3. QED BY <1>4, <2>1, <2>2 DEF Way
<1>7. Arrived(p, n, b, Truncated(place.cursor))
  BY <1>2, <1>4, <1>5, <1>6, ShownWell
<1>8. Cursors' = c /\ (Len(seen) - 1)' = n - 1 /\ Len(seen)' = n
  BY <1>1, <1>4 DEF Cursors
<1>9. Way(seen, Cursors, Len(seen) - 1, began)'
  BY <1>1, <1>6, <1>8 DEF Way
<1>10. Arrived(seen, Len(seen), began, older)'
  BY <1>1, <1>7, <1>8 DEF Arrived
<1>11. older' \in BOOLEAN
  BY <1>1 DEF Truncated
<1>12. QED
  BY <1>1, <1>2, <1>4, <1>8, <1>9, <1>10, <1>11 DEF LogInv

LEMMA LogStarts == LogInit => LogInv
<1> SUFFICES ASSUME LogInit PROVE LogInv
  OBVIOUS
<1>1. Len(seen) = 1 /\ seen[1] = {} /\ seen \in Seq(SUBSET Stamped)
  BY DEF LogInit
<1>2. Cursors[1] = {} /\ search.prev = <<>> /\ search.cursor = {}
      /\ search = [cursor |-> search.cursor, prev |-> search.prev]
  BY DEF LogInit, Cursors, First
<1>3. Way(seen, Cursors, 0, began) /\ Arrived(seen, 1, began, older)
  BY <1>1, <1>2 DEF LogInit, Way, Arrived
<1>4. now \in 0..EndOfLog
  BY AuditLogAssumption DEF LogInit
<1>5. IsFiniteSet(log)
  BY FS_EmptySet DEF LogInit
<1>6. Len(seen) - 1 = 0 /\ Len(search.prev) = 0 /\ search.prev \in Seq(SUBSET Stamped)
  BY <1>1, <1>2
<1>7. older \in BOOLEAN /\ landing = {} /\ log = {} /\ began = {}
  BY DEF LogInit
<1>8. Way(seen, Cursors, Len(seen) - 1, began) /\ Arrived(seen, Len(seen), began, older)
  BY <1>1, <1>3
<1>9. Len(seen) = Len(search.prev) + 1 /\ search.cursor \in SUBSET Stamped
  BY <1>1, <1>2
<1>10. QED BY <1>1, <1>2, <1>4, <1>5, <1>6, <1>7, <1>8, <1>9 DEF LogInv

\* Entries may be written meanwhile: what has been shown stays what it was.
LEMMA WriteInv ==
  ASSUME LogInv, UNCHANGED <<search, seen, older, began>>, now' \in 0..EndOfLog,
         landing' \in SUBSET Stamped, log' \in SUBSET Stamped, IsFiniteSet(log'), log \in SUBSET log'
  PROVE  LogInv'
<1>1. Cursors' = Cursors
  BY DEF Cursors
<1>2. Way(seen, Cursors, Len(seen) - 1, began)'
  BY <1>1 DEF LogInv, Way
<1>3. Arrived(seen, Len(seen), began, older)'
  BY DEF LogInv, Arrived
<1>4. QED BY <1>2, <1>3 DEF LogInv

LEMMA LogStep == LogInv /\ [LogNext]_logVars => LogInv'
<1> SUFFICES ASSUME LogInv, [LogNext]_logVars PROVE LogInv'
  OBVIOUS
<1>0. /\ now \in 0..EndOfLog /\ landing \in SUBSET Stamped /\ log \in SUBSET Stamped /\ IsFiniteSet(log)
      /\ log \in SUBSET log
  BY DEF LogInv
<1> PICK n \in Nat \ {0} : n = Len(seen)
  BY DEF LogInv
<1>1. CASE Tick
  <2>1. now' \in 0..EndOfLog
    BY <1>0, <1>1, AuditLogAssumption DEF Tick
  <2>2. QED BY <1>0, <1>1, <2>1, WriteInv DEF Tick
<1>2. ASSUME NEW r \in Random, Describe(r) PROVE LogInv'
  <2>1. [at |-> now, left |-> TimeLeft(now), random |-> r] \in Stamped
    <3>1. TimeLeft(now) \in 0..EndOfLog
      BY <1>0, AuditLogAssumption DEF TimeLeft
    <3>2. QED BY <1>0, <3>1 DEF Stamped, Key
  <2>2. landing' \in SUBSET Stamped
    BY <1>0, <1>2, <2>1 DEF Describe
  <2>3. QED BY <1>0, <1>2, <2>2, WriteInv DEF Describe
<1>3. ASSUME NEW k \in Key, Land(k) PROVE LogInv'
  <2>1. log' \in SUBSET Stamped /\ log \in SUBSET log' /\ landing' \in SUBSET Stamped
    BY <1>0, <1>3 DEF Land
  <2>2. IsFiniteSet(log')
    BY <1>0, <1>3, FS_AddElement DEF Land
  <2>3. QED BY <1>0, <1>3, <2>1, <2>2, WriteInv DEF Land
<1> PICK prev \in Seq(SUBSET Stamped), cursor \in SUBSET Stamped :
      prev = search.prev /\ cursor = search.cursor
  BY DEF LogInv
<1>4. /\ seen \in Seq(SUBSET Stamped) /\ Len(prev) = n - 1
      /\ Way(seen, Append(prev, cursor), n - 1, began) /\ Arrived(seen, n, began, older)
  BY DEF LogInv, Cursors
<1>5. CASE ShowOlder
  <2> PICK c : c = Append(Append(prev, cursor), LastOf(seen[n]))
    OBVIOUS
  <2>1. older = TRUE /\ Show(OlderPlace, seen)
    BY <1>5 DEF ShowOlder, LogInv
  <2>2. c[n + 1] = LastOf(seen[n]) /\ \A i \in 1..n : c[i] = Append(prev, cursor)[i]
    BY <1>4
  <2>3. Way(seen, c, n - 1, began)
    <3> PICK h \in Nat : h = n - 1
      OBVIOUS
    <3>0. h + 1 = n
      BY ONLY n \in Nat \ {0}, h = n - 1
    <3>1. \A i \in 1..h + 1 : c[i] = Append(prev, cursor)[i]
      BY <2>2, <3>0
    <3>2. Way(seen, Append(prev, cursor), h, began) /\ \A i \in 1..h : seen[i] = seen[i]
      BY <1>4
    <3>3. Way(seen, c, h, began)
      BY ONLY h \in Nat, <3>1, <3>2, SameWay
    <3>4. QED BY <3>3
  <2>4. Way(seen, c, n, began) /\ LastOf(seen[n]) \in SUBSET Stamped
    <3>1. Arrived(seen, n, began, TRUE)
      BY <1>4, <2>1
    <3>2. log \in SUBSET Stamped
      BY <1>0
    <3>3. PICK m : m = n + 1
      OBVIOUS
    <3>4. c[m] = LastOf(seen[n])
      BY <2>2, <3>3
    <3>5. Way(seen, c, n, began) /\ c[m] \in SUBSET Stamped
      BY ONLY n \in Nat \ {0}, <2>3, <3>1, <3>2, <3>3, <3>4, WayOn
    <3>6. QED BY <3>4, <3>5
  <2>5. OlderPlace = [cursor |-> LastOf(seen[n]), prev |-> Append(prev, cursor)]
    BY DEF OlderPlace, Last
  <2>6. OlderPlace.cursor = LastOf(seen[n]) /\ OlderPlace.prev = Append(prev, cursor)
    BY <2>5
  <2>7. Append(prev, cursor) \in Seq(SUBSET Stamped) /\ Len(Append(prev, cursor)) = n /\ seen # <<>>
    BY <1>4
  <2>8. QED BY <1>4, <2>1, <2>4, <2>5, <2>6, <2>7, ShowInv
<1>6. CASE ShowNewer
  <2> PICK h \in Nat \ {0} : h = n - 1
    BY <1>4, <1>6 DEF ShowNewer
  <2> PICK back : back = Front(prev)
    OBVIOUS
  <2> PICK before : before = Front(Front(seen))
    OBVIOUS
  <2>1. /\ back \in Seq(SUBSET Stamped) /\ Len(back) = h - 1 /\ prev = Append(back, prev[h])
        /\ prev[h] \in SUBSET Stamped
    BY <1>4 DEF Front
  <2>2. /\ before \in Seq(SUBSET Stamped) /\ Len(before) = h - 1
        /\ \A i \in 1..h - 1 : before[i] = seen[i]
    BY <1>4 DEF Front
  <2>3. NewerPlace = [cursor |-> prev[h], prev |-> back]
    BY <1>4 DEF NewerPlace, Last
  <2>4. Way(seen, Append(prev, cursor), h - 1, began)
    BY <1>4, WayBack
  <2>5. \A i \in 1..h : Append(prev, cursor)[i] = prev[i]
    BY <1>4
  <2>6. Way(before, prev, h - 1, IF before = <<>> THEN log ELSE began)
    <3>1. CASE h = 1
      BY <2>4, <2>5, <3>1 DEF Way
    <3>2. CASE h > 1
      <4>1. (h - 1) + 1 = h /\ h - 1 \in Nat
        OBVIOUS
      <4>2. before # <<>>
        BY <2>2, <3>2
      <4>3. Way(before, prev, h - 1, began)
        BY <2>2, <2>4, <2>5, <4>1, SameWay
      <4>4. QED BY <4>2, <4>3
    <3>3. QED BY <3>1, <3>2
  <2>7. Show(NewerPlace, before)
    BY <1>6 DEF ShowNewer
  <2>8. NewerPlace.cursor = prev[h] /\ NewerPlace.prev = back
    BY <2>3
  <2>9. QED BY <2>1, <2>2, <2>3, <2>6, <2>7, <2>8, ShowInv
<1>7. CASE Open
  <2> PICK place : place = [cursor |-> First, prev |-> <<>>]
    OBVIOUS
  <2>1. place.cursor = {} /\ place.prev = <<>>
    BY DEF First
  <2>2. Append(place.prev, place.cursor)[1] = {}
    BY <2>1
  <2>3. Way(<<>>, Append(place.prev, place.cursor), 0, log)
    BY <2>2 DEF Way
  <2>4. Show(place, <<>>)
    BY <1>7 DEF Open
  <2>5. Len(<<>>) = 0 /\ <<>> \in Seq(SUBSET Stamped)
    OBVIOUS
  <2>6. QED BY <2>1, <2>3, <2>4, <2>5, ShowInv
<1>8. CASE Reload
  <2> PICK before : before = Front(seen)
    OBVIOUS
  <2>1. /\ before \in Seq(SUBSET Stamped) /\ Len(before) = n - 1
        /\ \A i \in 1..n - 1 : before[i] = seen[i]
    BY <1>4 DEF Front
  <2>2. Way(before, Append(prev, cursor), n - 1, IF before = <<>> THEN log ELSE began)
    <3>1. CASE n = 1
      BY <1>4, <3>1 DEF Way
    <3>2. CASE n > 1
      <4>1. \A i \in 1..n - 1 : \A j \in 1..i : j \in 1..n - 1
        OBVIOUS
      <4>2. before # <<>>
        BY <2>1, <3>2
      <4>3. QED BY <1>4, <2>1, <4>1, <4>2 DEF Way
    <3>3. QED BY <3>1, <3>2
  <2>3. Show(search, before) /\ search = [cursor |-> search.cursor, prev |-> search.prev]
    BY <1>8 DEF Reload, LogInv
  <2>4. QED BY <1>4, <2>1, <2>2, <2>3, ShowInv
<1>9. CASE UNCHANGED logVars
  BY <1>0, <1>9, WriteInv DEF logVars
<1>10. QED BY <1>1, <1>2, <1>3, <1>5, <1>6, <1>7, <1>8, <1>9 DEF LogNext

\* What is shown is in order, and what was there is shown or comes after it.
LEMMA PagesFollow == LogInv => PagesMeet /\ LogTypes
<1> SUFFICES ASSUME LogInv PROVE PagesMeet /\ LogTypes
  OBVIOUS
<1> PICK n \in Nat \ {0} : n = Len(seen)
  BY DEF LogInv
<1>1. /\ DOMAIN seen = 1..n /\ Way(seen, Cursors, n - 1, began) /\ Arrived(seen, n, began, older)
      /\ log \in SUBSET Stamped
  BY DEF LogInv
<1>2. \A i \in 1..n : seen[i] \in SUBSET Stamped
  BY DEF LogInv
<1>3. ASSUME NEW i \in 1..n, NEW j \in 1..n, i < j, NEW k \in seen[i], NEW l \in seen[j]
      PROVE  Before(k, l)
  <2>1. i \in 1..n - 1 /\ (j = n \/ j \in 1..n - 1)
    BY <1>3
  <2>2. QED BY <1>1, <1>3, <2>1 DEF Way, Arrived
<1>4. \A k \in UNION Range(seen) : k \in Stamped /\ \E i \in 1..n : k \in seen[i]
  BY <1>1, <1>2 DEF Range
<1>5. \A k, l \in UNION Range(seen) : Before(k, l) => k.at >= l.at
  BY <1>4, KeysInOrder
<1>6. ASSUME NEW k \in began, k \notin UNION Range(seen)
      PROVE  older /\ \A l \in UNION Range(seen) : Before(l, k)
  <2>1. \A j \in 1..n : k \notin seen[j]
    BY <1>1, <1>6 DEF Range
  <2>2. older /\ \A j \in 1..n : \A l \in seen[j] : Before(l, k)
    BY <1>1, <2>1 DEF Arrived
  <2>3. QED BY <1>4, <2>2
<1>7. PagesMeet
  BY <1>1, <1>3, <1>5, <1>6 DEF PagesMeet
<1>8. Stamped \in SUBSET Key
  BY DEF Stamped
<1>9. LogTypes
  BY <1>8 DEF LogInv, LogTypes
<1>10. QED BY <1>7, <1>9

\* Whoever pages through the audit log, back and forth, with entries landing meanwhile,
\* sees what was there at first once and in order, the newest first: a page's last key is
\* where the next one goes on (src/infra/r2-audit-log.ts, src/routes/[_]admin/audit.tsx).
THEOREM PagesAreOne == LogSpec => []PagesMeet
<1>1. LogSpec => []LogInv
  BY LogStarts, LogStep, PTL DEF LogSpec
<1>2. QED BY <1>1, PagesFollow, PTL

\* What the page tells of the log is so: the entries of its requests and of the rows'
\* changes are true, they are there, and paging shows them all, once and in order.
THEOREM LogIsTrue == PageSpec /\ RowsSpec /\ LogSpec => []LogHolds
<1>1. PagesMeet /\ EntriesTell /\ RowsRecorded => LogHolds
  BY DEF LogHolds
<1>2. QED BY <1>1, EntriesAreTrue, RowsAreRecorded, PagesAreOne, PTL

-----------------------------------------------------------------------------
(* The storage report: its variables' types.  That what it says is so takes *)
(* the sums of WorkerProofs.                                                *)

\* A page of a listing ends at one of its keys, or with nothing left at the last key.
LEMMA PageEnds ==
  ASSUME NEW cursor \in 0..Len(KeyOrder), NEW keys, keys = PageAfter(cursor)
  PROVE  /\ \A i \in keys : KeyOrder[i] \in Keys
         /\ (IF keys = {} THEN Len(KeyOrder) ELSE Max(keys)) \in 0..Len(KeyOrder)
<1> PICK last \in Nat : last = Len(KeyOrder) /\ DOMAIN KeyOrder = 1..last
  BY StorageReportAssumption
<1>1. keys \in SUBSET (1..last)
  BY DEF PageAfter, KeysAfter
<1>2. \A i \in keys : KeyOrder[i] \in Keys
  BY <1>1 DEF Keys, Range
<1>3. CASE keys = {}
  BY <1>3
<1>4. CASE keys # {}
  <2>0. \A i \in keys : i \in Int /\ last - i \in Nat
    BY <1>1
  <2> PICK T \in SUBSET Nat : T = {last - i : i \in keys}
    BY ONLY <2>0
  <2>1. T # {}
    BY <1>4
  <2>2. PICK t \in T : \A y \in T : t <= y
    BY ONLY <2>1, T \in SUBSET Nat, LeastNumber
  <2>3. PICK m \in keys : t = last - m
    OBVIOUS
  <2>4. \A i \in keys : last - m <= last - i
    BY <2>2, <2>3
  <2>5. \E g \in keys : \A i \in keys : g >= i
    BY <2>0, <2>4
  <2>6. Max(keys) \in keys
    BY <2>5 DEF Max
  <2>7. Max(keys) \in 0..last
    <3>1. Max(keys) \in 1..last
      BY <1>1, <2>6
    <3>2. QED BY ONLY <3>1, last \in Nat
  <2>8. QED BY <1>2, <1>4, <2>7
<1>5. QED BY <1>3, <1>4

LEMMA ReportBegins == ReportInit => ReportTypes
<1> SUFFICES ASSUME ReportInit PROVE ReportTypes
  OBVIOUS
<1>1. PICK keys \in SUBSET Keys : past = <<keys>>
  BY DEF ReportInit
<1>2. past \in Seq(SUBSET Keys) /\ past # <<>>
  BY <1>1
<1>3. \A c \in Counter : counting[c] = Uncounted /\ Uncounted.step = "idle"
  BY DEF ReportInit, Uncounted
<1>4. QED BY <1>2, <1>3 DEF ReportInit, ReportTypes

\* The bucket changes, and what is counted so far stays countable.
LEMMA BucketMoves ==
  ASSUME ReportTypes, NEW k \in Keys, Alter(k)
  PROVE  ReportTypes'
<1>1. past \in Seq(SUBSET Keys) /\ Len(past) \in Nat \ {0}
  BY DEF ReportTypes
<1>2. past' = Append(past, IF k \in Bucket THEN Bucket \ {k} ELSE Bucket \cup {k})
      /\ counting' = counting /\ overview' = overview
  BY DEF Alter
<1>3. Bucket \in SUBSET Keys
  BY <1>1 DEF Bucket, Now
<1>4. (IF k \in Bucket THEN Bucket \ {k} ELSE Bucket \cup {k}) \in SUBSET Keys
  BY <1>3
<1> PICK b \in SUBSET Keys : past' = Append(past, b)
  BY <1>2, <1>4
<1>5. past' \in Seq(SUBSET Keys) /\ past' # <<>> /\ Len(past') = Len(past) + 1
  BY <1>1
<1>6. 1..Now \in SUBSET (1..Now')
  BY <1>1, <1>5 DEF Now
<1>7. \A count \in Count : count \in Count'
  BY <1>6 DEF Count
<1>8. QED BY <1>2, <1>5, <1>7 DEF ReportTypes

LEMMA CountMoves ==
  ASSUME ReportTypes, UNCHANGED past, DOMAIN overview' = Counter,
         NEW c \in Counter, NEW count, counting' = [counting EXCEPT ![c] = count],
         count.step \in {"idle", "list", "keep", "show"}, count.step = "list" => count \in Count
  PROVE  ReportTypes'
<1>1. Count' = Count
  BY DEF Count, Now
<1>2. QED BY <1>1 DEF ReportTypes

LEMMA ReportMoves == ReportTypes /\ [ReportNext]_reportVars => ReportTypes'
<1> SUFFICES ASSUME ReportTypes, [ReportNext]_reportVars PROVE ReportTypes'
  OBVIOUS
<1>0. Now \in Nat \ {0} /\ DOMAIN overview = Counter /\ Len(KeyOrder) \in Nat
  BY StorageReportAssumption DEF ReportTypes, Now
<1>1. ASSUME NEW c \in Counter, StartCount(c) PROVE ReportTypes'
  <2> PICK count : count = [step |-> "list", countedAt |-> Now, listed |-> {}, cursor |-> 0, pages |-> 0]
    OBVIOUS
  <2>1. count \in Count /\ count.step = "list"
    BY <1>0 DEF Count
  <2>2. counting' = [counting EXCEPT ![c] = count] /\ UNCHANGED <<past, overview>>
    BY <1>1 DEF StartCount
  <2>3. QED BY <1>0, <2>1, <2>2, CountMoves
<1>2. ASSUME NEW c \in Counter, CountPage(c) PROVE ReportTypes'
  <2> PICK b : b = counting[c]
    OBVIOUS
  <2>1. b \in Count
    BY <1>2 DEF CountPage, Counting, ReportTypes
  <2>2. b.cursor \in 0..Len(KeyOrder) /\ b.pages \in Nat /\ b.listed \in SUBSET Keys
    BY <2>1 DEF Count
  <2> PICK keys : keys = PageAfter(b.cursor)
    OBVIOUS
  <2> PICK to \in 0..Len(KeyOrder) : to = IF keys = {} THEN Len(KeyOrder) ELSE Max(keys)
    BY <2>2, PageEnds
  <2> PICK more \in SUBSET Keys : more = b.listed \cup {KeyOrder[i] : i \in keys}
    BY <2>2, PageEnds
  <2> PICK pages \in Nat : pages = b.pages + 1
    BY <2>2
  <2>3. UNCHANGED <<past, overview>>
    BY <1>2 DEF CountPage
  <2>4. CASE KeysAfter(to) # {} /\ pages < MaxPages
    <3> PICK count : count = [b EXCEPT !.listed = more, !.cursor = to, !.pages = pages]
      OBVIOUS
    <3>1. counting' = [counting EXCEPT ![c] = count]
      BY <1>2, <2>4 DEF CountPage
    <3>2. count \in Count /\ count.step = "list"
      BY <2>1 DEF Count
    <3>3. QED BY <1>0, <2>3, <3>1, <3>2, CountMoves
  <2>5. CASE ~(KeysAfter(to) # {} /\ pages < MaxPages)
    <3> PICK count : count = [step |-> "keep", saved |-> Saved(c, more, Unlisted(to, pages))]
      OBVIOUS
    <3>1. counting' = [counting EXCEPT ![c] = count]
      BY <1>2, <2>5 DEF CountPage
    <3>2. count.step = "keep"
      OBVIOUS
    <3>3. QED BY <1>0, <2>3, <3>1, <3>2, CountMoves
  <2>6. QED BY <2>4, <2>5
<1>3. ASSUME NEW c \in Counter, Keep(c) PROVE ReportTypes'
  <2> PICK count : count = [step |-> "show"]
    OBVIOUS
  <2>1. count.step = "show" /\ counting' = [counting EXCEPT ![c] = count] /\ UNCHANGED <<past, overview>>
    BY <1>3 DEF Keep
  <2>2. QED BY <1>0, <2>1, CountMoves
<1>4. ASSUME NEW c \in Counter, ShowKept(c) \/ Abandon(c) PROVE ReportTypes'
  <2>1. /\ counting' = [counting EXCEPT ![c] = Uncounted] /\ UNCHANGED past /\ Uncounted.step = "idle"
        /\ DOMAIN overview' = Counter
    BY <1>0, <1>4 DEF ShowKept, Abandon, Uncounted
  <2>2. QED BY <2>1, CountMoves
<1>5. ASSUME UNCHANGED reportVars PROVE ReportTypes'
  BY <1>5 DEF reportVars, ReportTypes, Count, Now
<1>6. QED BY <1>1, <1>2, <1>3, <1>4, <1>5, BucketMoves DEF ReportNext

-----------------------------------------------------------------------------
(* The types of all of them.                                                *)

\* All the variables of the admin UI keep their types, whatever the people at its pages
\* do; the audit page's way back has one step for each page shown before this one.
THEOREM AdminTyped ==
  /\ PageSpec /\ LogSpec /\ RowsSpec /\ KeysSpec
  /\ ReportInit /\ [][ReportNext]_reportVars
  => []AdminTypes
<1>1. LogSpec => []LogInv
  BY LogStarts, LogStep, PTL DEF LogSpec
<1>2. RowsSpec => []RowsInv
  BY RowsInitInv, RowsStep, PTL DEF RowsSpec
<1>3. KeysSpec => []KeysInv
  BY KeysInitInv, KeysStep, PTL DEF KeysSpec
<1>4. ReportInit /\ [][ReportNext]_reportVars => []ReportTypes
  BY ReportBegins, ReportMoves, PTL
<1>5. LogInv => LogTypes
  BY PagesFollow
<1>6. RowsInv => RowTypes
  BY DEF RowsInv, RowTypes
<1>7. KeysInv => KeysTypes
  BY DEF KeysInv, MemoryEnds, KeysTypes
<1>8. TypeOK /\ PageTypes /\ LogTypes /\ RowTypes /\ KeysTypes /\ ReportTypes => AdminTypes
  BY DEF AdminTypes
<1>9. QED BY <1>1, <1>2, <1>3, <1>4, <1>5, <1>6, <1>7, <1>8, PageTypesHold, PTL

=============================================================================
