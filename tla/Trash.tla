------------------------------- MODULE Trash -------------------------------
(***************************************************************************)
(* Moving objects between their live key and their trash key, as          *)
(* src/shared/trash.ts does it for both the Worker and the CLI, over a     *)
(* bucket with no versioning that may refuse a call, or lose the answer of *)
(* a call it carried out.                                                  *)
(*                                                                         *)
(* A mover is one call of moveToTrash, restoreFromTrash, tier or a plain   *)
(* delete: a gc run, a restore command, a click in the admin page.  Every  *)
(* call a mover makes to the bucket is a step of its own, so movers,       *)
(* uploads and lifecycle rules interleave between any two of them.  A      *)
(* copy is a read of the source and a later write of the target, which is  *)
(* how the Worker does it; the single S3 request of the CLI is the case in *)
(* which nothing comes in between.                                         *)
(*                                                                         *)
(* A bucket lock rule is a refusal the bucket may give whenever the key it *)
(* would delete or overwrite holds an object: which rules exist, and since *)
(* when the object is there, only narrows when that happens.               *)
(***************************************************************************)
EXTENDS FiniteSets

CONSTANTS
  Oid,        \* the objects, each with one live key and one trash key
  Mover,      \* the calls that can be in flight at once
  Ops,        \* the operations the calls ask for
  Exclusive   \* TRUE: no call works on an object that another is removing

ASSUME OpsAssumption == Ops \subseteq {"trash", "restore", "tier", "delete"}
ASSUME ExclusiveAssumption == Exclusive \in BOOLEAN

VARIABLES
  live,       \* the objects stored under their live key
  trash,      \* the objects stored under their trash key
  job,        \* what each mover is doing
  kept        \* the objects stored and not given up since by anybody's choice

vars == <<live, trash, job, kept>>

Removals == {"trash", "delete"}     \* the operations that delete a live key

\* What a finished call reports.  "unchecked" is the delete-refused of a call
\* that could not check afterwards, "refused" the one that did.
Answers == {"trashed", "locked", "refused", "unchecked", "copy-refused",
            "restored", "tiered", "deleted", "failed"}
Steps == {"head", "read", "write", "delete", "check", "drop"}

Idle == [op |-> "none", step |-> "idle"]
Running == [op : Ops, oid : Oid, step : Steps, answer : Answers \cup {"none"}]
Finished == [op : Ops, oid : Oid, step : {"done"}, answer : Answers]

TypeOK ==
  /\ live \subseteq Oid
  /\ trash \subseteq Oid
  /\ kept \subseteq Oid
  /\ job \in [Mover -> {Idle} \cup Running \cup Finished]

Init ==
  /\ live \in SUBSET Oid
  /\ trash = {}
  /\ job = [m \in Mover |-> Idle]
  /\ kept = live

-----------------------------------------------------------------------------
Busy(m) == job[m] # Idle
At(m, step) == Busy(m) /\ job[m].step = step
WorksOn(m, o, ops) == Busy(m) /\ job[m].oid = o /\ job[m].op \in ops

\* Two movers may work on one object at a time if neither of them removes it;
\* tier only rewrites the live key in place and gets in nobody's way.
MayStart(op, o) ==
  Exclusive /\ op # "tier" =>
    \A n \in Mover : ~WorksOn(n, o, IF op \in Removals
                                      THEN {"trash", "delete", "restore"}
                                      ELSE Removals)

Go(m, step) == job' = [job EXCEPT ![m].step = step]
GoPending(m, step, answer) ==
  job' = [job EXCEPT ![m].step = step, ![m].answer = answer]
Answer(m, answer) == GoPending(m, "done", answer)

-----------------------------------------------------------------------------
(* The requests. *)

FirstStep(op) == IF op = "delete" THEN "delete"
                 ELSE IF op = "tier" THEN "head" ELSE "read"

Start(m, op, o) ==
  /\ ~Busy(m)
  /\ MayStart(op, o)
  /\ job' = [job EXCEPT ![m] = [op |-> op, oid |-> o, step |-> FirstStep(op),
                                answer |-> "none"]]
  /\ UNCHANGED <<live, trash, kept>>

\* tier leaves an object alone that is missing or in Infrequent Access already;
\* the CLI has no such check and copies at once.
TierHead(m) ==
  /\ At(m, "head")
  /\ \/ job[m].oid \notin live /\ Answer(m, "failed")
     \/ job[m].oid \in live /\ Answer(m, "tiered")
     \/ Go(m, "read")
  /\ UNCHANGED <<live, trash, kept>>

Source(op) == IF op = "restore" THEN trash ELSE live
Target(op) == IF op = "trash" THEN trash ELSE live

\* The copy reads its source: the call is refused when nothing is there, and
\* may fail when something is.
CopyRead(m) ==
  /\ At(m, "read")
  /\ \/ job[m].oid \in Source(job[m].op) /\ Go(m, "write")
     \/ Answer(m, "copy-refused")
  /\ UNCHANGED <<live, trash, kept>>

PutTarget(m) ==
  IF job[m].op = "trash"
    THEN trash' = trash \cup {job[m].oid} /\ live' = live
    ELSE live' = live \cup {job[m].oid} /\ trash' = trash

AfterCopy(m) ==
  CASE job[m].op = "trash"   -> Go(m, "delete")
    [] job[m].op = "restore" -> GoPending(m, "drop", "restored")
    [] OTHER                 -> Answer(m, "tiered")

\* Any refusal aborts the call, except the one below.
AfterRefusedCopy(m) == Answer(m, "copy-refused")

\* A lock rule protects the object the copy would overwrite.  For a restore
\* that object is the one to bring back, so it goes on as if it had copied.
AfterLockedCopy(m) ==
  IF job[m].op = "restore" THEN GoPending(m, "drop", "restored")
  ELSE Answer(m, "copy-refused")

\* The copy writes its target.  Refused or unanswered, it may still have been
\* carried out, unless the content did not hash to the oid.
CopyWrite(m) ==
  /\ At(m, "write")
  /\ \/ PutTarget(m) /\ AfterCopy(m)
     \/ /\ job[m].oid \in Target(job[m].op)
        /\ AfterLockedCopy(m)
        /\ UNCHANGED <<live, trash>>
     \/ UNCHANGED <<live, trash>> /\ AfterRefusedCopy(m)
     \/ PutTarget(m) /\ AfterRefusedCopy(m)
  /\ kept' = kept

-----------------------------------------------------------------------------
(* Deleting the live key. *)

AfterDelete(m) ==
  Answer(m, IF job[m].op = "trash" THEN "trashed" ELSE "deleted")

AfterLockedDelete(m) ==
  IF job[m].op = "trash" THEN GoPending(m, "drop", "locked")
  ELSE Answer(m, "locked")

AfterFailedDelete_NoCheck(m) ==
  IF job[m].op = "trash" THEN GoPending(m, "drop", "refused")
  ELSE Answer(m, "failed")

\* An error response proves nothing, so the object is looked for first.
AfterFailedDelete(m) ==
  IF job[m].op = "trash" THEN Go(m, "check") ELSE Answer(m, "failed")

\* A plain delete gives the object up, unless the trash still has a copy.
GiveUp(m) ==
  kept' = IF job[m].op = "delete" THEN kept \ ({job[m].oid} \ trash) ELSE kept

RemoveLive(m) == live' = live \ {job[m].oid} /\ GiveUp(m)

DeleteLive(m) ==
  /\ At(m, "delete")
  /\ \/ RemoveLive(m) /\ AfterDelete(m)
     \/ job[m].oid \in live /\ AfterLockedDelete(m) /\ UNCHANGED <<live, kept>>
     \/ AfterFailedDelete(m) /\ UNCHANGED <<live, kept>>
     \/ RemoveLive(m) /\ AfterFailedDelete(m)
  /\ trash' = trash

Unchecked_Drops(m) == GoPending(m, "drop", "unchecked")

\* The bucket cannot say whether the object is there: the trash copy stays.
Unchecked(m) == Answer(m, "unchecked")

CheckLive(m) ==
  /\ At(m, "check")
  /\ \/ Unchecked(m)
     \/ job[m].oid \notin live /\ Answer(m, "trashed")
     \/ job[m].oid \in live /\ GoPending(m, "drop", "refused")
  /\ UNCHANGED <<live, trash, kept>>

\* deleteQuietly of the trash copy; the call reports the same either way.
DropCopy(m) ==
  /\ At(m, "drop")
  /\ trash' \in {trash, trash \ {job[m].oid}}
  /\ Answer(m, job[m].answer)
  /\ UNCHANGED <<live, kept>>

Acknowledge(m) ==
  /\ At(m, "done")
  /\ job' = [job EXCEPT ![m] = Idle]
  /\ UNCHANGED <<live, trash, kept>>

\* The Worker is evicted, the CLI is interrupted: nothing resumes the call.
Crash(m) ==
  /\ Busy(m)
  /\ ~At(m, "done")
  /\ job' = [job EXCEPT ![m] = Idle]
  /\ UNCHANGED <<live, trash, kept>>

-----------------------------------------------------------------------------
(* The rest of the system. *)

\* An upload stores the object under its live key, whether or not a copy of
\* it is in the trash.
Upload(o) ==
  /\ o \notin live
  /\ live' = live \cup {o}
  /\ kept' = kept \cup {o}
  /\ UNCHANGED <<trash, job>>

\* The lifecycle rule expires a trash copy.  A call that moves the object to
\* the trash has just written its copy, which is then a month from expiring.
Expire(o) ==
  /\ o \in trash
  /\ \A m \in Mover : ~WorksOn(m, o, {"trash"})
  /\ trash' = trash \ {o}
  /\ kept' = kept \ ({o} \ live)
  /\ UNCHANGED <<live, job>>

Next ==
  \/ \E m \in Mover :
       \/ \E op \in Ops, o \in Oid : Start(m, op, o)
       \/ TierHead(m)
       \/ CopyRead(m)
       \/ CopyWrite(m)
       \/ DeleteLive(m)
       \/ CheckLive(m)
       \/ DropCopy(m)
       \/ Acknowledge(m)
       \/ Crash(m)
  \/ \E o \in Oid : Upload(o) \/ Expire(o)

Spec == Init /\ [][Next]_vars

-----------------------------------------------------------------------------
(* What has to hold. *)

\* No sequence of refusals, lost answers, crashes and uploads leaves an object
\* in neither place: as long as nobody deletes it for good and the trash does
\* not expire, there is a copy under one of its two keys.
NeverInNeitherPlace == kept \subseteq live \cup trash

\* What a call says is so when it says it: a trashed object is in the trash, a
\* restored one is live, and a call that was refused left the object in place.
AnswersHold ==
  \A m \in Mover : At(m, "done") =>
    /\ job[m].answer = "trashed" => job[m].oid \in trash
    /\ job[m].answer \in {"restored", "refused"} => job[m].oid \in live
    /\ job[m].answer = "locked" => job[m].oid \in live
    /\ job[m].answer = "unchecked" => job[m].oid \in trash
=============================================================================
