--------------------------- MODULE TransferAgent ---------------------------
(***************************************************************************)
(* One object's way to the server in parts: the CLI's git-lfs transfer     *)
(* agent (cli/app/transfer-agent.ts), the file in which it remembers an    *)
(* upload (cli/infra/multipart-uploads.ts), and what its calls do to the   *)
(* Worker's multipart uploads (src/app/multipart.ts).                      *)
(*                                                                         *)
(* A call takes effect at once; its answer may be lost, and the agent may  *)
(* be killed at any moment and is started again by the next push.  The     *)
(* steps inside completeMultipart are in module Uploads; here a complete   *)
(* that is cut short leaves the object staged.                             *)
(***************************************************************************)
EXTENDS Integers, FiniteSetsExt

CONSTANTS
  Size,       \* the object's size
  Limit,      \* request sizes an administrator may set, in the unit of Size
  FirstLimit, \* the one the server starts with
  UploadId,
  Attempts,   \* how often the agent makes a call before it gives up
  MaxFaults,  \* bound: faults in a behaviour
  Scenes,     \* which kinds of faults happen together, and how many
  None

ASSUME SizeAssumption == Size \in Nat
ASSUME LimitAssumption == Limit \subseteq Nat \ {0} /\ FirstLimit \in Limit
ASSUME FaultAssumption ==
  /\ Attempts \in Nat \ {0} /\ MaxFaults \in Nat
  /\ Scenes \subseteq [kinds : SUBSET {"lost", "throttled", "refused", "expired", "crash",
                                       "abandoned", "raised", "lowered"},
                       most : 0..MaxFaults]

VARIABLES
  scene,    \* the faults of this behaviour; it stays
  limit,    \* the server's request size
  uploads,  \* R2's multipart uploads under the staging key
  object,   \* what became of the object: absent, staged or stored
  saved,    \* the agent's file about this object
  agent,    \* what the agent is doing
  faults    \* how many faults there were

server == <<limit, uploads, object>>
vars == <<scene, limit, uploads, object, saved, agent, faults>>

\* Parts as large as a request, the last one shorter.
PartCount_Floor(partSize) == IF Size < partSize THEN 1 ELSE Size \div partSize
PartCount(partSize) ==
  IF Size = 0 THEN 1 ELSE (Size + partSize - 1) \div partSize
PartLength(partSize, n) ==
  LET rest == Size - (n - 1) * partSize
  IN  IF rest < partSize THEN rest ELSE partSize
Numbers(partSize) == 1..PartCount(partSize)

\* Every time a part is stored it gets another etag, here a number; 0 is none.
PartNumber == UNION {Numbers(l) : l \in Limit}
SavedUpload == [id : UploadId, partSize : Limit, parts : [PartNumber -> Nat]]
Upload == [state : {"new", "open", "over"}, parts : [PartNumber -> Nat]]
Agent == [step : {"idle", "start", "part", "complete"}, state : SavedUpload \cup {None},
          resumed : BOOLEAN, attempt : 1..Attempts, token : {"valid", "expired"},
          report : {"none", "ok", "error"}]

ASSUME NoneAssumption == None \notin SavedUpload

NoParts == [n \in PartNumber |-> 0]

TypeOK ==
  /\ scene \in Scenes
  /\ limit \in Limit
  /\ uploads \in [UploadId -> Upload]
  /\ object \in {"absent", "staged", "stored"}
  /\ saved \in SavedUpload \cup {None}
  /\ agent \in Agent
  /\ faults \in 0..MaxFaults
  /\ agent.step \in {"part", "complete"} => agent.state # None

Init ==
  /\ scene \in Scenes
  /\ limit = FirstLimit
  /\ uploads = [i \in UploadId |-> [state |-> "new", parts |-> NoParts]]
  /\ object = "absent"
  /\ saved = None
  /\ agent = [step |-> "idle", state |-> None, resumed |-> FALSE, attempt |-> 1,
              token |-> "valid", report |-> "none"]
  /\ faults = 0

-----------------------------------------------------------------------------
Fault(kind) == kind \in scene.kinds /\ faults < scene.most /\ faults' = faults + 1
NoFault == faults' = faults

Report(answer) ==
  agent' = [agent EXCEPT !.step = "idle", !.state = None, !.report = answer]

Retry_Succeeds ==
  IF agent.attempt < Attempts THEN agent' = [agent EXCEPT !.attempt = @ + 1]
  ELSE Report("ok")

\* Errors the server may not repeat are tried again a few times.
Retry ==
  IF agent.attempt < Attempts THEN agent' = [agent EXCEPT !.attempt = @ + 1]
  ELSE Report("error")

\* What is left to send, and the step to take next.
Missing(s) == {n \in Numbers(s.partSize) : s.parts[n] = 0}
NextStep(s) == IF Missing(s) = {} THEN "complete" ELSE "part"

Continue(s, resumed) ==
  agent' = [agent EXCEPT !.step = NextStep(s), !.state = s, !.resumed = resumed,
                         !.attempt = 1]

Loaded_AllToDo(a) ==
  IF saved' = None
    THEN [a EXCEPT !.step = "start", !.state = None, !.resumed = FALSE, !.attempt = 1]
    ELSE [a EXCEPT !.step = "part", !.state = [saved' EXCEPT !.parts = NoParts],
                   !.resumed = TRUE, !.attempt = 1]
\* An upload starts from the file about it, if there is one.
Loaded(a) ==
  [a EXCEPT !.step = IF saved' = None THEN "start" ELSE NextStep(saved'),
            !.state = saved', !.resumed = (saved' # None), !.attempt = 1]

Expired == agent.token = "expired"

-----------------------------------------------------------------------------
(* A push hands the object to the agent with a token for it, unless the     *)
(* server has the object.                                                  *)

Begin ==
  /\ agent.step = "idle" /\ object # "stored"
  /\ UNCHANGED <<scene, server, saved, faults>>
  /\ agent' = Loaded([agent EXCEPT !.token = "valid", !.report = "none"])

\* The server opens an upload with parts as large as its requests may be.
Open(i) ==
  /\ uploads[i].state = "new"
  /\ uploads' = [uploads EXCEPT ![i].state = "open"]
Started(i) == [id |-> i, partSize |-> limit, parts |-> NoParts]

Start ==
  /\ agent.step = "start" /\ ~Expired
  /\ \E i \in UploadId :
       /\ Open(i)
       /\ saved' = Started(i)
       /\ Continue(Started(i), FALSE)
  /\ NoFault
  /\ UNCHANGED <<scene, limit, object>>

StartLost ==
  /\ agent.step = "start" /\ ~Expired
  /\ Fault("lost")
  /\ uploads' = uploads \/ \E i \in UploadId : Open(i)
  /\ Retry
  /\ UNCHANGED <<scene, limit, object, saved>>

-----------------------------------------------------------------------------
(* Sending the first part that is missing. *)

NextPart(s) == Min(Missing(s))

TooLarge(s) == PartLength(s.partSize, NextPart(s)) > limit
PartTaken(s) == uploads[s.id].state = "open" /\ ~TooLarge(s)

Store(s, n) == uploads' = [uploads EXCEPT ![s.id].parts[n] = @ + 1]

SendPart ==
  LET s == agent.state
      n == NextPart(s)
      next == [s EXCEPT !.parts[n] = uploads[s.id].parts[n] + 1]
  IN  /\ agent.step = "part" /\ ~Expired
      /\ PartTaken(s)
      /\ Store(s, n)
      /\ saved' = next
      /\ Continue(next, agent.resumed)
      /\ NoFault
      /\ UNCHANGED <<scene, limit, object>>

PartLost ==
  LET s == agent.state
  IN  /\ agent.step = "part" /\ ~Expired
      /\ Fault("lost")
      /\ uploads' = uploads \/ (PartTaken(s) /\ Store(s, NextPart(s)))
      /\ Retry
      /\ UNCHANGED <<scene, limit, object, saved>>

\* The request size is looked at before the upload.
PartRefused ==
  /\ agent.step = "part" /\ ~Expired
  /\ TooLarge(agent.state)
  /\ Report("error")
  /\ NoFault
  /\ UNCHANGED <<scene, server, saved>>

\* The server forgot the upload: from the first part again, if it was an
\* earlier push that had started it.
PartUnknown ==
  /\ agent.step = "part" /\ ~Expired
  /\ ~TooLarge(agent.state) /\ uploads[agent.state.id].state # "open"
  /\ saved' = None
  /\ IF agent.resumed THEN agent' = Loaded(agent) ELSE Report("error")
  /\ NoFault
  /\ UNCHANGED <<scene, server>>

-----------------------------------------------------------------------------
(* Completing the upload. *)

\* R2 puts the parts together if they are the ones it has.
Assembles(s) ==
  /\ uploads[s.id].state = "open"
  /\ \A n \in PartNumber : s.parts[n] # 0 => s.parts[n] = uploads[s.id].parts[n]

\* The parts hold every byte of the object.
Whole(s) ==
  \A byte \in 1..Size :
    \E n \in PartNumber :
      s.parts[n] # 0 /\ byte \in (n - 1) * s.partSize + 1 .. n * s.partSize

\* What the server can go on with: the parts, or what an earlier call left.
CarriesOn_Never(s) == Assembles(s) /\ Whole(s)
CarriesOn(s) == (Assembles(s) /\ Whole(s)) \/ object = "staged"

Close(s) ==
  uploads' = IF Assembles(s) THEN [uploads EXCEPT ![s.id].state = "over"] ELSE uploads

Complete ==
  LET s == agent.state
  IN  /\ agent.step = "complete" /\ ~Expired
      /\ CarriesOn(s) \/ object = "stored"
      /\ Close(s)
      /\ object' = "stored"
      /\ saved' = None
      /\ Report("ok")
      /\ NoFault
      /\ UNCHANGED <<scene, limit>>

\* The answer is lost, and the call may have been cut short at any point.
CompleteLost ==
  LET s == agent.state
  IN  /\ agent.step = "complete" /\ ~Expired
      /\ Fault("lost")
      /\ \/ UNCHANGED <<uploads, object>>
         \/ /\ CarriesOn(s) /\ object # "stored"
            /\ Close(s)
            /\ object' \in {"staged", "stored"}
      /\ Retry
      /\ UNCHANGED <<scene, limit, saved>>

\* A refusal drops what was saved.
DropSaved_Keeps == UNCHANGED saved
DropSaved == saved' = None

\* 422: there is nothing to put together and nothing was left.  R2 may also
\* just have failed, which reads the same.
CompleteRefused ==
  LET s == agent.state
  IN  /\ agent.step = "complete" /\ ~Expired
      /\ object # "stored"
      /\ IF CarriesOn(s)
           THEN object = "absent" /\ Fault("refused") /\ uploads' = uploads
           ELSE NoFault /\ Close(s)
      /\ DropSaved
      /\ Report("error")
      /\ UNCHANGED <<scene, limit, object>>

\* 429, tried again like a lost answer, counts as a refusal in the end.
Throttled ==
  /\ agent.step \in {"start", "part", "complete"} /\ ~Expired
  /\ Fault("throttled")
  /\ Retry
  /\ IF agent.step = "complete" /\ agent.attempt = Attempts
       THEN saved' = None ELSE saved' = saved
  /\ UNCHANGED <<scene, server>>

\* 401 for whatever the agent asks once its token has expired.
Unauthorized ==
  /\ agent.step # "idle" /\ Expired
  /\ IF agent.step = "complete" THEN DropSaved ELSE saved' = saved
  /\ Report("error")
  /\ NoFault
  /\ UNCHANGED <<scene, server>>

-----------------------------------------------------------------------------
(* What happens around it. *)

TokenExpires ==
  /\ agent.step # "idle" /\ agent.token = "valid"
  /\ Fault("expired")
  /\ agent' = [agent EXCEPT !.token = "expired"]
  /\ UNCHANGED <<scene, server, saved>>

Killed ==
  /\ agent.step # "idle"
  /\ Fault("crash")
  /\ Report("none")
  /\ UNCHANGED <<scene, server, saved>>

\* The bucket's rules abort old uploads and remove what was left staged.
Abandoned ==
  /\ Fault("abandoned")
  /\ \/ /\ \E i \in UploadId :
             /\ uploads[i].state = "open"
             /\ uploads' = [uploads EXCEPT ![i].state = "over"]
        /\ object' = object
     \/ object = "staged" /\ object' = "absent" /\ uploads' = uploads
  /\ UNCHANGED <<scene, limit, saved, agent>>

SetLimit ==
  /\ \E l \in Limit :
       /\ limit' = l
       /\ (l > limit /\ Fault("raised")) \/ (l < limit /\ Fault("lowered"))
  /\ UNCHANGED <<scene, uploads, object, saved, agent>>

-----------------------------------------------------------------------------
Progress ==
  \/ Begin \/ Start \/ SendPart \/ PartRefused \/ PartUnknown \/ Complete
  \/ (NoFault /\ CompleteRefused) \/ Unauthorized

Next ==
  \/ Begin
  \/ Start \/ StartLost
  \/ SendPart \/ PartLost \/ PartRefused \/ PartUnknown
  \/ Complete \/ CompleteLost \/ CompleteRefused
  \/ Throttled \/ Unauthorized
  \/ TokenExpires \/ Killed \/ Abandoned \/ SetLimit

Spec == Init /\ [][Next]_vars

\* The agent goes on with what it is doing, and whoever pushes tries again as
\* long as the object is not there.
FairSpec == Spec /\ WF_vars(Progress)

-----------------------------------------------------------------------------
(* What should hold. *)

\* The agent reports success only when the server has the object, whatever
\* answers it lost on the way (upload, completeMultipart).
ReportedIsStored == agent.report = "ok" => object = "stored"

\* An upload is completed with every part of the object, and with the etags
\* under which the server has them, also when an earlier push sent some of them.
CompletesWhole ==
  agent.step = "complete" =>
    /\ Whole(agent.state)
    /\ uploads[agent.state.id].state = "open" => Assembles(agent.state)

\* A part that the server acknowledged is not sent again as long as its upload
\* is remembered: an interrupted push goes on after it.
NothingSentTwice ==
  [][saved # None =>
       \A n \in PartNumber : saved.parts[n] # 0 =>
         uploads'[saved.id].parts[n] = uploads[saved.id].parts[n]]_vars

\* What was sent is given up only when it is of no more use: the object is
\* stored, or the server has neither the upload nor what it was put together to.
\* Only refusals that say nothing about the content are taken for one that does.
Mistaken == {"throttled", "refused", "expired"}
ProgressKept ==
  [][scene.kinds \cap Mistaken = {} /\ saved # None /\ saved' = None =>
       object' = "stored" \/ (uploads[saved.id].state # "open" /\ object # "staged")]_vars

\* Whoever pushes again after every failure gets the object to the server, unless
\* an administrator makes requests smaller than the parts of an upload are.
PushGoesThrough == "lowered" \notin scene.kinds => <>(object = "stored")
=============================================================================
