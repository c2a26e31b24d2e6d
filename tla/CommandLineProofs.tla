------------------------- MODULE CommandLineProofs -------------------------
(***************************************************************************)
(* What the command line does: the transfer agent for an object of any     *)
(* size, any request sizes, any number of attempts and any faults; migrate *)
(* for any objects; setup for any options; the credential helper for any   *)
(* number of gits; the edits of the tokens file, which commands and the    *)
(* Worker make side by side, for any number of both; and archive, for any  *)
(* entries and part sizes.                                                 *)
(*                                                                         *)
(* The heart of the transfer agent is Acknowledged: the etags in its file  *)
(* are the ones the server has.  It holds because only parts without an    *)
(* etag are sent and every acknowledged one is written to the file at      *)
(* once.                                                                   *)
(***************************************************************************)
EXTENDS TransferAgent, StoredTokens, Credential, Setup, Migrate, Archive, SequenceTheorems,
  TLAPS, WellFoundedInduction

\* What the agent works on is what its file says.
Remembered ==
  /\ agent.step \in {"part", "complete"} => agent.state = saved
  /\ agent.step = "start" => saved = None

\* The server has the parts that were acknowledged, under the same etags.
Acknowledged ==
  saved # None =>
    \A n \in PartNumber :
      saved.parts[n] # 0 => uploads[saved.id].parts[n] = saved.parts[n]

\* A step is taken when it is due.
Due ==
  /\ agent.step = "part" => Missing(agent.state) # {}
  /\ agent.step = "complete" => Missing(agent.state) = {}

\* What one step may not do (see NothingSentTwice).
SentOnce ==
  saved # None =>
    \A n \in PartNumber : saved.parts[n] # 0 =>
      uploads'[saved.id].parts[n] = uploads[saved.id].parts[n]

IInv == TypeOK /\ Remembered /\ Acknowledged /\ Due /\ ReportedIsStored

-----------------------------------------------------------------------------
LEMMA MinIsIn == ASSUME NEW S \in SUBSET Nat, S # {} PROVE Min(S) \in S
<1> DEFINE Less == {ss \in Nat \X Nat : ss[1] < ss[2]}
<1>1. IsWellFoundedOn(Less, Nat)
  BY NatLessThanWellFounded DEF OpToRel
<1> HIDE DEF Less
<1>2. \E x \in S : \A y \in S : ~(<<y, x>> \in Less)
  BY <1>1, WFMin
<1>3. \A x, y \in Nat : y < x => <<y, x>> \in Less
  BY DEF Less
<1>4. PICK x \in S : \A y \in S : ~(<<y, x>> \in Less)
  BY <1>2
<1>5. \A y \in S : x =< y
  <2> SUFFICES ASSUME NEW y \in S PROVE x =< y
    OBVIOUS
  <2>1. x \in Nat /\ y \in Nat
    OBVIOUS
  <2>2. ~(y < x)
    BY <2>1, <1>3, <1>4
  <2> QED BY <2>1, <2>2
<1> QED BY <1>5 DEF Min

LEMMA CountIsNat == \A l \in Nat \ {0} : PartCount(l) \in Nat \ {0}
<1> SUFFICES ASSUME NEW l \in Nat \ {0} PROVE PartCount(l) \in Nat \ {0}
  OBVIOUS
<1>1. CASE Size = 0
  BY <1>1 DEF PartCount
<1>2. CASE Size # 0
  <2> DEFINE q == (Size + l - 1) \div l
  <2>1. Size + l - 1 \in Nat /\ Size + l - 1 >= l
    BY <1>2, SizeAssumption
  <2>2. q \in Nat \ {0}
    BY <2>1
  <2> QED BY <1>2, <2>2 DEF PartCount
<1> QED BY <1>1, <1>2

LEMMA NumbersTyped ==
  /\ PartNumber \subseteq Nat \ {0}
  /\ \A l \in Limit : Numbers(l) \subseteq PartNumber
<1>1. \A l \in Limit : Numbers(l) \subseteq Nat \ {0}
  BY CountIsNat, LimitAssumption DEF Numbers
<1> QED BY <1>1 DEF PartNumber

\* Together, as many parts as the agent counts hold the whole object.
LEMMA CountCovers ==
  ASSUME NEW l \in Nat \ {0}, NEW byte \in 1..Size
  PROVE  \E n \in 1..PartCount(l) : byte \in (n - 1) * l + 1 .. n * l
<1> DEFINE n == (byte + l - 1) \div l
           c == (Size + l - 1) \div l
<1>0. byte \in Nat /\ Size \in Nat /\ Size # 0 /\ byte >= 1 /\ byte <= Size
  BY SizeAssumption
<1>1. n \in Nat /\ n * l <= byte + l - 1 /\ byte + l - 1 < (n + 1) * l
  BY <1>0
<1>2. c \in Nat /\ c * l <= Size + l - 1 /\ Size + l - 1 < (c + 1) * l
  BY <1>0
<1> HIDE DEF n, c
<1>3. (n + 1) * l = n * l + l /\ (n - 1) * l = n * l - l
  BY <1>1
<1>4. n * l \in Int
  BY <1>1
<1>5. byte \in (n - 1) * l + 1 .. n * l
  BY <1>0, <1>1, <1>3, <1>4
<1>6. n # 0
  BY <1>0, <1>1, <1>3
<1>7. n <= c
  <2> SUFFICES ASSUME n > c PROVE FALSE
    BY <1>1, <1>2
  <2>1. PICK d \in Nat : n = c + 1 + d
    <3>1. n - c - 1 \in Nat /\ n = c + 1 + (n - c - 1)
      BY <1>1, <1>2
    <3> QED BY <3>1
  <2>2. n * l = (c + 1) * l + d * l /\ d * l \in Nat
    BY <2>1, <1>2
  <2>3. (c + 1) * l \in Nat
    BY <1>2
  <2> QED BY <2>2, <2>3, <1>0, <1>1, <1>2
<1>8. PartCount(l) = c
  BY <1>0 DEF PartCount, c
<1> QED BY <1>1, <1>2, <1>5, <1>6, <1>7, <1>8

-----------------------------------------------------------------------------
(* What the helpers of the actions do. *)

LEMMA NextStepDue ==
  \A s \in SavedUpload :
    /\ NextStep(s) \in {"part", "complete"}
    /\ NextStep(s) = "part" => Missing(s) # {}
    /\ NextStep(s) = "complete" => Missing(s) = {}
BY DEF NextStep

LEMMA NextPartMissing ==
  ASSUME NEW s \in SavedUpload, Missing(s) # {}
  PROVE  NextPart(s) \in PartNumber /\ s.parts[NextPart(s)] = 0
<1>1. Missing(s) \in SUBSET PartNumber /\ Missing(s) \in SUBSET Nat
  BY NumbersTyped DEF Missing, SavedUpload
<1>2. Min(Missing(s)) \in Missing(s)
  BY <1>1, MinIsIn
<1> QED BY <1>1, <1>2 DEF NextPart, Missing

LEMMA Reports ==
  ASSUME agent \in Agent, NEW answer \in {"none", "ok", "error"}, Report(answer)
  PROVE  agent' \in Agent /\ agent'.step = "idle" /\ agent'.report = answer
BY DEF Report, Agent

LEMMA Retries ==
  ASSUME agent \in Agent, Retry
  PROVE  /\ agent' \in Agent
         /\ \/ /\ agent'.step = agent.step /\ agent'.state = agent.state
               /\ agent'.report = agent.report
            \/ agent'.step = "idle" /\ agent'.report # "ok"
<1>1. CASE agent.attempt < Attempts
  BY <1>1, FaultAssumption DEF Retry, Agent
<1>2. CASE ~(agent.attempt < Attempts)
  BY <1>2, Reports DEF Retry
<1> QED BY <1>1, <1>2

LEMMA Continues ==
  ASSUME agent \in Agent, NEW s \in SavedUpload, NEW resumed \in BOOLEAN,
         Continue(s, resumed)
  PROVE  /\ agent' \in Agent
         /\ agent'.step = NextStep(s) /\ agent'.state = s
         /\ agent'.report = agent.report
<1>1. NextStep(s) \in {"part", "complete"} /\ 1 \in 1..Attempts
  BY NextStepDue, FaultAssumption
<1> QED BY <1>1 DEF Continue, Agent

LEMMA Loads ==
  ASSUME NEW a \in Agent, saved' \in SavedUpload \cup {None}
  PROVE  /\ Loaded(a) \in Agent
         /\ Loaded(a).step = IF saved' = None THEN "start" ELSE NextStep(saved')
         /\ Loaded(a).state = saved' /\ Loaded(a).report = a.report
<1>1. (IF saved' = None THEN "start" ELSE NextStep(saved')) \in {"start", "part", "complete"}
  BY NextStepDue
<1>2. 1 \in 1..Attempts
  BY FaultAssumption
<1> QED BY <1>1, <1>2 DEF Loaded, Agent

LEMMA Opens ==
  ASSUME uploads \in [UploadId -> Upload], NEW i \in UploadId, Open(i)
  PROVE  /\ uploads' \in [UploadId -> Upload]
         /\ \A j \in UploadId : uploads'[j].parts = uploads[j].parts
<1>1. [uploads[i] EXCEPT !.state = "open"] \in Upload
  BY DEF Upload
<1>2. uploads' = [uploads EXCEPT ![i] = [uploads[i] EXCEPT !.state = "open"]]
  BY DEF Open
<1> QED BY <1>1, <1>2 DEF Upload

LEMMA Closes ==
  ASSUME uploads \in [UploadId -> Upload], NEW s \in SavedUpload, Close(s)
  PROVE  /\ uploads' \in [UploadId -> Upload]
         /\ \A j \in UploadId : uploads'[j].parts = uploads[j].parts
<1> DEFINE i == s.id
<1>1. i \in UploadId /\ [uploads[i] EXCEPT !.state = "over"] \in Upload
  BY DEF Upload, SavedUpload
<1>2. \/ uploads' = uploads
      \/ uploads' = [uploads EXCEPT ![i] = [uploads[i] EXCEPT !.state = "over"]]
  BY DEF Close
<1> HIDE DEF i
<1>3. CASE uploads' = uploads
  BY <1>3
<1>4. CASE uploads' = [uploads EXCEPT ![i] = [uploads[i] EXCEPT !.state = "over"]]
  BY <1>1, <1>4 DEF Upload
<1> QED BY <1>2, <1>3, <1>4

LEMMA Stores ==
  ASSUME uploads \in [UploadId -> Upload], NEW s \in SavedUpload,
         NEW n \in PartNumber, Store(s, n)
  PROVE  /\ uploads' \in [UploadId -> Upload]
         /\ uploads'[s.id].parts[n] = uploads[s.id].parts[n] + 1
         /\ \A j \in UploadId, m \in PartNumber :
              <<j, m>> # <<s.id, n>> => uploads'[j].parts[m] = uploads[j].parts[m]
<1> DEFINE i == s.id
           parts == [uploads[i].parts EXCEPT ![n] = @ + 1]
           u == [uploads[i] EXCEPT !.parts = parts]
<1>1. i \in UploadId /\ uploads[i] \in Upload
  BY DEF SavedUpload
<1>2. parts \in [PartNumber -> Nat] /\ parts[n] = uploads[i].parts[n] + 1
      /\ \A m \in PartNumber : m # n => parts[m] = uploads[i].parts[m]
  BY <1>1 DEF Upload
<1>3. uploads' = [uploads EXCEPT ![i] = u]
  BY <1>1 DEF Store, Upload
<1> HIDE DEF parts
<1>4. u \in Upload /\ u.parts = parts
  BY <1>1, <1>2 DEF Upload
<1> HIDE DEF u
<1>5. uploads' \in [UploadId -> Upload] /\ uploads'[i] = u
      /\ \A j \in UploadId : j # i => uploads'[j] = uploads[j]
  BY <1>1, <1>3, <1>4
<1> HIDE DEF i
<1>6. \A j \in UploadId, m \in PartNumber :
        <<j, m>> # <<i, n>> => uploads'[j].parts[m] = uploads[j].parts[m]
  BY <1>2, <1>4, <1>5
<1>7. uploads'[i].parts[n] = uploads[i].parts[n] + 1
  BY <1>2, <1>4, <1>5
<1> QED BY <1>5, <1>6, <1>7 DEF i

-----------------------------------------------------------------------------
(* The invariant holds at first and after every step. *)

LEMMA InitHolds == Init => IInv
<1> SUFFICES ASSUME Init PROVE IInv
  OBVIOUS
<1>1. NoParts \in [PartNumber -> Nat]
  BY DEF NoParts
<1>2. uploads \in [UploadId -> Upload]
  BY <1>1 DEF Init, Upload
<1>3. agent \in Agent
  BY FaultAssumption DEF Init, Agent
<1>4. TypeOK
  BY <1>2, <1>3, LimitAssumption, FaultAssumption DEF Init, TypeOK
<1> QED BY <1>4 DEF Init, IInv, Remembered, Acknowledged, Due, ReportedIsStored

\* Nothing but the agent's own state changed, and that to idle or not at all.
LEMMA Rests ==
  ASSUME IInv, scene' = scene, agent' \in Agent,
         \/ /\ agent'.step = agent.step /\ agent'.state = agent.state
            /\ agent'.report = agent.report
         \/ agent'.step = "idle" /\ agent'.report # "ok"
         \/ agent'.step = "idle" /\ object' = "stored",
         saved' = saved \/ (saved' = None /\ agent'.step = "idle"),
         limit' \in Limit, faults' \in 0..MaxFaults,
         uploads' \in [UploadId -> Upload],
         object' \in {"absent", "staged", "stored"},
         object = "stored" => object' = "stored",
         SentOnce
  PROVE  IInv'
<1> USE DEF IInv
<1>1. TypeOK'
  BY DEF TypeOK
<1>2. Remembered'
  BY DEF Remembered
<1>3. Acknowledged'
  BY DEF Acknowledged, SentOnce
<1>4. Due'
  BY DEF Due, Missing
<1>5. ReportedIsStored'
  BY DEF ReportedIsStored
<1> QED BY <1>1, <1>2, <1>3, <1>4, <1>5

LEMMA FaultCounts == ASSUME TypeOK, NEW kind, Fault(kind) PROVE faults' \in 0..MaxFaults
<1>1. scene.most \in 0..MaxFaults
  BY FaultAssumption DEF TypeOK
<1> QED BY <1>1, FaultAssumption DEF Fault, TypeOK

\* The upload at hand is the one in the file.
LEMMA AtHand ==
  ASSUME IInv, agent.step \in {"part", "complete"}
  PROVE  agent.state \in SavedUpload /\ agent.state = saved /\ saved # None
BY DEF IInv, TypeOK, Remembered, Agent

LEMMA BeginKeeps == ASSUME IInv, Begin, scene' = scene PROVE IInv' /\ SentOnce
<1> DEFINE a == [agent EXCEPT !.token = "valid", !.report = "none"]
<1>1. a \in Agent /\ a.report = "none"
  BY DEF IInv, TypeOK, Agent
<1>2. agent' = Loaded(a) /\ saved' = saved /\ UNCHANGED <<limit, uploads, object, faults>>
  BY DEF Begin, server
<1> HIDE DEF a
<1>3. saved' \in SavedUpload \cup {None}
  BY <1>2 DEF IInv, TypeOK
<1>4. /\ agent' \in Agent /\ agent'.state = saved' /\ agent'.report = "none"
      /\ agent'.step = IF saved' = None THEN "start" ELSE NextStep(saved')
  BY <1>1, <1>2, <1>3, Loads
<1>5. TypeOK'
  BY <1>2, <1>3, <1>4, NextStepDue DEF IInv, TypeOK
<1>6. Remembered' /\ Due'
  BY <1>3, <1>4, NextStepDue DEF Remembered, Due, Missing
<1>7. Acknowledged' /\ ReportedIsStored'
  BY <1>2, <1>4 DEF IInv, Acknowledged, ReportedIsStored
<1>8. SentOnce
  BY <1>2 DEF SentOnce
<1> QED BY <1>5, <1>6, <1>7, <1>8 DEF IInv

LEMMA StartKeeps == ASSUME IInv, Start, scene' = scene PROVE IInv' /\ SentOnce
<1>1. PICK i \in UploadId :
        Open(i) /\ saved' = Started(i) /\ Continue(Started(i), FALSE)
  BY DEF Start
<1>2. Started(i) \in SavedUpload /\ \A n \in PartNumber : Started(i).parts[n] = 0
  BY DEF Started, SavedUpload, NoParts, IInv, TypeOK
<1>3. /\ agent' \in Agent /\ agent'.step = NextStep(saved') /\ agent'.state = saved'
      /\ agent'.report = agent.report
  BY <1>1, <1>2, Continues DEF IInv, TypeOK
<1>4. /\ uploads' \in [UploadId -> Upload]
      /\ \A j \in UploadId : uploads'[j].parts = uploads[j].parts
  BY <1>1, Opens DEF IInv, TypeOK
<1>5. UNCHANGED <<limit, object, faults>>
  BY DEF Start, NoFault
<1>6. saved' \in SavedUpload /\ saved' # None
  BY <1>1, <1>2, NoneAssumption
<1>7. TypeOK'
  BY <1>3, <1>4, <1>5, <1>6 DEF IInv, TypeOK
<1>8. Remembered' /\ Due'
  BY <1>3, <1>6, NextStepDue DEF Remembered, Due, Missing
<1>9. Acknowledged' /\ ReportedIsStored'
  BY <1>1, <1>2, <1>3, <1>5 DEF IInv, Acknowledged, ReportedIsStored
<1>10. SentOnce
  BY <1>4 DEF SentOnce, SavedUpload, IInv, TypeOK
<1> QED BY <1>7, <1>8, <1>9, <1>10 DEF IInv

LEMMA SendPartKeeps ==
  ASSUME IInv, SendPart, scene' = scene
  PROVE  IInv' /\ SentOnce /\ saved' # None
<1> DEFINE s == saved
           n == NextPart(s)
           next == [s EXCEPT !.parts[n] = uploads[s.id].parts[n] + 1]
<1>1. s \in SavedUpload /\ agent.state = s /\ Missing(s) # {}
  BY AtHand DEF SendPart, IInv, Due
<1>2. n \in PartNumber /\ s.parts[n] = 0
  BY <1>1, NextPartMissing
<1>3. Store(s, n) /\ saved' = next /\ Continue(next, agent.resumed)
      /\ UNCHANGED <<limit, object, faults>>
  BY <1>1 DEF SendPart, NoFault
<1>4. agent \in Agent /\ uploads \in [UploadId -> Upload] /\ s # None
  BY <1>1, NoneAssumption DEF IInv, TypeOK
<1> HIDE DEF n
<1>5. /\ uploads' \in [UploadId -> Upload]
      /\ uploads'[s.id].parts[n] = uploads[s.id].parts[n] + 1
      /\ \A j \in UploadId, m \in PartNumber :
           <<j, m>> # <<s.id, n>> => uploads'[j].parts[m] = uploads[j].parts[m]
  BY <1>1, <1>2, <1>3, <1>4, Stores
<1>6. s.id \in UploadId /\ uploads[s.id].parts[n] + 1 \in Nat
  BY <1>1, <1>2, <1>4 DEF SavedUpload, Upload
<1>7. /\ next \in SavedUpload /\ next.id = s.id
      /\ next.parts[n] = uploads[s.id].parts[n] + 1
      /\ \A m \in PartNumber : m # n => next.parts[m] = s.parts[m]
  BY <1>1, <1>2, <1>6 DEF SavedUpload
<1> HIDE DEF next
<1>8. agent' \in Agent /\ agent'.step = NextStep(next) /\ agent'.state = next
      /\ agent'.report = agent.report
  BY <1>3, <1>4, <1>7, Continues DEF Agent
<1>9. next # None
  BY <1>7, NoneAssumption
<1>10. \A m \in PartNumber : s.parts[m] # 0 =>
         m # n /\ uploads'[s.id].parts[m] = uploads[s.id].parts[m]
  BY <1>2, <1>5, <1>6
<1>11. TypeOK'
  BY <1>3, <1>5, <1>7, <1>8, <1>9 DEF IInv, TypeOK
<1>12. Remembered' /\ Due'
  BY <1>3, <1>7, <1>8, NextStepDue DEF Remembered, Due, Missing
<1>13. Acknowledged'
  <2> SUFFICES ASSUME NEW m \in PartNumber, next.parts[m] # 0
               PROVE  uploads'[next.id].parts[m] = next.parts[m]
    BY <1>3 DEF Acknowledged
  <2>1. CASE m = n
    BY <2>1, <1>5, <1>7
  <2>2. CASE m # n
    BY <2>2, <1>4, <1>7, <1>10 DEF IInv, Acknowledged
  <2> QED BY <2>1, <2>2
<1>14. ReportedIsStored'
  BY <1>3, <1>8 DEF IInv, ReportedIsStored
<1>15. SentOnce
  BY <1>10 DEF SentOnce
<1> QED BY <1>3, <1>9, <1>11, <1>12, <1>13, <1>14, <1>15 DEF IInv

\* Uploads whose parts are the same.
LEMMA SamePartsSentOnce ==
  ASSUME TypeOK, \A j \in UploadId : uploads'[j].parts = uploads[j].parts
  PROVE  SentOnce
BY DEF SentOnce, SavedUpload, TypeOK

LEMMA StartLostKeeps == ASSUME IInv, StartLost, scene' = scene PROVE IInv' /\ SentOnce
<1>1. agent \in Agent /\ uploads \in [UploadId -> Upload] /\ TypeOK
  BY DEF IInv, TypeOK
<1>2. /\ uploads' \in [UploadId -> Upload]
      /\ \A j \in UploadId : uploads'[j].parts = uploads[j].parts
  BY <1>1, Opens DEF StartLost
<1>3. SentOnce
  BY <1>1, <1>2, SamePartsSentOnce
<1>4. faults' \in 0..MaxFaults
  BY <1>1, FaultCounts DEF StartLost
<1>5. Retry /\ UNCHANGED <<limit, object, saved>>
  BY DEF StartLost
<1>6. /\ agent' \in Agent
      /\ \/ /\ agent'.step = agent.step /\ agent'.state = agent.state
            /\ agent'.report = agent.report
         \/ agent'.step = "idle" /\ agent'.report # "ok"
  BY <1>1, <1>5, Retries
<1>7. /\ saved' = saved /\ limit' \in Limit /\ object' = object
      /\ object' \in {"absent", "staged", "stored"}
  BY <1>1, <1>5 DEF TypeOK
<1>8. IInv'
  BY <1>2, <1>3, <1>4, <1>6, <1>7, Rests
<1> QED BY <1>3, <1>8

LEMMA PartLostKeeps == ASSUME IInv, PartLost, scene' = scene PROVE IInv' /\ SentOnce
<1> DEFINE n == NextPart(saved)
<1>1. agent \in Agent /\ uploads \in [UploadId -> Upload] /\ TypeOK
  BY DEF IInv, TypeOK
<1>2. saved \in SavedUpload /\ agent.state = saved /\ Missing(saved) # {}
  BY AtHand DEF PartLost, IInv, Due
<1>3. n \in PartNumber /\ saved.parts[n] = 0
  BY <1>2, NextPartMissing
<1>4. uploads' = uploads \/ Store(saved, n)
  BY <1>2 DEF PartLost
<1> HIDE DEF n
<1>5. uploads' \in [UploadId -> Upload] /\ SentOnce
  <2>1. CASE uploads' = uploads
    BY <2>1, <1>1, SamePartsSentOnce
  <2>2. CASE Store(saved, n)
    <3>1. /\ uploads' \in [UploadId -> Upload]
          /\ \A j \in UploadId, m \in PartNumber :
               <<j, m>> # <<saved.id, n>> => uploads'[j].parts[m] = uploads[j].parts[m]
      BY <2>2, <1>1, <1>2, <1>3, Stores
    <3> QED BY <3>1, <1>2, <1>3 DEF SentOnce, SavedUpload
  <2> QED BY <1>4, <2>1, <2>2
<1>6. faults' \in 0..MaxFaults
  BY <1>1, FaultCounts DEF PartLost
<1>7. Retry /\ UNCHANGED <<limit, object, saved>>
  BY DEF PartLost
<1>8. /\ agent' \in Agent
      /\ \/ /\ agent'.step = agent.step /\ agent'.state = agent.state
            /\ agent'.report = agent.report
         \/ agent'.step = "idle" /\ agent'.report # "ok"
  BY <1>1, <1>7, Retries
<1>9. /\ saved' = saved /\ limit' \in Limit /\ object' = object
      /\ object' \in {"absent", "staged", "stored"}
  BY <1>1, <1>7 DEF TypeOK
<1>10. IInv'
  BY <1>5, <1>6, <1>8, <1>9, Rests
<1> QED BY <1>5, <1>10

LEMMA PartUnknownKeeps == ASSUME IInv, PartUnknown, scene' = scene PROVE IInv' /\ SentOnce
<1>1. agent \in Agent /\ TypeOK
  BY DEF IInv, TypeOK
<1>2. saved' = None /\ UNCHANGED <<limit, uploads, object, faults>>
  BY DEF PartUnknown, NoFault, server
<1>3. SentOnce
  BY <1>2 DEF SentOnce
<1>4. CASE agent.resumed
  <2>1. agent' = Loaded(agent)
    BY <1>4 DEF PartUnknown
  <2>2. agent' \in Agent /\ agent'.step = "start" /\ agent'.report = agent.report
    BY <2>1, <1>1, <1>2, Loads
  <2>3. TypeOK'
    BY <2>2, <1>1, <1>2 DEF TypeOK
  <2> QED BY <2>2, <2>3, <1>2, <1>3
          DEF IInv, Remembered, Acknowledged, Due, ReportedIsStored
<1>5. CASE ~agent.resumed
  <2>1. agent' \in Agent /\ agent'.step = "idle" /\ agent'.report = "error"
    BY <1>1, <1>5, Reports DEF PartUnknown
  <2>2. IInv'
    BY <2>1, <1>1, <1>2, <1>3, Rests DEF TypeOK
  <2> QED BY <2>2, <1>3
<1> QED BY <1>4, <1>5

LEMMA CompleteKeeps == ASSUME IInv, Complete, scene' = scene PROVE IInv' /\ SentOnce
<1>1. agent \in Agent /\ uploads \in [UploadId -> Upload] /\ TypeOK
  BY DEF IInv, TypeOK
<1>2. agent.state \in SavedUpload
  BY AtHand DEF Complete
<1>3. Close(agent.state) /\ object' = "stored" /\ saved' = None
      /\ limit' \in Limit /\ faults' \in 0..MaxFaults
  BY <1>1 DEF Complete, NoFault, TypeOK
<1>4. /\ uploads' \in [UploadId -> Upload]
      /\ \A j \in UploadId : uploads'[j].parts = uploads[j].parts
  BY <1>1, <1>2, <1>3, Closes
<1>5. SentOnce
  BY <1>1, <1>4, SamePartsSentOnce
<1>6. agent' \in Agent /\ agent'.step = "idle"
  BY <1>1, Reports DEF Complete
<1>7. IInv'
  BY <1>3, <1>4, <1>5, <1>6, Rests
<1> QED BY <1>5, <1>7

LEMMA CompleteLostKeeps == ASSUME IInv, CompleteLost, scene' = scene PROVE IInv' /\ SentOnce
<1>1. agent \in Agent /\ uploads \in [UploadId -> Upload] /\ TypeOK
  BY DEF IInv, TypeOK
<1>2. agent.state \in SavedUpload
  BY AtHand DEF CompleteLost
<1>3. /\ object' \in {"absent", "staged", "stored"}
      /\ object = "stored" => object' = "stored"
      /\ uploads' = uploads \/ Close(agent.state)
      /\ saved' = saved /\ limit' \in Limit
  BY <1>1 DEF CompleteLost, TypeOK
<1>4. /\ uploads' \in [UploadId -> Upload]
      /\ \A j \in UploadId : uploads'[j].parts = uploads[j].parts
  BY <1>1, <1>2, <1>3, Closes
<1>5. SentOnce
  BY <1>1, <1>4, SamePartsSentOnce
<1>6. faults' \in 0..MaxFaults
  BY <1>1, FaultCounts DEF CompleteLost
<1>7. /\ agent' \in Agent
      /\ \/ /\ agent'.step = agent.step /\ agent'.state = agent.state
            /\ agent'.report = agent.report
         \/ agent'.step = "idle" /\ agent'.report # "ok"
  BY <1>1, Retries DEF CompleteLost
<1>8. IInv'
  BY <1>3, <1>4, <1>5, <1>6, <1>7, Rests
<1> QED BY <1>5, <1>8

LEMMA CompleteRefusedKeeps == ASSUME IInv, CompleteRefused, scene' = scene PROVE IInv' /\ SentOnce
<1>1. agent \in Agent /\ uploads \in [UploadId -> Upload] /\ TypeOK
  BY DEF IInv, TypeOK
<1>2. agent.state \in SavedUpload
  BY AtHand DEF CompleteRefused
<1>3. /\ uploads' = uploads \/ Close(agent.state)
      /\ saved' = None /\ limit' \in Limit
      /\ object' = object /\ object' \in {"absent", "staged", "stored"}
  BY <1>1 DEF CompleteRefused, DropSaved, TypeOK
<1>4. /\ uploads' \in [UploadId -> Upload]
      /\ \A j \in UploadId : uploads'[j].parts = uploads[j].parts
  BY <1>1, <1>2, <1>3, Closes
<1>5. SentOnce
  BY <1>1, <1>4, SamePartsSentOnce
<1>6. faults' \in 0..MaxFaults
  <2>1. CASE faults' = faults
    BY <2>1, <1>1 DEF TypeOK
  <2>2. CASE Fault("refused")
    BY <2>2, <1>1, FaultCounts
  <2> QED BY <2>1, <2>2 DEF CompleteRefused, NoFault
<1>7. agent' \in Agent /\ agent'.step = "idle" /\ agent'.report # "ok"
  BY <1>1, Reports DEF CompleteRefused
<1>8. IInv'
  BY <1>3, <1>4, <1>5, <1>6, <1>7, Rests
<1> QED BY <1>5, <1>8

\* The steps that leave the server's uploads alone.
LEMMA OthersKeep ==
  ASSUME IInv, scene' = scene,
         PartRefused \/ Throttled \/ Unauthorized \/ TokenExpires \/ Killed
         \/ SetLimit \/ UNCHANGED vars
  PROVE  IInv' /\ SentOnce
<1>1. agent \in Agent /\ uploads \in [UploadId -> Upload] /\ TypeOK
  BY DEF IInv, TypeOK
<1>2. /\ uploads' = uploads /\ uploads' \in [UploadId -> Upload]
      /\ object' = object /\ object' \in {"absent", "staged", "stored"}
  BY <1>1 DEF PartRefused, Throttled, Unauthorized, TokenExpires, Killed, SetLimit,
              server, vars, TypeOK
<1>3. SentOnce
  BY <1>2 DEF SentOnce
<1>4. limit' \in Limit
  BY <1>1 DEF PartRefused, Throttled, Unauthorized, TokenExpires, Killed, SetLimit,
              server, vars, TypeOK
<1>5. faults' \in 0..MaxFaults
  <2>1. CASE faults' = faults
    BY <2>1, <1>1 DEF TypeOK
  <2>2. CASE \E kind \in scene.kinds : Fault(kind)
    BY <2>2, <1>1, FaultCounts
  <2> QED BY <2>1, <2>2 DEF PartRefused, Throttled, Unauthorized, TokenExpires, Killed,
             SetLimit, NoFault, Fault, vars
<1>6. CASE PartRefused \/ Unauthorized \/ Killed
  <2>1. agent' \in Agent /\ agent'.step = "idle" /\ agent'.report # "ok"
    BY <1>1, <1>6, Reports DEF PartRefused, Unauthorized, Killed
  <2>2. saved' = saved \/ saved' = None
    BY <1>6 DEF PartRefused, Unauthorized, Killed, DropSaved
  <2>3. IInv'
    BY <1>2, <1>3, <1>4, <1>5, <2>1, <2>2, Rests
  <2> QED BY <2>3, <1>3
<1>7. CASE Throttled
  <2>1. /\ agent' \in Agent
        /\ \/ /\ agent'.step = agent.step /\ agent'.state = agent.state
              /\ agent'.report = agent.report
           \/ agent'.step = "idle" /\ agent'.report # "ok"
    BY <1>1, <1>7, Retries DEF Throttled
  <2>2. saved' = saved \/ (saved' = None /\ agent'.step = "idle")
    <3>1. CASE agent.attempt = Attempts
      <4>1. Report("error")
        BY <1>7, <3>1, FaultAssumption DEF Throttled, Retry
      <4>2. agent'.step = "idle"
        BY <4>1, <1>1, Reports
      <4> QED BY <4>2, <1>7 DEF Throttled
    <3>2. CASE agent.attempt # Attempts
      BY <1>7, <3>2 DEF Throttled
    <3> QED BY <3>1, <3>2
  <2>3. IInv'
    BY <1>2, <1>3, <1>4, <1>5, <2>1, <2>2, Rests
  <2> QED BY <2>3, <1>3
<1>8. CASE TokenExpires \/ SetLimit \/ UNCHANGED vars
  <2>1. /\ agent' \in Agent /\ agent'.step = agent.step
        /\ agent'.state = agent.state /\ agent'.report = agent.report
    BY <1>1, <1>8 DEF TokenExpires, SetLimit, vars, Agent
  <2>2. saved' = saved
    BY <1>8 DEF TokenExpires, SetLimit, vars
  <2>3. IInv'
    BY <1>2, <1>3, <1>4, <1>5, <2>1, <2>2, Rests
  <2> QED BY <2>3, <1>3
<1> QED BY <1>6, <1>7, <1>8

LEMMA AbandonedKeeps == ASSUME IInv, Abandoned, scene' = scene PROVE IInv' /\ SentOnce
<1>1. agent \in Agent /\ uploads \in [UploadId -> Upload] /\ TypeOK
  BY DEF IInv, TypeOK
<1>2. /\ uploads' \in [UploadId -> Upload]
      /\ \A j \in UploadId : uploads'[j].parts = uploads[j].parts
  <2>1. CASE uploads' = uploads
    BY <2>1, <1>1
  <2>2. ASSUME NEW i \in UploadId,
               uploads' = [uploads EXCEPT ![i].state = "over"]
        PROVE  /\ uploads' \in [UploadId -> Upload]
               /\ \A j \in UploadId : uploads'[j].parts = uploads[j].parts
    <3>1. [uploads[i] EXCEPT !.state = "over"] \in Upload
      BY <1>1 DEF Upload
    <3>2. uploads' = [uploads EXCEPT ![i] = [uploads[i] EXCEPT !.state = "over"]]
      BY <2>2
    <3> QED BY <1>1, <3>1, <3>2 DEF Upload
  <2> QED BY <2>1, <2>2 DEF Abandoned
<1>3. SentOnce
  BY <1>1, <1>2, SamePartsSentOnce
<1>4. faults' \in 0..MaxFaults
  BY <1>1, FaultCounts DEF Abandoned
<1>5. /\ object' \in {"absent", "staged", "stored"}
      /\ object = "stored" => object' = "stored"
      /\ limit' \in Limit /\ saved' = saved /\ agent' = agent
  BY <1>1 DEF Abandoned, TypeOK
<1>6. IInv'
  BY <1>1, <1>2, <1>3, <1>4, <1>5, Rests
<1> QED BY <1>3, <1>6

\* The faults of a behaviour are chosen once.
LEMMA SceneStays == [Next]_vars => scene' = scene
BY DEF Next, Begin, Start, StartLost, SendPart, PartLost, PartRefused, PartUnknown,
       Complete, CompleteLost, CompleteRefused, Throttled, Unauthorized,
       TokenExpires, Killed, Abandoned, SetLimit, vars

LEMMA StepKeeps == IInv /\ [Next]_vars => IInv' /\ SentOnce
BY SceneStays, BeginKeeps, StartKeeps, StartLostKeeps, SendPartKeeps, PartLostKeeps,
   PartUnknownKeeps, CompleteKeeps, CompleteLostKeeps, CompleteRefusedKeeps,
   OthersKeep, AbandonedKeeps DEF Next

\* When a complete is due, the file holds all parts and R2 has them.
LEMMA WholeWhenDue ==
  ASSUME IInv, agent.step = "complete"
  PROVE  /\ Whole(agent.state)
         /\ uploads[agent.state.id].state = "open" => Assembles(agent.state)
<1>1. saved \in SavedUpload /\ agent.state = saved /\ saved # None
  BY AtHand
<1>2. saved.partSize \in Limit /\ Missing(saved) = {}
  BY <1>1 DEF SavedUpload, IInv, Due
<1>3. \A n \in Numbers(saved.partSize) : n \in PartNumber /\ saved.parts[n] # 0
  BY <1>2, NumbersTyped DEF Missing
<1>4. ASSUME NEW byte \in 1..Size
      PROVE  \E n \in PartNumber :
               saved.parts[n] # 0
               /\ byte \in (n - 1) * saved.partSize + 1 .. n * saved.partSize
  <2>1. saved.partSize \in Nat \ {0}
    BY <1>2, LimitAssumption
  <2>2. PICK n \in Numbers(saved.partSize) :
          byte \in (n - 1) * saved.partSize + 1 .. n * saved.partSize
    BY <2>1, CountCovers DEF Numbers
  <2> QED BY <2>2, <1>3
<1>5. Whole(saved)
  BY <1>4 DEF Whole
<1>6. uploads[saved.id].state = "open" => Assembles(saved)
  BY <1>1 DEF Assembles, IInv, Acknowledged
<1> QED BY <1>1, <1>5, <1>6

-----------------------------------------------------------------------------
(* Without expired tokens, throttling and failures of R2 while it puts the  *)
(* parts together, a refusal means what the agent takes it to mean.         *)

Gentle == scene.kinds \cap Mistaken = {}

Useful ==
  /\ agent.token = "valid"
  /\ object = "staged" => saved # None /\ Missing(saved) = {}

KeepsProgress ==
  saved # None /\ saved' = None =>
    object' = "stored" \/ (uploads[saved.id].state # "open" /\ object # "staged")

LEMMA RetryKeepsToken ==
  ASSUME agent \in Agent,
         Retry \/ (\E answer \in {"none", "ok", "error"} : Report(answer))
  PROVE  agent'.token = agent.token
BY DEF Retry, Report, Agent

LEMMA SavedWholeIsKept ==
  ASSUME saved' = saved, Useful, object' = object \/ object' # "staged",
         agent'.token = "valid"
  PROVE  Useful'
BY DEF Useful, Missing

LEMMA UsefulStep ==
  ASSUME Gentle, IInv, Useful, [Next]_vars
  PROVE  Useful' /\ KeepsProgress
<1>1. agent \in Agent /\ agent.token = "valid" /\ ~Expired
  BY DEF IInv, TypeOK, Useful, Expired
<1>2. ~Fault("throttled") /\ ~Fault("refused") /\ ~Fault("expired")
  BY DEF Gentle, Mistaken, Fault
<1>3. CASE Begin
  <2>1. agent'.token = "valid"
    BY <1>1, <1>3 DEF Begin, Loaded, Agent
  <2> QED BY <1>3, <2>1, SavedWholeIsKept DEF Begin, server, KeepsProgress
<1>4. CASE Start
  <2>1. agent'.token = "valid"
    BY <1>1, <1>4 DEF Start, Continue, Agent
  <2>2. saved = None /\ object # "staged" /\ object' = object
    BY <1>4 DEF Start, IInv, Remembered, Useful
  <2> QED BY <2>1, <2>2 DEF Useful, KeepsProgress
<1>5. CASE StartLost \/ PartLost
  <2>1. agent'.token = "valid"
    BY <1>1, <1>5, RetryKeepsToken DEF StartLost, PartLost
  <2> QED BY <1>5, <2>1, SavedWholeIsKept DEF StartLost, PartLost, KeepsProgress
<1>6. CASE SendPart
  <2>1. agent'.token = "valid"
    BY <1>1, <1>6 DEF SendPart, Continue, Agent
  <2>2. saved # None /\ Missing(saved) # {} /\ object' = object
    BY <1>6, AtHand DEF SendPart, IInv, Due
  <2>3. saved' # None
    BY <1>6, SceneStays, SendPartKeeps
  <2> QED BY <2>1, <2>2, <2>3 DEF Useful, KeepsProgress
<1>7. CASE PartRefused \/ Killed
  <2>1. agent'.token = "valid"
    BY <1>1, <1>7, RetryKeepsToken DEF PartRefused, Killed
  <2> QED BY <1>7, <2>1, SavedWholeIsKept DEF PartRefused, Killed, server, KeepsProgress
<1>8. CASE PartUnknown
  <2>1. agent'.token = "valid"
    BY <1>1, <1>8, RetryKeepsToken DEF PartUnknown, Loaded, Agent
  <2>2. agent.state = saved /\ Missing(saved) # {}
    BY <1>8, AtHand DEF PartUnknown, IInv, Due
  <2>3. object # "staged" /\ object' = object /\ uploads[saved.id].state # "open"
    BY <1>8, <2>2 DEF PartUnknown, server, Useful
  <2> QED BY <2>1, <2>3 DEF Useful, KeepsProgress
<1>9. CASE Complete
  <2>1. agent'.token = "valid"
    BY <1>1, <1>9, RetryKeepsToken DEF Complete
  <2>2. object' = "stored"
    BY <1>9 DEF Complete
  <2> QED BY <2>1, <2>2 DEF Useful, KeepsProgress
<1>10. CASE CompleteLost
  <2>1. agent'.token = "valid"
    BY <1>1, <1>10, RetryKeepsToken DEF CompleteLost
  <2>2. saved' = saved /\ saved # None /\ Missing(saved) = {}
    BY <1>10, AtHand DEF CompleteLost, IInv, Due
  <2> QED BY <2>1, <2>2 DEF Useful, Missing, KeepsProgress
<1>11. CASE CompleteRefused
  <2>1. agent'.token = "valid"
    BY <1>1, <1>11, RetryKeepsToken DEF CompleteRefused
  <2>2. agent.state = saved /\ ~CarriesOn(saved)
    BY <1>2, <1>11, AtHand DEF CompleteRefused
  <2>3. Whole(saved) /\ (uploads[saved.id].state = "open" => Assembles(saved))
    BY <1>11, <2>2, WholeWhenDue DEF CompleteRefused
  <2>4. object # "staged" /\ uploads[saved.id].state # "open" /\ object' = object
    BY <1>11, <2>2, <2>3 DEF CarriesOn, CompleteRefused
  <2> QED BY <2>1, <2>4 DEF Useful, KeepsProgress
<1>12. CASE Throttled \/ Unauthorized \/ TokenExpires
  BY <1>1, <1>2, <1>12 DEF Throttled, Unauthorized, TokenExpires
<1>13. CASE Abandoned \/ SetLimit \/ UNCHANGED vars
  <2>1. saved' = saved /\ agent' = agent /\ (object' = object \/ object' = "absent")
    BY <1>13 DEF Abandoned, SetLimit, vars
  <2> QED BY <1>1, <2>1, SavedWholeIsKept DEF KeepsProgress
<1> QED BY <1>3, <1>4, <1>5, <1>6, <1>7, <1>8, <1>9, <1>10, <1>11, <1>12, <1>13
        DEF Next

-----------------------------------------------------------------------------
(* The theorems. *)

\* The agent's file and the server agree, whatever was lost or cut short.
THEOREM AgentInvariant == Spec => []IInv
BY InitHolds, StepKeeps, PTL DEF Spec

\* The variables keep their types.
THEOREM AgentTyped == Spec => []TypeOK
<1>1. IInv => TypeOK
  BY DEF IInv
<1> QED BY <1>1, AgentInvariant, PTL

\* An upload that the agent calls complete is stored on the server.
THEOREM AgentReportsTruly == Spec => []ReportedIsStored
<1>1. IInv => ReportedIsStored
  BY DEF IInv
<1> QED BY <1>1, AgentInvariant, PTL

\* A complete names all parts, and R2 finds them as they were acknowledged.
THEOREM AgentCompletesWhole == Spec => []CompletesWhole
<1>1. IInv => CompletesWhole
  BY WholeWhenDue DEF CompletesWhole
<1> QED BY <1>1, AgentInvariant, PTL

\* What the server acknowledged is not sent again.
THEOREM AgentSendsOnce == Spec => NothingSentTwice
<1>1. IInv /\ [Next]_vars => [SentOnce]_vars
  BY StepKeeps
<1>2. NothingSentTwice <=> [][SentOnce]_vars
  BY PTL DEF NothingSentTwice, SentOnce
<1> QED BY <1>1, <1>2, AgentInvariant, PTL DEF Spec

\* If tokens last, calls are not throttled and R2 does not fail in the middle,
\* sent parts are given up only when they are of no more use.
THEOREM AgentKeepsProgress == Spec => ProgressKept
<1>1. Init => (Gentle => Useful)
  BY DEF Init, Useful
<1>2. IInv /\ (Gentle => Useful) /\ [Next]_vars
        => (Gentle => Useful)' /\ [Gentle => KeepsProgress]_vars
  BY UsefulStep, SceneStays DEF Gentle
<1>3. ProgressKept <=> [][Gentle => KeepsProgress]_vars
  <2>1. [Gentle => KeepsProgress]_vars
        <=> [scene.kinds \cap Mistaken = {} /\ saved # None /\ saved' = None =>
               object' = "stored" \/ (uploads[saved.id].state # "open"
                                      /\ object # "staged")]_vars
    BY DEF Gentle, KeepsProgress
  <2> QED BY <2>1, PTL DEF ProgressKept
<1> QED BY <1>1, <1>2, <1>3, AgentInvariant, PTL DEF Spec

-----------------------------------------------------------------------------
(* migrate: the steps of a run, with others at work, keep what the earlier   *)
(* steps have gathered.                                                      *)

\* What the remote needed when the run began is needed here since the fetch, and
\* is among what is verified.
Gathered ==
  migration # Resting =>
    /\ migration.at = "refs" => migration.began \subseteq origin
    /\ migration.at \notin {"refs"} => migration.began \subseteq clone
    /\ migration.at \in {"verify", "complete", "missing"} => migration.began \subseteq migration.wanted
    /\ migration.at = "complete" => migration.wanted \subseteq store["new"]

\* A run that is about to point the repository at the new server has downloaded all that
\* the clone needs, if it has found where to download from.
AtHandBefore ==
  migration # Resting /\ migration.at \in {"import", "server", "point"} /\ migration.from # "none"
    => clone \subseteq local

\* .lfsconfig is changed before it is committed.
Pointers == lfsconfig.head = "new" => lfsconfig.tree = "new"

MigrateInv == MigrateTypes /\ Gathered /\ AtHandBefore /\ Pointers /\ PointedIsAtHand

LEMMA MigrateBegins == MigrateInit => MigrateInv
  BY DEF MigrateInit, MigrateInv, MigrateTypes, Gathered, AtHandBefore, Pointers, PointedIsAtHand, NeverPointed,
    Server, Resting

\* Objects do not leave servers or clones, and what the remote needs it goes on needing.
LEMMA OnlyMore ==
  ASSUME MigrateTypes, [MigrateNext]_migrateVars
  PROVE  /\ origin \subseteq origin' /\ clone \subseteq clone' /\ local \subseteq local'
         /\ store["new"] \subseteq store["new"]'
  BY DEF MigrateTypes, MigrateNext, migrateVars, Migrate, FetchRefs, FetchAll, Download, Import, CheckServer,
         Point, Settings, CommitFiles, LfsPushAll, ReadWanted, Verify, Interrupted, PushElsewhere, CommitHere,
         TidyUp, InitOnly, DropOverride, Pushed, Server

LEMMA GoneOn ==
  ASSUME MigrateTypes, NEW at, NEW to, Migrating(at), GoOn(to),
         to \in {"import", "download", "server", "point", "settings", "commit", "upload", "wanted", "verify",
                 "complete", "missing"}
  PROVE  /\ migration # Resting /\ migration \in Running /\ migration' \in Running /\ migration' # Resting
         /\ migration.at = at /\ migration'.at = to
         /\ migration'.began = migration.began /\ migration'.wanted = migration.wanted
         /\ migration'.from = migration.from /\ migration'.import = migration.import
         /\ migration'.commit = migration.commit
  BY DEF MigrateTypes, Migrating, GoOn, Running, Resting

LEMMA GivenUp == ASSUME GiveUpMigration PROVE (migration = Resting)'
  BY DEF GiveUpMigration

\* The steps of a run that change nothing but how far it is.
LEMMA RunStep ==
  ASSUME MigrateInv, CheckServer \/ Settings \/ Verify \/ Interrupted \/ ReadWanted
  PROVE  MigrateInv'
<1> USE DEF MigrateInv
<1>1. CASE GiveUpMigration /\ UNCHANGED <<origin, clone, local, store, lfsconfig, override, pointed>>
  BY <1>1 DEF GiveUpMigration, MigrateTypes, Gathered, AtHandBefore, Pointers, PointedIsAtHand
<1>2. CASE Migrating("server") /\ GoOn("point")
            /\ UNCHANGED <<origin, clone, local, store, lfsconfig, override, pointed>>
  BY <1>2, GoneOn DEF MigrateTypes, Gathered, AtHandBefore, Pointers, PointedIsAtHand, Migrating
<1>3. CASE Migrating("settings") /\ GoOn("commit")
            /\ UNCHANGED <<origin, clone, local, store, lfsconfig, override, pointed>>
  BY <1>3, GoneOn DEF MigrateTypes, Gathered, AtHandBefore, Pointers, PointedIsAtHand, Migrating
<1>4. CASE Verify /\ ~GiveUpMigration
  <2>1. PICK to \in {"complete", "missing"} :
          /\ Migrating("verify") /\ GoOn(to)
          /\ to = "complete" => migration.wanted \subseteq store["new"]
    BY <1>4 DEF Verify, Stored
  <2> QED BY <1>4, <2>1, GoneOn DEF Verify, MigrateTypes, Gathered, AtHandBefore, Pointers, PointedIsAtHand, Migrating
<1>5. CASE ReadWanted
  <2>1. /\ migration' \in Running /\ migration' # Resting /\ migration'.at = "verify"
        /\ migration'.began = migration.began /\ migration'.wanted = clone
    BY <1>5 DEF ReadWanted, MigrateTypes, Migrating, Running, Resting
  <2> QED BY <1>5, <2>1 DEF ReadWanted, MigrateTypes, Gathered, AtHandBefore, Pointers, PointedIsAtHand, Migrating
<1> QED BY <1>1, <1>2, <1>3, <1>4, <1>5 DEF CheckServer, Settings, Verify, Interrupted

\* The steps that fetch, download and upload.
LEMMA TransferStep ==
  ASSUME MigrateInv, FetchRefs \/ Download \/ Import \/ LfsPushAll
  PROVE  MigrateInv'
<1> USE DEF MigrateInv
<1>m. /\ origin \subseteq origin' /\ clone \subseteq clone' /\ local \subseteq local'
      /\ store["new"] \subseteq store["new"]'
  BY OnlyMore DEF MigrateNext
<1>p. lfsconfig' = lfsconfig /\ override' = override /\ pointed' = pointed /\ Pointers' /\ PointedIsAtHand'
  BY <1>m DEF FetchRefs, Download, Import, LfsPushAll, Pointers, PointedIsAtHand
<1>1. CASE FetchRefs
  <2>1. CASE GiveUpMigration
    BY <1>1, <1>p, <2>1 DEF FetchRefs, FetchAll, GiveUpMigration, MigrateTypes, Gathered, AtHandBefore
  <2>2. CASE ~GiveUpMigration
    <3>1. /\ migration # Resting /\ migration' \in Running /\ migration' # Resting
          /\ migration.at = "refs" /\ migration'.at \in {"download", "import"}
          /\ migration'.at = "import" => migration'.from = "none"
          /\ migration'.began = migration.began /\ migration'.wanted = migration.wanted
      <4>1. migration \in Running /\ Migrating("refs") /\ migration.at = "refs"
        BY <1>1 DEF FetchRefs, Migrating, MigrateTypes
      <4>2. Source \in Server \cup {"none"}
        BY <4>1 DEF Source, LfsUrl, MigrateTypes, Running
      <4>3. PICK to \in {"download", "import"} :
              /\ migration' = [migration EXCEPT !.from = Source, !.at = to]
              /\ to = "import" => Source = "none"
        BY <1>1, <2>2 DEF FetchRefs
      <4>4. ASSUME NEW from \in Server \cup {"none"}, NEW at \in {"download", "import"}
            PROVE  LET m == [migration EXCEPT !.from = from, !.at = at]
                   IN m \in Running /\ m.from = from /\ m.at = at /\ m.began = migration.began
                        /\ m.wanted = migration.wanted
        BY <4>1 DEF Running
      <4>5. LET m == [migration EXCEPT !.from = Source, !.at = to]
            IN m \in Running /\ m.from = Source /\ m.at = to /\ m.began = migration.began
                 /\ m.wanted = migration.wanted
        BY <4>2, <4>3, <4>4
      <4>6. /\ migration' \in Running /\ migration'.from = Source /\ migration'.at = to
            /\ migration'.began = migration.began /\ migration'.wanted = migration.wanted
        BY <4>3, <4>5
      <4>7. migration'.at \in {"download", "import"} /\ (migration'.at = "import" => migration'.from = "none")
        BY <4>3, <4>6
      <4>8. migration # Resting /\ migration' # Resting
        BY <4>1, <4>7 DEF Resting
      <4> QED BY <4>1, <4>6, <4>7, <4>8
    <3>2. clone' = clone \cup origin /\ UNCHANGED <<origin, local, store>>
      BY <1>1, <2>2 DEF FetchRefs, FetchAll
    <3> QED BY <1>p, <3>1, <3>2 DEF MigrateTypes, Gathered, AtHandBefore
  <2> QED BY <2>1, <2>2
<1>2. CASE Download
  <2>1. local' \subseteq local \cup clone /\ UNCHANGED <<origin, clone, store>>
    BY <1>2 DEF Download
  <2>2. CASE GiveUpMigration
    BY <1>p, <2>1, <2>2 DEF GiveUpMigration, MigrateTypes, Gathered, AtHandBefore
  <2>3. CASE clone \subseteq local' /\ GoOn("import")
    <3>1. /\ migration # Resting /\ migration' \in Running /\ migration' # Resting
          /\ migration.at = "download" /\ migration'.at = "import"
          /\ migration'.began = migration.began /\ migration'.wanted = migration.wanted
      BY <1>2, <2>3, GoneOn DEF Download
    <3> QED BY <1>p, <2>1, <2>3, <3>1 DEF MigrateTypes, Gathered, AtHandBefore
  <2> QED BY <1>2, <2>2, <2>3 DEF Download, Downloaded
<1>3. CASE Import
  <2>1. PICK converted \in SUBSET Blob : clone' = clone \cup converted /\ local' = local \cup converted
    <3>1. \/ clone' = clone \cup {} /\ local' = local \cup {}
          \/ \E converted \in SUBSET (Blob \ origin) :
               clone' = clone \cup converted /\ local' = local \cup converted
      BY <1>3 DEF Import
    <3> QED BY <3>1
  <2>2. CASE GiveUpMigration
    BY <1>3, <1>p, <2>1, <2>2 DEF Import, GiveUpMigration, MigrateTypes, Gathered, AtHandBefore
  <2>3. CASE GoOn("server")
    <3>1. migration.from # "none" => clone \subseteq local
      BY <1>3 DEF Import, AtHandBefore, Migrating
    <3>2. /\ migration # Resting /\ migration' \in Running /\ migration' # Resting
          /\ migration.at = "import" /\ migration'.at = "server" /\ migration'.from = migration.from
          /\ migration'.began = migration.began /\ migration'.wanted = migration.wanted
      BY <1>3, <2>3, GoneOn DEF Import
    <3> QED BY <1>3, <1>p, <2>1, <3>1, <3>2 DEF Import, MigrateTypes, Gathered, AtHandBefore
  <2> QED BY <1>3, <2>2, <2>3 DEF Import
<1>4. CASE LfsPushAll
  <2>1. /\ UNCHANGED <<origin, clone, local>> /\ store' \in [Server -> SUBSET Blob]
    BY <1>4 DEF LfsPushAll, Pushed, MigrateTypes
  <2>2. CASE GiveUpMigration
    BY <1>p, <2>1, <2>2 DEF GiveUpMigration, MigrateTypes, Gathered, AtHandBefore
  <2>3. CASE GoOn("wanted")
    <3>1. /\ migration # Resting /\ migration' \in Running /\ migration' # Resting
          /\ migration.at = "upload" /\ migration'.at = "wanted"
          /\ migration'.began = migration.began /\ migration'.wanted = migration.wanted
      BY <1>4, <2>3, GoneOn DEF LfsPushAll
    <3> QED BY <1>p, <2>1, <3>1 DEF MigrateTypes, Gathered, AtHandBefore
  <2> QED BY <1>4, <2>2, <2>3 DEF LfsPushAll
<1> QED BY <1>1, <1>2, <1>3, <1>4

\* The steps that change where the repository points.
LEMMA PointStep ==
  ASSUME MigrateInv, Point \/ CommitFiles \/ TidyUp \/ InitOnly \/ DropOverride
  PROVE  MigrateInv'
<1> USE DEF MigrateInv
<1>1. CASE Point
  <2>1. /\ lfsconfig'.tree = "new" /\ lfsconfig'.head = lfsconfig.head
        /\ lfsconfig' \in [tree : Server, head : Server, first : Server]
        /\ UNCHANGED <<origin, clone, local, store, override>>
    BY <1>1 DEF Point, MigrateTypes, Server
  <2>2. pointed' \in [needs : SUBSET Blob, from : Server \cup {"none"}] /\ PointedIsAtHand'
    <3>1. CASE lfsconfig.tree = "new" /\ migration.from = "none"
      BY <1>1, <2>1, <3>1 DEF Point, PointedIsAtHand, MigrateTypes
    <3>2. CASE ~(lfsconfig.tree = "new" /\ migration.from = "none")
      <4>0. pointed' = [needs |-> clone, from |-> migration.from]
        BY <1>1, <3>2 DEF Point
      <4>1. migration \in Running /\ migration # Resting /\ migration.at = "point"
        BY <1>1 DEF Point, Migrating, MigrateTypes
      <4>2. migration.from \in Server \cup {"none"} /\ clone \in SUBSET Blob
        BY <4>1 DEF Running, MigrateTypes
      <4>3. pointed'.needs = clone /\ pointed'.from = migration.from
        BY <4>0
      <4>4. pointed'.from # "none" => pointed'.needs \subseteq local' \cup store'["new"]
        <5>1. migration.from # "none" => clone \subseteq local
          BY <4>1 DEF AtHandBefore
        <5> QED BY <2>1, <4>3, <5>1
      <4>5. pointed' \in [needs : SUBSET Blob, from : Server \cup {"none"}]
        BY <4>0, <4>2
      <4> QED BY <4>4, <4>5 DEF PointedIsAtHand
    <3> QED BY <3>1, <3>2
  <2>3. /\ migration # Resting /\ migration' \in Running /\ migration' # Resting
        /\ migration.at = "point" /\ migration'.at = "settings"
        /\ migration'.began = migration.began /\ migration'.wanted = migration.wanted
    BY <1>1, GoneOn DEF Point
  <2> QED BY <2>1, <2>2, <2>3 DEF MigrateTypes, Gathered, AtHandBefore, Pointers
<1>2. CASE CommitFiles
  <2>1. /\ lfsconfig'.tree = lfsconfig.tree /\ lfsconfig'.head \in {lfsconfig.head, lfsconfig.tree}
        /\ lfsconfig' \in [tree : Server, head : Server, first : Server]
    BY <1>2 DEF CommitFiles, MigrateTypes
  <2>2. /\ migration # Resting /\ migration' \in Running /\ migration' # Resting
        /\ migration.at = "commit" /\ migration'.at = "upload"
        /\ migration'.began = migration.began /\ migration'.wanted = migration.wanted
    BY <1>2, GoneOn DEF CommitFiles
  <2>3. UNCHANGED <<origin, clone, local, store, override, pointed>>
    BY <1>2 DEF CommitFiles
  <2> QED BY <2>1, <2>2, <2>3 DEF MigrateTypes, Gathered, AtHandBefore, Pointers, PointedIsAtHand
<1>3. CASE TidyUp
  <2>1. /\ lfsconfig'.tree = lfsconfig'.head
        /\ lfsconfig' \in [tree : Server, head : Server, first : Server]
        /\ lfsconfig'.tree = "new" => lfsconfig.tree = "new"
    BY <1>3 DEF TidyUp, MigrateTypes, Pointers
  <2> QED BY <1>3, <2>1 DEF TidyUp, MigrateTypes, Gathered, AtHandBefore, Pointers, PointedIsAtHand
<1>4. CASE InitOnly
  <2>1. /\ lfsconfig'.tree = "new" /\ lfsconfig'.head = lfsconfig.head
        /\ lfsconfig' \in [tree : Server, head : Server, first : Server]
        /\ (pointed' = pointed /\ lfsconfig.tree = "new") \/ pointed' = [needs |-> {}, from |-> "none"]
    BY <1>4 DEF InitOnly, MigrateTypes, Server, NeverPointed
  <2> QED BY <1>4, <2>1 DEF InitOnly, MigrateTypes, Gathered, AtHandBefore, Pointers, PointedIsAtHand, Server
<1>5. CASE DropOverride
  BY <1>5 DEF DropOverride, MigrateTypes, Gathered, AtHandBefore, Pointers, PointedIsAtHand
<1> QED BY <1>1, <1>2, <1>3, <1>4, <1>5

LEMMA MigrateStep == MigrateInv /\ [MigrateNext]_migrateVars => MigrateInv'
<1> SUFFICES ASSUME MigrateInv, [MigrateNext]_migrateVars PROVE MigrateInv'
  OBVIOUS
<1> USE DEF MigrateInv
<1>1. ASSUME NEW from \in Server \cup {"none"}, NEW import \in BOOLEAN, NEW commit \in BOOLEAN, Migrate(from, import, commit)
      PROVE  MigrateInv'
  <2>1. migration' \in Running /\ migration'.at = "refs" /\ migration'.began = origin
    BY <1>1 DEF Migrate, Running, MigrateTypes
  <2> QED BY <1>1, <2>1 DEF Migrate, MigrateTypes, Gathered, AtHandBefore, Pointers, PointedIsAtHand
<1>2. ASSUME NEW b \in Blob, NEW s \in Server, PushElsewhere(b, s) PROVE MigrateInv'
  <2>1. store' \in [Server -> SUBSET Blob] /\ store["new"] \subseteq store["new"]'
    BY <1>2, OnlyMore DEF PushElsewhere, Pushed, MigrateTypes, MigrateNext
  <2> QED BY <1>2, <2>1 DEF PushElsewhere, MigrateTypes, Gathered, AtHandBefore, Pointers, PointedIsAtHand
<1>3. ASSUME NEW b \in Blob, CommitHere(b) PROVE MigrateInv'
  BY <1>3 DEF CommitHere, MigrateTypes, Gathered, AtHandBefore, Pointers, PointedIsAtHand
<1>4. CASE UNCHANGED migrateVars
  BY <1>4 DEF migrateVars, MigrateTypes, Gathered, AtHandBefore, Pointers, PointedIsAtHand
<1> QED BY <1>1, <1>2, <1>3, <1>4, RunStep, TransferStep, PointStep DEF MigrateNext

\* A run of migrate that says "every version is on the new server" is right, whatever
\* earlier runs and others did; and when a run that has downloaded pointed the repository at
\* the new server, what the clone needed then stays at hand (migrate.ts migrate, init.ts
\* initRepository).  A run downloads unless lfs.url names the new server's origin already.
THEOREM MigrationIsWhole == MigrateSpec => []MigrationHolds
<1>1. MigrateInv => MigrationHolds
  BY DEF MigrateInv, MigrationHolds, CompleteIsComplete, Gathered, Migrating
<1> QED BY <1>1, MigrateBegins, MigrateStep, PTL DEF MigrateSpec

-----------------------------------------------------------------------------
(* setup: each call of Wrangler that answered has added its rule, whatever  *)
(* became of the others, and rules stay.                                    *)

\* A rule locks the prefix, or a rule of another prefix has its id.
Settled(p) == p \in locked \/ \E r \in locked \ {p} : RuleId[r] = RuleId[p]

\* What the run has done when it comes to a stage.
DoneBy(at) ==
  /\ at \in {"trash", "incoming", "lock", "deploy"} => bucket
  /\ at \in {"incoming", "lock", "deploy"} /\ plan.trash => "trash" \in expiring
  /\ at \in {"lock", "deploy"} => "incoming" \in expiring
  /\ at = "lock" /\ plan.lock => \A p \in LockPrefixes(plan) \ stage.todo : Settled(p)
  /\ at = "deploy" /\ plan.lock => \A p \in LockPrefixes(plan) : Settled(p)

\* What the deployed Worker was deployed with.
Served ==
  worker # NoPlan =>
    /\ bucket
    /\ "incoming" \in expiring
    /\ worker.trash => "trash" \in expiring
    /\ worker.lock => \A p \in LockPrefixes(worker) : Settled(p)

SetupInv ==
  /\ SetupTypes
  /\ plan # NoPlan => DoneBy(stage.at)
  /\ \A p \in stage.todo : KeysOf[p] \cap Unlockable = {}
  /\ Served
  /\ \A p \in locked : KeysOf[p] \cap Unlockable = {}

\* Only prefixes that name an owner, or the shared one, are to be locked.
LEMMA PrefixesToLock ==
  ASSUME NEW o \in Options
  PROVE  /\ LockPrefixes(o) \subseteq Prefix
         /\ \A p \in LockPrefixes(o) : KeysOf[p] \cap Unlockable = {}
  BY PrefixAssumption, KeysAssumption DEF Options, LockPrefixes, Outermost, Candidates

LEMMA SetupBegins == SetupInit => SetupInv
<1> SUFFICES ASSUME SetupInit PROVE SetupInv
  OBVIOUS
<1>1. stage \in [at : Stages, todo : SUBSET Prefix] /\ stage.todo = {}
  BY DEF SetupInit, Stages
<1>2. bucket \in BOOLEAN
  BY Zenon DEF SetupInit
<1> QED BY <1>1, <1>2 DEF SetupInit, SetupInv, SetupTypes, Served

\* A step leaves alone what there is.
LEMMA RulesStay ==
  ASSUME SetupTypes, bucket' \in {bucket, TRUE}, expiring \subseteq expiring', locked \subseteq locked',
         worker' = worker, Served
  PROVE  Served'
<1>1. \A p : Settled(p) => Settled(p)'
  BY DEF Settled
<1>2. bucket => bucket'
  OBVIOUS
<1>3. SUFFICES ASSUME worker # NoPlan
               PROVE  /\ bucket'
                      /\ "incoming" \in expiring'
                      /\ worker.trash => "trash" \in expiring'
                      /\ worker.lock => \A p \in LockPrefixes(worker) : Settled(p)'
  BY DEF Served
<1> QED BY <1>1, <1>2, <1>3 DEF Served

LEMMA SetupStep == SetupInv /\ [SetupNext]_setupVars => SetupInv'
<1> SUFFICES ASSUME SetupInv, [SetupNext]_setupVars PROVE SetupInv'
  OBVIOUS
<1> USE DEF SetupInv
<1>t. stage \in [at : Stages, todo : SUBSET Prefix]
  BY DEF SetupTypes
<1>1. ASSUME NEW o \in Tried, Run(o) PROVE SetupInv'
  BY <1>1, RulesStay DEF Run, SetupTypes, Stages, DoneBy
<1>2. CASE CheckLogin
  BY <1>2, <1>t, RulesStay DEF CheckLogin, Reached, To, Abandon, SetupTypes, Stages, DoneBy
<1>3. CASE CreateBucket
  <2>1. /\ bucket' \in {bucket, TRUE} /\ bucket' \in BOOLEAN
        /\ UNCHANGED <<expiring, locked, worker>>
    BY <1>3, Zenon DEF CreateBucket, SetupTypes
  <2>2. Served'
    BY <2>1, RulesStay
  <2>3. \/ Abandon
        \/ bucket' /\ To("trash") /\ plan' = plan
    BY <1>3 DEF CreateBucket
  <2> QED BY <2>1, <2>2, <2>3, <1>t DEF To, Abandon, SetupTypes, Stages, DoneBy
<1>4. CASE ExpireTrash
  BY <1>4, <1>t, RulesStay DEF ExpireTrash, AddExpiry, Reached, To, Abandon, SetupTypes, Stages, DoneBy
<1>5. CASE ExpireIncoming
  <2>1. CASE Abandon
    BY <1>5, <2>1, RulesStay DEF ExpireIncoming, AddExpiry, Abandon, SetupTypes, Stages
  <2>2. CASE ~Abandon
    <3>1. /\ plan \in Options /\ Reached("incoming") /\ expiring' = expiring \cup {"incoming"}
          /\ stage' = [at |-> "lock", todo |-> IF plan.lock THEN LockPrefixes(plan) ELSE {}]
          /\ UNCHANGED <<bucket, locked, worker, plan>>
      BY <1>5, <2>2, TriedAssumption DEF ExpireIncoming, AddExpiry, Reached, SetupTypes
    <3>2. stage'.todo \subseteq Prefix /\ \A p \in stage'.todo : KeysOf[p] \cap Unlockable = {}
      BY <3>1, PrefixesToLock
    <3>3. stage'.at = "lock" /\ (plan.lock => LockPrefixes(plan)' \ stage'.todo = {})
      BY <3>1 DEF LockPrefixes
    <3> QED BY <3>1, <3>2, <3>3, RulesStay DEF Reached, SetupTypes, Stages, DoneBy
  <2> QED BY <2>1, <2>2
<1>6. ASSUME NEW p \in Prefix, LockOne(p) PROVE SetupInv'
  <2>1. /\ Reached("lock") /\ p \in stage.todo /\ UNCHANGED <<bucket, expiring, worker>>
        /\ locked \subseteq locked' /\ locked' \subseteq locked \cup {p}
    BY <1>6 DEF LockOne, AddLock
  <2>2. Served'
    BY <2>1, RulesStay
  <2>3. CASE Abandon
    BY <2>1, <2>2, <2>3 DEF Abandon, SetupTypes, Stages
  <2>4. CASE ~Abandon
    <3>1. /\ AddLock(p) /\ plan' = plan
          /\ stage' = [stage EXCEPT !.todo = @ \ {p}]
      BY <1>6, <2>4 DEF LockOne
    <3>2. Settled(p)'
      BY <3>1 DEF AddLock, Taken, Settled
    <3>3. \A q : Settled(q) => Settled(q)'
      BY <2>1 DEF Settled
    <3>4. stage'.at = "lock" /\ stage'.todo = stage.todo \ {p} /\ stage' \in [at : Stages, todo : SUBSET Prefix]
      BY <2>1, <3>1, <1>t DEF Reached
    <3>5. plan.lock => \A q \in LockPrefixes(plan) \ stage'.todo : Settled(q)'
      BY <2>1, <3>2, <3>3, <3>4 DEF Reached, DoneBy
    <3>6. LockPrefixes(plan)' = LockPrefixes(plan)
      BY <3>1 DEF LockPrefixes
    <3> QED BY <2>1, <2>2, <3>1, <3>4, <3>5, <3>6 DEF Reached, DoneBy, SetupTypes
  <2> QED BY <2>3, <2>4
<1>7. CASE Locks
  <2>1. Reached("lock") /\ stage.todo = {} /\ UNCHANGED <<bucket, expiring, locked, worker>>
    BY <1>7 DEF Locks, AllLocked
  <2>2. Served'
    BY <2>1, RulesStay
  <2>3. CASE Abandon
    BY <2>1, <2>2, <2>3 DEF Abandon, SetupTypes, Stages
  <2>4. CASE To("deploy") /\ plan' = plan
    <3>1. stage'.at = "deploy" /\ stage'.todo = {}
      BY <2>1, <2>4, <1>t DEF To
    <3>2. plan.lock => \A q \in LockPrefixes(plan)' : Settled(q)'
      BY <2>1, <2>4 DEF Reached, DoneBy, Settled, LockPrefixes
    <3> QED BY <2>1, <2>2, <2>4, <3>1, <3>2, <1>t DEF To, Reached, DoneBy, SetupTypes, Stages
  <2> QED BY <1>7, <2>3, <2>4 DEF Locks
<1>8. CASE Deploy
  <2>1. /\ Reached("deploy") /\ Abandon /\ worker' \in {plan, worker}
        /\ UNCHANGED <<bucket, expiring, locked>>
    BY <1>8 DEF Deploy
  <2>2. Served'
    <3>1. CASE worker' = worker
      BY <2>1, <3>1, RulesStay
    <3>2. CASE worker' = plan
      BY <2>1, <3>2 DEF Reached, DoneBy, Served, Settled, LockPrefixes
    <3> QED BY <2>1, <3>1, <3>2
  <2> QED BY <2>1, <2>2 DEF Abandon, SetupTypes, Stages, Reached
<1>9. CASE UNCHANGED setupVars
  BY <1>9 DEF setupVars, SetupTypes, Served, Settled, DoneBy, LockPrefixes
<1> QED BY <1>1, <1>2, <1>3, <1>4, <1>5, <1>6, <1>7, <1>8, <1>9 DEF SetupNext

\* However often setup fails and is run again with other options, what a Worker that was
\* deployed with lock rules serves is locked, and the trash and other owners never are
\* (setup.ts setupServer, lockPrefixes).
THEOREM SetupLocks == SetupSpec => []RulesHold
<1>1. SetupInv => RulesHold
  <2> SUFFICES ASSUME SetupInv PROVE RulesHold
    OBVIOUS
  <2>1. ServedIsLocked
    BY DEF SetupInv, Served, Settled, ServedIsLocked, LockedKeys
  <2>2. TrashStaysFree
    BY DEF SetupInv, TrashStaysFree, LockedKeys
  <2> QED BY <2>1, <2>2 DEF RulesHold
<1> QED BY <1>1, SetupBegins, SetupStep, PTL DEF SetupSpec

-----------------------------------------------------------------------------
(* The tokens file: edits on condition that it is as it was read, and the   *)
(* memory of isolates that check tokens.                                    *)

\* A token is new while the edit that made it is under way.
Adding(c) == At(c, "create", "write") \/ At(c, "create", "clear")

\* A token that is not written yet is nowhere, whatever others have read.
Unseen(t) ==
  /\ t \notin file.tokens
  /\ revokedAt[t] = Never
  /\ \A d \in Call : AtEdit(d, "write") => t \notin call[d].read.tokens

MadeOnce ==
  /\ file.tokens \subseteq minted /\ created \subseteq minted
  /\ \A t \in Token : revokedAt[t] # Never => t \in minted
  /\ \A c \in Call : AtEdit(c, "write") => call[c].read.tokens \subseteq minted
  /\ \A c \in Call : Adding(c) => call[c].token \in minted
  /\ \A c, d \in Call : Adding(c) /\ Adding(d) /\ call[c].token = call[d].token => c = d
  /\ \A c \in Call : At(c, "create", "write") => Unseen(call[c].token)

EditsStand ==
  /\ NoEditUndone
  /\ \A c \in Call : At(c, "revoke", "write") => call[c].token \in doomed \cap call[c].read.tokens
  /\ \A c \in Call : At(c, "create", "clear") => call[c].token \in file.tokens \cup doomed

\* No request is older than Patience.
OnTime == \A c \in Call : call[c] # Idle => call[c].started <= now /\ now <= call[c].started + Patience

\* What an isolate remembers it read, at the latest, Patience after a revocation that it
\* missed, and a request goes by what it read when it was under way at the revocation.
Outdated(t, time) == revokedAt[t] = Never \/ time <= revokedAt[t]
Remembers ==
  /\ \A i \in Isolate :
       /\ cache[i].expires <= now + TTL
       /\ \A t \in cache[i].tokens : Outdated(t, cache[i].expires - Patience - TTL)
  /\ \A c \in Call : At(c, "check", "fill") =>
       \A t \in call[c].read.tokens : Outdated(t, call[c].started)
  /\ \A c \in Call : At(c, "check", "granted") =>
       Outdated(call[c].token, call[c].started - Patience - TTL + 1)

TokensInv == TokenTypes /\ MadeOnce /\ EditsStand /\ OnTime /\ Remembers

LEMMA TokensBegin == TokensInit => TokensInv
<1> SUFFICES ASSUME TokensInit PROVE TokensInv
  OBVIOUS
<1>1. TokenTypes
  BY TimeAssumption DEF TokensInit, TokenTypes, File, NoFile, Time, Never, Empty
<1>2. \A c \in Call : call[c] = Idle
  BY DEF TokensInit
<1>3. MadeOnce /\ EditsStand
  BY <1>2 DEF TokensInit, MadeOnce, EditsStand, NoEditUndone, At, AtEdit, Adding, NoFile
<1>4. OnTime /\ Remembers
  BY <1>2, TimeAssumption DEF TokensInit, OnTime, Remembers, At, Empty
<1> QED BY <1>1, <1>3, <1>4 DEF TokensInv

\* What each kind of request is.
LEMMA TokenCalls ==
  ASSUME TokenTypes, NEW c \in Call
  PROVE  /\ \A step : AtEdit(c, step) => call[c] \in Edit /\ call[c] # Idle
         /\ \A step : At(c, "check", step) => call[c] \in Check /\ call[c] # Idle
         /\ call[c] # Idle => call[c] \in Edit \cup Check /\ call[c].started \in Time
  BY DEF TokenTypes, At, AtEdit, Edit, Check, Idle

LEMMA TokenRecords == (\A r \in Edit \cup Check : r # Idle)
  BY DEF Edit, Check, Idle

LEMMA FileTyped == \A f \in File : f.tokens \subseteq Token
<1> SUFFICES ASSUME NEW f \in File PROVE f.tokens \subseteq Token
  OBVIOUS
<1>1. CASE f = NoFile
  BY <1>1 DEF NoFile
<1>2. CASE f \in [stored : {TRUE}, tokens : SUBSET Token]
  BY <1>2
<1> QED BY <1>1, <1>2 DEF File

LEMMA Rewritten ==
  ASSUME NEW tokens \in SUBSET Token, NEW f, f = [stored |-> TRUE, tokens |-> tokens]
  PROVE  f \in File /\ f.tokens = tokens
  BY DEF File

\* What a request that goes on, or a new one, leaves alone.
LEMMA OtherCalls ==
  ASSUME TokenTypes, NEW c \in Call, NEW new \in Edit \cup Check \cup {Idle}, call' = [call EXCEPT ![c] = new]
  PROVE  /\ call' \in [Call -> Edit \cup Check \cup {Idle}]
         /\ call'[c] = new
         /\ \A d \in Call \ {c} : call'[d] = call[d]
  BY DEF TokenTypes

\* A request that ends, or comes in, with the file and all that isolates remember as they were.
LEMMA TokensRest ==
  ASSUME TokensInv, NEW c \in Call, NEW new, call' = [call EXCEPT ![c] = new],
         UNCHANGED <<now, file, edits, cache>>,
         \/ new = Idle
         \/ /\ new \in Edit \cup Check /\ new # Idle /\ new.started = now
            /\ new.step \in {"load", "lookup"}
  PROVE  TokensInv'
<1> USE DEF TokensInv
<1>1. /\ TokenTypes' /\ call'[c] = new
      /\ \A d \in Call \ {c} : call'[d] = call[d]
  BY OtherCalls DEF TokenTypes, edits
<1>2. \A step : step \in {"write", "clear", "fill", "granted"} =>
        /\ ~AtEdit(c, step)' /\ ~At(c, "check", step)' /\ ~At(c, "create", step)' /\ ~At(c, "revoke", step)'
  BY <1>1 DEF AtEdit, At
<1>3. MadeOnce'
  BY <1>1, <1>2 DEF MadeOnce, Adding, Unseen, AtEdit, At, edits
<1>4. EditsStand'
  BY <1>1, <1>2 DEF EditsStand, NoEditUndone, At, edits
<1>5. OnTime'
  BY <1>1, TimeAssumption DEF OnTime, TokenTypes, Time
<1>6. Remembers'
  BY <1>1, <1>2 DEF Remembers, Outdated, At, edits
<1> QED BY <1>1, <1>3, <1>4, <1>5, <1>6

LEMMA LoadKeeps == ASSUME TokensInv, NEW c \in Call, Load(c) PROVE TokensInv'
<1> USE DEF TokensInv
<1>1. /\ AtEdit(c, "load") /\ call[c] \in Edit /\ call[c] # Idle
      /\ UNCHANGED <<now, file, created, revokedAt, cache>>
  BY TokenCalls DEF Load
<1>2. CASE call[c].op = "revoke" /\ call[c].token \notin file.tokens
  BY <1>1, <1>2, TokensRest DEF Load, edits
<1>3. ASSUME call[c].op = "revoke", call[c].token \in file.tokens
      PROVE  TokensInv'
  <2>1. PICK new : new = [call[c] EXCEPT !.read = file, !.step = "write"]
    OBVIOUS
  <2>2. /\ call' = [call EXCEPT ![c] = new]
        /\ doomed' = doomed \cup {call[c].token} /\ minted' = minted
    BY <1>1, <1>3, <2>1 DEF Load
  <2>3. /\ new \in Edit /\ new # Idle /\ new.op = "revoke" /\ new.step = "write" /\ new.read = file
        /\ new.token = call[c].token /\ new.started = call[c].started
    BY <1>1, <1>3, <2>1 DEF Edit, TokenTypes, Idle
  <2>4. /\ call'[c] = new /\ \A d \in Call \ {c} : call'[d] = call[d]
        /\ call' \in [Call -> Edit \cup Check \cup {Idle}]
    BY <2>2, <2>3, OtherCalls
  <2>5. TokenTypes'
    BY <1>1, <1>3, <2>2, <2>4, FileTyped DEF TokenTypes
  <2>6. MadeOnce'
    BY <1>1, <2>2, <2>3, <2>4 DEF MadeOnce, Adding, Unseen, AtEdit, At
  <2>7. EditsStand'
    BY <1>1, <1>3, <2>2, <2>3, <2>4 DEF EditsStand, NoEditUndone, At
  <2>8. OnTime' /\ Remembers'
    BY <1>1, <2>3, <2>4 DEF OnTime, Remembers, Outdated, At
  <2> QED BY <2>5, <2>6, <2>7, <2>8
<1>4. ASSUME call[c].op = "create" PROVE TokensInv'
  <2>1. PICK t \in Token \ minted :
          /\ minted' = minted \cup {t} /\ doomed' = doomed
          /\ call' = [call EXCEPT ![c].read = file, ![c].token = t, ![c].step = "write"]
    BY <1>1, <1>4 DEF Load
  <2>2. PICK new : new = [call[c] EXCEPT !.read = file, !.token = t, !.step = "write"]
    OBVIOUS
  <2>3. /\ new \in Edit /\ new # Idle /\ new.op = "create" /\ new.step = "write" /\ new.read = file
        /\ new.token = t /\ new.started = call[c].started
    BY <1>1, <1>4, <2>2 DEF Edit, TokenTypes, Idle
  <2>4. /\ call'[c] = new /\ \A d \in Call \ {c} : call'[d] = call[d]
        /\ call' \in [Call -> Edit \cup Check \cup {Idle}]
    <3>1. call' = [call EXCEPT ![c] = new]
      BY <2>1, <2>2
    <3> QED BY <2>3, <3>1, OtherCalls
  <2>5. TokenTypes'
    BY <1>1, <2>1, <2>4 DEF TokenTypes
  <2>6. Unseen(t)'
    <3>1. t \notin file.tokens /\ revokedAt[t] = Never
      BY DEF MadeOnce
    <3>2. \A d \in Call \ {c} : AtEdit(d, "write") => t \notin call[d].read.tokens
      BY DEF MadeOnce
    <3> QED BY <1>1, <2>3, <2>4, <3>1, <3>2 DEF Unseen, AtEdit, At
  <2>7. MadeOnce'
    <3>1. \A d \in Call : At(d, "create", "write")' => Unseen(call[d].token)'
      BY <1>1, <2>3, <2>4, <2>6 DEF MadeOnce, Unseen, AtEdit, At
    <3>2. \A d \in Call \ {c} : Adding(d)' => Adding(d) /\ call'[d].token # t
      BY <2>4 DEF MadeOnce, Adding, At
    <3> QED BY <1>1, <2>1, <2>3, <2>4, <3>1, <3>2 DEF MadeOnce, Adding, AtEdit, At
  <2>8. EditsStand'
    BY <1>1, <2>1, <2>3, <2>4 DEF EditsStand, NoEditUndone, At
  <2>9. OnTime' /\ Remembers'
    BY <1>1, <2>3, <2>4 DEF OnTime, Remembers, Outdated, At
  <2> QED BY <2>5, <2>7, <2>8, <2>9
<1>5. call[c].op \in {"create", "revoke"}
  BY <1>1 DEF Edit
<1> QED BY <1>2, <1>3, <1>4, <1>5

\* The write adds a token that nobody has seen, or takes away one that is doomed.
LEMMA WriteKeeps == ASSUME TokensInv, NEW c \in Call, Write(c) PROVE TokensInv'
<1> USE DEF TokensInv
<1>1. /\ AtEdit(c, "write") /\ call[c] \in Edit /\ call[c] # Idle /\ file = call[c].read
      /\ UNCHANGED <<now, minted, created, doomed, cache>>
  BY TokenCalls DEF Write, Unchanged
<1>2. PICK new : new = [call[c] EXCEPT !.step = "clear"]
  OBVIOUS
<1>3. /\ new \in Edit /\ new # Idle /\ new.op = call[c].op /\ new.step = "clear" /\ new.read = file
      /\ new.token = call[c].token /\ new.started = call[c].started
  BY <1>1, <1>2 DEF Edit, Idle
<1>4. /\ call'[c] = new /\ \A d \in Call \ {c} : call'[d] = call[d]
      /\ call' \in [Call -> Edit \cup Check \cup {Idle}]
  <2>1. call' = [call EXCEPT ![c] = new]
    BY <1>2 DEF Write
  <2> QED BY <1>3, <2>1, OtherCalls
<1>5. PICK t \in Token : t = call[c].token
  <2>1. CASE call[c].op = "create"
    BY <1>1, <2>1 DEF MadeOnce, Adding, AtEdit, At, TokenTypes
  <2>2. CASE call[c].op = "revoke"
    BY <1>1, <2>2 DEF EditsStand, AtEdit, At, TokenTypes
  <2> QED BY <1>1, <2>1, <2>2 DEF AtEdit, At
<1>6. ASSUME call[c].op = "create" PROVE TokensInv'
  <2>1. /\ file'.tokens = file.tokens \cup {t} /\ file' \in File /\ revokedAt' = revokedAt
    <3>1. file' = [stored |-> TRUE, tokens |-> file.tokens \cup {t}]
      BY <1>1, <1>5, <1>6 DEF Write, Edited
    <3>2. revokedAt' = revokedAt
      BY <1>6 DEF Write
    <3>3. file.tokens \cup {t} \in SUBSET Token
      BY FileTyped DEF TokenTypes
    <3>4. PICK f : f = [stored |-> TRUE, tokens |-> file.tokens \cup {t}]
      OBVIOUS
    <3>5. f \in File /\ f.tokens = file.tokens \cup {t}
      BY <3>3, <3>4, Rewritten
    <3> QED BY <3>1, <3>2, <3>4, <3>5
  <2>2. /\ Unseen(t) /\ t \in minted
        /\ \A d \in Call \ {c} : Adding(d) => call[d].token # t
    BY <1>1, <1>5, <1>6 DEF MadeOnce, Adding, AtEdit, At
  <2>3. TokenTypes'
    BY <1>1, <1>4, <2>1 DEF TokenTypes
  <2>4. MadeOnce'
    <3>1. \A d \in Call : At(d, "create", "write")' => Unseen(call[d].token)'
      BY <1>3, <1>4, <2>1, <2>2 DEF MadeOnce, Unseen, Adding, AtEdit, At
    <3>2. \A d \in Call : Adding(d)' => Adding(d) /\ call'[d].token = call[d].token
      BY <1>1, <1>3, <1>4 DEF Adding, AtEdit, At
    <3>3. \A d \in Call : AtEdit(d, "write")' => AtEdit(d, "write") /\ call'[d] = call[d]
      BY <1>3, <1>4 DEF AtEdit, At
    <3> QED BY <1>1, <2>1, <2>2, <3>1, <3>2, <3>3 DEF MadeOnce
  <2>5. EditsStand'
    BY <1>1, <1>3, <1>4, <1>5, <2>1, <2>2 DEF EditsStand, NoEditUndone, Unseen, At
  <2>6. OnTime' /\ Remembers'
    BY <1>1, <1>3, <1>4, <2>1 DEF OnTime, Remembers, Outdated, At
  <2> QED BY <2>3, <2>4, <2>5, <2>6
<1>7. ASSUME call[c].op = "revoke" PROVE TokensInv'
  <2>1. /\ file'.tokens = file.tokens \ {t} /\ file' \in File
        /\ revokedAt' = [revokedAt EXCEPT ![t] = now]
    <3>1. file' = [stored |-> TRUE, tokens |-> file.tokens \ {t}]
      BY <1>1, <1>5, <1>7 DEF Write, Edited
    <3> QED BY <1>5, <1>7, <3>1, FileTyped, Rewritten DEF Write, TokenTypes
  <2>2. /\ t \in file.tokens /\ t \in doomed /\ t \in minted /\ revokedAt[t] = Never
    BY <1>1, <1>5, <1>7 DEF EditsStand, NoEditUndone, MadeOnce, AtEdit, At
  <2>3. revokedAt'[t] = now /\ now # Never /\ \A u \in Token \ {t} : revokedAt'[u] = revokedAt[u]
    BY <2>1, TimeAssumption DEF TokenTypes, Time, Never
  <2>4. TokenTypes'
    BY <1>1, <1>4, <2>1 DEF TokenTypes
  <2>5. \A d \in Call : At(d, "create", "write") => call[d].token # t
    BY <1>1, <1>5, <1>7, <2>2 DEF MadeOnce, Unseen
  <2>6. MadeOnce'
    <3>1. \A d \in Call : At(d, "create", "write")' => At(d, "create", "write") /\ call'[d] = call[d]
      BY <1>3, <1>4 DEF At
    <3>2. \A d \in Call : AtEdit(d, "write")' => AtEdit(d, "write") /\ call'[d] = call[d]
      BY <1>3, <1>4 DEF AtEdit, At
    <3>3. \A d \in Call : Adding(d)' => Adding(d) /\ call'[d].token = call[d].token
      BY <1>3, <1>4, <1>7 DEF Adding, At
    <3>4. \A d \in Call : At(d, "create", "write")' => Unseen(call[d].token)'
      <4> SUFFICES ASSUME NEW d \in Call, At(d, "create", "write")' PROVE Unseen(call[d].token)'
        OBVIOUS
      <4>1. At(d, "create", "write") /\ call'[d] = call[d]
        BY <3>1
      <4>2. call[d].token \in Token /\ call[d].token # t /\ Unseen(call[d].token)
        BY <4>1, <2>5 DEF MadeOnce, Adding, TokenTypes
      <4> QED BY <2>1, <2>3, <3>2, <4>1, <4>2 DEF Unseen
    <3> QED BY <1>1, <2>1, <2>2, <2>3, <3>2, <3>3, <3>4 DEF MadeOnce
  <2>7. EditsStand'
    <3>1. NoEditUndone'
      BY <1>1, <2>1, <2>2, <2>3 DEF EditsStand, NoEditUndone
    <3> QED BY <1>1, <1>3, <1>4, <1>7, <2>1, <2>2, <3>1 DEF EditsStand, At
  <2>8. OnTime'
    BY <1>1, <1>3, <1>4 DEF OnTime
  <2>9. Remembers'
    <3>1. ASSUME NEW i \in Isolate, NEW u \in cache[i].tokens
          PROVE  Outdated(u, cache[i].expires - Patience - TTL)'
      <4>1. u \in Token /\ cache[i].expires \in Int /\ cache[i].expires <= now + TTL
        BY TimeAssumption DEF TokenTypes, Remembers
      <4>2. CASE u = t
        BY <1>1, <2>3, <4>1, <4>2, TimeAssumption DEF Outdated, TokenTypes, Time
      <4>3. CASE u # t
        BY <1>1, <2>3, <4>1, <4>3 DEF Outdated, Remembers
      <4> QED BY <4>2, <4>3
    <3>2. ASSUME NEW d \in Call, At(d, "check", "fill")', NEW u \in call'[d].read.tokens
          PROVE  Outdated(u, call[d].started)'
      <4>1. At(d, "check", "fill") /\ call'[d] = call[d]
        BY <1>3, <1>4, <3>2 DEF At
      <4>2. u \in Token /\ call[d].started <= now
        BY <3>2, <4>1, TokenCalls, FileTyped DEF Check, OnTime, At
      <4> QED BY <1>1, <2>3, <3>2, <4>1, <4>2 DEF Outdated, Remembers
    <3>3. ASSUME NEW d \in Call, At(d, "check", "granted")'
          PROVE  Outdated(call[d].token, call[d].started - Patience - TTL + 1)'
      <4>1. At(d, "check", "granted") /\ call'[d] = call[d]
        BY <1>3, <1>4, <3>3 DEF At
      <4>2. call[d].token \in Token /\ call[d].started <= now /\ call[d].started \in Int
        BY <4>1, TokenCalls DEF Check, OnTime, At, Time
      <4>3. now \in Int
        BY DEF TokenTypes, Time
      <4> QED BY <1>1, <2>3, <4>1, <4>2, <4>3, TimeAssumption DEF Outdated, Remembers
    <3> QED BY <1>1, <3>1, <3>2, <3>3 DEF Remembers
  <2> QED BY <2>4, <2>6, <2>7, <2>8, <2>9
<1> QED BY <1>1, <1>6, <1>7 DEF AtEdit, At

LEMMA SavedKeeps == ASSUME TokensInv, NEW c \in Call, Saved(c) PROVE TokensInv'
<1> USE DEF TokensInv
<1>1. /\ AtEdit(c, "clear") /\ call[c] \in Edit
      /\ UNCHANGED <<now, file, minted, doomed, revokedAt>>
  BY TokenCalls DEF Saved
<1>2. /\ call'[c] = Idle /\ \A d \in Call \ {c} : call'[d] = call[d]
      /\ call' \in [Call -> Edit \cup Check \cup {Idle}]
  BY OtherCalls DEF Saved
<1>3. created' = created \/ (At(c, "create", "clear") /\ created' = created \cup {call[c].token})
  BY <1>1 DEF Saved, AtEdit, At
<1>4. At(c, "create", "clear") => call[c].token \in minted /\ call[c].token \in file.tokens \cup doomed
  BY DEF MadeOnce, Adding, EditsStand
<1>5. \A i \in Isolate : cache'[i] \in {cache[i], Empty}
  BY DEF Saved
<1>6. TokenTypes'
  <2>1. cache' \in [Isolate -> [tokens : SUBSET Token, expires : 0 .. MaxTime + TTL]]
    BY <1>5, TimeAssumption DEF Saved, TokenTypes, Empty
  <2> QED BY <1>1, <1>2, <1>3, <1>4, <2>1 DEF TokenTypes
<1>7. MadeOnce'
  BY <1>1, <1>2, <1>3, <1>4 DEF MadeOnce, Adding, Unseen, AtEdit, At
<1>8. EditsStand'
  BY <1>1, <1>2, <1>3, <1>4 DEF EditsStand, NoEditUndone, At
<1>9. OnTime'
  BY <1>1, <1>2 DEF OnTime
<1>10. Remembers'
  BY <1>1, <1>2, <1>5, TimeAssumption DEF Remembers, Outdated, At, Empty, TokenTypes, Time
<1> QED BY <1>6, <1>7, <1>8, <1>9, <1>10

\* A check that answers, reads the file or fills a cache edits nothing.
LEMMA CheckKeeps ==
  ASSUME TokensInv, NEW c \in Call, NEW new \in Check \cup {Idle}, call' = [call EXCEPT ![c] = new],
         UNCHANGED <<now, file, edits>>,
         call[c] \in Check, cache' \in [Isolate -> [tokens : SUBSET Token, expires : 0 .. MaxTime + TTL]],
         \A i \in Isolate :
           \/ cache'[i] = cache[i]
           \/ /\ cache'[i].expires <= now + TTL
              /\ \A t \in cache'[i].tokens : Outdated(t, cache'[i].expires - Patience - TTL),
         new # Idle =>
           /\ new.started = call[c].started
           /\ new.step = "fill" => \A t \in new.read.tokens : Outdated(t, new.started)
           /\ new.step = "granted" => Outdated(new.token, new.started - Patience - TTL + 1)
  PROVE  TokensInv'
<1> USE DEF TokensInv
<1>1. /\ call'[c] = new /\ \A d \in Call \ {c} : call'[d] = call[d]
      /\ call' \in [Call -> Edit \cup Check \cup {Idle}]
  BY OtherCalls
<1>2. \A step : ~AtEdit(c, step)' /\ ~At(c, "create", step)' /\ ~At(c, "revoke", step)'
  BY <1>1 DEF AtEdit, At, Check
<1>3. TokenTypes'
  BY <1>1 DEF TokenTypes, edits
<1>4. MadeOnce'
  BY <1>1, <1>2 DEF MadeOnce, Adding, Unseen, AtEdit, At, edits
<1>5. EditsStand'
  BY <1>1, <1>2 DEF EditsStand, NoEditUndone, At, edits
<1>6. OnTime'
  <2>1. call[c] # Idle
    BY TokenRecords
  <2> QED BY <1>1, <2>1 DEF OnTime
<1>7. Remembers'
  BY <1>1 DEF Remembers, Outdated, At, edits
<1> QED BY <1>3, <1>4, <1>5, <1>6, <1>7

LEMMA KnownKeeps == ASSUME TokensInv, NEW c \in Call, Known(c) PROVE TokensInv'
<1> USE DEF TokensInv
<1>1. /\ At(c, "check", "lookup") /\ call[c] \in Check /\ call[c] # Idle
      /\ UNCHANGED <<now, file, edits, cache>>
  BY TokenCalls DEF Known
<1>2. PICK i \in Isolate : i = call[c].isolate
  BY <1>1 DEF Check
<1>3. call' = Verdict(c, cache[i].tokens) /\ cache[i].expires > now
  BY <1>1, <1>2 DEF Known, Current
<1>4. CASE call[c].token \in cache[i].tokens
  <2>1. PICK new : new = [call[c] EXCEPT !.step = "granted"]
    OBVIOUS
  <2>2. call' = [call EXCEPT ![c] = new]
    BY <1>3, <1>4, <2>1 DEF Verdict
  <2>3. /\ new \in Check /\ new.started = call[c].started /\ new.step = "granted" /\ new.token = call[c].token
    BY <1>1, <2>1 DEF Check
  <2>4. Outdated(new.token, new.started - Patience - TTL + 1)
    <3>1. Outdated(call[c].token, cache[i].expires - Patience - TTL)
      BY <1>4 DEF Remembers
    <3>2. call[c].started <= now /\ call[c].started \in Int /\ now \in Int /\ cache[i].expires \in Int
      BY <1>1, TimeAssumption DEF OnTime, Check, TokenTypes, Time
    <3>3. call[c].token \in Token /\ revokedAt[call[c].token] \in Int
      BY <1>1 DEF Check, TokenTypes, Time, Never
    <3> QED BY <1>3, <2>3, <3>1, <3>2, <3>3, TimeAssumption DEF Outdated
  <2> QED BY <1>1, <2>2, <2>3, <2>4, CheckKeeps DEF TokenTypes
<1>5. CASE call[c].token \notin cache[i].tokens
  <2>1. call' = [call EXCEPT ![c] = Idle]
    BY <1>3, <1>5 DEF Verdict
  <2> QED BY <1>1, <2>1, TokensRest
<1> QED BY <1>4, <1>5

LEMMA ReadKeeps == ASSUME TokensInv, NEW c \in Call, Read(c) PROVE TokensInv'
<1> USE DEF TokensInv
<1>1. /\ At(c, "check", "lookup") /\ call[c] \in Check /\ call[c] # Idle
      /\ UNCHANGED <<now, file, edits, cache>>
  BY TokenCalls DEF Read
<1>2. PICK new : new = [call[c] EXCEPT !.read = file, !.step = "fill"]
  OBVIOUS
<1>3. call' = [call EXCEPT ![c] = new]
  BY <1>2 DEF Read
<1>4. /\ new \in Check /\ new.started = call[c].started /\ new.step = "fill" /\ new.read = file
  BY <1>1, <1>2 DEF Check, TokenTypes
<1>5. \A t \in new.read.tokens : Outdated(t, new.started)
  BY <1>4, FileTyped DEF EditsStand, NoEditUndone, Outdated, TokenTypes
<1> QED BY <1>1, <1>3, <1>4, <1>5, CheckKeeps DEF TokenTypes

LEMMA FillKeeps == ASSUME TokensInv, NEW c \in Call, Fill(c) PROVE TokensInv'
<1> USE DEF TokensInv
<1>1. /\ At(c, "check", "fill") /\ call[c] \in Check /\ call[c] # Idle
      /\ UNCHANGED <<now, file, edits>>
  BY TokenCalls DEF Fill
<1>2. PICK filled : filled = [tokens |-> call[c].read.tokens, expires |-> now + TTL]
  OBVIOUS
<1>3. /\ call' = Verdict(c, call[c].read.tokens)
      /\ cache' = [cache EXCEPT ![call[c].isolate] = filled]
  BY <1>2 DEF Fill
<1>4. /\ now \in Int /\ call[c].started \in Int /\ call[c].started <= now /\ now <= call[c].started + Patience
      /\ call[c].read.tokens \subseteq Token
  BY <1>1, FileTyped DEF OnTime, Check, TokenTypes, Time
<1>5. \A t \in call[c].read.tokens : Outdated(t, call[c].started) /\ (revokedAt[t] \in Int \/ revokedAt[t] = Never)
  BY <1>1, <1>4 DEF Remembers, TokenTypes, Time
<1>6. cache' \in [Isolate -> [tokens : SUBSET Token, expires : 0 .. MaxTime + TTL]]
  <2>1. now + TTL \in 0 .. MaxTime + TTL
    BY TimeAssumption DEF TokenTypes, Time
  <2>2. filled \in [tokens : SUBSET Token, expires : 0 .. MaxTime + TTL]
    BY <1>2, <1>4, <2>1
  <2> QED BY <1>3, <2>2 DEF TokenTypes
<1>7. ASSUME NEW i \in Isolate, cache'[i] # cache[i]
      PROVE  /\ cache'[i].expires <= now + TTL
             /\ \A t \in cache'[i].tokens : Outdated(t, cache'[i].expires - Patience - TTL)
  <2>1. cache'[i] = filled
    BY <1>3, <1>7 DEF TokenTypes
  <2>2. cache'[i].expires = now + TTL /\ cache'[i].tokens = call[c].read.tokens
    BY <1>2, <2>1
  <2>3. \A t \in call[c].read.tokens : Outdated(t, now - Patience)
    BY <1>4, <1>5, TimeAssumption DEF Outdated
  <2>4. now + TTL - Patience - TTL = now - Patience
    BY <1>4, TimeAssumption
  <2> QED BY <1>4, <2>2, <2>3, <2>4, TimeAssumption
<1>8. CASE call[c].token \in call[c].read.tokens
  <2>1. PICK new : new = [call[c] EXCEPT !.step = "granted"]
    OBVIOUS
  <2>2. call' = [call EXCEPT ![c] = new]
    BY <1>3, <1>8, <2>1 DEF Verdict
  <2>3. /\ new \in Check /\ new.started = call[c].started /\ new.step = "granted" /\ new.token = call[c].token
    BY <1>1, <2>1 DEF Check
  <2>4. Outdated(new.token, new.started - Patience - TTL + 1)
    BY <1>4, <1>5, <1>8, <2>3, TimeAssumption DEF Outdated
  <2> QED BY <1>1, <1>6, <1>7, <2>2, <2>3, <2>4, CheckKeeps
<1>9. CASE call[c].token \notin call[c].read.tokens
  <2>1. call' = [call EXCEPT ![c] = Idle]
    BY <1>3, <1>9 DEF Verdict
  <2> QED BY <1>1, <1>6, <1>7, <2>1, CheckKeeps
<1> QED BY <1>8, <1>9

LEMMA ClockKeeps == ASSUME TokensInv, Tick PROVE TokensInv'
<1> USE DEF TokensInv
<1>1. now' = now + 1 /\ now \in Int /\ UNCHANGED <<file, edits, cache, call>>
  BY DEF Tick, TokenTypes, Time
<1>2. TokenTypes'
  BY <1>1, TimeAssumption DEF Tick, TokenTypes, Time, edits
<1>3. MadeOnce' /\ EditsStand'
  BY <1>1 DEF MadeOnce, Adding, Unseen, EditsStand, NoEditUndone, AtEdit, At, edits
<1>4. OnTime'
  <2> SUFFICES ASSUME NEW c \in Call, call[c] # Idle
               PROVE  call[c].started <= now + 1 /\ now + 1 <= call[c].started + Patience
    BY <1>1 DEF OnTime
  <2>1. call[c].started \in Int
    BY TokenCalls DEF Time
  <2> QED BY <1>1, <2>1, TimeAssumption DEF OnTime, Tick
<1>5. Remembers'
  <2>1. \A i \in Isolate : cache[i].expires \in Int /\ cache[i].expires <= now + TTL
    BY TimeAssumption DEF TokenTypes, Remembers
  <2> QED BY <1>1, <2>1, TimeAssumption DEF Remembers, Outdated, At, edits
<1> QED BY <1>2, <1>3, <1>4, <1>5

LEMMA EvictKeeps == ASSUME TokensInv, NEW i \in Isolate, Evict(i) PROVE TokensInv'
<1> USE DEF TokensInv
<1>1. UNCHANGED <<now, file, edits, call>> /\ \A j \in Isolate : cache'[j] \in {cache[j], Empty}
  BY DEF Evict, TokenTypes
<1>2. TokenTypes'
  BY TimeAssumption DEF Evict, TokenTypes, Empty, edits
<1>3. MadeOnce' /\ EditsStand' /\ OnTime'
  BY <1>1 DEF MadeOnce, Adding, Unseen, EditsStand, NoEditUndone, OnTime, AtEdit, At, edits
<1>4. Remembers'
  BY <1>1, TimeAssumption DEF Remembers, Outdated, At, Empty, TokenTypes, Time, edits
<1> QED BY <1>2, <1>3, <1>4

LEMMA TokensStep == TokensInv /\ [TokensNext]_tokenVars => TokensInv'
<1> SUFFICES ASSUME TokensInv, [TokensNext]_tokenVars PROVE TokensInv'
  OBVIOUS
<1>1. ASSUME NEW c \in Call, NEW i \in Isolate \cup {Nothing}, NEW t \in Token \cup {Nothing},
             NEW op \in {"create", "revoke"}, BeginEdit(c, op, i, t)
      PROVE  TokensInv'
  <2>1. PICK new : new = [op |-> op, isolate |-> i, started |-> now, token |-> t, read |-> NoFile, step |-> "load"]
    OBVIOUS
  <2>2. new \in Edit /\ new.started = now /\ new.step = "load"
    BY <2>1 DEF Edit, File, TokensInv, TokenTypes
  <2> QED BY <1>1, <2>1, <2>2, TokensRest, TokenRecords DEF BeginEdit
<1>2. ASSUME NEW c \in Call, NEW i \in Isolate, NEW t \in Token, BeginCheck(c, i, t) PROVE TokensInv'
  <2>1. PICK new : new = [op |-> "check", isolate |-> i, started |-> now, token |-> t, read |-> NoFile,
                          step |-> "lookup"]
    OBVIOUS
  <2>2. new \in Check /\ new.started = now /\ new.step = "lookup"
    BY <2>1 DEF Check, File, TokensInv, TokenTypes
  <2> QED BY <1>2, <2>1, <2>2, TokensRest, TokenRecords DEF BeginCheck
<1>3. ASSUME NEW c \in Call, Step(c) PROVE TokensInv'
  BY <1>3, LoadKeeps, WriteKeeps, SavedKeeps, KnownKeeps, ReadKeeps, FillKeeps, TokensRest
     DEF Step, Conflict, Lost, Answer
<1>4. CASE UNCHANGED tokenVars
  BY <1>4 DEF tokenVars, edits, TokensInv, TokenTypes, MadeOnce, EditsStand, NoEditUndone, OnTime, Remembers,
              Outdated, Adding, Unseen, AtEdit, At
<1> QED BY <1>1, <1>2, <1>3, <1>4, ClockKeeps, EvictKeeps DEF TokensNext

\* For any number of isolates, requests and commands, edits of the tokens file undo none of
\* each other's (r2-tokens-file.ts write, cli/app/token.ts).
THEOREM EditsStay == TokensSpec => []NoEditUndone
<1>1. TokensInv => NoEditUndone
  BY DEF TokensInv, EditsStand
<1> QED BY <1>1, TokensBegin, TokensStep, PTL DEF TokensSpec

\* And a revoked token opens nothing once the caches that may hold it have expired and
\* requests of that time are over (token-directory.ts storedTokens).
THEOREM RevokedTokensEnd == TokensSpec => []RevocationTakesEffect
<1>1. TokensInv => RevocationTakesEffect
  <2> SUFFICES ASSUME TokensInv, NEW c \in Call, At(c, "check", "granted"), revokedAt[call[c].token] # Never
               PROVE  now <= revokedAt[call[c].token] + Bound
    BY DEF RevocationTakesEffect
  <2>1. /\ call[c].token \in Token /\ call[c].started \in Int
        /\ now <= call[c].started + Patience
    BY TokenCalls DEF TokensInv, Check, Time, OnTime, At
  <2>2. now \in Int /\ revokedAt[call[c].token] \in Int
    BY <2>1 DEF TokensInv, TokenTypes, Time
  <2>3. call[c].started - Patience - TTL + 1 <= revokedAt[call[c].token]
    BY DEF TokensInv, Remembers, Outdated
  <2> QED BY <2>1, <2>2, <2>3, TimeAssumption DEF Bound
<1> QED BY <1>1, TokensBegin, TokensStep, PTL DEF TokensSpec

\* A token that is written was in the file from then on until it was revoked.
Noted == \A c \in Call : At(c, "create", "clear") => call[c].token \in file.tokens \cup Removed

LEMMA NotedStays ==
  ASSUME Noted, file' = file, revokedAt' = revokedAt,
         \A c \in Call : At(c, "create", "clear")' => call'[c] = call[c]
  PROVE  Noted'
<1> SUFFICES ASSUME NEW c \in Call, At(c, "create", "clear")'
             PROVE  call'[c].token \in file'.tokens \cup Removed'
  BY DEF Noted
<1>1. call'[c] = call[c] /\ At(c, "create", "clear") /\ Removed' = Removed
  BY DEF At, Removed
<1> QED BY <1>1 DEF Noted

\* What a write does to the list.
LEMMA WriteIsOneEdit ==
  ASSUME TokensInv, NEW c \in Call, Write(c)
  PROVE  \/ /\ call[c].op = "create" /\ List!Add(call[c].token)
            /\ file'.tokens = file.tokens \cup {call[c].token} /\ Removed' = Removed
         \/ /\ call[c].op = "revoke" /\ List!Remove(call[c].token)
            /\ file'.tokens = file.tokens \ {call[c].token} /\ Removed' = Removed \cup {call[c].token}
<1> PICK t : t = call[c].token
  OBVIOUS
<1>1. /\ AtEdit(c, "write") /\ file = call[c].read /\ file' = Edited(c)
      /\ UNCHANGED <<created, doomed>>
  BY DEF Write, Unchanged
<1>2. CASE At(c, "create", "write")
  <2>1. call[c].op = "create" /\ file'.tokens = file.tokens \cup {t} /\ revokedAt' = revokedAt
    BY <1>1, <1>2 DEF Write, Edited, At
  <2>2. t \notin file.tokens /\ t \notin Removed
    BY <1>2 DEF TokensInv, MadeOnce, Unseen, Removed
  <2>3. Removed' = Removed
    BY <2>1 DEF Removed
  <2> QED BY <1>1, <2>1, <2>2, <2>3 DEF List!Add
<1>3. CASE At(c, "revoke", "write")
  <2>1. call[c].op = "revoke" /\ file'.tokens = file.tokens \ {t} /\ revokedAt' = [revokedAt EXCEPT ![t] = now]
    BY <1>1, <1>3 DEF Write, Edited, At
  <2>2. t \in doomed \cap file.tokens /\ t \in Token
    BY <1>1, <1>3 DEF TokensInv, TokenTypes, EditsStand
  <2>3. DOMAIN revokedAt = Token /\ now # Never
    BY DEF TokensInv, TokenTypes, Time, Never
  <2>4. Removed' = Removed \cup {t}
    BY <2>1, <2>2, <2>3 DEF Removed
  <2> QED BY <1>1, <2>1, <2>2, <2>4 DEF List!Remove
<1> QED BY <1>1, <1>2, <1>3 DEF AtEdit

LEMMA NotedStep == TokensInv /\ Noted /\ [TokensNext]_tokenVars => Noted'
<1> SUFFICES ASSUME TokensInv, Noted, [TokensNext]_tokenVars PROVE Noted'
  OBVIOUS
<1>0. DOMAIN call = Call
  BY DEF TokensInv, TokenTypes
<1>1. ASSUME NEW c \in Call, Write(c) PROVE Noted'
  <2>1. call' = [call EXCEPT ![c].step = "clear"]
    BY <1>1 DEF Write
  <2>2. file.tokens \cup Removed \subseteq file'.tokens \cup Removed'
    BY <1>1, WriteIsOneEdit
  <2> SUFFICES ASSUME NEW d \in Call, At(d, "create", "clear")'
               PROVE  call'[d].token \in file'.tokens \cup Removed'
    BY DEF Noted
  <2>3. CASE d = c
    <3>1. call[c].op = "create" /\ call'[c].token = call[c].token
      BY <1>0, <2>1, <2>3, <1>1, TokenCalls DEF At, TokensInv, Edit, Write
    <3> QED BY <1>1, <2>3, <3>1, WriteIsOneEdit
  <2>4. CASE d # c
    <3>1. call'[d] = call[d] /\ At(d, "create", "clear")
      BY <1>0, <2>1, <2>4 DEF At
    <3> QED BY <2>2, <3>1 DEF Noted
  <2> QED BY <2>3, <2>4
<1>2. ASSUME NEW c \in Call, NEW new, call' = [call EXCEPT ![c] = new], new = Idle \/ new.step # "clear",
             file' = file, revokedAt' = revokedAt
      PROVE  Noted'
  <2>1. \A d \in Call : At(d, "create", "clear")' => call'[d] = call[d]
    BY <1>0, <1>2 DEF At
  <2> QED BY <1>2, <2>1, NotedStays
<1>3. ASSUME NEW c \in Call, Step(c), ~Write(c) PROVE Noted'
  <2> PICK new : new = call'[c]
    OBVIOUS
  <2>1. UNCHANGED <<file, revokedAt>>
    BY <1>3 DEF Step, Load, Conflict, Saved, Lost, Known, Read, Fill, Answer, edits
  <2>2. call' = [call EXCEPT ![c] = new] /\ (new = Idle \/ new.step # "clear")
    <3>1. CASE Load(c)
      <4>1. call[c] \in Edit
        BY <3>1, TokenCalls DEF Load, TokensInv
      <4>2. DOMAIN call[c] = {"op", "isolate", "started", "token", "read", "step"}
        BY <4>1 DEF Edit
      <4>3. call[c].op = "revoke" \/ call[c].op = "create"
        BY <3>1 DEF Load
      <4>4. CASE call' = [call EXCEPT ![c].read = file, ![c].step = "write"]
        BY <1>0, <4>2, <4>4
      <4>5. CASE \E t \in Token : call' = [call EXCEPT ![c].read = file, ![c].token = t, ![c].step = "write"]
        <5> PICK t \in Token :
              call' = [call EXCEPT ![c].read = file, ![c].token = t, ![c].step = "write"]
          BY <4>5
        <5> PICK old : old = call[c]
          OBVIOUS
        <5>1. new = [[[old EXCEPT !.read = file] EXCEPT !.token = t] EXCEPT !.step = "write"]
          BY <1>0
        <5>2. DOMAIN new = DOMAIN old /\ new.step = "write"
          BY <4>2, <5>1
        <5>3. call' = [call EXCEPT ![c] = new]
          BY <1>0
        <5> QED BY <5>2, <5>3
      <4>6. CASE call' = [call EXCEPT ![c] = Idle]
        BY <1>0, <4>6
      <4>7. \/ call' = [call EXCEPT ![c].read = file, ![c].step = "write"]
            \/ \E t \in Token : call' = [call EXCEPT ![c].read = file, ![c].token = t, ![c].step = "write"]
            \/ call' = [call EXCEPT ![c] = Idle]
        <5> USE DEF Load
        <5>1. CASE call[c].op = "revoke" /\ call[c].token \in file.tokens
          BY <3>1, <5>1
        <5>2. CASE call[c].op = "revoke" /\ call[c].token \notin file.tokens
          BY <3>1, <5>2
        <5>3. CASE call[c].op = "create"
          BY <3>1, <5>3
        <5> QED BY <4>3, <5>1, <5>2, <5>3
      <4> QED BY <4>4, <4>5, <4>6, <4>7
    <3>2. CASE Conflict(c) \/ Saved(c) \/ Lost(c) \/ Answer(c)
      BY <1>0, <3>2 DEF Conflict, Saved, Lost, Answer
    <3>3. CASE Known(c) \/ Read(c) \/ Fill(c)
      <4>1. call[c] \in Check
        BY <3>3, TokenCalls DEF Known, Read, Fill, TokensInv
      <4>2. DOMAIN call[c] = {"op", "isolate", "started", "token", "read", "step"}
        BY <4>1 DEF Check
      <4>3. CASE call' = [call EXCEPT ![c].step = "granted"] \/ call' = [call EXCEPT ![c] = Idle]
        BY <1>0, <4>2, <4>3
      <4>4. CASE call' = [call EXCEPT ![c].read = file, ![c].step = "fill"]
        BY <1>0, <4>2, <4>4
      <4> QED BY <3>3, <4>3, <4>4 DEF Known, Read, Fill, Verdict
    <3> QED BY <1>3, <3>1, <3>2, <3>3 DEF Step
  <2> QED BY <1>2, <2>1, <2>2
<1>4. ASSUME NEW c \in Call, NEW i \in Isolate \cup {Nothing}, NEW t \in Token \cup {Nothing},
             NEW op \in {"create", "revoke"}, BeginEdit(c, op, i, t)
      PROVE  Noted'
  BY <1>2, <1>4 DEF BeginEdit, edits
<1>5. ASSUME NEW c \in Call, NEW i \in Isolate, NEW t \in Token, BeginCheck(c, i, t) PROVE Noted'
  BY <1>2, <1>5 DEF BeginCheck, edits
<1>6. ASSUME Tick \/ (\E i \in Isolate : Evict(i)) \/ UNCHANGED tokenVars PROVE Noted'
  BY <1>6, NotedStays DEF Tick, Evict, tokenVars, edits, At
<1> QED BY <1>1, <1>3, <1>4, <1>5, <1>6 DEF TokensNext, Step

LEMMA ListStep ==
  TokensInv /\ Noted /\ [TokensNext]_tokenVars => [List!ListNext]_(List!listVars)
<1> SUFFICES ASSUME TokensInv, Noted, [TokensNext]_tokenVars
             PROVE  List!ListNext \/ UNCHANGED List!listVars
  OBVIOUS
<1>0. \A c \in Call : AtEdit(c, "write") \/ At(c, "create", "clear") => call[c].token \in Token
  BY DEF TokensInv, TokenTypes, MadeOnce, Adding, EditsStand, AtEdit
<1>1. ASSUME UNCHANGED <<file, created, doomed, revokedAt>> PROVE UNCHANGED List!listVars
  BY <1>1 DEF List!listVars, Removed
<1>2. ASSUME NEW c \in Call, Load(c) PROVE List!ListNext \/ UNCHANGED List!listVars
  <2>1. UNCHANGED <<file, created, revokedAt>>
    BY <1>2 DEF Load
  <2>2. CASE doomed' = doomed
    BY <1>1, <2>1, <2>2
  <2>3. CASE doomed' # doomed
    <3>1. call[c].token \in file.tokens /\ doomed' = doomed \cup {call[c].token}
      BY <1>2, <2>3 DEF Load
    <3>2. call[c].token \in Token
      BY <3>1 DEF TokensInv, TokenTypes, MadeOnce
    <3>3. List!Unwant(call[c].token)
      BY <2>1, <3>1 DEF List!Unwant, Removed
    <3> QED BY <3>2, <3>3 DEF List!ListNext
  <2> QED BY <2>2, <2>3
<1>3. ASSUME NEW c \in Call, Write(c) PROVE List!ListNext
  <2>1. call[c].token \in Token
    BY <1>0, <1>3 DEF Write
  <2> QED BY <1>3, <2>1, WriteIsOneEdit DEF List!ListNext
<1>4. ASSUME NEW c \in Call, Saved(c) PROVE List!ListNext \/ UNCHANGED List!listVars
  <2>1. UNCHANGED <<file, doomed, revokedAt>> /\ AtEdit(c, "clear")
    BY <1>4 DEF Saved
  <2>2. CASE call[c].op = "create"
    <3>1. At(c, "create", "clear") /\ created' = created \cup {call[c].token}
      BY <1>4, <2>1, <2>2 DEF Saved, At, AtEdit
    <3>2. call[c].token \in file.tokens \cup Removed /\ call[c].token \in Token
      BY <1>0, <3>1 DEF Noted
    <3>3. List!Tell(call[c].token)
      BY <2>1, <3>1, <3>2 DEF List!Tell, Removed
    <3> QED BY <3>2, <3>3 DEF List!ListNext
  <2>3. CASE call[c].op # "create"
    BY <1>1, <1>4, <2>1, <2>3 DEF Saved
  <2> QED BY <2>2, <2>3
<1>5. ASSUME UNCHANGED <<file, edits>> PROVE UNCHANGED List!listVars
  BY <1>1, <1>5 DEF edits
<1>6. ASSUME NEW c \in Call, Step(c) PROVE List!ListNext \/ UNCHANGED List!listVars
  BY <1>2, <1>3, <1>4, <1>5, <1>6 DEF Step, Conflict, Lost, Known, Read, Fill, Answer
<1>7. CASE UNCHANGED tokenVars
  BY <1>1, <1>7 DEF tokenVars, edits
<1> QED BY <1>5, <1>6, <1>7 DEF TokensNext, BeginEdit, BeginCheck, Tick, Evict

\* However the commands' and the Worker's edits of the tokens file overlap, and whichever of
\* their answers are lost, the file is a list edited by one at a time: the conditional writes
\* of cli/app/token.ts and src/infra/r2-tokens-file.ts implement TokenList.
THEOREM EditsImplementList == TokensSpec => EditsAreOneByOne
<1>1. TokensInit => List!ListInit
  BY DEF TokensInit, List!ListInit, NoFile, Removed
<1>2. TokensInit => Noted
  <2>1. TokensInit => \A c \in Call : call[c] = Idle
    BY DEF TokensInit
  <2> QED BY <2>1 DEF Noted, At
<1> QED
  BY <1>1, <1>2, TokensBegin, TokensStep, NotedStep, ListStep, PTL
     DEF TokensSpec, EditsAreOneByOne, List!ListSpec

-----------------------------------------------------------------------------
(* The credential helper: kept sessions are of a login and a key that were  *)
(* current so lately that the bounds account for it.                        *)

\* The account is logged in, or was at the time given.
LoggedIn(l, time) == l \in login \/ time <= left[l]

\* A session is not older than its lifetime, nor than the account's last switch allows.
Recent(s) ==
  s.expires <= clock + SessionTTL /\ LoggedIn(s.login, s.expires - Haste - SessionTTL)

\* What a git command knows of accounts: those it asked for, and those of its password.
KnowsLogins(r) ==
  /\ r.began <= clock /\ clock <= r.began + Haste
  /\ \A l \in r.login : LoggedIn(l, r.began)
  /\ \A s \in r.session : Recent(s) /\ LoggedIn(s.login, r.began + Haste - LoginBound)

\* And of keys: it may write an old one only before a rotation has settled, and if it
\* began after one had, and an entry was erased, it has a session that is good.
KnowsKeys(r) ==
  /\ r.cleared <= cleared
  /\ r.step \in {"info", "lookup", "trade"} => r.session = {}
  /\ r.step \in {"open", "write"} =>
       \A s \in r.session : s.key = secret \/ r.began + Haste < settled
  /\ r.step \in {"open", "write", "show"} /\ r.cleared = secret =>
       \A s \in r.session : s.key = secret /\ r.began + Haste < s.expires
  /\ r.step = "erase" /\ r.source = "session" => r.cleared # secret

\* Once a git has erased an entry after the last rotation had settled, the file has no
\* session of an older key.
Cleared ==
  /\ cleared <= secret
  /\ cleared = secret => clock >= settled /\ \A s \in entry : s.key = secret
  /\ secret = 0 => settled = 0

CredentialInv ==
  /\ CredentialTypes
  /\ \A s \in entry : Recent(s)
  /\ Cleared
  /\ \A g \in Git : git[g] # Away => KnowsLogins(git[g]) /\ KnowsKeys(git[g])

LEMMA CredentialBegins == CredentialInit => CredentialInv
<1> SUFFICES ASSUME CredentialInit PROVE CredentialInv
  OBVIOUS
<1>1. CredentialTypes
  BY LifetimeAssumption DEF CredentialInit, CredentialTypes, Instant, Kept
<1>2. \A g \in Git : git[g] = Away
  BY DEF CredentialInit
<1> QED BY <1>1, <1>2 DEF CredentialInit, CredentialInv, Cleared

LEMMA SessionsTyped ==
  ASSUME NEW kept \in Kept, NEW s \in kept
  PROVE  /\ s \in Session /\ kept = {s} /\ s.login \in Login
         /\ s.key \in Int /\ s.expires \in Int
  BY LifetimeAssumption DEF Kept, Session

LEMMA GitsTyped ==
  ASSUME CredentialTypes, NEW g \in Git, git[g] # Away
  PROVE  /\ git[g] \in Asking /\ git[g].began \in Int /\ git[g].cleared \in Int
         /\ git[g].session \in Kept /\ git[g].login \in Logins
         /\ clock \in Int /\ secret \in Int /\ settled \in Int /\ cleared \in Int
  BY LifetimeAssumption DEF CredentialTypes, Asking, Instant

\* One git command goes on, and nothing else changes but perhaps the file.
LEMMA GitMoves ==
  ASSUME CredentialInv, NEW g \in Git, NEW new \in Asking \cup {Away}, git' = [git EXCEPT ![g] = new],
         UNCHANGED world, entry' \in Kept,
         \A s \in entry' : Recent(s) /\ (cleared = secret => s.key = secret),
         new # Away => KnowsLogins(new) /\ KnowsKeys(new)
  PROVE  CredentialInv'
<1> USE DEF CredentialInv
<1>1. CredentialTypes'
  BY DEF CredentialTypes, world
<1>2. \A s \in entry' : Recent(s)'
  BY DEF Recent, LoggedIn, world
<1>3. Cleared'
  BY DEF Cleared, world
<1>4. \A h \in Git : git'[h] # Away => KnowsLogins(git'[h]) /\ KnowsKeys(git'[h])
  BY DEF CredentialTypes
<1>5. \A r : (KnowsLogins(r) => KnowsLogins(r)') /\ (KnowsKeys(r) => KnowsKeys(r)')
  BY DEF KnowsLogins, KnowsKeys, Recent, LoggedIn, world
<1>6. \A h \in Git : git'[h] # Away => KnowsLogins(git[h])' /\ KnowsKeys(git[h])'
  BY <1>4, <1>5 DEF KnowsLogins, KnowsKeys, Recent, LoggedIn, world
<1> QED BY <1>1, <1>2, <1>3, <1>6

\* The file as it is will do for GitMoves.
LEMMA EntryStays ==
  ASSUME CredentialInv, entry' = entry
  PROVE  entry' \in Kept /\ \A s \in entry' : Recent(s) /\ (cleared = secret => s.key = secret)
  BY DEF CredentialInv, CredentialTypes, Cleared

LEMMA AwayFits == ASSUME CredentialInv, NEW g \in Git, Leave(g), UNCHANGED <<world, entry>> PROVE CredentialInv'
  BY GitMoves, EntryStays DEF Leave

LEMMA GetKeeps == ASSUME CredentialInv, NEW g \in Git, Get(g) PROVE CredentialInv'
<1>1. PICK step \in {"show", "info", "lookup"}, source \in {"env", "none", "gh"} :
        git' = [git EXCEPT ![g] = [step |-> step, began |-> clock, login |-> login,
                                   source |-> source, session |-> {}, cleared |-> cleared]]
  BY DEF Get
<1>2. PICK new : new = [step |-> step, began |-> clock, login |-> login,
                        source |-> source, session |-> {}, cleared |-> cleared]
  OBVIOUS
<1>3. new \in Asking
  BY <1>2 DEF Asking, Sources, Kept, CredentialInv, CredentialTypes
<1>4. clock \in Int /\ cleared \in Int /\ login \in Logins
  BY LifetimeAssumption DEF CredentialInv, CredentialTypes, Instant
<1>5. KnowsLogins(new) /\ KnowsKeys(new)
  <2>1. \A l \in new.login : LoggedIn(l, clock)
    BY <1>2 DEF LoggedIn
  <2> QED BY <1>2, <1>4, <2>1, LifetimeAssumption DEF KnowsLogins, KnowsKeys
<1> QED BY <1>1, <1>2, <1>3, <1>5, GitMoves, EntryStays DEF Get

\* The same password, or none.
LEMMA ProceedKeeps ==
  ASSUME CredentialInv, NEW g \in Git, git[g] # Away, NEW step \in {"trade", "write", "show", "erase"},
         NEW source \in Sources, UNCHANGED world, entry' \in Kept,
         \A s \in entry' : Recent(s) /\ (cleared = secret => s.key = secret),
         \/ git' = [git EXCEPT ![g].step = step, ![g].source = source]
         \/ Proceed(g, step) /\ source = git[g].source,
         step = "trade" => git[g].step = "lookup",
         step = "write" => git[g].step = "open",
         step = "show" => git[g].step \in {"info", "trade", "open", "write"},
         step = "erase" /\ source = "session" => git[g].cleared # secret
  PROVE  CredentialInv'
<1>1. PICK new : new = [git[g] EXCEPT !.step = step, !.source = source, !.session = git[g].session]
  OBVIOUS
<1>2. /\ new \in Asking /\ new.step = step /\ new.source = source /\ new.session = git[g].session
      /\ new.began = git[g].began /\ new.login = git[g].login /\ new.cleared = git[g].cleared
  <2>1. git[g] \in Asking
    BY GitsTyped DEF CredentialInv
  <2> QED BY <1>1, <2>1 DEF Asking
<1>3. git' = [git EXCEPT ![g] = new]
  <2>1. git[g] \in Asking
    BY GitsTyped DEF CredentialInv
  <2>2. new = [git[g] EXCEPT !.step = step, !.source = source]
    BY <1>1, <2>1 DEF Asking
  <2>3. source = git[g].source => new = [git[g] EXCEPT !.step = step]
    BY <1>1, <2>1 DEF Asking
  <2> QED BY <2>2, <2>3 DEF Proceed
<1>4. KnowsLogins(new)
  BY <1>2 DEF CredentialInv, KnowsLogins
<1>5. KnowsKeys(new)
  BY <1>2 DEF CredentialInv, KnowsKeys
<1> QED BY <1>2, <1>3, <1>4, <1>5, GitMoves

\* A session from the file or from the server.
LEMMA HandKeeps ==
  ASSUME CredentialInv, NEW g \in Git, git[g] # Away, NEW step \in {"open", "show"}, NEW s \in Session,
         UNCHANGED <<world, entry>>, HandSession(g, step, s),
         Recent(s), LoggedIn(s.login, git[g].began + Haste - LoginBound),
         step = "open" => s.key = secret \/ git[g].began + Haste < settled,
         git[g].cleared = secret => s.key = secret /\ git[g].began + Haste < s.expires
  PROVE  CredentialInv'
<1>1. PICK new : new = [git[g] EXCEPT !.step = step, !.source = "session", !.session = {s}]
  OBVIOUS
<1>2. /\ new \in Asking /\ new.step = step /\ new.source = "session" /\ new.session = {s}
      /\ new.began = git[g].began /\ new.login = git[g].login /\ new.cleared = git[g].cleared
  <2>1. git[g] \in Asking
    BY GitsTyped DEF CredentialInv
  <2>2. {s} \in Kept
    BY DEF Kept
  <2> QED BY <1>1, <2>1, <2>2 DEF Asking, Sources
<1>3. git' = [git EXCEPT ![g] = new]
  BY <1>1 DEF HandSession
<1>4. KnowsLogins(new)
  BY <1>2 DEF CredentialInv, KnowsLogins
<1>5. KnowsKeys(new)
  BY <1>2 DEF CredentialInv, KnowsKeys
<1> QED BY <1>2, <1>3, <1>4, <1>5, GitMoves, EntryStays

\* Where the last rotation had settled when this git began, it knows the key since.
LEMMA ClearedSince ==
  ASSUME CredentialInv, NEW g \in Git, git[g] # Away, git[g].cleared = secret
  PROVE  cleared = secret /\ clock >= settled /\ KeysInUse = {secret}
<1>1. cleared = secret
  BY GitsTyped DEF CredentialInv, Cleared, KnowsKeys
<1>2. clock >= settled
  BY <1>1 DEF CredentialInv, Cleared
<1> QED BY <1>1, <1>2, GitsTyped, LifetimeAssumption DEF CredentialInv, KeysInUse

LEMMA LookupKeeps == ASSUME CredentialInv, NEW g \in Git, Lookup(g) PROVE CredentialInv'
<1>1. git[g] # Away /\ git[g].step = "lookup" /\ UNCHANGED <<world, entry>>
  BY DEF Lookup, Doing
<1>2. ASSUME NEW s \in entry, LongEnough(s), HandSession(g, "show", s) PROVE CredentialInv'
  <2>1. s \in Session /\ s.login \in Login /\ s.expires \in Int /\ Recent(s)
    BY SessionsTyped DEF CredentialInv, CredentialTypes
  <2>2. /\ git[g].began \in Int /\ clock \in Int /\ git[g].began <= clock
        /\ left[s.login] \in Int
    BY <1>1, <2>1, GitsTyped DEF CredentialInv, KnowsLogins, CredentialTypes, Instant
  <2>3. LoggedIn(s.login, git[g].began + Haste - LoginBound)
    BY <1>2, <2>1, <2>2, LifetimeAssumption DEF LongEnough, LoggedIn, Recent, LoginBound
  <2>4. git[g].cleared = secret => s.key = secret /\ git[g].began + Haste < s.expires
    <3>1. git[g].began + Haste < s.expires
      BY <1>2, <2>1, <2>2, LifetimeAssumption DEF LongEnough
    <3> QED BY <1>1, <3>1, ClearedSince DEF CredentialInv, Cleared
  <2> QED BY <1>1, <1>2, <2>1, <2>3, <2>4, HandKeeps
<1>3. CASE Proceed(g, "trade")
  <2>1. git[g].source \in Sources
    BY <1>1, GitsTyped DEF CredentialInv, Asking
  <2> QED BY <1>1, <1>3, <2>1, ProceedKeeps, EntryStays
<1> QED BY <1>2, <1>3 DEF Lookup

LEMMA TradeKeeps == ASSUME CredentialInv, NEW g \in Git, Trade(g) PROVE CredentialInv'
<1>1. git[g] # Away /\ git[g].step = "trade" /\ UNCHANGED <<world, entry>>
  BY DEF Trade, Doing
<1>2. ASSUME NEW k \in KeysInUse, NEW l \in git[g].login,
             HandSession(g, "open", [login |-> l, key |-> k, expires |-> clock + SessionTTL])
      PROVE  CredentialInv'
  <2>1. PICK s : s = [login |-> l, key |-> k, expires |-> clock + SessionTTL]
    OBVIOUS
  <2>2. /\ git[g].began \in Int /\ clock \in Instant /\ git[g].began <= clock /\ clock <= git[g].began + Haste
        /\ secret \in 0..Rotations /\ settled \in Int /\ LoggedIn(l, git[g].began)
    BY <1>1, GitsTyped DEF CredentialInv, KnowsLogins, CredentialTypes
  <2>3. l \in Login
    BY <1>1, GitsTyped DEF CredentialInv, Logins
  <2>4. k \in 0..Rotations /\ (k = secret \/ git[g].began + Haste < settled)
    BY <1>2, <2>2, LifetimeAssumption DEF KeysInUse, CredentialInv, Cleared, Instant
  <2>5. s \in Session /\ s.login = l /\ s.key = k /\ s.expires = clock + SessionTTL
    BY <2>1, <2>2, <2>3, <2>4, LifetimeAssumption DEF Session, Instant
  <2>6. left[l] \in Int
    BY <2>3 DEF CredentialInv, CredentialTypes, Instant
  <2>7. Recent(s) /\ LoggedIn(l, git[g].began + Haste - LoginBound)
    BY <2>2, <2>5, <2>6, LifetimeAssumption DEF Recent, LoggedIn, LoginBound, Instant
  <2>8. git[g].cleared = secret => k = secret /\ git[g].began + Haste < s.expires
    BY <1>1, <1>2, <2>2, <2>5, ClearedSince, LifetimeAssumption DEF Instant
  <2> QED BY <1>1, <1>2, <2>1, <2>4, <2>5, <2>7, <2>8, HandKeeps
<1>3. CASE Hand(g, "gh")
  BY <1>1, <1>3, ProceedKeeps, EntryStays DEF Hand, Sources
<1> QED BY <1>2, <1>3 DEF Trade

LEMMA FileKeeps == ASSUME CredentialInv, NEW g \in Git, OpenEntry(g) \/ WriteEntry(g) PROVE CredentialInv'
<1>1. git[g] # Away /\ UNCHANGED world
  BY DEF OpenEntry, WriteEntry, Doing
<1>2. git[g].source \in Sources
  BY <1>1, GitsTyped DEF CredentialInv, Asking
<1>3. CASE OpenEntry(g)
  <2>1. CASE entry' = {} /\ Proceed(g, "write")
    BY <1>1, <1>2, <1>3, <2>1, ProceedKeeps DEF OpenEntry, Doing, Kept
  <2>2. CASE entry' = entry /\ Proceed(g, "show")
    BY <1>1, <1>2, <1>3, <2>2, ProceedKeeps, EntryStays DEF OpenEntry, Doing
  <2> QED BY <1>3, <2>1, <2>2 DEF OpenEntry
<1>4. CASE WriteEntry(g)
  <2>1. git[g].step = "write" /\ Proceed(g, "show") /\ entry' \in {git[g].session, {}}
    BY <1>4 DEF WriteEntry, Doing
  <2>2. entry' \in Kept
    BY <1>1, <2>1, GitsTyped DEF CredentialInv, Kept
  <2>3. ASSUME NEW s \in entry' PROVE Recent(s) /\ (cleared = secret => s.key = secret)
    <3>1. s \in git[g].session
      BY <2>1
    <3>2. s.key = secret \/ git[g].began + Haste < settled
      BY <1>1, <2>1, <3>1 DEF CredentialInv, KnowsKeys
    <3>3. git[g].began \in Int /\ clock \in Int /\ settled \in Int /\ clock <= git[g].began + Haste
      BY <1>1, GitsTyped DEF CredentialInv, KnowsLogins
    <3>4. cleared = secret => clock >= settled
      BY DEF CredentialInv, Cleared
    <3> QED BY <1>1, <3>1, <3>2, <3>3, <3>4, LifetimeAssumption DEF CredentialInv, KnowsLogins
  <2> QED BY <1>1, <1>2, <2>1, <2>2, <2>3, ProceedKeeps
<1> QED BY <1>3, <1>4

\* A git that knows that the key has settled has a session that the server takes.
LEMMA ShowKeeps == ASSUME CredentialInv, NEW g \in Git, Show(g) PROVE CredentialInv'
<1>1. git[g] # Away /\ git[g].step = "show" /\ UNCHANGED <<world, entry>>
  BY DEF Show, Doing
<1>2. git[g].source \in Sources
  BY <1>1, GitsTyped DEF CredentialInv, Asking
<1>3. CASE Leave(g)
  BY <1>1, <1>3, AwayFits
<1>4. CASE Proceed(g, "erase") /\ git[g].source # "session"
  BY <1>1, <1>2, <1>4, ProceedKeeps, EntryStays
<1>5. ASSUME NEW k \in KeysInUse, NEW s \in git[g].session, ~Accepts(s, k), Proceed(g, "erase")
      PROVE  CredentialInv'
  <2>1. ASSUME git[g].cleared = secret PROVE FALSE
    <3>1. s.key = secret /\ git[g].began + Haste < s.expires
      BY <1>1, <2>1 DEF CredentialInv, KnowsKeys
    <3>2. k = secret
      BY <1>1, <2>1, ClearedSince
    <3>3. /\ git[g].began \in Int /\ clock \in Int /\ clock <= git[g].began + Haste
          /\ s.expires \in Int
      BY <1>1, GitsTyped, SessionsTyped DEF CredentialInv, KnowsLogins
    <3> QED BY <1>5, <3>1, <3>2, <3>3, LifetimeAssumption DEF Accepts
  <2> QED BY <1>1, <1>2, <1>5, <2>1, ProceedKeeps, EntryStays
<1> QED BY <1>3, <1>4, <1>5 DEF Show

LEMMA EraseKeeps == ASSUME CredentialInv, NEW g \in Git, Erase(g) PROVE CredentialInv'
<1> USE DEF CredentialInv
<1>1. /\ git' = [git EXCEPT ![g] = Away] /\ entry' = {}
      /\ cleared' = (IF clock >= settled THEN secret ELSE cleared)
      /\ UNCHANGED <<clock, login, left, secret, settled>>
  BY DEF Erase, Leave, Forget
<1>2. cleared \in Int /\ secret \in Int /\ cleared <= secret
  BY LifetimeAssumption DEF CredentialTypes, Cleared
<1>3. CredentialTypes'
  BY <1>1 DEF CredentialTypes, Kept
<1>4. Cleared'
  BY <1>1, <1>2 DEF Cleared
<1>5. \A h \in Git : git'[h] # Away => git'[h] = git[h] /\ git[h] # Away
  BY <1>1 DEF CredentialTypes
<1>6. ASSUME NEW h \in Git, git'[h] # Away PROVE KnowsLogins(git[h])' /\ KnowsKeys(git[h])'
  <2>1. git'[h] = git[h] /\ git[h] # Away /\ git[h].cleared \in Int
    BY <1>5, <1>6, GitsTyped
  <2>2. KnowsLogins(git[h])'
    BY <1>1, <2>1 DEF KnowsLogins, Recent, LoggedIn
  <2>3. KnowsKeys(git[h])'
    BY <1>1, <1>2, <2>1 DEF KnowsKeys
  <2> QED BY <2>2, <2>3
<1> QED BY <1>1, <1>3, <1>4, <1>6

LEMMA SwitchKeeps == ASSUME CredentialInv, NEW to \in Logins, SwitchLogin(to) PROVE CredentialInv'
<1> USE DEF CredentialInv
<1>1. /\ login' = to /\ left' = [l \in Login |-> IF l \in login THEN clock ELSE left[l]]
      /\ UNCHANGED <<clock, secret, settled, entry, cleared, git>>
  BY DEF SwitchLogin
<1>2. clock \in Int /\ clock \in Instant
  BY LifetimeAssumption DEF CredentialTypes, Instant
<1>3. CredentialTypes'
  BY <1>1, <1>2 DEF CredentialTypes
<1>4. ASSUME NEW l \in Login, NEW time \in Int, time <= clock, LoggedIn(l, time)
      PROVE  LoggedIn(l, time)'
  BY <1>1, <1>4 DEF LoggedIn
<1>5. ASSUME NEW s \in Session, Recent(s) PROVE Recent(s)'
  <2>1. s.login \in Login /\ s.expires \in Int
    BY LifetimeAssumption DEF Session
  <2>2. s.expires - Haste - SessionTTL \in Int /\ s.expires - Haste - SessionTTL <= clock
    BY <1>2, <1>5, <2>1, LifetimeAssumption DEF Recent
  <2> QED BY <1>1, <1>4, <1>5, <2>1, <2>2 DEF Recent
<1>6. \A s \in entry : Recent(s)'
  BY <1>5, SessionsTyped DEF CredentialTypes
<1>7. ASSUME NEW g \in Git, git[g] # Away PROVE KnowsLogins(git[g])' /\ KnowsKeys(git[g])'
  <2>1. /\ git[g].began \in Int /\ git[g].began <= clock /\ clock <= git[g].began + Haste
        /\ git[g].session \in Kept /\ git[g].login \in Logins
    BY <1>7, GitsTyped DEF KnowsLogins
  <2>2. git[g].began + Haste - LoginBound \in Int /\ git[g].began + Haste - LoginBound <= clock
    BY <1>2, <2>1, LifetimeAssumption DEF LoginBound
  <2>3. \A l \in git[g].login : LoggedIn(l, git[g].began)'
    BY <1>1, <1>4, <1>7, <2>1 DEF KnowsLogins, LoggedIn, Logins
  <2>4. \A s \in git[g].session : Recent(s)' /\ LoggedIn(s.login, git[g].began + Haste - LoginBound)'
    <3> SUFFICES ASSUME NEW s \in git[g].session
                 PROVE  Recent(s)' /\ LoggedIn(s.login, git[g].began + Haste - LoginBound)'
      BY <1>1
    <3>1. /\ s \in Session /\ s.login \in Login
          /\ Recent(s) /\ LoggedIn(s.login, git[g].began + Haste - LoginBound)
      BY <1>7, <2>1, SessionsTyped DEF KnowsLogins
    <3>2. PICK time \in Int : time = git[g].began + Haste - LoginBound
      BY <2>2
    <3>3. LoggedIn(s.login, time)'
      BY <1>4, <2>2, <3>1, <3>2
    <3> QED BY <1>1, <1>5, <3>1, <3>2, <3>3 DEF LoggedIn
  <2> QED BY <1>1, <1>7, <2>1, <2>3, <2>4 DEF KnowsLogins, KnowsKeys
<1> QED BY <1>1, <1>3, <1>6, <1>7 DEF Cleared

LEMMA RotateKeeps == ASSUME CredentialInv, Rotate PROVE CredentialInv'
<1> USE DEF CredentialInv
<1>1. /\ secret' = secret + 1 /\ secret < Rotations /\ settled' = clock + Settle + Haste
      /\ UNCHANGED <<clock, login, left, entry, cleared, git>>
  BY DEF Rotate
<1>2. clock \in 0..End /\ secret \in 0..Rotations /\ cleared \in Int
  BY LifetimeAssumption DEF CredentialTypes, Instant
<1>3. CredentialTypes'
  BY <1>1, <1>2, LifetimeAssumption DEF CredentialTypes
<1>4. Cleared'
  BY <1>1, <1>2 DEF Cleared
<1>5. \A s \in entry : Recent(s)'
  BY <1>1 DEF Recent, LoggedIn
<1>6. ASSUME NEW g \in Git, git[g] # Away PROVE KnowsLogins(git[g])' /\ KnowsKeys(git[g])'
  <2>1. /\ git[g].began \in Int /\ git[g].began <= clock /\ git[g].cleared \in Int
        /\ git[g].cleared <= cleared
    BY <1>6, GitsTyped DEF KnowsLogins, KnowsKeys
  <2>2. git[g].cleared # secret' /\ git[g].began + Haste < settled'
    BY <1>1, <1>2, <2>1, LifetimeAssumption DEF Cleared
  <2> QED BY <1>1, <1>6, <2>2 DEF KnowsLogins, KnowsKeys, Recent, LoggedIn
<1> QED BY <1>1, <1>3, <1>4, <1>5, <1>6

LEMMA ElapseKeeps == ASSUME CredentialInv, Elapse PROVE CredentialInv'
<1> USE DEF CredentialInv
<1>1. /\ clock' = clock + 1 /\ clock < End
      /\ \A g \in Git : git[g] # Away => clock < git[g].began + Haste
      /\ UNCHANGED <<login, left, secret, settled, entry, cleared, git>>
  BY DEF Elapse
<1>2. clock \in 0..End /\ settled \in Int
  BY LifetimeAssumption DEF CredentialTypes, Instant
<1>3. CredentialTypes'
  BY <1>1, <1>2, LifetimeAssumption DEF CredentialTypes, Instant
<1>4. Cleared'
  BY <1>1, <1>2 DEF Cleared
<1>5. ASSUME NEW s \in Session, Recent(s) PROVE Recent(s)'
  <2>1. s.expires \in Int
    BY LifetimeAssumption DEF Session
  <2> QED BY <1>1, <1>2, <1>5, <2>1, LifetimeAssumption DEF Recent, LoggedIn
<1>6. \A s \in entry : Recent(s)'
  BY <1>5, SessionsTyped DEF CredentialTypes
<1>7. ASSUME NEW g \in Git, git[g] # Away PROVE KnowsLogins(git[g])' /\ KnowsKeys(git[g])'
  <2>1. git[g].began \in Int /\ git[g].session \in Kept
    BY <1>7, GitsTyped
  <2>2. git[g].began <= clock + 1 /\ clock + 1 <= git[g].began + Haste
    BY <1>1, <1>2, <1>7, <2>1, LifetimeAssumption DEF KnowsLogins
  <2>3. \A s \in git[g].session : Recent(s)'
    BY <1>5, <1>7, <2>1, SessionsTyped DEF KnowsLogins
  <2> QED BY <1>1, <1>7, <2>2, <2>3 DEF KnowsLogins, KnowsKeys, LoggedIn
<1> QED BY <1>1, <1>3, <1>4, <1>6, <1>7

LEMMA CredentialStep == CredentialInv /\ [CredentialNext]_credentialVars => CredentialInv'
<1> SUFFICES ASSUME CredentialInv, [CredentialNext]_credentialVars PROVE CredentialInv'
  OBVIOUS
<1>1. ASSUME NEW g \in Git, ActionsToken(g) PROVE CredentialInv'
  <2>1. git[g] # Away /\ git[g].step = "info" /\ UNCHANGED <<world, entry>>
    BY <1>1 DEF ActionsToken, Doing
  <2>2. CASE Leave(g)
    BY <2>1, <2>2, AwayFits
  <2>3. CASE Hand(g, "actions")
    BY <2>1, <2>3, ProceedKeeps, EntryStays DEF Hand, Sources
  <2> QED BY <1>1, <2>2, <2>3 DEF ActionsToken
<1>2. ASSUME NEW g \in Git, Interrupt(g) PROVE CredentialInv'
  BY <1>2, AwayFits DEF Interrupt
<1>3. CASE UNCHANGED credentialVars
  BY <1>3 DEF credentialVars, CredentialInv, CredentialTypes, Cleared, KnowsLogins, KnowsKeys, Recent, LoggedIn
<1> QED BY <1>1, <1>2, <1>3, GetKeeps, LookupKeeps, TradeKeeps, FileKeeps, ShowKeeps, EraseKeeps,
           SwitchKeeps, RotateKeeps, ElapseKeeps DEF CredentialNext

\* For any number of gits, accounts and rotations: once a git has erased what it was
\* refused with, no git that asks after the rotation has settled is refused with a session;
\* and a session follows the login within its bound (credential.ts passwordFor,
\* forgetSession).
THEOREM PasswordsAreGood == CredentialSpec => []PasswordsServe
<1>1. CredentialInv => PasswordsServe
  <2> SUFFICES ASSUME CredentialInv PROVE RejectedOnce /\ FollowsLogin
    BY DEF PasswordsServe
  <2>1. RejectedOnce
    BY DEF CredentialInv, KnowsKeys, RejectedOnce, Doing
  <2>2. FollowsLogin
    <3> SUFFICES ASSUME NEW g \in Git, Doing(g, "show"), NEW s \in git[g].session, s.login \notin login
                 PROVE  clock <= left[s.login] + LoginBound
      BY DEF FollowsLogin
    <3>1. /\ git[g] # Away /\ git[g].began \in Int /\ clock \in Int /\ clock <= git[g].began + Haste
          /\ s.login \in Login /\ LoggedIn(s.login, git[g].began + Haste - LoginBound)
      BY GitsTyped, SessionsTyped DEF CredentialInv, KnowsLogins, Doing
    <3>2. left[s.login] \in Int
      BY <3>1 DEF CredentialInv, CredentialTypes, Instant
    <3> QED BY <3>1, <3>2, LifetimeAssumption DEF LoggedIn, LoginBound
  <2> QED BY <2>1, <2>2
<1> QED BY <1>1, CredentialBegins, CredentialStep, PTL DEF CredentialSpec

-----------------------------------------------------------------------------
(* archive: the sizes of its parts. *)

\* Some number of a set of numbers is the least.
LEMMA LeastNumber ==
  ASSUME NEW T \in SUBSET Nat, T # {}
  PROVE  \E x \in T : \A y \in T : x <= y
<1>1. PICK x \in T : \A y \in T : ~ (<<y, x>> \in OpToRel(<, Nat))
  BY WFMin, NatLessThanWellFounded
<1>2. \A y \in Nat : y < x => <<y, x>> \in OpToRel(<, Nat)
  BY DEF OpToRel
<1>3. \A y \in T : ~ (y < x)
  BY <1>1, <1>2
<1>4. QED BY <1>3

\* A set of numbers that holds the next of each of its own holds all from the first on.
LEMMA EveryNumber ==
  ASSUME NEW T \in SUBSET Nat, 0 \in T, \A n \in T : n + 1 \in T
  PROVE  T = Nat
<1> PICK R \in SUBSET Nat : R = Nat \ T
  OBVIOUS
<1> SUFFICES ASSUME R # {} PROVE FALSE
  OBVIOUS
<1>1. PICK x \in R : \A y \in R : x <= y
  BY LeastNumber
<1>2. x # 0 /\ x - 1 \in Nat /\ x - 1 < x
  OBVIOUS
<1>3. x - 1 \notin R
  BY <1>1, <1>2
<1>4. QED BY <1>2, <1>3

\* The digits are counted again until the count no longer changes, which the third does not.
LEMMA RecordCounts ==
  ASSUME NEW tail \in Nat
  PROVE  RecordBytes(tail) \in Nat /\ RecordBytes(tail) = tail + Digits(RecordBytes(tail))
<1> DEFINE Longer(length) == Digits(length) + tail
           Grows(g) == g = [length \in 0 .. tail + 9 |->
                              IF Longer(length) = length THEN length ELSE g[Longer(length)]]
<1>1. \A length \in Nat : Longer(length) \in tail + 1 .. tail + 4
  BY DEF Digits
<1>0. \A length \in 0 .. tail + 9 : length \in Nat /\ Longer(length) \in 0 .. tail + 9
  BY <1>1
<1>2. ASSUME NEW length \in Nat
      PROVE  Longer(Longer(Longer(Longer(length)))) = Longer(Longer(Longer(length)))
  <2>1. \A n \in Nat : Digits(n) \in 1..4
    BY DEF Digits
  <2>2. \A m, n \in Nat : m <= n => Digits(m) <= Digits(n)
    BY DEF Digits
  <2>3. \A m, n \in Nat : n <= m + 3 => Digits(n) <= Digits(m) + 1
    BY DEF Digits
  <2> PICK a \in Nat : a = Longer(length)
    BY <1>1
  <2> PICK b \in Nat : b = Longer(a)
    BY <1>1
  <2> PICK c \in Nat : c = Longer(b)
    BY <1>1
  <2>4. b = Digits(a) + tail /\ c = Digits(b) + tail
    OBVIOUS
  <2>5. a \in tail + 1 .. tail + 4 /\ b \in tail + 1 .. tail + 4 /\ c \in tail + 1 .. tail + 4
    BY <1>1
  <2>6. Digits(c) = Digits(b)
    <3> PICK x \in Nat : x = Digits(a)
      BY <2>1
    <3> PICK y \in Nat : y = Digits(b)
      BY <2>1
    <3> PICK z \in Nat : z = Digits(c)
      BY <2>1
    <3>1. CASE x <= y
      <4>1. b <= c /\ y <= z
        BY <2>2, <2>4, <3>1
      <4>2. z <= y
        <5>1. CASE x = y
          BY <2>4, <5>1
        <5>2. CASE x < y
          <6>1. y = x + 1 /\ z <= x + 1
            BY <2>3, <2>5, <3>1, <5>2
          <6>2. QED BY <6>1
        <5>3. QED BY <3>1, <5>1, <5>2
      <4>3. QED BY <4>1, <4>2
    <3>2. CASE y < x
      <4>1. c <= b /\ z <= y
        BY <2>2, <2>4, <3>2
      <4>2. x <= z + 1
        BY <2>3, <2>5
      <4>3. QED BY <3>2, <4>1, <4>2
    <3>3. QED BY <3>1, <3>2
  <2>7. QED BY <2>4, <2>6
<1>3. \E g : Grows(g)
  <2> PICK g : g = [length \in 0 .. tail + 9 |-> Longer(Longer(Longer(length)))]
    OBVIOUS
  <2>1. ASSUME NEW length \in 0 .. tail + 9
        PROVE  g[length] = IF Longer(length) = length THEN length ELSE g[Longer(length)]
    <3>1. length \in Nat /\ Longer(length) \in 0 .. tail + 9
      BY <1>0
    <3> HIDE DEF Longer
    <3>2. g[length] = Longer(Longer(Longer(length)))
          /\ g[Longer(length)] = Longer(Longer(Longer(Longer(length))))
      BY <3>1
    <3>3. QED BY <1>2, <3>1, <3>2
  <2> HIDE DEF Longer
  <2>2. g = [length \in 0 .. tail + 9 |->
               IF Longer(length) = length THEN length ELSE g[Longer(length)]]
    BY <2>1
  <2>3. QED BY <2>2
<1>4. RecordBytes(tail) = (CHOOSE h : Grows(h))[tail + 1]
  BY DEF RecordBytes
<1> HIDE DEF Grows
<1> PICK g : g = CHOOSE h : Grows(h)
  OBVIOUS
<1>5. Grows(g)
  BY <1>3
<1> USE DEF Grows
<1> PICK a : a = tail + 1
  OBVIOUS
<1> PICK b : b = Longer(a)
  OBVIOUS
<1> PICK c : c = Longer(b)
  OBVIOUS
<1> PICK d : d = Longer(c)
  OBVIOUS
<1>6. a \in 0 .. tail + 9 /\ b \in 0 .. tail + 9 /\ c \in 0 .. tail + 9 /\ d \in 0 .. tail + 9
  <2>1. a \in 0 .. tail + 9
    OBVIOUS
  <2> HIDE DEF Longer
  <2>2. QED BY <1>0, <2>1
<1>7. Longer(d) = d
  BY <1>2, <1>6
<1> HIDE DEF Longer
<1>8. /\ (g[a] = a /\ Longer(a) = a) \/ g[a] = g[b]
      /\ (g[b] = b /\ Longer(b) = b) \/ g[b] = g[c]
      /\ (g[c] = c /\ Longer(c) = c) \/ g[c] = g[d]
      /\ g[d] = d
  BY <1>5, <1>6, <1>7
<1>9. g[a] \in 0 .. tail + 9 /\ Longer(g[a]) = g[a]
  BY <1>6, <1>7, <1>8
<1>10. QED BY <1>4, <1>9 DEF Longer, Digits

Item == [name : Nat, size : Nat, link : BOOLEAN, target : Nat]

LEMMA PaxBytes == \A e \in Item : PaxRecords(e) \in Nat
<1> SUFFICES ASSUME NEW e \in Item PROVE PaxRecords(e) \in Nat
  OBVIOUS
<1>1. \A key \in Nat, value \in Nat : Record(key, value) \in Nat
  BY RecordCounts DEF Record
<1>2. Record(4, e.name) \in Nat /\ Record(8, e.target) \in Nat
  BY <1>1 DEF Item
<1>3. QED BY <1>2 DEF PaxRecords

LEMMA Padding == \A n \in Nat : PaddingFor(n) \in Nat
BY DEF PaddingFor, BLOCK

LEMMA EntryIsLong == \A e \in Item : EntryBytes(e) \in Nat
<1> SUFFICES ASSUME NEW e \in Item PROVE EntryBytes(e) \in Nat
  OBVIOUS
<1> PICK pax \in Nat : pax = PaxRecords(e)
  BY PaxBytes
<1> PICK data \in Nat : data = IF e.link THEN 0 ELSE e.size
  BY DEF Item
<1>1. PaddingFor(pax) \in Nat /\ PaddingFor(data) \in Nat
  BY Padding
<1>2. QED BY <1>1 DEF EntryBytes, BLOCK

-----------------------------------------------------------------------------
(* The folds over sequences, one element at a time. *)

LEMMA MaxIsLast ==
  ASSUME NEW n \in Nat \ {0}, NEW s \in SUBSET (1..n), n \in s
  PROVE  Max(s) = n
<1>1. \A x \in s : x \in Nat /\ n >= x
  OBVIOUS
<1>2. \A x \in s : (\A y \in s : x >= y) => x = n
  BY <1>1
<1> PICK m : m = Max(s)
  OBVIOUS
<1>3. m \in s /\ \A y \in s : m >= y
  BY <1>1 DEF Max
<1>4. QED BY <1>2, <1>3

\* A fold over the places of a sequence is there if that over one place less is.
LEMMA OneMore ==
  ASSUME NEW n \in Nat
  PROVE  /\ \A s \in SUBSET (1..n) : s \in SUBSET (1..n + 1) /\ n + 1 \notin s
         /\ \A s \in SUBSET (1..n + 1) : n + 1 \notin s => s \in SUBSET (1..n)
         /\ \A s \in SUBSET (1..n + 1) : n + 1 \in s => Max(s) = n + 1 /\ s # {} /\ s \ {Max(s)} \in SUBSET (1..n)
<1>1. \A s \in SUBSET (1..n) : s \in SUBSET (1..n + 1) /\ n + 1 \notin s
  OBVIOUS
<1>2. \A s \in SUBSET (1..n + 1) : n + 1 \notin s => s \in SUBSET (1..n)
  <2> SUFFICES ASSUME NEW s \in SUBSET (1..n + 1), n + 1 \notin s, NEW x \in s PROVE x \in 1..n
    OBVIOUS
  <2>1. x \in 1..n + 1 /\ x # n + 1
    OBVIOUS
  <2>2. QED BY <2>1
<1>3. \A s \in SUBSET (1..n + 1) : n + 1 \in s => Max(s) = n + 1 /\ s \ {n + 1} \in SUBSET (1..n)
  <2>1. \A s \in SUBSET (1..n + 1) : s \ {n + 1} \in SUBSET (1..n + 1) /\ n + 1 \notin s \ {n + 1}
    OBVIOUS
  <2>2. n + 1 \in Nat \ {0}
    OBVIOUS
  <2>3. QED BY <1>2, <2>1, <2>2, MaxIsLast
<1>4. QED BY <1>1, <1>2, <1>3

LEMMA FirstPlaces ==
  ASSUME NEW n \in Nat, NEW i \in 1..n
  PROVE  1..i \in SUBSET (1..n) /\ 1..i # {} /\ Max(1..i) = i /\ (1..i) \ {i} = 1..i - 1
<1>1. i \in 1..i /\ 1..i \in SUBSET (1..i) /\ i \in Nat \ {0}
  OBVIOUS
<1>2. Max(1..i) = i
  BY <1>1, MaxIsLast
<1>3. QED BY <1>1, <1>2

Total(q) == FoldLeft(+, 0, q)
Joined(q) == FoldLeft(\o, <<>>, q)

\* A fold with + adds one number after the other.
LEMMA Adds ==
  ASSUME NEW q, NEW n \in Nat, DOMAIN q = 1..n
  PROVE  \E f : /\ f[0] = 0 /\ \A i \in 1..n : f[i] = f[i - 1] + q[i]
               /\ Total(q) = f[n]
<1> DEFINE Is(it, m) ==
      it = [s \in SUBSET (1..m) |-> IF s = {} THEN 0 ELSE it[s \ {Max(s)}] + q[Max(s)]]
<1>1. \E it : Is(it, 0)
  <2> PICK it : it = [s \in SUBSET (1..0) |-> 0]
    OBVIOUS
  <2>1. \A s \in SUBSET (1..0) : s = {}
    OBVIOUS
  <2>2. Is(it, 0)
    BY <2>1
  <2>3. QED BY <2>2
<1>2. ASSUME NEW m \in Nat, NEW g, Is(g, m) PROVE \E f : Is(f, m + 1)
  <2> PICK step : step = [s \in SUBSET (1..m + 1) |-> g[s \ {Max(s)}] + q[Max(s)]]
    OBVIOUS
  <2> PICK f : f = [s \in SUBSET (1..m + 1) |-> IF m + 1 \in s THEN step[s] ELSE g[s]]
    OBVIOUS
  <2>1. /\ \A s \in SUBSET (1..m) : f[s] = g[s] /\ s \in SUBSET (1..m + 1)
        /\ \A s \in SUBSET (1..m + 1) : m + 1 \notin s => s \in SUBSET (1..m)
        /\ \A s \in SUBSET (1..m + 1) : m + 1 \in s =>
             f[s] = step[s] /\ s # {} /\ s \ {Max(s)} \in SUBSET (1..m)
    BY OneMore
  <2>2. ASSUME NEW s \in SUBSET (1..m + 1)
        PROVE  f[s] = IF s = {} THEN 0 ELSE f[s \ {Max(s)}] + q[Max(s)]
    <3>1. CASE m + 1 \in s
      BY <2>1, <3>1
    <3>2. CASE m + 1 \notin s
      <4>1. s \in SUBSET (1..m)
        BY <2>1, <3>2
      <4>2. f[s] = IF s = {} THEN 0 ELSE g[s \ {Max(s)}] + q[Max(s)]
        BY <1>2, <2>1, <4>1
      <4>3. f[s \ {Max(s)}] = g[s \ {Max(s)}]
        BY <2>1, <4>1
      <4>4. QED BY <4>2, <4>3
    <3>3. QED BY <3>1, <3>2
  <2>3. Is(f, m + 1)
    BY <2>2
  <2>4. QED BY <2>3
<1> HIDE DEF Is
<1> PICK T \in SUBSET Nat : T = {m \in Nat : \E it : Is(it, m)}
  OBVIOUS
<1>3. 0 \in T
  BY <1>1
<1>4. \A m \in T : m + 1 \in T
  BY <1>2
<1>5. n \in T
  BY <1>3, <1>4, EveryNumber
<1>6. \E it : Is(it, n)
  BY <1>5
<1>7. Total(q) = (CHOOSE h : Is(h, n))[1..n]
  BY DEF Is, Total, FoldLeft, MapThenFoldSet
<1> PICK it : it = CHOOSE h : Is(h, n)
  OBVIOUS
<1>8. Is(it, n)
  BY <1>6
<1> PICK f : f = [i \in 0..n |-> it[1..i]]
  OBVIOUS
<1>9. f[0] = 0
  <2>1. {} \in SUBSET (1..n) /\ 1..0 = {} /\ 0 \in 0..n
    OBVIOUS
  <2>2. QED BY <1>8, <2>1 DEF Is
<1>10. ASSUME NEW i \in 1..n PROVE f[i] = f[i - 1] + q[i]
  <2>1. 1..i \in SUBSET (1..n) /\ 1..i # {} /\ Max(1..i) = i /\ (1..i) \ {i} = 1..i - 1
    BY FirstPlaces
  <2>2. it[1..i] = it[1..i - 1] + q[i]
    BY <1>8, <2>1 DEF Is
  <2>3. i \in 0..n /\ i - 1 \in 0..n
    OBVIOUS
  <2>4. f[i] = it[1..i] /\ f[i - 1] = it[1..i - 1]
    BY <2>3
  <2>5. QED BY <2>2, <2>4
<1>11. Total(q) = f[n]
  BY <1>7
<1>12. QED BY <1>9, <1>10, <1>11

\* One with \o puts one sequence behind the other.
LEMMA Joins ==
  ASSUME NEW q, NEW n \in Nat, DOMAIN q = 1..n
  PROVE  \E f : /\ f[0] = <<>> /\ \A i \in 1..n : f[i] = f[i - 1] \o q[i]
               /\ Joined(q) = f[n]
<1> DEFINE Is(it, m) ==
      it = [s \in SUBSET (1..m) |-> IF s = {} THEN <<>> ELSE it[s \ {Max(s)}] \o q[Max(s)]]
<1>1. \E it : Is(it, 0)
  <2> PICK it : it = [s \in SUBSET (1..0) |-> <<>>]
    OBVIOUS
  <2>1. \A s \in SUBSET (1..0) : s = {}
    OBVIOUS
  <2>2. Is(it, 0)
    BY <2>1
  <2>3. QED BY <2>2
<1>2. ASSUME NEW m \in Nat, NEW g, Is(g, m) PROVE \E f : Is(f, m + 1)
  <2> PICK step : step = [s \in SUBSET (1..m + 1) |-> g[s \ {Max(s)}] \o q[Max(s)]]
    OBVIOUS
  <2> PICK f : f = [s \in SUBSET (1..m + 1) |-> IF m + 1 \in s THEN step[s] ELSE g[s]]
    OBVIOUS
  <2>1. /\ \A s \in SUBSET (1..m) : f[s] = g[s] /\ s \in SUBSET (1..m + 1)
        /\ \A s \in SUBSET (1..m + 1) : m + 1 \notin s => s \in SUBSET (1..m)
        /\ \A s \in SUBSET (1..m + 1) : m + 1 \in s =>
             f[s] = step[s] /\ s # {} /\ s \ {Max(s)} \in SUBSET (1..m)
    BY OneMore
  <2>2. ASSUME NEW s \in SUBSET (1..m + 1)
        PROVE  f[s] = IF s = {} THEN <<>> ELSE f[s \ {Max(s)}] \o q[Max(s)]
    <3>1. CASE m + 1 \in s
      BY <2>1, <3>1
    <3>2. CASE m + 1 \notin s
      <4>1. s \in SUBSET (1..m)
        BY <2>1, <3>2
      <4>2. f[s] = IF s = {} THEN <<>> ELSE g[s \ {Max(s)}] \o q[Max(s)]
        BY <1>2, <2>1, <4>1
      <4>3. f[s \ {Max(s)}] = g[s \ {Max(s)}]
        BY <2>1, <4>1
      <4>4. QED BY <4>2, <4>3
    <3>3. QED BY <3>1, <3>2
  <2>3. Is(f, m + 1)
    BY <2>2
  <2>4. QED BY <2>3
<1> HIDE DEF Is
<1> PICK T \in SUBSET Nat : T = {m \in Nat : \E it : Is(it, m)}
  OBVIOUS
<1>3. 0 \in T
  BY <1>1
<1>4. \A m \in T : m + 1 \in T
  BY <1>2
<1>5. n \in T
  BY <1>3, <1>4, EveryNumber
<1>6. \E it : Is(it, n)
  BY <1>5
<1>7. Joined(q) = (CHOOSE h : Is(h, n))[1..n]
  BY DEF Is, Joined, FoldLeft, MapThenFoldSet
<1> PICK it : it = CHOOSE h : Is(h, n)
  OBVIOUS
<1>8. Is(it, n)
  BY <1>6
<1> PICK f : f = [i \in 0..n |-> it[1..i]]
  OBVIOUS
<1>9. f[0] = <<>>
  <2>1. {} \in SUBSET (1..n) /\ 1..0 = {} /\ 0 \in 0..n
    OBVIOUS
  <2>2. QED BY <1>8, <2>1 DEF Is
<1>10. ASSUME NEW i \in 1..n PROVE f[i] = f[i - 1] \o q[i]
  <2>1. 1..i \in SUBSET (1..n) /\ 1..i # {} /\ Max(1..i) = i /\ (1..i) \ {i} = 1..i - 1
    BY FirstPlaces
  <2>2. it[1..i] = it[1..i - 1] \o q[i]
    BY <1>8, <2>1 DEF Is
  <2>3. i \in 0..n /\ i - 1 \in 0..n
    OBVIOUS
  <2>4. f[i] = it[1..i] /\ f[i - 1] = it[1..i - 1]
    BY <2>3
  <2>5. QED BY <2>2, <2>4
<1>11. Joined(q) = f[n]
  BY <1>7
<1>12. QED BY <1>9, <1>10, <1>11

\* WriteTar writes one entry after the other.
LEMMA Writes ==
  ASSUME NEW q, NEW n \in Nat, DOMAIN q = 1..n
  PROVE  \E f : /\ f[0] = <<>> /\ \A i \in 1..n : f[i] = f[i - 1] \o WriteItem(q[i])
               /\ WriteTar(q) = f[n] \o <<END_BYTES>>
<1> DEFINE Is(it, m) ==
      it = [s \in SUBSET (1..m) |-> IF s = {} THEN <<>> ELSE it[s \ {Max(s)}] \o WriteItem(q[Max(s)])]
<1>1. \E it : Is(it, 0)
  <2> PICK it : it = [s \in SUBSET (1..0) |-> <<>>]
    OBVIOUS
  <2>1. \A s \in SUBSET (1..0) : s = {}
    OBVIOUS
  <2>2. Is(it, 0)
    BY <2>1
  <2>3. QED BY <2>2
<1>2. ASSUME NEW m \in Nat, NEW g, Is(g, m) PROVE \E f : Is(f, m + 1)
  <2> PICK step : step = [s \in SUBSET (1..m + 1) |-> g[s \ {Max(s)}] \o WriteItem(q[Max(s)])]
    OBVIOUS
  <2> PICK f : f = [s \in SUBSET (1..m + 1) |-> IF m + 1 \in s THEN step[s] ELSE g[s]]
    OBVIOUS
  <2>1. /\ \A s \in SUBSET (1..m) : f[s] = g[s] /\ s \in SUBSET (1..m + 1)
        /\ \A s \in SUBSET (1..m + 1) : m + 1 \notin s => s \in SUBSET (1..m)
        /\ \A s \in SUBSET (1..m + 1) : m + 1 \in s =>
             f[s] = step[s] /\ s # {} /\ s \ {Max(s)} \in SUBSET (1..m)
    BY OneMore
  <2>2. ASSUME NEW s \in SUBSET (1..m + 1)
        PROVE  f[s] = IF s = {} THEN <<>> ELSE f[s \ {Max(s)}] \o WriteItem(q[Max(s)])
    <3>1. CASE m + 1 \in s
      BY <2>1, <3>1
    <3>2. CASE m + 1 \notin s
      <4>1. s \in SUBSET (1..m)
        BY <2>1, <3>2
      <4>2. f[s] = IF s = {} THEN <<>> ELSE g[s \ {Max(s)}] \o WriteItem(q[Max(s)])
        BY <1>2, <2>1, <4>1
      <4>3. f[s \ {Max(s)}] = g[s \ {Max(s)}]
        BY <2>1, <4>1
      <4>4. QED BY <4>2, <4>3
    <3>3. QED BY <3>1, <3>2
  <2>3. Is(f, m + 1)
    BY <2>2
  <2>4. QED BY <2>3
<1> HIDE DEF Is
<1> PICK T \in SUBSET Nat : T = {m \in Nat : \E it : Is(it, m)}
  OBVIOUS
<1>3. 0 \in T
  BY <1>1
<1>4. \A m \in T : m + 1 \in T
  BY <1>2
<1>5. n \in T
  BY <1>3, <1>4, EveryNumber
<1>6. \E it : Is(it, n)
  BY <1>5
<1>7. WriteTar(q) = (CHOOSE h : Is(h, n))[1..n] \o <<END_BYTES>>
  BY DEF Is, WriteTar, FoldLeft, MapThenFoldSet
<1> PICK it : it = CHOOSE h : Is(h, n)
  OBVIOUS
<1>8. Is(it, n)
  BY <1>6
<1> PICK f : f = [i \in 0..n |-> it[1..i]]
  OBVIOUS
<1>9. f[0] = <<>>
  <2>1. {} \in SUBSET (1..n) /\ 1..0 = {} /\ 0 \in 0..n
    OBVIOUS
  <2>2. QED BY <1>8, <2>1 DEF Is
<1>10. ASSUME NEW i \in 1..n PROVE f[i] = f[i - 1] \o WriteItem(q[i])
  <2>1. 1..i \in SUBSET (1..n) /\ 1..i # {} /\ Max(1..i) = i /\ (1..i) \ {i} = 1..i - 1
    BY FirstPlaces
  <2>2. it[1..i] = it[1..i - 1] \o WriteItem(q[i])
    BY <1>8, <2>1 DEF Is
  <2>3. i \in 0..n /\ i - 1 \in 0..n
    OBVIOUS
  <2>4. f[i] = it[1..i] /\ f[i - 1] = it[1..i - 1]
    BY <2>3
  <2>5. QED BY <2>2, <2>4
<1>11. WriteTar(q) = f[n] \o <<END_BYTES>>
  <2>1. f[n] = it[1..n]
    OBVIOUS
  <2>2. QED BY <1>7, <2>1
<1>12. QED BY <1>9, <1>10, <1>11

\* And SplitParts takes one entry after the other.
LEMMA Splits ==
  ASSUME NEW q, NEW n \in Nat, DOMAIN q = 1..n, NEW bound
  PROVE  \E f : /\ f[0] = Unsplit /\ \A i \in 1..n : f[i] = AddEntry(f[i - 1], q[i], bound)
               /\ SplitParts(q, bound) = AllParts(f[n])
<1> DEFINE Is(it, m) ==
      it = [s \in SUBSET (1..m) |-> IF s = {} THEN Unsplit ELSE AddEntry(it[s \ {Max(s)}], q[Max(s)], bound)]
<1>1. \E it : Is(it, 0)
  <2> PICK it : it = [s \in SUBSET (1..0) |-> Unsplit]
    OBVIOUS
  <2>1. \A s \in SUBSET (1..0) : s = {}
    OBVIOUS
  <2>2. Is(it, 0)
    BY <2>1
  <2>3. QED BY <2>2
<1>2. ASSUME NEW m \in Nat, NEW g, Is(g, m) PROVE \E f : Is(f, m + 1)
  <2> PICK step : step = [s \in SUBSET (1..m + 1) |-> AddEntry(g[s \ {Max(s)}], q[Max(s)], bound)]
    OBVIOUS
  <2> PICK f : f = [s \in SUBSET (1..m + 1) |-> IF m + 1 \in s THEN step[s] ELSE g[s]]
    OBVIOUS
  <2>1. /\ \A s \in SUBSET (1..m) : f[s] = g[s] /\ s \in SUBSET (1..m + 1)
        /\ \A s \in SUBSET (1..m + 1) : m + 1 \notin s => s \in SUBSET (1..m)
        /\ \A s \in SUBSET (1..m + 1) : m + 1 \in s =>
             f[s] = step[s] /\ s # {} /\ s \ {Max(s)} \in SUBSET (1..m)
    BY OneMore
  <2>2. ASSUME NEW s \in SUBSET (1..m + 1)
        PROVE  f[s] = IF s = {} THEN Unsplit ELSE AddEntry(f[s \ {Max(s)}], q[Max(s)], bound)
    <3>1. CASE m + 1 \in s
      BY <2>1, <3>1
    <3>2. CASE m + 1 \notin s
      <4>1. s \in SUBSET (1..m)
        BY <2>1, <3>2
      <4>2. f[s] = IF s = {} THEN Unsplit ELSE AddEntry(g[s \ {Max(s)}], q[Max(s)], bound)
        BY <1>2, <2>1, <4>1
      <4>3. f[s \ {Max(s)}] = g[s \ {Max(s)}]
        BY <2>1, <4>1
      <4>4. QED BY <4>2, <4>3
    <3>3. QED BY <3>1, <3>2
  <2>3. Is(f, m + 1)
    BY <2>2
  <2>4. QED BY <2>3
<1> HIDE DEF Is
<1> PICK T \in SUBSET Nat : T = {m \in Nat : \E it : Is(it, m)}
  OBVIOUS
<1>3. 0 \in T
  BY <1>1
<1>4. \A m \in T : m + 1 \in T
  BY <1>2
<1>5. n \in T
  BY <1>3, <1>4, EveryNumber
<1>6. \E it : Is(it, n)
  BY <1>5
<1>7. SplitParts(q, bound) = AllParts((CHOOSE h : Is(h, n))[1..n])
  BY DEF Is, SplitParts, FoldLeft, MapThenFoldSet
<1> PICK it : it = CHOOSE h : Is(h, n)
  OBVIOUS
<1>8. Is(it, n)
  BY <1>6
<1> PICK f : f = [i \in 0..n |-> it[1..i]]
  OBVIOUS
<1>9. f[0] = Unsplit
  <2>1. {} \in SUBSET (1..n) /\ 1..0 = {} /\ 0 \in 0..n
    OBVIOUS
  <2>2. QED BY <1>8, <2>1 DEF Is
<1>10. ASSUME NEW i \in 1..n PROVE f[i] = AddEntry(f[i - 1], q[i], bound)
  <2>1. 1..i \in SUBSET (1..n) /\ 1..i # {} /\ Max(1..i) = i /\ (1..i) \ {i} = 1..i - 1
    BY FirstPlaces
  <2>2. it[1..i] = AddEntry(it[1..i - 1], q[i], bound)
    BY <1>8, <2>1 DEF Is
  <2>3. i \in 0..n /\ i - 1 \in 0..n
    OBVIOUS
  <2>4. f[i] = it[1..i] /\ f[i - 1] = it[1..i - 1]
    BY <2>3
  <2>5. QED BY <2>2, <2>4
<1>11. SplitParts(q, bound) = AllParts(f[n])
  BY <1>7
<1>12. QED BY <1>9, <1>10, <1>11

-----------------------------------------------------------------------------
(* What is planned is what is written. *)

LEMMA Appended ==
  ASSUME NEW S, NEW s \in Seq(S), NEW x \in S
  PROVE  /\ DOMAIN s = 1..Len(s) /\ Len(s) \in Nat
         /\ DOMAIN Append(s, x) = 1..Len(s) + 1 /\ Append(s, x)[Len(s) + 1] = x
         /\ \A i \in 1..Len(s) : Append(s, x)[i] = s[i]
BY AppendProperties, LenProperties

LEMMA TotalNone == Total(<<>>) = 0
<1>1. DOMAIN <<>> = 1..0 /\ 0 \in Nat
  OBVIOUS
<1>2. QED BY <1>1, Adds

LEMMA TotalAppend ==
  ASSUME NEW s \in Seq(Nat), NEW x \in Nat
  PROVE  Total(s) \in Nat /\ Total(Append(s, x)) = Total(s) + x
<1> PICK n \in Nat : n = Len(s)
  OBVIOUS
<1> PICK m \in Nat : m = n + 1
  OBVIOUS
<1> PICK q : q = Append(s, x)
  OBVIOUS
<1>1. /\ DOMAIN s = 1..n /\ DOMAIN q = 1..m /\ q[m] = x
      /\ \A i \in 1..n : q[i] = s[i] /\ s[i] \in Nat
  BY Appended
<1>2. PICK f : f[0] = 0 /\ (\A i \in 1..n : f[i] = f[i - 1] + s[i]) /\ Total(s) = f[n]
  BY <1>1, Adds
<1>3. PICK g : g[0] = 0 /\ (\A i \in 1..m : g[i] = g[i - 1] + q[i]) /\ Total(q) = g[m]
  <2>1. m \in Nat /\ DOMAIN q = 1..m
    BY <1>1
  <2>2. QED BY ONLY <2>1, Adds
<1> PICK T \in SUBSET Nat : T = {i \in Nat : i <= n => f[i] = g[i] /\ f[i] \in Nat}
  OBVIOUS
<1>4. 0 \in T
  BY <1>2, <1>3
<1>5. ASSUME NEW i \in T PROVE i + 1 \in T
  <2> SUFFICES ASSUME i + 1 <= n PROVE f[i + 1] = g[i + 1] /\ f[i + 1] \in Nat
    OBVIOUS
  <2>1. f[i] = g[i] /\ f[i] \in Nat
    OBVIOUS
  <2> PICK j \in 1..n : j = i + 1
    OBVIOUS
  <2>2. j - 1 = i /\ j \in 1..m
    OBVIOUS
  <2>3. f[j] = f[i] + s[j] /\ g[j] = g[i] + s[j] /\ s[j] \in Nat
    BY <1>1, <1>2, <1>3, <2>2
  <2>4. QED BY <2>1, <2>3
<1>6. n \in T
  <2>1. \A i \in T : i + 1 \in T
    BY <1>5
  <2>2. T = Nat
    BY <1>4, <2>1, EveryNumber
  <2>3. QED BY <2>2
<1>7. f[n] = g[n] /\ f[n] \in Nat
  BY <1>6
<1>8. g[m] = g[n] + x
  <2>1. m \in 1..m /\ m - 1 = n
    OBVIOUS
  <2>2. QED BY <1>1, <1>3, <2>1
<1>9. QED BY <1>2, <1>3, <1>7, <1>8

LEMMA JoinedNone == Joined(<<>>) = <<>>
<1>1. DOMAIN <<>> = 1..0 /\ 0 \in Nat
  OBVIOUS
<1>2. QED BY <1>1, Joins

LEMMA JoinedAppend ==
  ASSUME NEW S, NEW s \in Seq(S), NEW x \in S
  PROVE  Joined(Append(s, x)) = Joined(s) \o x
<1> PICK n \in Nat : n = Len(s)
  OBVIOUS
<1> PICK m \in Nat : m = n + 1
  OBVIOUS
<1> PICK q : q = Append(s, x)
  OBVIOUS
<1>1. /\ DOMAIN s = 1..n /\ DOMAIN q = 1..m /\ q[m] = x
      /\ \A i \in 1..n : q[i] = s[i]
  BY Appended
<1>2. PICK f : f[0] = <<>> /\ (\A i \in 1..n : f[i] = f[i - 1] \o s[i]) /\ Joined(s) = f[n]
  BY <1>1, Joins
<1>3. PICK g : g[0] = <<>> /\ (\A i \in 1..m : g[i] = g[i - 1] \o q[i]) /\ Joined(q) = g[m]
  <2>1. m \in Nat /\ DOMAIN q = 1..m
    BY <1>1
  <2>2. QED BY ONLY <2>1, Joins
<1> PICK T \in SUBSET Nat : T = {i \in Nat : i <= n => f[i] = g[i]}
  OBVIOUS
<1>4. 0 \in T
  BY <1>2, <1>3
<1>5. ASSUME NEW i \in T PROVE i + 1 \in T
  <2> SUFFICES ASSUME i + 1 <= n PROVE f[i + 1] = g[i + 1]
    OBVIOUS
  <2>1. f[i] = g[i]
    OBVIOUS
  <2> PICK j \in 1..n : j = i + 1
    OBVIOUS
  <2>2. j - 1 = i /\ j \in 1..m
    OBVIOUS
  <2>3. f[j] = f[i] \o s[j] /\ g[j] = g[i] \o s[j]
    BY <1>1, <1>2, <1>3, <2>2
  <2>4. QED BY <2>1, <2>3
<1>6. n \in T
  <2>1. \A i \in T : i + 1 \in T
    BY <1>5
  <2>2. T = Nat
    BY <1>4, <2>1, EveryNumber
  <2>3. QED BY <2>2
<1>7. f[n] = g[n]
  BY <1>6
<1>8. g[m] = g[n] \o x
  <2>1. m \in 1..m /\ m - 1 = n
    OBVIOUS
  <2>2. QED BY <1>1, <1>3, <2>1
<1>9. QED BY <1>2, <1>3, <1>7, <1>8

LEMMA ThreeMore ==
  ASSUME NEW d \in Seq(Nat), NEW x \in Nat, NEW y \in Nat, NEW z \in Nat
  PROVE  /\ <<x, y, z>> \in Seq(Nat)
         /\ d \o <<x, y, z>> \in Seq(Nat) /\ Total(d) \in Nat /\ Total(d \o <<x, y, z>>) = Total(d) + x + y + z
<1> PICK dx \in Seq(Nat) : dx = Append(d, x)
  BY AppendProperties
<1> PICK dy \in Seq(Nat) : dy = Append(dx, y)
  BY AppendProperties
<1> PICK dz \in Seq(Nat) : dz = Append(dy, z)
  BY AppendProperties
<1>1. d \o <<x, y, z>> = dz /\ <<x, y, z>> \in Seq(Nat)
  OBVIOUS
<1>2. Total(d) \in Nat /\ Total(dx) = Total(d) + x
  BY TotalAppend
<1>3. Total(dy) = Total(dx) + y
  BY TotalAppend
<1>4. Total(dz) = Total(dy) + z
  BY TotalAppend
<1>5. QED BY <1>1, <1>2, <1>3, <1>4

\* The writer's chunks for an entry have the bytes that were planned.
LEMMA ItemTotal ==
  ASSUME NEW c \in Seq(Nat), NEW e \in Item
  PROVE  /\ WriteItem(e) \in Seq(Nat)
         /\ Total(c \o WriteItem(e)) = Total(c) + EntryBytes(e)
<1> PICK pax \in Nat : pax = PaxRecords(e)
  BY PaxBytes
<1> PICK data \in Nat : data = IF e.link THEN 0 ELSE e.size
  BY DEF Item
<1> PICK padPax \in Nat : padPax = PaddingFor(pax)
  BY Padding
<1> PICK padData \in Nat : padData = PaddingFor(data)
  BY Padding
<1> PICK block \in Nat : block = BLOCK
  BY DEF BLOCK
<1> PICK one : one = <<block, pax, padPax>>
  OBVIOUS
<1> PICK two : two = <<block, data, padData>>
  OBVIOUS
<1>1. WriteItem(e) = (IF pax > 0 THEN one ELSE <<>>) \o two
  BY DEF WriteItem
<1>2. EntryBytes(e) = (IF pax > 0 THEN block + pax + padPax ELSE 0) + block + data + padData
  BY DEF EntryBytes
<1>3. /\ one \in Seq(Nat) /\ c \o one \in Seq(Nat) /\ Total(c) \in Nat
      /\ Total(c \o one) = Total(c) + block + pax + padPax
  <2>1. /\ <<block, pax, padPax>> \in Seq(Nat) /\ c \o <<block, pax, padPax>> \in Seq(Nat)
        /\ Total(c) \in Nat /\ Total(c \o <<block, pax, padPax>>) = Total(c) + block + pax + padPax
    BY ThreeMore
  <2>2. QED BY <2>1
<1>4. ASSUME NEW d \in Seq(Nat)
      PROVE  /\ two \in Seq(Nat) /\ d \o two \in Seq(Nat)
             /\ Total(d \o two) = Total(d) + block + data + padData
  <2>1. /\ <<block, data, padData>> \in Seq(Nat) /\ d \o <<block, data, padData>> \in Seq(Nat)
        /\ Total(d \o <<block, data, padData>>) = Total(d) + block + data + padData
    BY ONLY d \in Seq(Nat), block \in Nat, data \in Nat, padData \in Nat, ThreeMore
  <2>2. QED BY <2>1
<1>5. CASE pax > 0
  <2>1. WriteItem(e) = one \o two
    BY <1>1, <1>5
  <2>2. one \o two \in Seq(Nat)
    BY <1>3, <1>4
  <2>3. c \o (one \o two) = (c \o one) \o two
    <3>1. one \in Seq(Nat) /\ two \in Seq(Nat)
      BY <1>3, <1>4
    <3>2. QED BY ONLY c \in Seq(Nat), <3>1, ConcatAssociative
  <2>4. Total((c \o one) \o two) = Total(c \o one) + block + data + padData
    BY <1>3, <1>4
  <2>5. EntryBytes(e) = block + pax + padPax + block + data + padData
    BY <1>2, <1>5
  <2>6. Total(c \o WriteItem(e)) = Total(c) + block + pax + padPax + block + data + padData
    BY <1>3, <2>1, <2>3, <2>4
  <2>7. QED
    BY ONLY <1>3, <2>1, <2>2, <2>5, <2>6, block \in Nat, data \in Nat, padData \in Nat,
       pax \in Nat, padPax \in Nat
<1>6. CASE pax = 0
  <2>1. WriteItem(e) = two
    <3>1. WriteItem(e) = <<>> \o two
      BY <1>1, <1>6
    <3>2. two \in Seq(Nat)
      BY <1>4
    <3>3. QED BY <3>1, <3>2
  <2>2. EntryBytes(e) = block + data + padData
    BY <1>2, <1>6
  <2>3. Total(c \o two) = Total(c) + block + data + padData /\ two \in Seq(Nat)
    BY <1>4
  <2>4. QED
    BY ONLY <1>3, <2>1, <2>2, <2>3, block \in Nat, data \in Nat, padData \in Nat
<1>7. QED BY <1>5, <1>6

\* The chunks of a part, and of a part with an entry more.
LEMMA ChunksAppend ==
  ASSUME NEW part \in Seq(Item), NEW e \in Item
  PROVE  \E c \in Seq(Nat) : /\ WriteTar(part) = c \o <<END_BYTES>>
                             /\ WriteTar(Append(part, e)) = (c \o WriteItem(e)) \o <<END_BYTES>>
<1> PICK n \in Nat : n = Len(part)
  OBVIOUS
<1> PICK m \in Nat : m = n + 1
  OBVIOUS
<1> PICK q : q = Append(part, e)
  OBVIOUS
<1>1. /\ DOMAIN part = 1..n /\ DOMAIN q = 1..m /\ q[m] = e
      /\ \A i \in 1..n : q[i] = part[i] /\ part[i] \in Item
  BY Appended
<1>2. PICK f : /\ f[0] = <<>> /\ \A i \in 1..n : f[i] = f[i - 1] \o WriteItem(part[i])
               /\ WriteTar(part) = f[n] \o <<END_BYTES>>
  <2>1. n \in Nat /\ DOMAIN part = 1..n
    BY <1>1
  <2>2. QED BY ONLY <2>1, Writes
<1>3. PICK g : /\ g[0] = <<>> /\ \A i \in 1..m : g[i] = g[i - 1] \o WriteItem(q[i])
               /\ WriteTar(q) = g[m] \o <<END_BYTES>>
  <2>1. m \in Nat /\ DOMAIN q = 1..m
    BY <1>1
  <2>2. QED BY ONLY <2>1, Writes
<1> PICK T \in SUBSET Nat : T = {i \in Nat : i <= n => f[i] = g[i] /\ f[i] \in Seq(Nat)}
  OBVIOUS
<1>4. 0 \in T
  BY <1>2, <1>3, EmptySeq
<1>5. ASSUME NEW i \in T PROVE i + 1 \in T
  <2> SUFFICES ASSUME i + 1 <= n PROVE f[i + 1] = g[i + 1] /\ f[i + 1] \in Seq(Nat)
    OBVIOUS
  <2>1. f[i] = g[i] /\ f[i] \in Seq(Nat)
    OBVIOUS
  <2> PICK j \in 1..n : j = i + 1
    OBVIOUS
  <2>2. j - 1 = i /\ j \in 1..m
    OBVIOUS
  <2>3. f[j] = f[i] \o WriteItem(part[j]) /\ g[j] = g[i] \o WriteItem(part[j]) /\ part[j] \in Item
    BY <1>1, <1>2, <1>3, <2>2
  <2>4. WriteItem(part[j]) \in Seq(Nat)
    BY <2>1, <2>3, ItemTotal
  <2>5. f[i] \o WriteItem(part[j]) \in Seq(Nat)
    BY <2>1, <2>4, ConcatProperties
  <2>6. QED BY <2>1, <2>3, <2>5
<1>6. n \in T
  <2>1. \A i \in T : i + 1 \in T
    BY <1>5
  <2>2. T = Nat
    BY <1>4, <2>1, EveryNumber
  <2>3. QED BY <2>2
<1>7. f[n] = g[n] /\ f[n] \in Seq(Nat)
  BY <1>6
<1>8. g[m] = g[n] \o WriteItem(e)
  <2>1. m \in 1..m /\ m - 1 = n
    OBVIOUS
  <2>2. QED BY <1>1, <1>3, <2>1
<1>9. QED BY <1>2, <1>3, <1>7, <1>8

LEMMA WrittenNone == Written(<<>>) = END_BYTES
<1>1. DOMAIN <<>> = 1..0 /\ 0 \in Nat
  OBVIOUS
<1>2. WriteTar(<<>>) = <<>> \o <<END_BYTES>>
  BY ONLY <1>1, Writes
<1>3. WriteTar(<<>>) = Append(<<>>, END_BYTES) /\ END_BYTES \in Nat
  BY <1>2 DEF END_BYTES, BLOCK
<1>4. Total(Append(<<>>, END_BYTES)) = 0 + END_BYTES
  BY <1>3, TotalNone, TotalAppend, EmptySeq
<1>5. Written(<<>>) = Total(WriteTar(<<>>))
  BY DEF Written, Total
<1>6. QED BY <1>3, <1>4, <1>5

\* A part is longer by what is planned for the entry.
LEMMA WrittenAppend ==
  ASSUME NEW part \in Seq(Item), NEW e \in Item
  PROVE  /\ Written(part) \in Nat
         /\ Written(Append(part, e)) = Written(part) + EntryBytes(e)
<1> PICK end \in Nat : end = END_BYTES
  BY DEF END_BYTES, BLOCK
<1> PICK q : q = Append(part, e)
  OBVIOUS
<1>1. PICK c \in Seq(Nat) : WriteTar(part) = c \o <<end>> /\ WriteTar(q) = (c \o WriteItem(e)) \o <<end>>
  BY ChunksAppend
<1>2. WriteItem(e) \in Seq(Nat) /\ Total(c \o WriteItem(e)) = Total(c) + EntryBytes(e)
  BY ItemTotal
<1> PICK d \in Seq(Nat) : d = c \o WriteItem(e)
  BY <1>2, ConcatProperties
<1>3. Total(c) \in Nat /\ Total(Append(c, end)) = Total(c) + end /\ Total(Append(d, end)) = Total(d) + end
  BY TotalAppend
<1>4. Append(c, end) = c \o <<end>> /\ Append(d, end) = d \o <<end>>
  BY AppendIsConcat
<1>5. Written(part) = Total(c) + end /\ Written(q) = Total(d) + end
  <2>1. Written(part) = Total(WriteTar(part)) /\ Written(q) = Total(WriteTar(q))
    BY DEF Written, Total
  <2>2. QED BY <1>1, <1>3, <1>4, <2>1
<1>6. EntryBytes(e) \in Nat
  BY EntryIsLong
<1>7. QED BY <1>2, <1>3, <1>5, <1>6

-----------------------------------------------------------------------------
(* The parts that the entries are split into. *)

\* What is right of the parts made so far and the one being filled, once `done` are in them.
PartsAreRight(parts, bound) ==
  /\ \A k \in 1..Len(parts) : parts[k] # <<>> /\ Written(parts[k]) <= bound
  /\ \A k \in 1..Len(parts) - 1 : Written(Append(parts[k], Head(parts[k + 1]))) > bound

CurrentIsRight(parts, current, bound) ==
  /\ current # <<>> => Written(current) <= bound
  /\ parts # <<>> => /\ current # <<>>
                     /\ Written(Append(parts[Len(parts)], Head(current))) > bound

Sound(parts, current, done, bound) ==
  /\ parts \in Seq(Seq(Item)) /\ current \in Seq(Item)
  /\ Joined(parts) \in Seq(Item) /\ Joined(parts) \o current = done
  /\ PartsAreRight(parts, bound)
  /\ CurrentIsRight(parts, current, bound)

LEMMA WrittenOne ==
  ASSUME NEW e \in Item
  PROVE  <<e>> \in Seq(Item) /\ Written(<<e>>) = END_BYTES + EntryBytes(e)
<1>1. Append(<<>>, e) = <<e>> /\ <<>> \in Seq(Item) /\ <<e>> \in Seq(Item)
  OBVIOUS
<1>2. Written(Append(<<>>, e)) = Written(<<>>) + EntryBytes(e)
  BY <1>1, WrittenAppend
<1>3. QED BY <1>1, <1>2, WrittenNone

\* A part more, its last neighbour being the one that was filled.
LEMMA PartMore ==
  ASSUME NEW bound \in Nat, NEW parts \in Seq(Seq(Item)), NEW current \in Seq(Item), current # <<>>,
         PartsAreRight(parts, bound), CurrentIsRight(parts, current, bound)
  PROVE  /\ Append(parts, current) \in Seq(Seq(Item))
         /\ PartsAreRight(Append(parts, current), bound)
<1> PICK n \in Nat : n = Len(parts)
  OBVIOUS
<1> PICK all : all = Append(parts, current)
  OBVIOUS
<1>1. /\ all \in Seq(Seq(Item)) /\ Len(all) = n + 1 /\ all[n + 1] = current
      /\ \A k \in 1..n : all[k] = parts[k]
  OBVIOUS
<1>2. ASSUME NEW k \in 1..n + 1 PROVE all[k] # <<>> /\ Written(all[k]) <= bound
  <2>1. CASE k \in 1..n
    BY <1>1, <2>1 DEF PartsAreRight
  <2>2. CASE k = n + 1
    BY <1>1, <2>2 DEF CurrentIsRight
  <2>3. QED BY <2>1, <2>2
<1>3. ASSUME NEW k \in 1..n PROVE Written(Append(all[k], Head(all[k + 1]))) > bound
  <2>1. CASE k \in 1..n - 1
    <3>1. k + 1 \in 1..n
      BY <2>1
    <3>2. all[k] = parts[k] /\ all[k + 1] = parts[k + 1]
      BY <1>1, <3>1
    <3>3. Written(Append(parts[k], Head(parts[k + 1]))) > bound
      BY <2>1 DEF PartsAreRight
    <3>4. QED BY <3>2, <3>3
  <2>2. CASE k = n
    <3>1. all[k] = parts[n] /\ all[k + 1] = current /\ parts # <<>>
      BY <1>1, <2>2
    <3>2. Written(Append(parts[n], Head(current))) > bound
      BY <3>1 DEF CurrentIsRight
    <3>3. QED BY <3>1, <3>2
  <2>3. QED BY <2>1, <2>2
<1>4. PartsAreRight(all, bound)
  <2>1. Len(all) = n + 1 /\ Len(all) - 1 = n
    BY <1>1
  <2>2. QED BY <1>2, <1>3, <2>1 DEF PartsAreRight
<1>5. QED BY <1>1, <1>4

\* An entry that does not fit begins a part.
LEMMA NewPart ==
  ASSUME NEW bound \in Nat, NEW parts, NEW current, NEW done, NEW e \in Item,
         Sound(parts, current, done, bound), current # <<>>,
         Written(current) + EntryBytes(e) > bound, END_BYTES + EntryBytes(e) <= bound
  PROVE  Sound(Append(parts, current), <<e>>, Append(done, e), bound)
<1> PICK all : all = Append(parts, current)
  OBVIOUS
<1>1. parts \in Seq(Seq(Item)) /\ current \in Seq(Item) /\ Joined(parts) \in Seq(Item)
  BY DEF Sound
<1>2. all \in Seq(Seq(Item)) /\ PartsAreRight(all, bound)
  BY <1>1, PartMore DEF Sound
<1>3. Joined(all) = done /\ Joined(all) \in Seq(Item)
  <2>1. Joined(all) = Joined(parts) \o current
    BY <1>1, JoinedAppend
  <2>2. Joined(parts) \o current \in Seq(Item)
    BY <1>1, ConcatProperties
  <2>3. QED BY <2>1, <2>2 DEF Sound
<1>4. Joined(all) \o <<e>> = Append(done, e)
  BY <1>3, AppendIsConcat
<1>5. CurrentIsRight(all, <<e>>, bound)
  <2>1. all[Len(all)] = current /\ Head(<<e>>) = e /\ <<e>> # <<>>
    BY <1>1
  <2>2. Written(Append(current, e)) = Written(current) + EntryBytes(e)
    BY <1>1, WrittenAppend
  <2>3. Written(Append(all[Len(all)], Head(<<e>>))) > bound
    BY <2>1, <2>2
  <2>4. QED BY <2>1, <2>3, WrittenOne DEF CurrentIsRight
<1>6. <<e>> \in Seq(Item)
  BY WrittenOne
<1>7. QED BY <1>2, <1>3, <1>4, <1>5, <1>6 DEF Sound

\* Another goes into the part that is being filled.
LEMMA SamePart ==
  ASSUME NEW bound \in Nat, NEW parts, NEW current, NEW done, NEW e \in Item,
         Sound(parts, current, done, bound),
         current = <<>> \/ Written(current) + EntryBytes(e) <= bound, END_BYTES + EntryBytes(e) <= bound
  PROVE  Sound(parts, Append(current, e), Append(done, e), bound)
<1> PICK filled : filled = Append(current, e)
  OBVIOUS
<1>1. parts \in Seq(Seq(Item)) /\ current \in Seq(Item) /\ Joined(parts) \in Seq(Item)
  BY DEF Sound
<1>2. filled \in Seq(Item) /\ filled # <<>>
  BY <1>1
<1>3. Joined(parts) \o filled = Append(done, e)
  <2>1. filled = current \o <<e>> /\ <<e>> \in Seq(Item)
    BY <1>1, AppendIsConcat
  <2>2. Joined(parts) \o filled = (Joined(parts) \o current) \o <<e>>
    BY <1>1, <2>1, ConcatAssociative
  <2>3. Joined(parts) \o current \in Seq(Item) /\ Joined(parts) \o current = done
    BY <1>1, ConcatProperties DEF Sound
  <2>4. done \o <<e>> = Append(done, e)
    BY <2>3, AppendIsConcat
  <2>5. QED BY <2>2, <2>3, <2>4
<1>4. Written(filled) <= bound
  <2>1. CASE current = <<>>
    <3>1. filled = <<e>>
      BY <2>1
    <3>2. QED BY <3>1, WrittenOne
  <2>2. CASE Written(current) + EntryBytes(e) <= bound
    BY <1>1, <2>2, WrittenAppend
  <2>3. QED BY <2>1, <2>2
<1>5. CurrentIsRight(parts, filled, bound)
  <2> SUFFICES ASSUME parts # <<>> PROVE Written(Append(parts[Len(parts)], Head(filled))) > bound
    BY <1>2, <1>4 DEF CurrentIsRight
  <2>1. current # <<>> /\ Written(Append(parts[Len(parts)], Head(current))) > bound
    BY DEF Sound, CurrentIsRight
  <2>2. Head(filled) = Head(current)
    BY <1>1, <2>1
  <2>3. QED BY <2>1, <2>2
<1>6. PartsAreRight(parts, bound)
  BY DEF Sound
<1>7. QED BY <1>1, <1>2, <1>3, <1>5, <1>6 DEF Sound

\* However many entries there are, the parts have them in order, fit, and are full.
LEMMA PartsHold ==
  ASSUME NEW q \in Seq(Item), NEW bound \in Nat, CanSplit(q, bound)
  PROVE  /\ Joined(SplitParts(q, bound)) = q
         /\ PartsAreRight(SplitParts(q, bound), bound)
         /\ Len(SplitParts(q, bound)) \in Nat
         /\ DOMAIN SplitParts(q, bound) = 1..Len(SplitParts(q, bound))
<1> PICK n \in Nat : n = Len(q)
  OBVIOUS
<1>1. DOMAIN q = 1..n
  BY LenProperties
<1>2. PICK f : /\ f[0] = Unsplit /\ \A i \in 1..n : f[i] = AddEntry(f[i - 1], q[i], bound)
               /\ SplitParts(q, bound) = AllParts(f[n])
  BY <1>1, Splits
<1> DEFINE Split == [parts : Seq(Seq(Item)), current : Seq(Item), bytes : Nat]
           Right(i) == /\ f[i] \in Split /\ f[i].bytes = Written(f[i].current)
                       /\ Sound(f[i].parts, f[i].current, SubSeq(q, 1, i), bound)
<1>3. Right(0)
  <2>1. Unsplit \in Split /\ Unsplit.parts = <<>> /\ Unsplit.current = <<>> /\ Unsplit.bytes = END_BYTES
    BY DEF Unsplit, END_BYTES, BLOCK
  <2>2. SubSeq(q, 1, 0) = <<>>
    BY SubSeqEmpty
  <2>3. /\ Joined(<<>>) \in Seq(Item) /\ Joined(<<>>) \o <<>> = <<>>
        /\ <<>> \in Seq(Seq(Item)) /\ <<>> \in Seq(Item)
    <3>1. <<>> \in Seq(Item) /\ <<>> \in Seq(Seq(Item)) /\ <<>> \o <<>> = <<>>
      OBVIOUS
    <3>2. QED BY <3>1, JoinedNone
  <2>4. PartsAreRight(<<>>, bound) /\ CurrentIsRight(<<>>, <<>>, bound)
    <3>1. Len(<<>>) = 0
      OBVIOUS
    <3>2. QED BY <3>1 DEF PartsAreRight, CurrentIsRight
  <2>5. Sound(<<>>, <<>>, <<>>, bound)
    BY <2>3, <2>4 DEF Sound
  <2>6. QED BY <1>2, <2>1, <2>2, <2>5, WrittenNone
<1>4. ASSUME NEW i \in Nat, i + 1 <= n, Right(i) PROVE Right(i + 1)
  <2> HIDE DEF Right
  <2> PICK j \in 1..n : j = i + 1
    BY ONLY n \in Nat, i \in Nat, i + 1 <= n
  <2> USE DEF Right
  <2> PICK e \in Item : e = q[j]
    BY <1>1
  <2>0. PICK parts \in Seq(Seq(Item)), current \in Seq(Item), bytes \in Nat :
          f[i] = [parts |-> parts, current |-> current, bytes |-> bytes]
    <3>1. f[i] \in Split
      BY <1>4
    <3>2. QED BY ONLY <3>1
  <2> PICK size \in Nat : size = EntryBytes(e)
    BY EntryIsLong
  <2>1. f[i].parts = parts /\ f[i].current = current /\ f[i].bytes = bytes
    BY <2>0
  <2>2. f[j] = AddEntry(f[i], e, bound)
    BY <1>2
  <2>3. END_BYTES + size <= bound /\ END_BYTES \in Nat
    <3>1. EntryBytes(q[j]) + END_BYTES <= bound
      BY <1>1 DEF CanSplit
    <3>2. END_BYTES \in Nat
      BY DEF END_BYTES, BLOCK
    <3>3. QED BY <3>1, <3>2
  <2>4. Sound(parts, current, SubSeq(q, 1, i), bound) /\ bytes = Written(current)
    BY <1>4, <2>1
  <2>5. SubSeq(q, 1, j) = Append(SubSeq(q, 1, i), e)
    <3>1. SubSeq(q, 1, j) = SubSeq(q, 1, i) \o <<e>>
      <4>1. 1 \in 1..Len(q) /\ j \in 1..Len(q) /\ j - 1 = i
        OBVIOUS
      <4>2. QED BY <4>1, SubSeqRecursiveSecond
    <3>2. SubSeq(q, 1, i) \in Seq(Item)
      BY <1>1, SubSeqProperties
    <3>3. QED BY <3>1, <3>2, AppendIsConcat
  <2>6. CASE bytes + size > bound /\ current # <<>>
    <3>1. f[j] = [parts |-> Append(parts, current), current |-> <<e>>, bytes |-> END_BYTES + size]
      BY <2>0, <2>1, <2>2, <2>3, <2>6 DEF AddEntry, Fits
    <3>2. Sound(Append(parts, current), <<e>>, Append(SubSeq(q, 1, i), e), bound)
      BY <2>3, <2>4, <2>6, NewPart
    <3>3. Append(parts, current) \in Seq(Seq(Item)) /\ <<e>> \in Seq(Item) /\ Written(<<e>>) = END_BYTES + size
      BY WrittenOne
    <3>4. f[j] \in Split
      BY <2>3, <3>1, <3>3
    <3>5. f[j].parts = Append(parts, current) /\ f[j].current = <<e>> /\ f[j].bytes = END_BYTES + size
      BY <3>1
    <3>6. Right(j)
      BY <2>5, <3>2, <3>3, <3>4, <3>5
    <3>7. QED BY <3>6
  <2>7. CASE current = <<>> \/ bytes + size <= bound
    <3>1. f[j] = [parts |-> parts, current |-> Append(current, e), bytes |-> bytes + size]
      BY <2>0, <2>1, <2>2, <2>7 DEF AddEntry, Fits
    <3>2. Sound(parts, Append(current, e), Append(SubSeq(q, 1, i), e), bound)
      BY <2>3, <2>4, <2>7, SamePart
    <3>3. Append(current, e) \in Seq(Item) /\ Written(Append(current, e)) = bytes + size
      BY <2>4, WrittenAppend
    <3>4. f[j] \in Split
      BY <3>1, <3>3
    <3>5. f[j].parts = parts /\ f[j].current = Append(current, e) /\ f[j].bytes = bytes + size
      BY <3>1
    <3>6. Right(j)
      BY <2>5, <3>2, <3>3, <3>4, <3>5
    <3>7. QED BY <3>6
  <2>8. QED BY <2>6, <2>7
<1> HIDE DEF Right
<1>5. Right(n)
  <2> PICK T \in SUBSET Nat : T = {i \in Nat : i <= n => Right(i)}
    OBVIOUS
  <2>1. 0 \in T
    BY <1>3
  <2>2. \A i \in T : i + 1 \in T
    BY <1>4
  <2>3. T = Nat
    BY <2>1, <2>2, EveryNumber
  <2>4. QED BY <2>3
<1> PICK parts \in Seq(Seq(Item)), current \in Seq(Item) : parts = f[n].parts /\ current = f[n].current
  BY <1>5 DEF Right
<1>6. Sound(parts, current, q, bound)
  <2>1. SubSeq(q, 1, n) = q
    BY SubSeqFull
  <2>2. QED BY <1>5, <2>1 DEF Right
<1>7. CASE current # <<>>
  <2>1. SplitParts(q, bound) = Append(parts, current)
    BY <1>2, <1>7 DEF AllParts
  <2>2. Append(parts, current) \in Seq(Seq(Item)) /\ PartsAreRight(Append(parts, current), bound)
    BY <1>6, <1>7, PartMore DEF Sound
  <2>3. Joined(Append(parts, current)) = q
    BY <1>6, JoinedAppend DEF Sound
  <2>4. Append(parts, current) \in Seq(Seq(Item))
    OBVIOUS
  <2>5. QED BY <2>1, <2>2, <2>3, <2>4
<1>8. CASE current = <<>>
  <2>1. SplitParts(q, bound) = parts
    BY <1>2, <1>8 DEF AllParts
  <2>2. Joined(parts) = q
    <3>1. Joined(parts) \o <<>> = q /\ Joined(parts) \in Seq(Item)
      BY <1>6, <1>8 DEF Sound
    <3>2. Joined(parts) \o <<>> = Joined(parts)
      BY <3>1, ConcatEmptySeq
    <3>3. QED BY <3>1, <3>2
  <2>3. PartsAreRight(parts, bound)
    BY <1>6 DEF Sound
  <2>4. parts \in Seq(Seq(Item))
    OBVIOUS
  <2>5. QED BY <2>1, <2>2, <2>3, <2>4
<1>9. QED BY <1>7, <1>8

-----------------------------------------------------------------------------
(* The release: what a run may count on at each of its steps. *)

ReleaseShape ==
  /\ release = [state |-> release.state, sums |-> release.sums, assets |-> release.assets,
                unseen |-> release.unseen]
  /\ release.state \in {"none", "draft", "published"} /\ release.unseen \in BOOLEAN
  /\ release.sums \in SUBSET Names
  /\ DOMAIN release.assets \in SUBSET (Names \cup {SumsName})
  /\ \A a \in DOMAIN release.assets : release.assets[a] \in 1..Runs

AttemptShape ==
  /\ attempt \in [run : 0..Runs, step : {"over", "check", "write", "draft", "upload", "publish"},
                  limit : PartBytes, todo : SUBSET (Names \cup {SumsName})]
  /\ ~OnStep("over") => attempt.run \in 1..Runs

\* Parts have been written only if every entry fits into one.
Writable == attempt.step \in {"draft", "upload", "publish"} => CanSplit(tagged, attempt.limit)

\* What is not to be done any more has been done by this run.
Done ==
  attempt.step \in {"upload", "publish"} =>
    /\ attempt.todo \in SUBSET AllAssets
    /\ OnStep("publish") => attempt.todo = {}
    /\ \A a \in AllAssets \ attempt.todo :
         a \in DOMAIN release.assets /\ release.assets[a] = attempt.run
    /\ SumsName \notin attempt.todo => release.sums = AllAssets \ {SumsName}

\* A run that knows of no published release works on one that is not.
NotAgain ==
  attempt.step \in {"write", "draft", "upload", "publish"} /\ ~release.unseen =>
    release.state # "published"

ArchiveInv ==
  tagged \in Entries /\ ReleaseShape /\ AttemptShape /\ Writable /\ Done /\ NotAgain
    /\ PublishedIsWhole

LEMMA ArchiveStarts == ArchiveInit => ArchiveInv
<1> SUFFICES ASSUME ArchiveInit PROVE ArchiveInv
  OBVIOUS
<1>1. ReleaseShape
  BY DEF ArchiveInit, ReleaseShape
<1>2. AttemptShape
  BY ArchiveAssumption DEF ArchiveInit, AttemptShape, OnStep
<1>3. QED
  BY <1>1, <1>2 DEF ArchiveInit, ArchiveInv, Writable, Done, NotAgain, PublishedIsWhole

\* The assets' names are names.
LEMMA AssetsAreNamed ==
  ASSUME tagged \in Entries, AttemptShape, CanSplit(tagged, attempt.limit)
  PROVE  AllAssets \in SUBSET (Names \cup {SumsName}) /\ SumsName \in AllAssets
<1>1. Len(SplitParts(tagged, attempt.limit)) \in Nat
  BY ArchiveAssumption, PartsHold DEF AttemptShape, Item
<1>2. QED BY <1>1 DEF AllAssets, Assets, Names

\* A step that ends the run leaves the release as it is.
LEMMA FailKeeps ==
  ASSUME ArchiveInv, Fail, UNCHANGED <<tagged, release>>
  PROVE  ArchiveInv'
<1> USE DEF ArchiveInv
<1>1. AttemptShape' /\ OnStep("over")'
  BY DEF AttemptShape, Fail, OnStep
<1>2. ReleaseShape' /\ (tagged \in Entries)' /\ PublishedIsWhole'
  BY DEF ReleaseShape, PublishedIsWhole
<1>3. Writable' /\ Done' /\ NotAgain'
  BY <1>1 DEF Writable, Done, NotAgain, OnStep
<1>4. QED BY <1>1, <1>2, <1>3

LEMMA ArchiveStep == ArchiveInv /\ [ArchiveNext]_archiveVars => ArchiveInv'
<1> SUFFICES ASSUME ArchiveInv, [ArchiveNext]_archiveVars PROVE ArchiveInv'
  OBVIOUS
<1> USE DEF ArchiveInv
<1>1. ASSUME NEW bound \in PartBytes, Archived(bound) PROVE ArchiveInv'
  <2>1. AttemptShape' /\ attempt'.step = "check"
    BY <1>1, ArchiveAssumption DEF Archived, AttemptShape, OnStep
  <2>2. ReleaseShape' /\ (tagged \in Entries)' /\ PublishedIsWhole'
    BY <1>1 DEF Archived, ReleaseShape, PublishedIsWhole
  <2>3. Writable' /\ Done' /\ NotAgain'
    BY <2>1 DEF Writable, Done, NotAgain
  <2>4. QED BY <2>1, <2>2, <2>3
<1>2. CASE CheckRelease
  <2>1. CASE Fail /\ release' = release
    BY <1>2, <2>1, FailKeeps DEF CheckRelease
  <2>2. CASE Then("write") /\ release' = [release EXCEPT !.unseen = @ \/ release.state = "published"]
    <3>1. AttemptShape' /\ attempt'.step = "write"
      BY <1>2, <2>2 DEF CheckRelease, AttemptShape, OnStep, Then
    <3>2. /\ release'.state = release.state /\ release'.sums = release.sums
          /\ release'.assets = release.assets
          /\ release'.unseen = (release.unseen \/ release.state = "published")
          /\ release' = [state |-> release'.state, sums |-> release'.sums,
                         assets |-> release'.assets, unseen |-> release'.unseen]
      BY <2>2 DEF ReleaseShape
    <3>3. ReleaseShape'
      BY <3>2 DEF ReleaseShape
    <3>4. NotAgain' /\ PublishedIsWhole'
      BY <3>2 DEF NotAgain, PublishedIsWhole, ReleaseShape
    <3>5. Writable' /\ Done' /\ (tagged \in Entries)'
      BY <1>2, <3>1 DEF CheckRelease, Writable, Done
    <3>6. QED BY <3>1, <3>3, <3>4, <3>5
  <2>3. QED BY <1>2, <2>1, <2>2 DEF CheckRelease
<1>3. CASE WriteParts
  <2>1. CASE Fail
    BY <1>3, <2>1, FailKeeps DEF WriteParts
  <2>2. CASE CanSplit(tagged, attempt.limit) /\ Then("draft")
    <3>1. AttemptShape' /\ attempt'.step = "draft" /\ attempt'.limit = attempt.limit
      BY <1>3, <2>2 DEF WriteParts, AttemptShape, OnStep, Then
    <3>2. ReleaseShape' /\ (tagged \in Entries)' /\ PublishedIsWhole'
      BY <1>3 DEF WriteParts, ReleaseShape, PublishedIsWhole
    <3>3. Writable' /\ Done' /\ NotAgain'
      BY <1>3, <2>2, <3>1 DEF WriteParts, Writable, Done, NotAgain, OnStep
    <3>4. QED BY <3>1, <3>2, <3>3
  <2>3. QED BY <1>3, <2>1, <2>2 DEF WriteParts
<1>4. CASE CreateDraft
  <2>1. CASE release' = release /\ Fail
    BY <1>4, <2>1, FailKeeps DEF CreateDraft
  <2>2. CASE /\ release' = [release EXCEPT !.state = IF @ = "none" THEN "draft" ELSE @]
             /\ attempt' = [attempt EXCEPT !.step = "upload", !.todo = AllAssets]
    <3>1. CanSplit(tagged, attempt.limit) /\ tagged' = tagged
      BY <1>4 DEF CreateDraft, Writable, OnStep
    <3>2. AllAssets \in SUBSET (Names \cup {SumsName}) /\ SumsName \in AllAssets
      BY <3>1, AssetsAreNamed
    <3>3. /\ AttemptShape' /\ attempt'.step = "upload" /\ attempt'.limit = attempt.limit
          /\ attempt'.todo = AllAssets
      BY <1>4, <2>2, <3>2 DEF CreateDraft, AttemptShape, OnStep
    <3>4. /\ release'.state = (IF release.state = "none" THEN "draft" ELSE release.state)
          /\ release'.sums = release.sums /\ release'.assets = release.assets
          /\ release'.unseen = release.unseen
          /\ release' = [state |-> release'.state, sums |-> release'.sums,
                         assets |-> release'.assets, unseen |-> release'.unseen]
      BY <2>2 DEF ReleaseShape
    <3>5. ReleaseShape'
      BY <3>4 DEF ReleaseShape
    <3>6. AllAssets' = AllAssets
      BY <3>1, <3>3 DEF AllAssets
    <3>7. Done'
      BY <3>2, <3>3, <3>6 DEF Done, OnStep
    <3>8. NotAgain' /\ PublishedIsWhole'
      BY <1>4, <3>4 DEF CreateDraft, NotAgain, PublishedIsWhole, OnStep
    <3>9. Writable' /\ (tagged \in Entries)'
      BY <3>1, <3>3 DEF Writable
    <3>10. QED BY <3>3, <3>5, <3>7, <3>8, <3>9
  <2>3. QED BY <1>4, <2>1, <2>2 DEF CreateDraft
<1>5. ASSUME NEW a \in attempt.todo, UploadAsset(a) PROVE ArchiveInv'
  <2>1. /\ CanSplit(tagged, attempt.limit) /\ tagged' = tagged /\ OnStep("upload")
        /\ attempt.todo \in SUBSET AllAssets
    BY <1>5 DEF UploadAsset, Writable, Done, OnStep
  <2>2. AllAssets \in SUBSET (Names \cup {SumsName}) /\ SumsName \in AllAssets
    BY <2>1, AssetsAreNamed
  <2>3. CASE /\ release' = [release EXCEPT
                  !.assets = [b \in DOMAIN @ \cup {a} |-> IF b = a THEN attempt.run ELSE @[b]],
                  !.sums = IF a = SumsName THEN AllAssets \ {SumsName} ELSE @]
             /\ attempt' = [attempt EXCEPT !.todo = @ \ {a}]
    <3>1. /\ AttemptShape' /\ attempt'.step = "upload" /\ attempt'.limit = attempt.limit
          /\ attempt'.run = attempt.run /\ attempt'.todo = attempt.todo \ {a}
          /\ attempt.run \in 1..Runs
      BY <2>1, <2>3 DEF AttemptShape, OnStep
    <3>2. /\ release'.state = release.state /\ release'.unseen = release.unseen
          /\ release'.sums = (IF a = SumsName THEN AllAssets \ {SumsName} ELSE release.sums)
          /\ release'.assets = [b \in DOMAIN release.assets \cup {a} |->
                                  IF b = a THEN attempt.run ELSE release.assets[b]]
          /\ release' = [state |-> release'.state, sums |-> release'.sums,
                         assets |-> release'.assets, unseen |-> release'.unseen]
      BY <2>3 DEF ReleaseShape
    <3>3. /\ DOMAIN release'.assets = DOMAIN release.assets \cup {a}
          /\ release'.assets[a] = attempt.run
          /\ \A b \in DOMAIN release.assets : b # a => release'.assets[b] = release.assets[b]
      BY <3>2
    <3>4. ReleaseShape'
      <4>1. release'.sums \in SUBSET Names
        BY <2>2, <3>2 DEF ReleaseShape
      <4>2. DOMAIN release'.assets \in SUBSET (Names \cup {SumsName})
        BY <2>1, <2>2, <3>3 DEF ReleaseShape
      <4>3. \A b \in DOMAIN release'.assets : release'.assets[b] \in 1..Runs
        BY <3>1, <3>3 DEF ReleaseShape
      <4>4. QED BY <3>2, <4>1, <4>2, <4>3 DEF ReleaseShape
    <3>5. AllAssets' = AllAssets
      BY <2>1, <3>1 DEF AllAssets
    <3>6. Done'
      <4>1. ASSUME NEW b \in AllAssets \ (attempt.todo \ {a})
            PROVE  b \in DOMAIN release'.assets /\ release'.assets[b] = attempt.run
        <5>1. CASE b = a
          BY <3>3, <5>1
        <5>2. CASE b # a
          BY <2>1, <3>3, <5>2 DEF Done, OnStep
        <5>3. QED BY <5>1, <5>2
      <4>2. SumsName \notin attempt.todo \ {a} => release'.sums = AllAssets \ {SumsName}
        BY <2>1, <3>2 DEF Done, OnStep
      <4>3. QED BY <2>1, <3>1, <3>5, <4>1, <4>2 DEF Done, OnStep
    <3>7. NotAgain' /\ PublishedIsWhole'
      BY <2>1, <3>1, <3>2 DEF NotAgain, PublishedIsWhole, OnStep
    <3>8. Writable' /\ (tagged \in Entries)'
      BY <2>1, <3>1 DEF Writable
    <3>9. QED BY <3>1, <3>4, <3>6, <3>7, <3>8
  <2>4. CASE /\ release' = [release EXCEPT !.assets = [b \in DOMAIN @ \ {a} |-> @[b]],
                                           !.sums = IF a = SumsName THEN {} ELSE @]
             /\ Fail
    <3>1. AttemptShape' /\ attempt'.step = "over"
      BY <2>1, <2>4 DEF AttemptShape, OnStep, Fail
    <3>2. /\ release'.state = release.state /\ release'.unseen = release.unseen
          /\ release'.sums = (IF a = SumsName THEN {} ELSE release.sums)
          /\ release'.assets = [b \in DOMAIN release.assets \ {a} |-> release.assets[b]]
          /\ release' = [state |-> release'.state, sums |-> release'.sums,
                         assets |-> release'.assets, unseen |-> release'.unseen]
      BY <2>4 DEF ReleaseShape
    <3>3. ReleaseShape'
      <4>1. release'.sums \in SUBSET Names
        BY <3>2 DEF ReleaseShape
      <4>2. DOMAIN release'.assets \in SUBSET (Names \cup {SumsName})
        BY <3>2 DEF ReleaseShape
      <4>3. \A b \in DOMAIN release'.assets : release'.assets[b] \in 1..Runs
        BY <3>2 DEF ReleaseShape
      <4>4. QED BY <3>2, <4>1, <4>2, <4>3 DEF ReleaseShape
    <3>4. PublishedIsWhole'
      BY <2>1, <3>2 DEF NotAgain, PublishedIsWhole, OnStep
    <3>5. Writable' /\ Done' /\ NotAgain' /\ (tagged \in Entries)'
      BY <2>1, <3>1 DEF Writable, Done, NotAgain
    <3>6. QED BY <3>1, <3>3, <3>4, <3>5
  <2>5. QED BY <1>5, <2>3, <2>4 DEF UploadAsset
<1>6. CASE EndUpload
  <2>1. /\ AttemptShape' /\ attempt'.step = "publish" /\ attempt'.limit = attempt.limit
        /\ attempt'.run = attempt.run /\ attempt'.todo = attempt.todo /\ attempt.todo = {}
    BY <1>6 DEF EndUpload, AttemptShape, OnStep, Then, Uploaded
  <2>2. ReleaseShape' /\ (tagged \in Entries)' /\ PublishedIsWhole'
    BY <1>6 DEF EndUpload, ReleaseShape, PublishedIsWhole
  <2>3. AllAssets' = AllAssets
    BY <1>6, <2>1 DEF EndUpload, AllAssets
  <2>4. Writable' /\ NotAgain'
    BY <1>6, <2>1 DEF EndUpload, Writable, NotAgain, OnStep
  <2>5. Done'
    BY <1>6, <2>1, <2>3 DEF EndUpload, Done, OnStep
  <2>6. QED BY <2>1, <2>2, <2>4, <2>5
<1>7. CASE Publish
  <2>1. CASE release' = release
    BY <1>7, <2>1, FailKeeps DEF Publish
  <2>2. CASE release' = [release EXCEPT !.state = "published"]
    <3>1. AttemptShape' /\ attempt'.step = "over" /\ tagged' = tagged
      BY <1>7 DEF Publish, AttemptShape, OnStep, Fail
    <3>2. /\ release'.state = "published" /\ release'.unseen = release.unseen
          /\ release'.sums = release.sums /\ release'.assets = release.assets
          /\ release' = [state |-> release'.state, sums |-> release'.sums,
                         assets |-> release'.assets, unseen |-> release'.unseen]
      BY <2>2 DEF ReleaseShape
    <3>3. ReleaseShape'
      BY <3>2 DEF ReleaseShape
    <3>4. PublishedIsWhole'
      <4>1. OnStep("publish") /\ attempt.todo = {} /\ CanSplit(tagged, attempt.limit)
        BY <1>7 DEF Publish, Done, OnStep, Writable
      <4>2. SumsName \in AllAssets
        BY <4>1, AssetsAreNamed
      <4>3. /\ release.sums = AllAssets \ {SumsName}
            /\ \A a \in AllAssets : a \in DOMAIN release.assets /\ release.assets[a] = attempt.run
        BY <4>1 DEF Done, OnStep
      <4>4. QED BY <3>2, <4>2, <4>3 DEF PublishedIsWhole
    <3>5. Writable' /\ Done' /\ NotAgain' /\ (tagged \in Entries)'
      BY <3>1 DEF Writable, Done, NotAgain
    <3>6. QED BY <3>1, <3>3, <3>4, <3>5
  <2>3. QED BY <1>7, <2>1, <2>2 DEF Publish
<1>8. CASE StopArchive
  BY <1>8, FailKeeps DEF StopArchive
<1>9. CASE UNCHANGED archiveVars
  <2>1. tagged' = tagged /\ release' = release /\ attempt' = attempt
    BY <1>9 DEF archiveVars
  <2>2. QED
    BY <2>1 DEF ReleaseShape, AttemptShape, Writable, Done, NotAgain, PublishedIsWhole, OnStep,
       AllAssets
<1>10. QED
  BY <1>1, <1>2, <1>3, <1>4, <1>5, <1>6, <1>7, <1>8, <1>9 DEF ArchiveNext

\* Whatever earlier tries left, what is published is whole; the parts hold the tag's entries,
\* fit, and are no more than they have to be; and a record counts itself.
LEMMA ArchiveFollows == ArchiveInv => ArchiveHolds /\ ArchiveTypes
<1> SUFFICES ASSUME ArchiveInv PROVE ArchiveHolds /\ ArchiveTypes
  OBVIOUS
<1> USE DEF ArchiveInv
<1>1. PartsFit
  <2> SUFFICES ASSUME OnStep("upload")
               PROVE  LET parts == SplitParts(tagged, attempt.limit)
                      IN /\ Joined(parts) = tagged
                         /\ PartsAreRight(parts, attempt.limit)
                         /\ Len(parts) \in Nat /\ DOMAIN parts = 1..Len(parts)
    BY DEF PartsFit, Joined, PartsAreRight
  <2>1. CanSplit(tagged, attempt.limit) /\ tagged \in Seq(Item) /\ attempt.limit \in Nat
    BY ArchiveAssumption DEF Writable, AttemptShape, OnStep, Item
  <2>2. QED BY <2>1, PartsHold
<1>2. RecordsCountThemselves
  BY RecordCounts DEF RecordsCountThemselves
<1>3. ArchiveTypes
  BY DEF ReleaseShape, AttemptShape, ArchiveTypes
<1>4. QED BY <1>1, <1>2, <1>3 DEF ArchiveHolds

\* Whatever earlier runs of archive left on the draft, a published release has the parts
\* that its SHA256SUMS lists, of the run that made it; the parts have the tag's entries in
\* their order, each fits the size asked for and no two neighbours would fit into one; and
\* a PAX record counts itself (src/app/archive.ts, src/domain/tar.ts).  For entries of any
\* size, tags of any length and any number of runs.
THEOREM ArchiveIsWhole == ArchiveSpec => []ArchiveHolds
<1>1. ArchiveSpec => []ArchiveInv
  BY ArchiveStarts, ArchiveStep, PTL DEF ArchiveSpec
<1>2. ArchiveInv => ArchiveHolds
  BY ArchiveFollows
<1>3. QED BY <1>1, <1>2, PTL

-----------------------------------------------------------------------------
(* The types of all of them: each is part of its command's invariant.       *)

\* Every variable of the commands' parts of the world keeps its type; the tokens file has
\* no token twice, and a request has a time to answer (StoredTokens).
TypesOK == TokenTypes /\ CredentialTypes /\ SetupTypes /\ MigrateTypes /\ ArchiveTypes

\* The commands' parts of the world keep their types, and no token is twice in the file
\* that the commands and the Worker edit.
THEOREM CommandsTyped ==
  TokensSpec /\ CredentialSpec /\ SetupSpec /\ MigrateSpec /\ ArchiveSpec => []TypesOK
<1>1. TokensSpec => []TokensInv
  BY TokensBegin, TokensStep, PTL DEF TokensSpec
<1>2. CredentialSpec => []CredentialInv
  BY CredentialBegins, CredentialStep, PTL DEF CredentialSpec
<1>3. SetupSpec => []SetupInv
  BY SetupBegins, SetupStep, PTL DEF SetupSpec
<1>4. MigrateSpec => []MigrateInv
  BY MigrateBegins, MigrateStep, PTL DEF MigrateSpec
<1>5. ArchiveSpec => []ArchiveInv
  BY ArchiveStarts, ArchiveStep, PTL DEF ArchiveSpec
<1>6. TokensInv /\ CredentialInv /\ SetupInv /\ MigrateInv /\ ArchiveInv => TypesOK
  <2>1. TokensInv => TokenTypes
    BY DEF TokensInv
  <2>2. CredentialInv => CredentialTypes
    BY DEF CredentialInv
  <2>3. SetupInv => SetupTypes
    BY DEF SetupInv
  <2>4. MigrateInv => MigrateTypes
    BY DEF MigrateInv
  <2>5. ArchiveInv => ArchiveTypes
    BY ArchiveFollows
  <2>6. QED BY <2>1, <2>2, <2>3, <2>4, <2>5 DEF TypesOK
<1>7. QED BY <1>1, <1>2, <1>3, <1>4, <1>5, <1>6, PTL
=============================================================================
