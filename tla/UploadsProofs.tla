--------------------------- MODULE UploadsProofs ---------------------------
(***************************************************************************)
(* For any number of repositories, objects, contents and requests in       *)
(* flight: the state is well typed; a repository reads only what it has    *)
(* uploaded itself unless the server takes claims; stored content hashes   *)
(* to its oid, in proxy mode always and in presigned mode as long as       *)
(* nobody rewrites a staged upload while it is verified; what an answer    *)
(* says was stored can be read; and a complete that is repeated carries on *)
(* where earlier ones have stopped.                                        *)
(***************************************************************************)
EXTENDS Uploads, TLAPS

LEMMA InitType == Init => TypeOK
  BY DEF Init, TypeOK, Idle, Upload, Prefix

\* What a call keeps when it moves on to another step.
Moved(c, step, answer, body) ==
  /\ call' \in [Call -> {Idle} \cup Request]
  /\ \A d \in Call \ {c} : call'[d] = call[d]
  /\ call'[c] # Idle /\ call'[c] \in Request
  /\ call'[c].op = call[c].op
  /\ call'[c].repo = call[c].repo
  /\ call'[c].oid = call[c].oid
  /\ call'[c].id = call[c].id
  /\ call'[c].size = call[c].size
  /\ call'[c].step = step
  /\ call'[c].answer = answer
  /\ call'[c].body = body

LEMMA RequestsDiffer == ASSUME NEW r \in Request PROVE r # Idle
  BY DEF Request, Idle

LEMMA RequestStep ==
  ASSUME NEW r \in Request, NEW s \in Steps \cup {"done"}
  PROVE  [r EXCEPT !.step = s] \in Request
  BY DEF Request

LEMMA RequestAnswer ==
  ASSUME NEW r \in Request, NEW s \in Steps \cup {"done"}, NEW a \in Answers
  PROVE  [r EXCEPT !.step = s, !.answer = a] \in Request
  BY DEF Request

LEMMA RequestBody ==
  ASSUME NEW r \in Request, NEW b \in Content \cup {None}
  PROVE  [r EXCEPT !.step = "promote", !.body = b] \in Request
  BY DEF Request, Steps

LEMMA RequestAside ==
  ASSUME NEW r \in Request, NEW f \in BOOLEAN
  PROVE  [r EXCEPT !.step = "put", !.aside = f] \in Request
  BY DEF Request, Steps

LEMMA GoMoves ==
  ASSUME TypeOK, NEW c \in Call, call[c] # Idle,
         NEW s \in Steps \cup {"done"}, Go(c, s)
  PROVE  Moved(c, s, call[c].answer, call[c].body)
<1>1. call[c] \in Request
  BY DEF TypeOK
<1>2. call'[c] = [call[c] EXCEPT !.step = s] /\ \A d \in Call \ {c} : call'[d] = call[d]
  BY DEF Go, TypeOK
<1>3. call'[c] \in Request
  BY <1>1, <1>2, RequestStep
<1>4. call' \in [Call -> {Idle} \cup Request]
  BY <1>3, <1>2 DEF TypeOK, Go
<1> QED
  BY <1>1, <1>2, <1>3, <1>4, RequestsDiffer DEF Moved, Request

LEMMA GoPendingMoves ==
  ASSUME TypeOK, NEW c \in Call, call[c] # Idle,
         NEW s \in Steps \cup {"done"}, NEW a \in Answers, GoPending(c, s, a)
  PROVE  Moved(c, s, a, call[c].body)
<1>1. call[c] \in Request
  BY DEF TypeOK
<1>2. /\ call'[c] = [call[c] EXCEPT !.step = s, !.answer = a]
      /\ \A d \in Call \ {c} : call'[d] = call[d]
  BY DEF GoPending, TypeOK
<1>3. call'[c] \in Request
  <2>1. [call[c] EXCEPT !.step = s, !.answer = a] \in Request
    BY <1>1, RequestAnswer
  <2> QED
    BY <2>1, <1>2
<1>4. call' \in [Call -> {Idle} \cup Request]
  BY <1>3, <1>2 DEF TypeOK, GoPending
<1> QED
  BY <1>1, <1>2, <1>3, <1>4, RequestsDiffer DEF Moved, Request

LEMMA AnswerMoves ==
  ASSUME TypeOK, NEW c \in Call, call[c] # Idle, NEW a \in Answers, Answer(c, a)
  PROVE  Moved(c, "done", a, call[c].body)
  BY GoPendingMoves DEF Answer

LEMMA LookMoves ==
  ASSUME TypeOK, NEW c \in Call, call[c] # Idle, UploadLook(c)
  PROVE  Moved(c, "put", call[c].answer, call[c].body)
<1>1. call[c] \in Request
  BY DEF TypeOK
<1> DEFINE aside == (Live(c) # None)
<1>2. /\ call'[c] = [call[c] EXCEPT !.step = "put", !.aside = aside]
      /\ \A d \in Call \ {c} : call'[d] = call[d]
  BY DEF UploadLook, TypeOK
<1>3. aside \in BOOLEAN /\ "put" \in Steps
  BY DEF Steps
<1> HIDE DEF aside
<1>4. call'[c] \in Request
  BY <1>1, <1>2, <1>3, RequestAside
<1>5. call' \in [Call -> {Idle} \cup Request]
  BY <1>4, <1>2 DEF TypeOK, UploadLook
<1> QED
  BY <1>1, <1>2, <1>4, <1>5, RequestsDiffer DEF Moved, Request

LEMMA ReadMoves ==
  ASSUME TypeOK, NEW c \in Call, call[c] # Idle, NEW b \in Content \cup {None},
         call' = [call EXCEPT ![c].step = "promote", ![c].body = b]
  PROVE  Moved(c, "promote", call[c].answer, b)
<1>1. call[c] \in Request
  BY DEF TypeOK
<1>2. /\ call'[c] = [call[c] EXCEPT !.step = "promote", !.body = b]
      /\ \A d \in Call \ {c} : call'[d] = call[d]
  BY DEF TypeOK
<1>3. call'[c] \in Request
  BY <1>1, <1>2, RequestBody DEF Steps
<1>4. call' \in [Call -> {Idle} \cup Request]
  BY <1>3, <1>2 DEF TypeOK
<1> QED
  BY <1>1, <1>2, <1>3, <1>4, RequestsDiffer DEF Moved, Request

-----------------------------------------------------------------------------
(* The inductive invariants. *)

\* Which request a step belongs to, and what is known about its answer.
StepsFit(c) ==
  /\ At(c, "delete") => call[c].answer \in {"ok", "mismatch"}
  /\ At(c, "copy") => call[c].op = "verify"
  /\ At(c, "complete") => call[c].id \in UploadId
  /\ At(c, "hash") \/ At(c, "peek") => call[c].op # "upload"
  /\ call[c].step \in {"complete", "salvage", "salvage-live", "salvage-member",
                       "check", "read", "promote"} => call[c].op = "complete"

TypeInv == TypeOK /\ \A c \in Call : StepsFit(c)

\* A call that is going to mark its repository as a reader, or to say that
\* the content is right, has seen content that the repository sent.
Proven(c) ==
  \/ At(c, "mark")
  \/ At(c, "delete") /\ call[c].answer = "ok"
  \/ At(c, "peek") /\ call[c].op = "verify"
  \/ At(c, "copy")
  \/ At(c, "promote") /\ call[c].body = call[c].oid
  => Mine(c) \in supplied

ReadersSent == member \subseteq supplied

SuppliedInv ==
  /\ ReadersSent
  /\ \A k \in Repo \X Oid : staging[k] = k[2] => k \in supplied
  /\ \A i \in UploadId : uploads[i].state # "new" /\ uploads[i].body = uploads[i].oid
       => <<uploads[i].repo, uploads[i].oid>> \in supplied
  /\ \A c \in Call : Proven(c)

\* What a verification is about to copy is still what it has hashed, or gone.
Checked(c) ==
  /\ call[c].step \in {"hash", "peek", "copy"} /\ call[c].op = "verify" => Staged
  /\ call[c].step \in {"peek", "copy"} /\ call[c].op = "verify"
       => Staging(c) \in {None, call[c].oid}

HashInv ==
  /\ ContentHashes
  /\ ~Presigned => links = {}
  /\ \A c \in Call : Checked(c)

LEMMA CallStays ==
  ASSUME TypeInv, setting' = setting, trashed' \subseteq Prefix \X Oid,
         NEW c \in Call, NEW s, NEW a, NEW b, Moved(c, s, a, b),
         s = "done" => a \in Answers,
         UNCHANGED <<live, staging, member, uploads, links, supplied>>,
         StepsFit(c)'
  PROVE  /\ TypeInv'
         /\ SuppliedInv /\ Proven(c)' => SuppliedInv'
         /\ HashInv /\ Checked(c)' => HashInv'
<1>1. TypeInv'
  BY DEF TypeInv, TypeOK, Moved, StepsFit, At
<1>2. SuppliedInv /\ Proven(c)' => SuppliedInv'
  BY DEF SuppliedInv, Moved, Proven, At, Mine, ReadersSent
<1>3. HashInv /\ Checked(c)' => HashInv'
  BY DEF Presigned, Staged, HashInv, Moved, Checked, At, Mine, Staging, ContentHashes
<1> QED
  BY <1>1, <1>2, <1>3

\* What a step has to keep.
Kept ==
  /\ TypeInv'
  /\ SuppliedInv /\ ~TakesClaims => SuppliedInv'
  /\ HashInv /\ HashesChecked => HashInv'

Untouched == UNCHANGED <<live, staging, member, uploads, links, supplied>>

\* Three ways to move on that nothing has to be shown about.
LEMMA GoKeeps ==
  ASSUME TypeInv, setting' = setting, trashed' \subseteq Prefix \X Oid,
         NEW c \in Call, call[c] # Idle, Untouched,
         NEW s \in {"lookup", "member", "salvage", "salvage-live", "salvage-member",
                   "check", "read"}, Go(c, s),
         call[c].op = "complete" \/ s \in {"lookup", "member"}
  PROVE  Kept
<1>1. Moved(c, s, call[c].answer, call[c].body)
  BY GoMoves DEF TypeInv, Steps
<1>2. StepsFit(c)' /\ Proven(c)' /\ Checked(c)'
  BY <1>1 DEF Moved, StepsFit, Proven, Checked, At
<1> QED
  BY <1>1, <1>2, CallStays DEF Kept, Untouched

LEMMA MismatchKeeps ==
  ASSUME TypeInv, setting' = setting, trashed' \subseteq Prefix \X Oid,
         NEW c \in Call, call[c] # Idle, Untouched,
         GoPending(c, "delete", "mismatch")
  PROVE  Kept
<1>1. Moved(c, "delete", "mismatch", call[c].body)
  BY GoPendingMoves DEF TypeInv, Steps, Answers
<1>2. StepsFit(c)' /\ Proven(c)' /\ Checked(c)'
  BY <1>1 DEF Moved, StepsFit, Proven, Checked, At
<1> QED
  BY <1>1, <1>2, CallStays DEF Kept, Untouched

LEMMA AnswerKeeps ==
  ASSUME TypeInv, setting' = setting, trashed' \subseteq Prefix \X Oid,
         NEW c \in Call, call[c] # Idle, Untouched,
         NEW a \in Answers, Answer(c, a)
  PROVE  Kept
<1>1. Moved(c, "done", a, call[c].body)
  BY AnswerMoves DEF TypeInv
<1>2. StepsFit(c)' /\ Proven(c)' /\ Checked(c)'
  BY <1>1 DEF Moved, StepsFit, Proven, Checked, At
<1> QED
  BY <1>1, <1>2, CallStays DEF Kept, Untouched

LEMMA UploadLookKeeps ==
  ASSUME TypeInv, setting' = setting, trashed' \subseteq Prefix \X Oid,
         NEW c \in Call, UploadLook(c)
  PROVE  Kept
<1>1. call[c] # Idle
  BY DEF UploadLook, At, Idle
<1>2. Moved(c, "put", call[c].answer, call[c].body)
  BY <1>1, LookMoves DEF TypeInv
<1>3. StepsFit(c)' /\ Proven(c)' /\ Checked(c)'
  BY <1>2 DEF Moved, StepsFit, Proven, Checked, At
<1> QED
  BY <1>2, <1>3, CallStays DEF UploadLook, bucket, Kept

LEMMA VerifyLookKeeps ==
  ASSUME TypeInv, setting' = setting, trashed' \subseteq Prefix \X Oid,
         NEW c \in Call, VerifyLook(c)
  PROVE  Kept
<1>1. call[c] # Idle /\ Untouched /\ call[c].op = "verify"
  BY DEF VerifyLook, At, Idle, bucket, Untouched
<1>2. CASE Go(c, "lookup")
  BY <1>1, <1>2, GoKeeps
<1>3. CASE Staged /\ Go(c, "hash")
  <2>1. Moved(c, "hash", call[c].answer, call[c].body)
    BY <1>1, <1>3, GoMoves DEF TypeInv, Steps
  <2>2. StepsFit(c)' /\ Proven(c)' /\ Checked(c)'
    BY <1>1, <1>3, <2>1 DEF Moved, StepsFit, Proven, Checked, At, Staged
  <2> QED
    BY <1>1, <2>1, <2>2, CallStays DEF Kept, Untouched
<1>4. CASE GoPending(c, "delete", "mismatch")
  BY <1>1, <1>4, MismatchKeeps
<1> QED
  BY <1>2, <1>3, <1>4 DEF VerifyLook

\* Content that hashes to the oid was sent by the repository whose key it is in.
LEMMA HashStagingKeeps ==
  ASSUME TypeInv, setting' = setting, trashed' \subseteq Prefix \X Oid,
         NEW c \in Call, HashStaging(c)
  PROVE  Kept
<1>1. /\ call[c] # Idle /\ Untouched /\ call[c].op # "upload"
      /\ Mine(c) \in Repo \X Oid /\ Mine(c)[2] = call[c].oid
  BY DEF HashStaging, At, Idle, TypeInv, TypeOK, StepsFit, Request, Mine, bucket, Untouched
<1>2. CASE GoPending(c, "delete", "mismatch")
  BY <1>1, <1>2, MismatchKeeps
<1>3. CASE Hashes(c) /\ Go(c, "peek")
  <2>1. Moved(c, "peek", call[c].answer, call[c].body)
    BY <1>1, <1>3, GoMoves DEF TypeInv, Steps
  <2>2. StepsFit(c)' /\ (SuppliedInv => Proven(c)')
    BY <1>1, <1>3, <2>1
    DEF Moved, StepsFit, Proven, SuppliedInv, At, Hashes, Staging, Mine, Untouched
  <2>3. HashInv => Checked(c)'
    BY <1>1, <1>3, <2>1
    DEF Moved, Checked, HashInv, HashStaging, At, Hashes, Staging, Mine, Staged, Untouched
  <2> QED
    BY <1>1, <2>1, <2>2, <2>3, CallStays DEF Kept, Untouched
<1>4. CASE Hashes(c) /\ GoPending(c, "delete", "ok")
  <2>1. Moved(c, "delete", "ok", call[c].body)
    BY <1>1, <1>4, GoPendingMoves DEF TypeInv, Steps, Answers
  <2>2. StepsFit(c)' /\ (SuppliedInv => Proven(c)') /\ Checked(c)'
    BY <1>1, <1>4, <2>1
    DEF Moved, StepsFit, Proven, SuppliedInv, Checked, At, Hashes, Staging, Mine, Untouched
  <2> QED
    BY <1>1, <2>1, <2>2, CallStays DEF Kept, Untouched
<1> QED
  BY <1>2, <1>3, <1>4 DEF HashStaging

LEMMA PeekLiveKeeps ==
  ASSUME TypeInv, setting' = setting, trashed' \subseteq Prefix \X Oid,
         NEW c \in Call, PeekLive(c)
  PROVE  Kept
<1>1. call[c] # Idle /\ Untouched /\ At(c, "peek")
  BY DEF PeekLive, At, Idle, bucket, Untouched
<1>2. CASE call[c].op = "verify" /\ Go(c, "copy")
  <2>1. Moved(c, "copy", call[c].answer, call[c].body)
    BY <1>1, <1>2, GoMoves DEF TypeInv, Steps
  <2>2. StepsFit(c)' /\ (SuppliedInv => Proven(c)') /\ (HashInv => Checked(c)')
    BY <1>1, <1>2, <2>1
    DEF Moved, StepsFit, Proven, SuppliedInv, Checked, HashInv, At, Staging, Mine, Staged, Untouched
  <2> QED
    BY <1>1, <2>1, <2>2, CallStays DEF Kept, Untouched
<1>3. CASE call[c].op = "verify" /\ GoPending(c, "delete", "ok")
  <2>1. Moved(c, "delete", "ok", call[c].body)
    BY <1>1, <1>3, GoPendingMoves DEF TypeInv, Steps, Answers
  <2>2. StepsFit(c)' /\ (SuppliedInv => Proven(c)') /\ Checked(c)'
    BY <1>1, <1>3, <2>1
    DEF Moved, StepsFit, Proven, SuppliedInv, Checked, At, Mine, Untouched
  <2> QED
    BY <1>1, <2>1, <2>2, CallStays DEF Kept, Untouched
<1>4. CASE call[c].op # "verify" /\ Go(c, "read")
  <2>1. call[c].op = "complete"
    BY <1>1, <1>4 DEF TypeInv, TypeOK, Request, StepsFit
  <2> QED
    BY <1>1, <1>4, <2>1, GoKeeps
<1>5. CASE call[c].op # "verify" /\ Go(c, "hash")
  <2>1. Moved(c, "hash", call[c].answer, call[c].body)
    BY <1>1, <1>5, GoMoves DEF TypeInv, Steps
  <2>2. StepsFit(c)' /\ Proven(c)' /\ Checked(c)'
    BY <1>1, <1>5, <2>1 DEF TypeInv, Moved, StepsFit, Proven, Checked, At
  <2> QED
    BY <1>1, <2>1, <2>2, CallStays DEF Kept, Untouched
<1> QED
  BY <1>2, <1>3, <1>4, <1>5 DEF PeekLive

LEMMA LookupKeeps ==
  ASSUME TypeInv, setting' = setting, trashed' \subseteq Prefix \X Oid,
         NEW c \in Call, VerifyLookup(c) \/ VerifyMember(c)
  PROVE  Kept
<1>1. call[c] # Idle /\ Untouched
  BY DEF VerifyLookup, VerifyMember, At, Idle, bucket, Untouched
<1>2. CASE VerifyLookup(c)
  <2>1. Go(c, "member") \/ Answer(c, "missing") \/ Answer(c, "mismatch")
    BY <1>2 DEF VerifyLookup
  <2> QED
    BY <1>1, <2>1, GoKeeps, AnswerKeeps DEF Answers
<1>3. CASE Answer(c, "ok") \/ Answer(c, "missing")
  BY <1>1, <1>3, AnswerKeeps DEF Answers
<1>4. CASE TakesClaims /\ GoPending(c, "mark", "ok")
  <2>1. Moved(c, "mark", "ok", call[c].body)
    BY <1>1, <1>4, GoPendingMoves DEF TypeInv, Steps, Answers
  <2>2. StepsFit(c)' /\ Checked(c)'
    BY <2>1 DEF Moved, StepsFit, Checked, At
  <2> QED
    BY <1>1, <1>4, <2>1, <2>2, CallStays DEF Kept, Untouched
<1> QED
  BY <1>2, <1>3, <1>4 DEF VerifyMember

LEMMA SalvageKeeps ==
  ASSUME TypeInv, setting' = setting, trashed' \subseteq Prefix \X Oid,
         NEW c \in Call, Salvage(c) \/ SalvageLive(c) \/ SalvageMember(c)
  PROVE  Kept
<1>1. call[c] # Idle /\ Untouched /\ call[c].op = "complete"
  BY DEF Salvage, SalvageLive, SalvageMember, At, Idle, bucket, Untouched, TypeInv, StepsFit
<1>2. \/ Go(c, "check") \/ Go(c, "salvage-live") \/ Go(c, "salvage-member")
      \/ Answer(c, "ok") \/ Answer(c, "mismatch")
  BY DEF Salvage, SalvageLive, AfterSalvageLive, SalvageMember
<1> QED
  BY <1>1, <1>2, GoKeeps, AnswerKeeps DEF Answers

LEMMA CheckStagingKeeps ==
  ASSUME TypeInv, setting' = setting, trashed' \subseteq Prefix \X Oid,
         NEW c \in Call, CheckStaging(c)
  PROVE  Kept
<1>1. call[c] # Idle /\ Untouched /\ call[c].op = "complete"
  BY DEF CheckStaging, At, Idle, bucket, Untouched, TypeInv, StepsFit
<1>2. CASE Go(c, "peek")
  <2>1. Moved(c, "peek", call[c].answer, call[c].body)
    BY <1>1, <1>2, GoMoves DEF TypeInv, Steps
  <2>2. StepsFit(c)' /\ Proven(c)' /\ Checked(c)'
    BY <1>1, <2>1 DEF Moved, StepsFit, Proven, Checked, At
  <2> QED
    BY <1>1, <2>1, <2>2, CallStays DEF Kept, Untouched
<1>3. CASE GoPending(c, "delete", "mismatch")
  BY <1>1, <1>3, MismatchKeeps
<1> QED
  BY <1>2, <1>3 DEF CheckStaging

LEMMA PromoteReadKeeps ==
  ASSUME TypeInv, setting' = setting, trashed' \subseteq Prefix \X Oid,
         NEW c \in Call, PromoteRead(c)
  PROVE  Kept
<1>1. /\ call[c] # Idle /\ Untouched /\ call[c].op = "complete"
      /\ Mine(c) \in Repo \X Oid /\ Mine(c)[2] = call[c].oid
      /\ Staging(c) \in Content \cup {None}
  BY DEF PromoteRead, At, Idle, bucket, Untouched, TypeInv, TypeOK, StepsFit, Request, Mine, Staging
<1>2. CASE GoPending(c, "delete", "mismatch")
  BY <1>1, <1>2, MismatchKeeps
<1>3. CASE call' = [call EXCEPT ![c].step = "promote", ![c].body = Staging(c)]
  <2>1. Moved(c, "promote", call[c].answer, Staging(c))
    BY <1>1, <1>3, ReadMoves DEF TypeInv
  <2>2. StepsFit(c)' /\ (SuppliedInv => Proven(c)') /\ Checked(c)'
    BY <1>1, <2>1
    DEF Moved, StepsFit, Proven, SuppliedInv, Checked, At, Mine, Staging, Untouched
  <2> QED
    BY <1>1, <2>1, <2>2, CallStays DEF Kept, Untouched
<1> QED
  BY <1>2, <1>3 DEF PromoteRead

-----------------------------------------------------------------------------
(* The steps that write to the bucket. *)

\* The other calls are where they were.
LEMMA CallWrites ==
  ASSUME TypeInv, setting' = setting, trashed' \subseteq Prefix \X Oid,
         NEW c \in Call, NEW s, NEW a, NEW b, Moved(c, s, a, b),
         s = "done" => a \in Answers, StepsFit(c)', links' = links,
         live' \in [Prefix \X Oid -> Content \cup {None}],
         staging' \in [Repo \X Oid -> Content \cup {None}],
         member' \subseteq Repo \X Oid,
         uploads' \in [UploadId -> Upload],
         supplied' \subseteq Repo \X Oid
  PROVE  /\ TypeInv'
         /\ /\ SuppliedInv /\ Proven(c)' /\ ReadersSent'
            /\ supplied \subseteq supplied'
            /\ \A k \in Repo \X Oid :
                 staging'[k] \in {staging[k], None} \/ (staging'[k] = k[2] => k \in supplied')
            /\ \A i \in UploadId :
                 uploads'[i] \in {uploads[i], [uploads[i] EXCEPT !.state = "completed"]}
            => SuppliedInv'
         /\ /\ HashInv /\ Checked(c)' /\ ContentHashes'
            /\ \A d \in Call \ {c} : call[d] # Idle =>
                 \/ staging'[Mine(d)] \in {staging[Mine(d)], None, call[d].oid}
                 \/ call[d].op # "verify" \/ ~Staged
            => HashInv'
<1>1. TypeInv'
  <2>1. TypeOK'
    BY DEF TypeInv, TypeOK, Moved, At
  <2>2. \A d \in Call \ {c} : StepsFit(d)'
    BY DEF TypeInv, Moved, StepsFit, At
  <2> QED
    BY <2>1, <2>2 DEF TypeInv
<1>2. ASSUME SuppliedInv, Proven(c)', ReadersSent', supplied \subseteq supplied',
             \A k \in Repo \X Oid :
               staging'[k] \in {staging[k], None} \/ (staging'[k] = k[2] => k \in supplied'),
             \A i \in UploadId :
               uploads'[i] \in {uploads[i], [uploads[i] EXCEPT !.state = "completed"]}
      PROVE  SuppliedInv'
  <2>1. \A k \in Repo \X Oid : staging'[k] = k[2] => k \in supplied'
    BY <1>2, ContentAssumption DEF SuppliedInv, Content
  <2>2. \A i \in UploadId : uploads'[i].state # "new" /\ uploads'[i].body = uploads'[i].oid
          => <<uploads'[i].repo, uploads'[i].oid>> \in supplied'
    <3>1. ASSUME NEW i \in UploadId, uploads'[i].state # "new", uploads'[i].body = uploads'[i].oid
          PROVE  <<uploads'[i].repo, uploads'[i].oid>> \in supplied
      <4>1. uploads[i] \in Upload /\ uploads'[i] \in Upload
        BY DEF TypeInv, TypeOK
      <4>2. CASE uploads'[i] = uploads[i]
        BY <1>2, <3>1, <4>2 DEF SuppliedInv
      <4>3. CASE uploads'[i] = [uploads[i] EXCEPT !.state = "completed"]
        <5>1. uploads[i].state # "new"
          BY <4>1, <4>3 DEF Upload
        <5> QED
          BY <1>2, <3>1, <4>1, <4>3, <5>1 DEF SuppliedInv, Upload
      <4> QED
        BY <1>2, <4>2, <4>3
    <3> QED
      BY <1>2, <3>1
  <2>3. \A d \in Call : Proven(d)'
    BY <1>2 DEF SuppliedInv, Proven, Moved, At, Mine
  <2> QED
    BY <1>2, <2>1, <2>2, <2>3 DEF SuppliedInv
<1>3. ASSUME HashInv, Checked(c)', ContentHashes',
             \A d \in Call \ {c} : call[d] # Idle =>
               \/ staging'[Mine(d)] \in {staging[Mine(d)], None, call[d].oid}
               \/ call[d].op # "verify" \/ ~Staged
      PROVE  HashInv'
  <2>1. ASSUME NEW d \in Call \ {c}
        PROVE  Checked(d)'
    <3>1. call'[d] = call[d] /\ Checked(d)
      BY <1>3 DEF Moved, HashInv
    <3>2. CASE call[d] = Idle
      BY <3>1, <3>2 DEF Checked, Idle
    <3>3. CASE call[d] # Idle /\ (call[d].op # "verify" \/ ~Staged)
      BY <3>1, <3>3 DEF Checked
    <3>4. CASE staging'[Mine(d)] \in {staging[Mine(d)], None, call[d].oid}
      BY <3>1, <3>4 DEF Checked, Staging, Mine, Staged
    <3> QED
      BY <1>3, <3>2, <3>3, <3>4
  <2> QED
    BY <1>3, <2>1 DEF Presigned, HashInv
<1> QED
  BY <1>1, <1>2, <1>3

LEMMA KeysInRange ==
  ASSUME TypeInv, setting' = setting, trashed' \subseteq Prefix \X Oid,
         NEW c \in Call, call[c] # Idle
  PROVE  /\ call[c] \in Request
         /\ Mine(c) \in Repo \X Oid /\ Mine(c)[2] = call[c].oid
         /\ call[c].oid \in Oid /\ call[c].oid \in Content
         /\ <<Home(call[c].repo), call[c].oid>> \in Prefix \X Oid
         /\ Staging(c) \in Content \cup {None}
  BY DEF TypeInv, TypeOK, Request, Mine, Staging, Home, Prefix, Content

LEMMA PutLiveTyped ==
  ASSUME TypeInv, setting' = setting, trashed' \subseteq Prefix \X Oid,
         NEW c \in Call, call[c] # Idle, NEW content \in Content,
         PutLive(c, content)
  PROVE  /\ live' \in [Prefix \X Oid -> Content \cup {None}]
         /\ ContentHashes /\ content = call[c].oid => ContentHashes'
  BY KeysInRange DEF TypeInv, TypeOK, PutLive, ContentHashes

LEMMA UploadPutKeeps ==
  ASSUME TypeInv, setting' = setting, trashed' \subseteq Prefix \X Oid,
         NEW c \in Call, UploadPut(c)
  PROVE  Kept
<1>1. call[c] # Idle
  BY DEF UploadPut, At, Idle
<1>2. CASE call[c].body # call[c].oid
  <2>1. Answer(c, "mismatch") /\ Untouched
    BY <1>2 DEF UploadPut, Untouched
  <2> QED
    BY <1>1, <2>1, AnswerKeeps DEF Answers
<1>3. CASE call[c].body = call[c].oid /\ call[c].aside
  <2>1. /\ GoPending(c, "delete", "ok")
        /\ staging' = [staging EXCEPT ![Mine(c)] = call[c].oid]
        /\ supplied' = supplied \cup {Mine(c)}
        /\ UNCHANGED <<live, member, uploads, links>>
    BY <1>3 DEF UploadPut, Supply, Mine
  <2>2. Moved(c, "delete", "ok", call[c].body)
    BY <1>1, <2>1, GoPendingMoves DEF TypeInv, Steps, Answers
  <2>3. StepsFit(c)' /\ Proven(c)' /\ Checked(c)'
    BY <2>1, <2>2, <1>1, KeysInRange DEF Moved, StepsFit, Proven, Checked, At, Mine
  <2>4. /\ staging' \in [Repo \X Oid -> Content \cup {None}]
        /\ supplied' \subseteq Repo \X Oid
        /\ \A k \in Repo \X Oid : staging'[k] = staging[k] \/ k \in supplied'
    BY <1>1, <2>1, KeysInRange DEF TypeInv, TypeOK
  <2>5. \A d \in Call \ {c} : call[d] # Idle =>
          staging'[Mine(d)] \in {staging[Mine(d)], None, call[d].oid}
    BY <1>1, <2>1, KeysInRange DEF TypeInv, TypeOK, Mine
  <2>6. SuppliedInv => ReadersSent'
    BY <2>1 DEF SuppliedInv, ReadersSent
  <2>7. HashInv => ContentHashes'
    BY <2>1 DEF HashInv, ContentHashes
  <2> QED
    BY <2>1, <2>2, <2>3, <2>4, <2>5, <2>6, <2>7, CallWrites
    DEF Kept, TypeInv, TypeOK
<1>4. CASE call[c].body = call[c].oid /\ ~call[c].aside
  <2>1. /\ GoPending(c, "mark", "ok")
        /\ PutLive(c, call[c].oid)
        /\ supplied' = supplied \cup {Mine(c)}
        /\ UNCHANGED <<staging, member, uploads, links>>
    BY <1>4 DEF UploadPut, Supply, Mine
  <2>2. Moved(c, "mark", "ok", call[c].body)
    BY <1>1, <2>1, GoPendingMoves DEF TypeInv, Steps, Answers
  <2>3. StepsFit(c)' /\ Proven(c)' /\ Checked(c)'
    BY <2>1, <2>2, <1>1, KeysInRange DEF Moved, StepsFit, Proven, Checked, At, Mine
  <2>4. live' \in [Prefix \X Oid -> Content \cup {None}] /\ supplied' \subseteq Repo \X Oid
    BY <1>1, <2>1, KeysInRange, PutLiveTyped DEF TypeInv, TypeOK
  <2>5. SuppliedInv => ReadersSent'
    BY <2>1 DEF SuppliedInv, ReadersSent
  <2>6. HashInv => ContentHashes'
    BY <1>1, <2>1, KeysInRange, PutLiveTyped DEF HashInv
  <2> QED
    BY <2>1, <2>2, <2>3, <2>4, <2>5, <2>6, CallWrites DEF Kept, TypeInv, TypeOK
<1> QED
  BY <1>2, <1>3, <1>4, KeysInRange DEF UploadPut, Request

LEMMA VerifyCopyKeeps ==
  ASSUME TypeInv, setting' = setting, trashed' \subseteq Prefix \X Oid,
         NEW c \in Call, VerifyCopy(c)
  PROVE  Kept
<1>1. call[c] # Idle /\ At(c, "copy") /\ call[c].op = "verify"
  BY DEF VerifyCopy, At, Idle, TypeInv, StepsFit
<1>2. CASE Staging(c) = None
  <2>1. Answer(c, "error") /\ Untouched
    BY <1>2 DEF VerifyCopy, Untouched
  <2> QED
    BY <1>1, <2>1, AnswerKeeps DEF Answers
<1>3. CASE Staging(c) # None
  <2>1. /\ GoPending(c, "delete", "ok") /\ PutLive(c, Staging(c)) /\ Staging(c) \in Content
        /\ UNCHANGED <<staging, member, uploads, links, supplied>>
    BY <1>1, <1>3, KeysInRange DEF VerifyCopy
  <2>2. Moved(c, "delete", "ok", call[c].body)
    BY <1>1, <2>1, GoPendingMoves DEF TypeInv, Steps, Answers
  <2>3. StepsFit(c)' /\ (SuppliedInv => Proven(c)') /\ Checked(c)'
    BY <1>1, <2>1, <2>2 DEF Moved, StepsFit, Proven, SuppliedInv, Checked, At, Mine
  <2>4. HashInv => ContentHashes'
    <3>1. HashInv => Staging(c) = call[c].oid
      BY <1>1, <1>3 DEF HashInv, Checked, At
    <3> QED
      BY <1>1, <2>1, <3>1, PutLiveTyped DEF HashInv
  <2>5. live' \in [Prefix \X Oid -> Content \cup {None}]
    BY <1>1, <2>1, PutLiveTyped
  <2>6. SuppliedInv => ReadersSent'
    BY <2>1 DEF SuppliedInv, ReadersSent
  <2> QED
    BY <2>1, <2>2, <2>3, <2>4, <2>5, <2>6, CallWrites DEF Kept, TypeInv, TypeOK
<1> QED
  BY <1>2, <1>3

\* Nobody verifies a staged upload that is put together, or hashes are not checked.
LEMMA CompleteKeeps ==
  ASSUME TypeInv, setting' = setting, trashed' \subseteq Prefix \X Oid,
         NEW c \in Call, Complete(c)
  PROVE  Kept
<1>1. call[c] # Idle /\ call[c].op = "complete" /\ call[c].id \in UploadId
  BY DEF Complete, At, Idle, TypeInv, StepsFit
<1>2. CASE Untouched /\ Go(c, "salvage")
  BY <1>1, <1>2, GoKeeps
<1>3. ASSUME IsOpen(c), MayRewrite(Mine(c)), NEW s \in {"check", "salvage"}, Go(c, s),
             staging' = [staging EXCEPT ![Mine(c)] = uploads[call[c].id].body],
             uploads' = [uploads EXCEPT ![call[c].id].state = "completed"],
             UNCHANGED <<live, member, links, supplied>>
      PROVE  Kept
  <2> DEFINE u == uploads[call[c].id]
  <2>1. u \in Upload /\ u.state = "open"
    BY <1>1, <1>3 DEF IsOpen, TypeInv, TypeOK
  <2>2. u.body \in Content /\ <<u.repo, u.oid>> = Mine(c)
    BY <1>3, <2>1 DEF IsOpen, Upload
  <2>3. Moved(c, s, call[c].answer, call[c].body)
    BY <1>1, <1>3, GoMoves DEF TypeInv, Steps
  <2>4. StepsFit(c)' /\ Proven(c)' /\ Checked(c)'
    BY <1>1, <2>3 DEF Moved, StepsFit, Proven, Checked, At
  <2>5. staging' \in [Repo \X Oid -> Content \cup {None}]
    BY <1>1, <1>3, <2>2, KeysInRange DEF TypeInv, TypeOK
  <2>6. /\ uploads' \in [UploadId -> Upload]
        /\ \A i \in UploadId :
             uploads'[i] \in {uploads[i], [uploads[i] EXCEPT !.state = "completed"]}
    <3>1. [u EXCEPT !.state = "completed"] \in Upload
      BY <2>1 DEF Upload
    <3> QED
      BY <1>1, <1>3, <3>1 DEF TypeInv, TypeOK
  <2>7. SuppliedInv => \A k \in Repo \X Oid :
          staging'[k] = staging[k] \/ (staging'[k] = k[2] => k \in supplied')
    BY <1>1, <1>3, <2>1, <2>2, KeysInRange DEF SuppliedInv, TypeInv, TypeOK, Mine
  <2>8. HashesChecked => \A d \in Call \ {c} : call[d] # Idle =>
          \/ staging'[Mine(d)] = staging[Mine(d)]
          \/ call[d].op # "verify" \/ ~Staged
    BY <1>1, <1>3, KeysInRange DEF Presigned, HashesChecked, Staged, MayRewrite, TypeInv, TypeOK
  <2>9. /\ SuppliedInv => ReadersSent'
        /\ HashInv => ContentHashes'
    BY <1>3 DEF SuppliedInv, ReadersSent, HashInv, ContentHashes
  <2> HIDE DEF u
  <2> QED
    BY <1>3, <2>3, <2>4, <2>5, <2>6, <2>7, <2>8, <2>9, CallWrites DEF Kept, TypeInv, TypeOK
<1> QED
  BY <1>2, <1>3 DEF Complete, Untouched

LEMMA PromoteWriteKeeps ==
  ASSUME TypeInv, setting' = setting, trashed' \subseteq Prefix \X Oid,
         NEW c \in Call, PromoteWrite(c)
  PROVE  Kept
<1>1. call[c] # Idle /\ At(c, "promote")
  BY DEF PromoteWrite, At, Idle
<1>2. CASE ~Promotes(c)
  <2>1. GoPending(c, "delete", "mismatch") /\ Untouched
    BY <1>2 DEF PromoteWrite, Untouched
  <2> QED
    BY <1>1, <2>1, MismatchKeeps
<1>3. CASE Promotes(c)
  <2>1. /\ GoPending(c, "delete", "ok") /\ PutLive(c, call[c].oid)
        /\ UNCHANGED <<staging, member, uploads, links, supplied>>
    BY <1>1, <1>3 DEF PromoteWrite, Promotes
  <2>2. Moved(c, "delete", "ok", call[c].body)
    BY <1>1, <2>1, GoPendingMoves DEF TypeInv, Steps, Answers
  <2>3. StepsFit(c)' /\ (SuppliedInv => Proven(c)') /\ Checked(c)'
    BY <1>1, <1>3, <2>1, <2>2 DEF Promotes, Moved, StepsFit, Proven, SuppliedInv, Checked, At, Mine
  <2>4. /\ live' \in [Prefix \X Oid -> Content \cup {None}]
        /\ HashInv => ContentHashes'
    BY <1>1, <2>1, KeysInRange, PutLiveTyped DEF HashInv
  <2>5. SuppliedInv => ReadersSent'
    BY <2>1 DEF SuppliedInv, ReadersSent
  <2> QED
    BY <2>1, <2>2, <2>3, <2>4, <2>5, CallWrites DEF Kept, TypeInv, TypeOK
<1> QED
  BY <1>2, <1>3

LEMMA DropStagingKeeps ==
  ASSUME TypeInv, setting' = setting, trashed' \subseteq Prefix \X Oid,
         NEW c \in Call, DropStaging(c)
  PROVE  Kept
<1>1. call[c] # Idle /\ At(c, "delete") /\ call[c].answer \in Answers
  BY DEF DropStaging, At, Idle, TypeInv, StepsFit, Answers
<1>2. PICK s \in {"mark", "done"} : Go(c, s) /\ (s = "mark" <=> call[c].answer = "ok")
  BY DEF DropStaging
<1>3. Moved(c, s, call[c].answer, call[c].body)
  BY <1>1, <1>2, GoMoves DEF TypeInv, Steps
<1>4. StepsFit(c)' /\ (SuppliedInv => Proven(c)') /\ Checked(c)'
  BY <1>1, <1>2, <1>3
  DEF DropStaging, Moved, StepsFit, Proven, SuppliedInv, Checked, At, Mine
<1>5. /\ staging' \in [Repo \X Oid -> Content \cup {None}]
      /\ \A k \in Repo \X Oid : staging'[k] \in {staging[k], None}
  BY DEF DropStaging, TypeInv, TypeOK
<1>6. \A d \in Call \ {c} : call[d] # Idle => staging'[Mine(d)] \in {staging[Mine(d)], None}
  BY <1>5, KeysInRange
<1>7. /\ SuppliedInv => ReadersSent'
      /\ HashInv => ContentHashes'
  BY DEF DropStaging, SuppliedInv, ReadersSent, HashInv, ContentHashes
<1>8. UNCHANGED <<live, member, uploads, links, supplied>>
  BY DEF DropStaging
<1> QED
  BY <1>1, <1>3, <1>4, <1>5, <1>6, <1>7, <1>8, CallWrites DEF Kept, TypeInv, TypeOK

LEMMA MarkKeeps ==
  ASSUME TypeInv, setting' = setting, trashed' \subseteq Prefix \X Oid,
         NEW c \in Call, Mark(c)
  PROVE  Kept
<1>1. call[c] # Idle /\ At(c, "mark")
  BY DEF Mark, At, Idle
<1>2. Moved(c, "done", "ok", call[c].body)
  BY <1>1, AnswerMoves DEF Mark, TypeInv, Answers
<1>3. StepsFit(c)' /\ Proven(c)' /\ Checked(c)'
  BY <1>2 DEF Moved, StepsFit, Proven, Checked, At
<1>4. member' \subseteq Repo \X Oid /\ (SuppliedInv => ReadersSent')
  BY <1>1, KeysInRange DEF Mark, TypeInv, TypeOK, SuppliedInv, ReadersSent, Proven
<1>5. HashInv => ContentHashes'
  BY DEF Mark, HashInv, ContentHashes
<1>6. UNCHANGED <<live, staging, uploads, links, supplied>>
  BY DEF Mark
<1> QED
  BY <1>2, <1>3, <1>4, <1>5, <1>6, CallWrites DEF Kept, TypeInv, TypeOK, Answers

-----------------------------------------------------------------------------
(* Requests come and go; clients, gc and failures. *)

\* A call that starts or ends has nothing to show.
LEMMA OtherCalls ==
  ASSUME TypeInv, setting' = setting, trashed' \subseteq Prefix \X Oid,
         NEW c \in Call, Untouched, UNCHANGED links,
         NEW r \in {Idle} \cup Request, call' = [call EXCEPT ![c] = r],
         r.step \in {"idle", "look", "complete"},
         r.step = "complete" => r.op = "complete" /\ r.id \in UploadId
  PROVE  Kept
<1>1. /\ call' \in [Call -> {Idle} \cup Request]
      /\ call'[c] = r /\ \A d \in Call \ {c} : call'[d] = call[d]
  BY DEF TypeInv, TypeOK
<1>2. TypeOK'
  BY <1>1 DEF TypeInv, TypeOK, Untouched
<1>3. \A d \in Call : StepsFit(d)'
  BY <1>1 DEF TypeInv, StepsFit, At
<1>4. SuppliedInv => SuppliedInv'
  <2>1. SuppliedInv => \A d \in Call : Proven(d)'
    BY <1>1 DEF SuppliedInv, Proven, At, Mine, Untouched
  <2> QED
    BY <2>1 DEF SuppliedInv, ReadersSent, Untouched
<1>5. HashInv => HashInv'
  <2>1. HashInv => \A d \in Call : Checked(d)'
    BY <1>1 DEF HashInv, Checked, Mine, Staging, Staged, Untouched
  <2> QED
    BY <2>1 DEF Presigned, HashInv, ContentHashes, Untouched
<1> QED
  BY <1>2, <1>3, <1>4, <1>5 DEF Kept, TypeInv

LEMMA AcceptKeeps ==
  ASSUME TypeInv, setting' = setting, trashed' \subseteq Prefix \X Oid,
         NEW c \in Call, NEW op, NEW r \in Repo, NEW o \in Oid, NEW size \in Nat,
         NEW body \in Content \cup {None}, NEW id \in UploadId \cup {None},
         op = "complete" => id \in UploadId, Accept(c, op, r, o, size, body, id)
  PROVE  Kept
<1> DEFINE request == [op |-> op, repo |-> r, oid |-> o, size |-> size, body |-> body,
                       id |-> id, aside |-> FALSE, step |-> FirstStep(op),
                       answer |-> "none"]
<1>1. op \in {"upload", "verify", "complete"}
  BY SettingsAssumption DEF Accept, TypeInv, TypeOK
<1>2. request \in Request
  BY <1>1 DEF Request, FirstStep, Steps
<1>3. /\ request.step \in {"look", "complete"}
      /\ request.step = "complete" => request.op = "complete" /\ request.id \in UploadId
  BY <1>1 DEF FirstStep
<1>4. call' = [call EXCEPT ![c] = request] /\ Untouched /\ UNCHANGED links
  BY DEF Accept, Untouched, bucket
<1> HIDE DEF request
<1> QED
  BY <1>2, <1>3, <1>4, OtherCalls

LEMMA RespondKeeps ==
  ASSUME TypeInv, setting' = setting, trashed' \subseteq Prefix \X Oid,
         NEW c \in Call, Respond(c)
  PROVE  Kept
<1>1. call' = [call EXCEPT ![c] = Idle] /\ Untouched /\ UNCHANGED links
  BY DEF Respond, Untouched, bucket
<1>2. Idle.step = "idle"
  BY DEF Idle
<1> QED
  BY <1>1, <1>2, OtherCalls

LEMMA FailKeeps ==
  ASSUME TypeInv, setting' = setting, trashed' \subseteq Prefix \X Oid,
         NEW c \in Call, Fail(c)
  PROVE  Kept
  BY AnswerKeeps DEF Fail, Untouched, bucket, Answers

\* Nothing a call relies on changes.
LEMMA CallsStay ==
  ASSUME TypeInv, setting' = setting, trashed' \subseteq Prefix \X Oid,
         UNCHANGED call, TypeOK'
  PROVE  /\ TypeInv'
         /\ SuppliedInv /\ supplied \subseteq supplied' => \A c \in Call : Proven(c)'
         /\ /\ HashInv
            /\ \A c \in Call : call[c] # Idle =>
                 \/ staging'[Mine(c)] \in {staging[Mine(c)], None}
                 \/ call[c].op # "verify" \/ ~Staged
            => \A c \in Call : Checked(c)'
<1>1. TypeInv'
  BY DEF TypeInv, StepsFit, At
<1>2. SuppliedInv /\ supplied \subseteq supplied' => \A c \in Call : Proven(c)'
  BY DEF SuppliedInv, Proven, At, Mine
<1>3. ASSUME HashInv, NEW c \in Call,
             call[c] # Idle =>
               \/ staging'[Mine(c)] \in {staging[Mine(c)], None}
               \/ call[c].op # "verify" \/ ~Staged
      PROVE  Checked(c)'
  <2>1. CASE call[c] = Idle
    BY <2>1 DEF Checked, Idle
  <2>2. CASE call[c] # Idle
    BY <1>3, <2>2 DEF HashInv, Checked, Mine, Staging, Staged
  <2> QED
    BY <2>1, <2>2
<1> QED
  BY <1>1, <1>2, <1>3

LEMMA LinkKeeps ==
  ASSUME TypeInv, setting' = setting, trashed' \subseteq Prefix \X Oid,
         NEW r \in Repo, NEW o \in Oid,
         LinkExpires(r, o) \/ \E size \in Sizes : BatchUpload(r, o, size)
  PROVE  Kept
<1>1. UNCHANGED <<live, staging, member, uploads, call, supplied>>
  BY DEF LinkExpires, BatchUpload, bucket
<1>2. links' \subseteq Repo \X Oid /\ (Presigned \/ links' \subseteq links)
  BY DEF LinkExpires, BatchUpload, TypeInv, TypeOK
<1>3. TypeOK'
  BY <1>1, <1>2 DEF TypeInv, TypeOK, At
<1>4. SuppliedInv => SuppliedInv'
  BY <1>1, <1>3, CallsStay DEF SuppliedInv, ReadersSent
<1>5. HashInv => HashInv'
  BY <1>1, <1>2, <1>3, CallsStay DEF Presigned, HashInv, ContentHashes
<1> QED
  BY <1>1, <1>3, <1>4, <1>5, CallsStay DEF Kept

LEMMA PutToLinkKeeps ==
  ASSUME TypeInv, setting' = setting, trashed' \subseteq Prefix \X Oid,
         NEW r \in Repo, NEW o \in Oid, NEW content \in Content,
         PutToLink(r, o, content)
  PROVE  Kept
<1>1. /\ UNCHANGED <<member, uploads, links, call>>
      /\ supplied \subseteq supplied' /\ supplied' \subseteq Repo \X Oid
      /\ content = o => <<r, o>> \in supplied'
  BY DEF PutToLink, Supply, TypeInv, TypeOK
<1>2. /\ staging' \in [Repo \X Oid -> Content \cup {None}]
      /\ \A k \in Repo \X Oid :
           staging'[k] = staging[k] \/ (staging'[k] = k[2] => k \in supplied')
  BY <1>1 DEF PutToLink, TypeInv, TypeOK
<1>3. live' \in [Prefix \X Oid -> Content \cup {None}]
  BY DEF PutToLink, TypeInv, TypeOK
<1>4. TypeOK'
  BY <1>1, <1>2, <1>3 DEF TypeInv, TypeOK, At
<1>5. SuppliedInv => SuppliedInv'
  <2>1. SuppliedInv => \A c \in Call : Proven(c)'
    BY <1>1, <1>4, CallsStay
  <2>2. SuppliedInv => \A k \in Repo \X Oid : staging'[k] = k[2] => k \in supplied'
    BY <1>1, <1>2 DEF SuppliedInv
  <2> QED
    BY <1>1, <2>1, <2>2 DEF SuppliedInv, ReadersSent
<1>6. ASSUME HashInv, HashesChecked
      PROVE  HashInv'
  <2>1. Staged /\ setting.clients = "calm"
    BY <1>6 DEF PutToLink, HashInv, HashesChecked, Staged
  <2>2. live' = live /\ staging' = [staging EXCEPT ![<<r, o>>] = content]
    BY <2>1 DEF PutToLink
  <2>3. \A c \in Call : call[c] # Idle =>
          staging'[Mine(c)] = staging[Mine(c)] \/ call[c].op # "verify"
    BY <2>1, <2>2, KeysInRange DEF PutToLink, MayRewrite, TypeInv, TypeOK
  <2>4. \A c \in Call : Checked(c)'
    BY <1>1, <1>4, <1>6, <2>3, CallsStay
  <2> QED
    BY <1>1, <1>6, <2>2, <2>4 DEF Presigned, HashInv, ContentHashes
<1> QED
  BY <1>1, <1>4, <1>5, <1>6, CallsStay DEF Kept

UploadsKept ==
  /\ supplied \subseteq supplied' /\ supplied' \subseteq Repo \X Oid
  /\ uploads' \in [UploadId -> Upload]
  /\ SuppliedInv => \A j \in UploadId :
       uploads'[j].state # "new" /\ uploads'[j].body = uploads'[j].oid
         => <<uploads'[j].repo, uploads'[j].oid>> \in supplied'

LEMMA MultipartKeeps ==
  ASSUME TypeInv, setting' = setting, trashed' \subseteq Prefix \X Oid,
         NEW i \in UploadId,
         \/ \E r \in Repo, o \in Oid : StartMultipart(i, r, o)
         \/ AbortMultipart(i)
         \/ \E content \in Content : UploadParts(i, content)
  PROVE  Kept
<1>1. UNCHANGED <<live, staging, member, links, call>>
  BY DEF StartMultipart, AbortMultipart, UploadParts, bucket
<1>2. UploadsKept
  <2>1. CASE \E r \in Repo, o \in Oid : StartMultipart(i, r, o)
    BY <2>1, ContentAssumption
    DEF UploadsKept, StartMultipart, TypeInv, TypeOK, Upload, Content, SuppliedInv
  <2>2. CASE AbortMultipart(i)
    <3>1. /\ uploads[i] \in Upload /\ uploads[i].state = "open"
          /\ [uploads[i] EXCEPT !.state = "aborted"] \in Upload
      BY <2>2 DEF AbortMultipart, TypeInv, TypeOK, Upload
    <3> QED
      BY <2>2, <3>1 DEF UploadsKept, AbortMultipart, TypeInv, TypeOK, Upload, SuppliedInv
  <2>3. ASSUME NEW content \in Content, UploadParts(i, content)
        PROVE  UploadsKept
    <3>1. /\ uploads[i] \in Upload /\ uploads[i].state = "open"
          /\ [uploads[i] EXCEPT !.body = content] \in Upload
      BY <2>3 DEF UploadParts, TypeInv, TypeOK, Upload
    <3> QED
      BY <2>3, <3>1 DEF UploadsKept, UploadParts, Supply, TypeInv, TypeOK, Upload, SuppliedInv
  <2> QED
    BY <2>1, <2>2, <2>3
<1>3. TypeOK'
  BY <1>1, <1>2 DEF UploadsKept, TypeInv, TypeOK, At
<1>4. SuppliedInv => SuppliedInv'
  <2>1. SuppliedInv => \A c \in Call : Proven(c)'
    BY <1>1, <1>2, <1>3, CallsStay DEF UploadsKept
  <2> QED
    BY <1>1, <1>2, <2>1 DEF UploadsKept, SuppliedInv, ReadersSent
<1>5. HashInv => HashInv'
  BY <1>1, <1>3, CallsStay DEF Presigned, HashInv, ContentHashes
<1> QED
  BY <1>1, <1>3, <1>4, <1>5, CallsStay DEF Kept

LEMMA TrashLiveKeeps ==
  ASSUME TypeInv, setting' = setting, trashed' \subseteq Prefix \X Oid,
         NEW k \in Prefix \X Oid, TrashLive(k)
  PROVE  Kept
<1>1. UNCHANGED <<staging, member, uploads, links, call, supplied>>
  BY DEF TrashLive
<1>2. live' \in [Prefix \X Oid -> Content \cup {None}] /\ (HashInv => ContentHashes')
  BY DEF TrashLive, TypeInv, TypeOK, HashInv, ContentHashes
<1>3. TypeOK'
  BY <1>1, <1>2 DEF TypeInv, TypeOK, At
<1>4. SuppliedInv => SuppliedInv'
  BY <1>1, <1>3, CallsStay DEF SuppliedInv, ReadersSent
<1>5. HashInv => HashInv'
  BY <1>1, <1>2, <1>3, CallsStay DEF Presigned, HashInv
<1> QED
  BY <1>1, <1>3, <1>4, <1>5, CallsStay DEF Kept

-----------------------------------------------------------------------------
(* Every step keeps the invariants; every behaviour has them. *)

\* The deployment stays what it is, and only gc's steps touch the trash.
LEMMA SettingStays ==
  TypeInv /\ [Next]_vars => setting' = setting /\ trashed' \subseteq Prefix \X Oid
<1> SUFFICES ASSUME TypeInv, [Next]_vars
             PROVE  setting' = setting /\ trashed' \subseteq Prefix \X Oid
  OBVIOUS
<1>1. trashed \subseteq Prefix \X Oid
  BY DEF TypeInv, TypeOK
<1>2. CASE UNCHANGED vars
  BY <1>1, <1>2 DEF vars
<1>3. CASE \E k \in Prefix \X Oid : TrashLive(k)
  BY <1>1, <1>3 DEF TrashLive
<1>4. CASE UNCHANGED others
  BY <1>1, <1>4 DEF others
<1> QED
  BY <1>2, <1>3, <1>4
  DEF Next, bucket, Accept, UploadLook, UploadPut, VerifyLook, HashStaging, PeekLive,
      VerifyCopy, VerifyLookup, VerifyMember, Complete, Salvage, SalvageLive,
      SalvageMember, CheckStaging, PromoteRead, PromoteWrite, DropStaging, Mark,
      Respond, Fail, BatchUpload, LinkExpires, PutToLink, StartMultipart,
      AbortMultipart, UploadParts

LEMMA StepKeeps == TypeInv /\ [Next]_vars => Kept
<1> SUFFICES ASSUME TypeInv, [Next]_vars PROVE Kept
  OBVIOUS
<1> setting' = setting /\ trashed' \subseteq Prefix \X Oid
  BY SettingStays
<1>0. setting.contents \subseteq Content /\ \A size \in Sizes : size \in Nat
  BY SettingsAssumption, ContentAssumption DEF Sizes, TypeInv, TypeOK
<1>1. ASSUME NEW c \in Call, NEW r \in Repo, NEW o \in Oid, NEW content \in setting.contents,
             Accept(c, "upload", r, o, Size[content], content, None)
      PROVE  Kept
  BY <1>0, <1>1, AcceptKeeps, ContentAssumption
<1>2. ASSUME NEW c \in Call, NEW r \in Repo, NEW o \in Oid, NEW size \in Sizes,
             Accept(c, "verify", r, o, size, None, None)
      PROVE  Kept
  BY <1>0, <1>2, AcceptKeeps
<1>3. ASSUME NEW c \in Call, NEW r \in Repo, NEW o \in Oid, NEW size \in Sizes,
             NEW i \in UploadId, Accept(c, "complete", r, o, size, None, i)
      PROVE  Kept
  BY <1>0, <1>3, AcceptKeeps
<1>4. ASSUME NEW c \in Call,
             \/ UploadLook(c) \/ UploadPut(c) \/ VerifyLook(c) \/ HashStaging(c)
             \/ PeekLive(c) \/ VerifyCopy(c) \/ VerifyLookup(c) \/ VerifyMember(c)
      PROVE  Kept
  BY <1>4, UploadLookKeeps, UploadPutKeeps, VerifyLookKeeps, HashStagingKeeps,
     PeekLiveKeeps, VerifyCopyKeeps, LookupKeeps
<1>5. ASSUME NEW c \in Call,
             \/ Complete(c) \/ Salvage(c) \/ SalvageLive(c) \/ SalvageMember(c)
             \/ CheckStaging(c) \/ PromoteRead(c) \/ PromoteWrite(c)
      PROVE  Kept
  BY <1>5, CompleteKeeps, SalvageKeeps, CheckStagingKeeps, PromoteReadKeeps,
     PromoteWriteKeeps
<1>6. ASSUME NEW c \in Call,
             DropStaging(c) \/ Mark(c) \/ Respond(c) \/ Fail(c)
      PROVE  Kept
  BY <1>6, DropStagingKeeps, MarkKeeps, RespondKeeps, FailKeeps
<1>7. ASSUME NEW r \in Repo, NEW o \in Oid,
             \/ LinkExpires(r, o) \/ \E size \in Sizes : BatchUpload(r, o, size)
             \/ \E content \in setting.contents : PutToLink(r, o, content)
             \/ \E i \in UploadId : StartMultipart(i, r, o)
      PROVE  Kept
  BY <1>0, <1>7, LinkKeeps, PutToLinkKeeps, MultipartKeeps
<1>8. ASSUME NEW i \in UploadId,
             AbortMultipart(i) \/ \E content \in setting.contents : UploadParts(i, content)
      PROVE  Kept
  BY <1>0, <1>8, MultipartKeeps
<1>9. ASSUME NEW k \in Prefix \X Oid, TrashLive(k)
      PROVE  Kept
  BY <1>9, TrashLiveKeeps
<1>10. CASE UNCHANGED vars
  <2>1. TypeOK' /\ Untouched /\ UNCHANGED call
    BY <1>10 DEF vars, bucket, TypeInv, TypeOK, At, Untouched
  <2>2. SuppliedInv => SuppliedInv'
    BY <2>1, CallsStay DEF SuppliedInv, ReadersSent, Untouched
  <2>3. HashInv => HashInv'
    BY <1>10, <2>1, CallsStay DEF Presigned, HashInv, ContentHashes, Untouched, vars
  <2> QED
    BY <2>1, <2>2, <2>3, CallsStay DEF Kept
<1> QED
  BY <1>1, <1>2, <1>3, <1>4, <1>5, <1>6, <1>7, <1>8, <1>9, <1>10 DEF Next

LEMMA InitHolds == Init => TypeInv /\ SuppliedInv /\ HashInv
<1> SUFFICES ASSUME Init PROVE TypeInv /\ SuppliedInv /\ HashInv
  OBVIOUS
<1>1. \A c \in Call : StepsFit(c) /\ Proven(c) /\ Checked(c)
  BY DEF Init, StepsFit, Proven, Checked, At, Idle
<1>2. \A k \in Repo \X Oid : k[2] # None
  BY ContentAssumption DEF Content
<1> QED
  BY <1>1, <1>2, InitType
  DEF Init, TypeInv, SuppliedInv, HashInv, ReadersSent, ContentHashes

-----------------------------------------------------------------------------
(* What a call says is there, is there. *)

Arrived(k) == live[k] # None \/ k \in trashed
HomeKey(c) == <<Home(call[c].repo), call[c].oid>>

\* A call on its way to an answer of "ok" has seen the object, and one that answers
\* so has its repository marked as a reader.
Sees(c) ==
  \/ call[c].step \in {"mark", "member", "salvage-member"}
  \/ call[c].step \in {"delete", "done"} /\ call[c].answer = "ok"
  \/ call[c].step = "hash" /\ call[c].op = "complete"
  \/ call[c].step = "put" /\ call[c].aside

Served(c) ==
  call[c] # Idle =>
    /\ Sees(c) => Arrived(HomeKey(c))
    /\ call[c].step = "done" /\ call[c].answer = "ok" => IsMember(call[c].repo, call[c].oid)

\* Objects come and go to the trash, readers stay.
NothingLost ==
  /\ \A k \in Prefix \X Oid : Arrived(k) => Arrived(k)'
  /\ member \subseteq member'
  /\ setting' = setting

LEMMA HomeKeyTyped ==
  ASSUME TypeInv, NEW c \in Call, call[c] # Idle
  PROVE  HomeKey(c) \in Prefix \X Oid /\ live[HomeKey(c)] = Live(c)
<1>1. call[c] \in Request
  BY DEF TypeInv, TypeOK
<1> QED BY <1>1 DEF HomeKey, Home, Prefix, Request, Live

LEMMA WriteArrives ==
  ASSUME TypeInv, NEW c \in Call, call[c] # Idle, NEW k, k = HomeKey(c),
         NEW content, content # None, PutLive(c, content), UNCHANGED <<member, others>>
  PROVE  NothingLost /\ Arrived(k)'
<1>1. k \in Prefix \X Oid
  BY HomeKeyTyped
<1>2. live' = [live EXCEPT ![k] = content]
  BY DEF PutLive, HomeKey
<1>3. live'[k] = content /\ \A j \in Prefix \X Oid : live'[j] \in {live[j], content}
  BY <1>1, <1>2 DEF TypeInv, TypeOK
<1>4. UNCHANGED <<member, trashed, setting>>
  BY DEF others
<1> QED BY <1>3, <1>4 DEF NothingLost, Arrived

LEMMA NothingIsLost ==
  ASSUME TypeInv, [Next]_vars
  PROVE  NothingLost
<1> setting.contents \subseteq Content /\ None \notin Content
  BY SettingsAssumption, ContentAssumption DEF TypeInv, TypeOK
<1>1. CASE UNCHANGED <<live, others>> /\ member \subseteq member'
  BY <1>1 DEF NothingLost, Arrived, others
<1>2. ASSUME NEW c \in Call, UploadPut(c) PROVE NothingLost
  <2>1. call[c] # Idle
    BY <1>2 DEF UploadPut, At, Idle
  <2>2. CASE UNCHANGED live
    BY <1>1, <1>2, <2>2 DEF UploadPut
  <2>3. CASE PutLive(c, call[c].body) /\ call[c].body = call[c].oid
    <3>1. call[c].body # None
      BY <2>1, <2>3 DEF TypeInv, TypeOK, Request, Content
    <3> QED BY <1>2, <2>1, <2>3, <3>1, WriteArrives DEF UploadPut
  <2> QED BY <1>2, <2>2, <2>3 DEF UploadPut
<1>3. ASSUME NEW c \in Call, VerifyCopy(c) PROVE NothingLost
  <2>1. call[c] # Idle
    BY <1>3 DEF VerifyCopy, At, Idle
  <2> QED BY <1>1, <1>3, <2>1, WriteArrives DEF VerifyCopy
<1>4. ASSUME NEW c \in Call, PromoteWrite(c) PROVE NothingLost
  <2>1. call[c] # Idle
    BY <1>4 DEF PromoteWrite, At, Idle
  <2>2. CASE ~Promotes(c)
    BY <1>1, <1>4, <2>2 DEF PromoteWrite
  <2>3. CASE Promotes(c)
    <3>1. call[c].body # None
      BY <2>1, <2>3 DEF TypeInv, TypeOK, Request, Content, Promotes
    <3> QED BY <1>4, <2>1, <2>3, <3>1, WriteArrives DEF PromoteWrite
  <2> QED BY <2>2, <2>3
<1>5. ASSUME NEW r \in Repo, NEW o \in Oid, NEW content \in setting.contents, PutToLink(r, o, content)
      PROVE  NothingLost
  <2>1. content # None /\ UNCHANGED <<member, trashed, setting>>
    BY <1>5 DEF PutToLink, others
  <2>2. \A k \in Prefix \X Oid : live'[k] \in {live[k], content}
    BY <1>5 DEF PutToLink, TypeInv, TypeOK
  <2> QED BY <2>1, <2>2 DEF NothingLost, Arrived
<1>6. ASSUME NEW k \in Prefix \X Oid, TrashLive(k) PROVE NothingLost
  BY <1>6 DEF TrashLive, TypeInv, TypeOK, NothingLost, Arrived
<1>7. ASSUME NEW c \in Call, Mark(c) PROVE NothingLost
  BY <1>1, <1>7 DEF Mark
<1>8. CASE UNCHANGED <<live, member, others>>
  BY <1>1, <1>8
<1> QED
  BY <1>2, <1>3, <1>4, <1>5, <1>6, <1>7, <1>8
  DEF Next, vars, others, bucket, Accept, UploadLook, VerifyLook, HashStaging, PeekLive,
      VerifyLookup, VerifyMember, Complete, Salvage, SalvageLive, SalvageMember, CheckStaging,
      PromoteRead, DropStaging, Respond, Fail, BatchUpload, LinkExpires, StartMultipart,
      AbortMultipart, UploadParts

\* A call that has moved on: what is left to show.
LEMMA MovedServed ==
  ASSUME TypeInv, NothingLost, NEW c \in Call, call[c] # Idle, Served(c), NEW k, k = HomeKey(c),
         NEW s, NEW a, NEW b, Moved(c, s, a, b), s # "put",
         \/ s \in {"mark", "member", "salvage-member"}
         \/ s \in {"delete", "done"} /\ a = "ok"
         \/ s = "hash" /\ call[c].op = "complete"
         => Sees(c) \/ Arrived(k)',
         s = "done" /\ a = "ok" =>
           IsMember(call[c].repo, call[c].oid) \/ Mine(c) \in member'
  PROVE  Served(c)'
<1>1. k \in Prefix \X Oid
  BY HomeKeyTyped
<1>2. HomeKey(c)' = k
  BY DEF HomeKey, Home, Shared, Moved, NothingLost
<1>3. Sees(c) => Arrived(k)'
  BY <1>1 DEF Served, NothingLost
<1>4. Sees(c)' => Arrived(k)'
  BY <1>3 DEF Sees, Moved
<1>5. Mine(c) = <<call[c].repo, call[c].oid>>
  BY DEF Mine
<1>6. s = "done" /\ a = "ok" => IsMember(call[c].repo, call[c].oid)'
  BY <1>5 DEF IsMember, Shared, NothingLost, Moved
<1>7. Arrived(HomeKey(c))' <=> Arrived(k)'
  BY <1>2 DEF Arrived
<1> QED BY <1>4, <1>6, <1>7 DEF Served, Moved

\* A call that starts, ends or is left alone.
LEMMA RestServed ==
  ASSUME TypeInv, NothingLost, NEW c \in Call, Served(c),
         \/ call'[c] = call[c]
         \/ call'[c] = Idle
         \/ call'[c].step \in {"look", "complete"}
         \/ call'[c].step = "done" /\ call'[c].answer # "ok"
  PROVE  Served(c)'
<1>1. CASE call'[c] = call[c] /\ call[c] # Idle
  <2>1. PICK k : k = HomeKey(c)
    OBVIOUS
  <2>2. k \in Prefix \X Oid
    BY <1>1, <2>1, HomeKeyTyped
  <2>3. HomeKey(c)' = k
    BY <1>1, <2>1 DEF HomeKey, Home, Shared, NothingLost
  <2>4. Sees(c)' => Arrived(k)'
    BY <1>1, <2>1, <2>2 DEF Sees, Served, NothingLost
  <2>5. call'[c].step = "done" /\ call'[c].answer = "ok" => IsMember(call[c].repo, call[c].oid)'
    BY <1>1 DEF Served, IsMember, Shared, NothingLost
  <2>6. Arrived(HomeKey(c))' <=> Arrived(k)'
    BY <2>3 DEF Arrived
  <2> QED BY <1>1, <2>4, <2>5, <2>6 DEF Served
<1>2. CASE call'[c] # Idle /\ call'[c].step \in {"look", "complete"}
  BY <1>2 DEF Served, Sees
<1>3. CASE call'[c].step = "done" /\ call'[c].answer # "ok"
  BY <1>3 DEF Served, Sees
<1> QED BY <1>1, <1>2, <1>3 DEF Served

LEMMA CallServed ==
  ASSUME TypeInv, NothingLost, NEW c \in Call, call[c] # Idle, Served(c),
         \/ UploadLook(c) \/ UploadPut(c) \/ VerifyLook(c) \/ HashStaging(c)
         \/ PeekLive(c) \/ VerifyCopy(c) \/ VerifyLookup(c) \/ VerifyMember(c)
         \/ Complete(c) \/ Salvage(c) \/ SalvageLive(c) \/ SalvageMember(c)
         \/ CheckStaging(c) \/ PromoteRead(c) \/ PromoteWrite(c)
         \/ DropStaging(c) \/ Mark(c) \/ Fail(c)
  PROVE  Served(c)'
<1>0. call[c] \in Request /\ StepsFit(c) /\ call[c].oid \in Content /\ None \notin Content
  BY ContentAssumption DEF TypeInv, TypeOK, Request, Content
<1>k. PICK k \in Prefix \X Oid : k = HomeKey(c) /\ live[k] = Live(c)
  BY HomeKeyTyped
<1> Arrived(k) => Arrived(k)'
  BY DEF NothingLost
<1> USE DEF Steps, Answers
\* The three ways to move on.
<1>g. ASSUME NEW s \in Steps \cup {"done"}, Go(c, s), s # "put", s # "done",
             \/ s \in {"mark", "member", "salvage-member"}
             \/ s = "delete" /\ call[c].answer = "ok"
             \/ s = "hash" /\ call[c].op = "complete"
             => Sees(c) \/ Arrived(k)'
      PROVE  Served(c)'
  <2>1. Moved(c, s, call[c].answer, call[c].body)
    BY <1>g, GoMoves DEF TypeInv
  <2> QED BY <1>k, <1>g, <2>1, MovedServed
<1>p. ASSUME NEW s \in {"delete", "mark", "done"}, NEW a \in Answers, GoPending(c, s, a),
             s = "mark" \/ a = "ok" => Sees(c) \/ Arrived(k)',
             s = "done" /\ a = "ok" =>
               IsMember(call[c].repo, call[c].oid) \/ Mine(c) \in member'
      PROVE  Served(c)'
  <2>1. Moved(c, s, a, call[c].body)
    BY <1>p, GoPendingMoves DEF TypeInv
  <2> QED BY <1>k, <1>p, <2>1, MovedServed
<1>a. ASSUME NEW a \in Answers, Answer(c, a), a # "ok" PROVE Served(c)'
  BY <1>a, <1>p DEF Answer
<1>1. CASE UploadLook(c)
  <2>1. call'[c] = [call[c] EXCEPT !.step = "put", !.aside = (Live(c) # None)]
    BY <1>1 DEF UploadLook, TypeInv, TypeOK
  <2>2. /\ call'[c].step = "put" /\ call'[c].aside = (Live(c) # None)
        /\ call'[c].repo = call[c].repo /\ call'[c].oid = call[c].oid
    BY <1>0, <2>1 DEF Request
  <2>3. HomeKey(c)' = k
    BY <1>k, <2>2 DEF HomeKey, Home, Shared, NothingLost
  <2>4. Live(c) # None => Arrived(k)'
    BY <1>k DEF Arrived
  <2>5. Arrived(HomeKey(c))' <=> Arrived(k)'
    BY <2>3 DEF Arrived
  <2> QED BY <2>2, <2>4, <2>5 DEF Served, Sees
<1>2. CASE UploadPut(c)
  <2>1. CASE Answer(c, "mismatch")
    BY <2>1, <1>a
  <2>2. CASE call[c].aside /\ GoPending(c, "delete", "ok")
    BY <1>2, <2>2, <1>p DEF Sees, UploadPut, At
  <2>3. CASE call[c].body = call[c].oid /\ PutLive(c, call[c].body) /\ GoPending(c, "mark", "ok")
    <3>1. Arrived(k)'
      BY <1>0, <1>2, <1>k, <2>3, WriteArrives DEF UploadPut
    <3> QED BY <2>3, <3>1, <1>p
  <2> QED BY <1>2, <2>1, <2>2, <2>3 DEF UploadPut
<1>3. CASE VerifyLook(c)
  BY <1>3, <1>g, <1>p DEF VerifyLook
<1>4. CASE HashStaging(c)
  <2>1. call[c].op = "verify" \/ Sees(c)
    BY <1>0, <1>4 DEF HashStaging, Sees, StepsFit, At, Request
  <2> QED BY <1>4, <2>1, <1>g, <1>p DEF HashStaging
<1>5. CASE PeekLive(c)
  <2>1. Live(c) # None => Arrived(k)'
    BY <1>k DEF Arrived
  <2> QED BY <1>5, <2>1, <1>g, <1>p DEF PeekLive
<1>6. CASE VerifyCopy(c)
  <2>1. CASE Staging(c) = None
    BY <1>6, <2>1, <1>a DEF VerifyCopy
  <2>2. CASE Staging(c) # None
    <3>1. Arrived(k)'
      BY <1>6, <1>k, <2>2, WriteArrives DEF VerifyCopy
    <3> QED BY <1>6, <2>2, <3>1, <1>p DEF VerifyCopy
  <2> QED BY <2>1, <2>2
<1>7. CASE VerifyLookup(c)
  <2>1. Live(c) # None => Arrived(k)'
    BY <1>k DEF Arrived
  <2> QED BY <1>7, <2>1, <1>g, <1>a DEF VerifyLookup
<1>8. CASE VerifyMember(c)
  <2>1. Sees(c)
    BY <1>8 DEF VerifyMember, Sees, At
  <2> QED BY <1>8, <2>1, <1>p, <1>a DEF VerifyMember, Answer
<1>9. CASE Complete(c) \/ Salvage(c)
  BY <1>9, <1>g DEF Complete, Salvage
<1>10. CASE SalvageLive(c)
  <2>1. Sized(Live(c), call[c].size) => Arrived(k)'
    BY <1>k DEF Arrived, Sized
  <2> QED BY <1>10, <2>1, <1>g, <1>a DEF SalvageLive, AfterSalvageLive
<1>11. CASE SalvageMember(c)
  <2>1. Sees(c)
    BY <1>11 DEF SalvageMember, Sees, At
  <2> QED BY <1>11, <2>1, <1>p, <1>a DEF SalvageMember, Salvaged, Answer
<1>12. CASE CheckStaging(c)
  BY <1>12, <1>g, <1>p DEF CheckStaging
<1>13. CASE PromoteRead(c)
  <2>1. CASE Staging(c) = None
    BY <1>13, <2>1, <1>p DEF PromoteRead
  <2>2. CASE Staging(c) # None
    <3>1. Staging(c) \in Content \cup {None}
      BY KeysInRange, <1>0 DEF TypeInv, TypeOK, Staging, Mine, Request
    <3>2. Moved(c, "promote", call[c].answer, Staging(c))
      BY <1>13, <2>2, <3>1, ReadMoves DEF PromoteRead, TypeInv
    <3> QED BY <1>k, <3>2, MovedServed
  <2> QED BY <2>1, <2>2
<1>14. CASE PromoteWrite(c)
  <2>1. CASE Promotes(c)
    <3>1. Arrived(k)'
      BY <1>0, <1>14, <1>k, <2>1, WriteArrives DEF PromoteWrite, Promotes
    <3> QED BY <1>14, <2>1, <3>1, <1>p DEF PromoteWrite
  <2>2. CASE ~Promotes(c)
    BY <1>14, <2>2, <1>p DEF PromoteWrite
  <2> QED BY <2>1, <2>2
<1>15. CASE DropStaging(c)
  <2>1. CASE call[c].answer = "ok"
    BY <1>15, <2>1, <1>g DEF DropStaging, Sees, At
  <2>2. CASE call[c].answer # "ok"
    <3>1. Moved(c, "done", call[c].answer, call[c].body)
      BY <1>15, <2>2, GoMoves DEF DropStaging, TypeInv
    <3> QED BY <1>k, <2>2, <3>1, MovedServed
  <2> QED BY <2>1, <2>2
<1>16. CASE Mark(c)
  <2>1. Sees(c)
    BY <1>16 DEF Mark, Sees, At
  <2>2. IsMember(call[c].repo, call[c].oid) \/ Mine(c) \in member'
    BY <1>16 DEF Mark, Marks, IsMember
  <2> QED BY <1>16, <2>1, <2>2, <1>p DEF Mark, Answer
<1>17. CASE Fail(c)
  BY <1>17, <1>a DEF Fail
<1> QED
  BY <1>1, <1>2, <1>3, <1>4, <1>5, <1>6, <1>7, <1>8, <1>9, <1>10, <1>11, <1>12, <1>13, <1>14,
     <1>15, <1>16, <1>17

\* A call only moves by its own steps.
LEMMA OneCallMoves ==
  ASSUME TypeInv, [Next]_vars, NEW c \in Call
  PROVE  \/ call'[c] = call[c]
         \/ \E op, r, o, size, body, id : Accept(c, op, r, o, size, body, id)
         \/ Respond(c)
         \/ UploadLook(c) \/ UploadPut(c) \/ VerifyLook(c) \/ HashStaging(c)
         \/ PeekLive(c) \/ VerifyCopy(c) \/ VerifyLookup(c) \/ VerifyMember(c)
         \/ Complete(c) \/ Salvage(c) \/ SalvageLive(c) \/ SalvageMember(c)
         \/ CheckStaging(c) \/ PromoteRead(c) \/ PromoteWrite(c)
         \/ DropStaging(c) \/ Mark(c) \/ Fail(c)
<1>1. ASSUME NEW d \in Call \ {c},
             \/ \E op, r, o, size, body, id : Accept(d, op, r, o, size, body, id)
             \/ Respond(d)
             \/ UploadLook(d) \/ UploadPut(d) \/ VerifyLook(d) \/ HashStaging(d)
             \/ PeekLive(d) \/ VerifyCopy(d) \/ VerifyLookup(d) \/ VerifyMember(d)
             \/ Complete(d) \/ Salvage(d) \/ SalvageLive(d) \/ SalvageMember(d)
             \/ CheckStaging(d) \/ PromoteRead(d) \/ PromoteWrite(d)
             \/ DropStaging(d) \/ Mark(d) \/ Fail(d)
      PROVE  call'[c] = call[c]
  <2>1. \A s : Go(d, s) => call'[c] = call[c]
    BY DEF Go, TypeInv, TypeOK
  <2>2. \A s, a : GoPending(d, s, a) => call'[c] = call[c]
    BY DEF GoPending, TypeInv, TypeOK
  <2>3. \A r : call' = [call EXCEPT ![d] = r] => call'[c] = call[c]
    BY DEF TypeInv, TypeOK
  <2> QED
    BY <1>1, <2>1, <2>2, <2>3
    DEF Accept, Respond, Answer, UploadLook, UploadPut, VerifyLook, HashStaging, PeekLive,
        VerifyCopy, VerifyLookup, VerifyMember, Complete, Salvage, SalvageLive, SalvageMember,
        CheckStaging, PromoteRead, PromoteWrite, DropStaging, Mark, Fail, AfterSalvageLive
<1>2. CASE UNCHANGED call
  BY <1>2
<1> QED
  BY <1>1, <1>2
  DEF Next, vars, BatchUpload, LinkExpires, PutToLink, StartMultipart, AbortMultipart,
      UploadParts, TrashLive

LEMMA ServedStep ==
  ASSUME TypeInv, [Next]_vars, \A c \in Call : Served(c)
  PROVE  \A c \in Call : Served(c)'
<1> SUFFICES ASSUME NEW c \in Call PROVE Served(c)'
  OBVIOUS
<1>1. NothingLost /\ Served(c)
  BY NothingIsLost
<1>2. CASE call'[c] = call[c]
  BY <1>1, <1>2, RestServed
<1>3. ASSUME NEW op, NEW r, NEW o, NEW size, NEW body, NEW id, Accept(c, op, r, o, size, body, id)
      PROVE  Served(c)'
  <2>1. call'[c].step \in {"look", "complete"}
    BY <1>3 DEF Accept, FirstStep, TypeInv, TypeOK
  <2> QED BY <1>1, <2>1, RestServed
<1>4. CASE Respond(c)
  <2>1. call'[c] = Idle
    BY <1>4 DEF Respond, TypeInv, TypeOK
  <2> QED BY <1>1, <2>1, RestServed
<1>5. CASE \/ UploadLook(c) \/ UploadPut(c) \/ VerifyLook(c) \/ HashStaging(c)
           \/ PeekLive(c) \/ VerifyCopy(c) \/ VerifyLookup(c) \/ VerifyMember(c)
           \/ Complete(c) \/ Salvage(c) \/ SalvageLive(c) \/ SalvageMember(c)
           \/ CheckStaging(c) \/ PromoteRead(c) \/ PromoteWrite(c)
           \/ DropStaging(c) \/ Mark(c) \/ Fail(c)
  <2>1. call[c] # Idle
    BY <1>5 DEF Idle, At, UploadLook, UploadPut, VerifyLook, HashStaging, PeekLive, VerifyCopy,
       VerifyLookup, VerifyMember, Complete, Salvage, SalvageLive, SalvageMember, CheckStaging,
       PromoteRead, PromoteWrite, DropStaging, Mark, Fail
  <2> QED BY <1>1, <1>5, <2>1, CallServed
<1> QED
  BY <1>2, <1>3, <1>4, <1>5, OneCallMoves

-----------------------------------------------------------------------------
(* A complete that is sent again. *)

Alone == ~Shared /\ ~Presigned /\ setting.clients = "alone"

\* What was put together for a key is what it should be, and gc left it alone.
BuiltRight(k) == \A i \in Built(k) : uploads[i].body = k[2]
Good(k) == Built(k) # {} /\ BuiltRight(k) /\ k \notin trashed

\* The content waits in the staging key until it is live.
Held(k) ==
  /\ Good(k) => staging[k] = k[2] \/ live[k] = k[2]
  /\ BuiltRight(k) => staging[k] \in {None, k[2]}

\* What a call at this step with this answer and content knows when all is well.
Knows(step, answer, body, oid, staged, stored) ==
  /\ step \in {"check", "peek", "read", "hash"} => staged = oid
  /\ step = "promote" => body = oid
  /\ step = "salvage-live" => stored = oid
  /\ answer # "mismatch"

\* The only call in flight carries on from what others have left.
CarriesOn(c) ==
  call[c] # Idle =>
    /\ \A d \in Call : call[d] # Idle => d = c
    /\ call[c].size = Size[call[c].oid]
    /\ call[c].answer = "mismatch" => call[c].step \in {"delete", "done"}
    /\ call[c].step \in {"put", "lookup", "member"} => call[c].op # "complete"
    /\ call[c].step = "delete" /\ call[c].answer # "ok" => call[c].op = "complete"
    /\ call[c].op = "complete" /\ Good(Mine(c)) =>
         Knows(call[c].step, call[c].answer, call[c].body, call[c].oid, Staging(c), live[Mine(c)])

RetryInv ==
  /\ \A c \in Call : CarriesOn(c)
  /\ \A k \in Repo \X Oid : Held(k)

\* The only call in flight moves on; nothing is put together or trashed.
LEMMA MovedCarriesOn ==
  ASSUME TypeInv, RetryInv, NEW c \in Call, call[c] # Idle,
         NEW s, NEW a, NEW b, Moved(c, s, a, b), UNCHANGED <<uploads, others>>,
         \A k \in Repo \X Oid : Held(k)',
         a = "mismatch" => s \in {"delete", "done"},
         s \in {"put", "lookup", "member"} => call[c].op # "complete",
         s = "delete" /\ a # "ok" => call[c].op = "complete",
         call[c].op = "complete" /\ Good(Mine(c)) =>
           Knows(s, a, b, call[c].oid, staging'[Mine(c)], live'[Mine(c)])
  PROVE  RetryInv'
<1>1. \A d \in Call : call'[d] # Idle => d = c
  BY DEF RetryInv, CarriesOn, Moved
<1>2. PICK k : k = Mine(c)
  OBVIOUS
<1>3. Mine(c)' = k
  BY <1>2 DEF Mine, Moved
<1>4. Good(k)' <=> Good(k)
  BY DEF Good, Built, BuiltRight, others
<1>5. CarriesOn(c)
  BY DEF RetryInv
<1>6. /\ call'[c].size = Size[call'[c].oid] /\ call'[c].op = call[c].op
      /\ call'[c].oid = call[c].oid
      /\ call'[c].step = s /\ call'[c].answer = a /\ call'[c].body = b
  BY <1>5 DEF Moved, CarriesOn
<1>7. call[c].op = "complete" /\ Good(k)' =>
        Knows(s, a, b, call[c].oid, staging'[k], live'[k])
  BY <1>2, <1>4
<1>8. Good(Mine(c))' <=> Good(k)'
  BY <1>3 DEF Good, Built, BuiltRight
<1>9. Staging(c)' = staging'[k] /\ live'[Mine(c)'] = live'[k]
  BY <1>3 DEF Staging
<1>10. CarriesOn(c)'
  BY <1>1, <1>6, <1>7, <1>8, <1>9 DEF CarriesOn
<1>11. \A d \in Call \ {c} : CarriesOn(d)'
  BY <1>1 DEF CarriesOn
<1> QED BY <1>10, <1>11 DEF RetryInv

\* Nothing a call or a staged content relies on changes.
LEMMA LeftCarriesOn ==
  ASSUME TypeInv, TypeInv', RetryInv, UNCHANGED <<staging, call>>, trashed \subseteq trashed',
         \A k \in Repo \X Oid : live'[k] = live[k] \/ k \in trashed',
         \A i \in UploadId : \/ uploads'[i] = uploads[i]
                             \/ uploads[i].state # "completed" /\ uploads'[i].state # "completed"
  PROVE  RetryInv'
<1>1. \A k : Built(k)' = Built(k)
  BY DEF Built
<1>2. \A k : BuiltRight(k)' <=> BuiltRight(k)
  BY <1>1 DEF BuiltRight, Built
<1>3. \A k : Good(k)' => Good(k) /\ k \notin trashed'
  BY <1>1, <1>2 DEF Good
<1>4. \A k \in Repo \X Oid : Held(k)'
  BY <1>2, <1>3 DEF RetryInv, Held
<1>5. ASSUME NEW c \in Call PROVE CarriesOn(c)'
  <2>1. CASE call[c] = Idle
    BY <2>1 DEF CarriesOn
  <2>2. CASE call[c] # Idle
    <3>1. Mine(c)' = Mine(c) /\ Mine(c) \in Repo \X Oid /\ Staging(c)' = Staging(c)
      BY <2>2 DEF Mine, Staging, TypeInv, TypeOK, Request
    <3>2. PICK k \in Repo \X Oid : k = Mine(c)
      BY <3>1
    <3>3. Good(Mine(c))' => Good(k) /\ live'[k] = live[k]
      BY <1>3, <3>1, <3>2 DEF Good
    <3> QED BY <3>1, <3>2, <3>3 DEF RetryInv, CarriesOn
  <2> QED BY <2>1, <2>2
<1> QED BY <1>4, <1>5 DEF RetryInv

\* The steps of the only call in flight.
LEMMA CallCarriesOn ==
  ASSUME TypeInv, HashInv, Alone, RetryInv, NEW c \in Call, call[c] # Idle, Served(c),
         \/ UploadLook(c) \/ UploadPut(c) \/ VerifyLook(c) \/ HashStaging(c)
         \/ PeekLive(c) \/ VerifyCopy(c) \/ VerifyLookup(c) \/ VerifyMember(c)
         \/ Salvage(c) \/ SalvageLive(c) \/ SalvageMember(c)
         \/ CheckStaging(c) \/ PromoteRead(c) \/ PromoteWrite(c)
         \/ DropStaging(c) \/ Mark(c) \/ Fail(c)
  PROVE  RetryInv'
<1> None \notin Content
  BY ContentAssumption
<1>0. /\ call[c] \in Request /\ StepsFit(c) /\ CarriesOn(c) /\ Checked(c)
      /\ call[c].oid \in Content /\ ~Staged
  BY DEF TypeInv, TypeOK, RetryInv, HashInv, Request, Content, Alone, Staged, Presigned
<1>k. PICK k \in Repo \X Oid :
        /\ k = Mine(c) /\ k[2] = call[c].oid /\ k \in Prefix \X Oid
        /\ k = HomeKey(c) /\ staging[k] = Staging(c) /\ live[k] = Live(c) /\ Held(k)
        /\ live[k] \in {None, k[2]}
  <2>1. Mine(c) \in Repo \X Oid /\ Mine(c) \in Prefix \X Oid /\ Mine(c) = HomeKey(c)
    BY <1>0 DEF Mine, HomeKey, Home, Alone, Request, Prefix
  <2>2. Live(c) = live[Mine(c)] /\ Mine(c)[2] = call[c].oid
    BY <1>0 DEF Mine, Live, Home, Alone
  <2>3. live[Mine(c)] \in {None, call[c].oid}
    BY <1>0, <2>1, <2>2 DEF HashInv, ContentHashes, Mine, Request, Prefix
  <2> QED BY <2>1, <2>2, <2>3 DEF RetryInv, Staging
<1>1. Good(k) /\ call[c].op = "complete" =>
        Knows(call[c].step, call[c].answer, call[c].body, k[2], staging[k], live[k])
  BY <1>0, <1>k DEF CarriesOn
<1>2. call[c].op = "complete" => Sized(k[2], call[c].size)
  BY <1>0, <1>k DEF CarriesOn, Sized
<1>h. ASSUME UNCHANGED <<live, staging, uploads, others>>
      PROVE  \A j \in Repo \X Oid : Held(j)'
  BY <1>h DEF RetryInv, Held, Good, Built, BuiltRight, others
<1> USE DEF Steps, Answers
<1>g. ASSUME NEW s \in Steps \cup {"done"}, Go(c, s), UNCHANGED <<live, staging, uploads, others>>,
             call[c].answer = "mismatch" => s = "done",
             s \in {"put", "lookup", "member"} => call[c].op # "complete", s # "delete",
             call[c].op = "complete" /\ Good(k) =>
               Knows(s, call[c].answer, call[c].body, k[2], staging[k], live[k])
      PROVE  RetryInv'
  <2>1. Moved(c, s, call[c].answer, call[c].body)
    BY <1>g, GoMoves DEF TypeInv
  <2> QED BY <1>k, <1>g, <1>h, <2>1, MovedCarriesOn
<1>p. ASSUME NEW s \in {"delete", "mark", "done"}, NEW a \in Answers, GoPending(c, s, a),
             UNCHANGED <<uploads, others>>, \A j \in Repo \X Oid : Held(j)',
             a = "mismatch" => s # "mark" /\ (call[c].op = "complete" => ~Good(k)),
             s = "delete" /\ a # "ok" => call[c].op = "complete"
      PROVE  RetryInv'
  <2>1. Moved(c, s, a, call[c].body)
    BY <1>p, GoPendingMoves DEF TypeInv
  <2> QED BY <1>k, <1>p, <2>1, MovedCarriesOn DEF Knows
<1>3. CASE UploadLook(c)
  <2>1. Moved(c, "put", call[c].answer, call[c].body)
    BY <1>3, LookMoves DEF TypeInv
  <2>2. call[c].op = "upload" /\ call[c].answer # "mismatch"
    BY <1>0, <1>3 DEF UploadLook, CarriesOn, At
  <2> QED BY <1>3, <1>k, <1>h, <2>1, <2>2, MovedCarriesOn DEF UploadLook, bucket
<1>4. CASE UploadPut(c)
  <2>1. call[c].op # "complete" /\ UNCHANGED <<uploads, others>>
    BY <1>0, <1>4 DEF UploadPut, CarriesOn, At
  <2>2. CASE Answer(c, "mismatch") /\ UNCHANGED <<live, staging>>
    BY <2>1, <2>2, <1>h, <1>p DEF Answer
  <2>3. CASE /\ call[c].body = call[c].oid /\ live' = live /\ GoPending(c, "delete", "ok")
             /\ staging' = [staging EXCEPT ![Mine(c)] = call[c].body]
    <3>1. \A j \in Repo \X Oid : Held(j)'
      BY <1>k, <2>1, <2>3 DEF RetryInv, Held, Good, Built, BuiltRight, others, TypeInv, TypeOK
    <3> QED BY <2>1, <2>3, <3>1, <1>p
  <2>4. CASE /\ call[c].body = call[c].oid /\ staging' = staging /\ GoPending(c, "mark", "ok")
             /\ PutLive(c, call[c].body)
    <3>1. live' = [live EXCEPT ![k] = k[2]]
      BY <1>k, <2>4 DEF PutLive, HomeKey
    <3>2. \A j \in Repo \X Oid : live'[j] = IF j = k THEN k[2] ELSE live[j]
      BY <3>1 DEF TypeInv, TypeOK, Prefix
    <3>3. \A j \in Repo \X Oid : Held(j)'
      BY <1>k, <2>1, <2>4, <3>2 DEF RetryInv, Held, Good, Built, BuiltRight, others
    <3> QED BY <2>1, <2>4, <3>3, <1>p
  <2> QED BY <1>4, <2>2, <2>3, <2>4 DEF UploadPut
<1>5. CASE VerifyLook(c)
  <2>1. Go(c, "lookup") /\ call[c].op = "verify" /\ UNCHANGED <<live, staging, uploads, others>>
    BY <1>0, <1>5 DEF VerifyLook, bucket
  <2>2. call[c].answer # "mismatch"
    BY <1>0, <1>5 DEF VerifyLook, CarriesOn, At
  <2> QED BY <2>1, <2>2, <1>g
<1>6. CASE HashStaging(c)
  <2>1. call[c].op = "complete" /\ UNCHANGED <<live, staging, uploads, others>>
    BY <1>0, <1>6 DEF HashStaging, StepsFit, At, Checked, Request, bucket
  <2>2. Good(k) => Hashes(c)
    BY <1>1, <1>6, <1>k, <2>1 DEF HashStaging, At, Knows, Hashes
  <2> QED BY <1>6, <2>1, <2>2, <1>h, <1>p DEF HashStaging
<1>7. CASE PeekLive(c)
  <2>1. call[c].op = "complete" /\ UNCHANGED <<live, staging, uploads, others>>
    BY <1>0, <1>7 DEF PeekLive, StepsFit, At, Checked, Request, bucket
  <2>2. call[c].answer # "mismatch"
    BY <1>0, <1>7 DEF PeekLive, CarriesOn, At
  <2>3. Go(c, "read") \/ Go(c, "hash")
    BY <1>7, <2>1 DEF PeekLive
  <2>4. Good(k) => staging[k] = k[2]
    BY <1>1, <1>7, <2>1 DEF PeekLive, At, Knows
  <2> QED BY <2>1, <2>2, <2>3, <2>4, <1>g DEF Knows
<1>8. CASE VerifyCopy(c)
  BY <1>0, <1>8 DEF VerifyCopy, StepsFit, At, Checked
<1>9. CASE VerifyLookup(c) \/ VerifyMember(c)
  <2>1. call[c].op # "complete" /\ UNCHANGED <<live, staging, uploads, others>>
    BY <1>0, <1>9 DEF VerifyLookup, VerifyMember, CarriesOn, At, bucket
  <2>2. call[c].answer # "mismatch"
    BY <1>0, <1>9 DEF VerifyLookup, VerifyMember, CarriesOn, At
  <2>3. \/ Answer(c, "missing") \/ Answer(c, "mismatch") \/ Answer(c, "ok")
        \/ Go(c, "member") \/ GoPending(c, "mark", "ok")
    BY <1>9 DEF VerifyLookup, VerifyMember
  <2> QED BY <2>1, <2>2, <2>3, <1>g, <1>h, <1>p DEF Answer
<1>10. CASE Salvage(c)
  <2>1. /\ call[c].op = "complete" /\ UNCHANGED <<live, staging, uploads, others>>
        /\ call[c].answer # "mismatch"
    BY <1>0, <1>10 DEF Salvage, StepsFit, CarriesOn, At, bucket
  <2>2. Good(k) => staging[k] \in {None, k[2]}
    BY <1>k DEF Held, Good
  <2>3. CASE Sized(Staging(c), call[c].size)
    <3>1. Good(k) => staging[k] = k[2]
      BY <1>k, <2>2, <2>3 DEF Sized
    <3> QED BY <1>10, <2>1, <2>3, <3>1, <1>g DEF Salvage, Knows
  <2>4. CASE ~Sized(Staging(c), call[c].size)
    <3>1. Good(k) => live[k] = k[2]
      BY <1>2, <1>k, <2>1, <2>4 DEF Held
    <3> QED BY <1>10, <2>1, <2>4, <3>1, <1>g DEF Salvage, Knows
  <2> QED BY <2>3, <2>4
<1>11. CASE SalvageLive(c)
  <2>1. /\ call[c].op = "complete" /\ UNCHANGED <<live, staging, uploads, others>>
        /\ call[c].answer # "mismatch"
    BY <1>0, <1>11 DEF SalvageLive, StepsFit, CarriesOn, At, bucket
  <2>2. Good(k) => Sized(Live(c), call[c].size)
    BY <1>1, <1>2, <1>11, <1>k, <2>1 DEF SalvageLive, At, Knows
  <2>3. Go(c, "salvage-member") \/ (Answer(c, "mismatch") /\ ~Good(k))
    BY <1>11, <2>2 DEF SalvageLive, AfterSalvageLive
  <2> QED BY <2>1, <2>3, <1>g, <1>h, <1>p DEF Answer, Knows
<1>12. CASE SalvageMember(c)
  <2>1. Answer(c, "ok") /\ UNCHANGED <<live, staging, uploads, others>>
    BY <1>12 DEF SalvageMember, Salvaged, IsMember, Alone, bucket
  <2> QED BY <2>1, <1>h, <1>p DEF Answer
<1>13. CASE CheckStaging(c)
  <2>1. /\ call[c].op = "complete" /\ UNCHANGED <<live, staging, uploads, others>>
        /\ call[c].answer # "mismatch"
    BY <1>0, <1>13 DEF CheckStaging, StepsFit, CarriesOn, At, bucket
  <2>2. Good(k) => staging[k] = k[2]
    BY <1>1, <1>13, <2>1 DEF CheckStaging, At, Knows
  <2>3. Go(c, "peek") \/ (GoPending(c, "delete", "mismatch") /\ ~Good(k))
    BY <1>2, <1>13, <1>k, <2>1, <2>2 DEF CheckStaging
  <2> QED BY <2>1, <2>2, <2>3, <1>g, <1>h, <1>p DEF Knows
<1>14. CASE PromoteRead(c)
  <2>1. /\ call[c].op = "complete" /\ UNCHANGED <<live, staging, uploads, others>>
        /\ call[c].answer # "mismatch"
    BY <1>0, <1>14 DEF PromoteRead, StepsFit, CarriesOn, At, bucket
  <2>2. Good(k) => staging[k] = k[2]
    BY <1>1, <1>14, <2>1 DEF PromoteRead, At, Knows
  <2>3. CASE Staging(c) = None
    <3>1. GoPending(c, "delete", "mismatch") /\ ~Good(k)
      BY <1>0, <1>14, <1>k, <2>2, <2>3 DEF PromoteRead
    <3> QED BY <2>1, <3>1, <1>h, <1>p
  <2>4. CASE Staging(c) # None
    <3>1. Staging(c) \in Content \cup {None}
      BY <1>k DEF TypeInv, TypeOK
    <3>2. Moved(c, "promote", call[c].answer, Staging(c))
      BY <1>14, <2>4, <3>1, ReadMoves DEF PromoteRead, TypeInv
    <3>3. \A j \in Repo \X Oid : Held(j)'
      BY <2>1, <1>h
    <3> QED BY <1>k, <2>1, <2>2, <3>2, <3>3, MovedCarriesOn DEF Knows
  <2> QED BY <2>3, <2>4
<1>15. CASE PromoteWrite(c)
  <2>1. call[c].op = "complete" /\ UNCHANGED <<staging, uploads, others>>
    BY <1>0, <1>15 DEF PromoteWrite, StepsFit, At
  <2>2. CASE ~Promotes(c)
    <3>1. /\ GoPending(c, "delete", "mismatch") /\ live' = live
          /\ Good(k) => Promotes(c)
      BY <1>1, <1>15, <1>k, <2>1, <2>2 DEF PromoteWrite, At, Knows, Promotes
    <3> QED BY <2>1, <2>2, <3>1, <1>h, <1>p
  <2>3. CASE Promotes(c)
    <3>1. live' = [live EXCEPT ![k] = k[2]] /\ GoPending(c, "delete", "ok")
      BY <1>15, <1>k, <2>3 DEF PromoteWrite, Promotes, PutLive, HomeKey
    <3>2. \A j \in Repo \X Oid : live'[j] = IF j = k THEN k[2] ELSE live[j]
      BY <3>1 DEF TypeInv, TypeOK, Prefix
    <3>3. \A j \in Repo \X Oid : Held(j)'
      BY <1>k, <2>1, <3>2 DEF RetryInv, Held, Good, Built, BuiltRight, others
    <3> QED BY <2>1, <3>1, <3>3, <1>p
  <2> QED BY <2>2, <2>3
<1>16. CASE DropStaging(c)
  <2>1. /\ UNCHANGED <<live, uploads, others>> /\ staging' = [staging EXCEPT ![k] = None]
        /\ At(c, "delete")
    BY <1>16, <1>k DEF DropStaging
  <2>2. Good(k) => live[k] = k[2]
    <3>1. CASE call[c].answer = "ok"
      BY <1>k, <2>1, <3>1 DEF Served, Sees, At, Arrived, Good
    <3>2. CASE call[c].answer = "mismatch"
      BY <1>0, <1>1, <2>1, <3>2 DEF CarriesOn, Knows, At
    <3> QED BY <1>0, <2>1, <3>1, <3>2 DEF StepsFit
  <2>3. \A j \in Repo \X Oid : Held(j)'
    BY <1>k, <2>1, <2>2 DEF RetryInv, Held, Good, Built, BuiltRight, others, TypeInv, TypeOK
  <2>4. PICK s \in {"mark", "done"} : Go(c, s) /\ (call[c].answer # "ok" => s = "done")
    BY <1>16 DEF DropStaging
  <2>5. Moved(c, s, call[c].answer, call[c].body)
    BY <2>4, GoMoves DEF TypeInv
  <2>6. call[c].op = "complete" /\ Good(k) =>
          Knows(s, call[c].answer, call[c].body, k[2], staging'[k], live'[k])
    BY <1>1, <2>4 DEF Knows
  <2>7. call[c].answer = "mismatch" => s = "done"
    BY <2>4
  <2> QED BY <1>k, <2>1, <2>3, <2>5, <2>6, <2>7, MovedCarriesOn
<1>17. CASE Mark(c)
  BY <1>17, <1>h, <1>p DEF Mark, Answer
<1>18. CASE Fail(c)
  BY <1>18, <1>h, <1>p DEF Fail, Answer, bucket
<1> QED
  BY <1>3, <1>4, <1>5, <1>6, <1>7, <1>8, <1>9, <1>10, <1>11, <1>12, <1>13, <1>14, <1>15, <1>16,
     <1>17, <1>18

\* R2 puts the upload together, or what an earlier call left is looked for.
LEMMA CompleteCarriesOn ==
  ASSUME TypeInv, Alone, RetryInv, NEW c \in Call, Complete(c)
  PROVE  RetryInv'
<1>0. /\ call[c] # Idle /\ call[c] \in Request /\ CarriesOn(c)
      /\ call[c].op = "complete" /\ call[c].id \in UploadId /\ call[c].answer # "mismatch"
  BY DEF Complete, At, Idle, TypeInv, TypeOK, StepsFit, RetryInv, CarriesOn
<1>1. CASE Go(c, "salvage") /\ UNCHANGED <<live, staging, uploads, others>>
  <2>1. Moved(c, "salvage", call[c].answer, call[c].body)
    BY <1>0, <1>1, GoMoves DEF TypeInv, Steps
  <2>2. \A j \in Repo \X Oid : Held(j)'
    BY <1>1 DEF RetryInv, Held, Good, Built, BuiltRight, others
  <2> QED BY <1>0, <1>1, <2>1, <2>2, MovedCarriesOn DEF Knows
<1>2. ASSUME IsOpen(c), NEW s \in {"check", "salvage"}, Go(c, s), UNCHANGED <<live, others>>,
             staging' = [staging EXCEPT ![Mine(c)] = uploads[call[c].id].body],
             uploads' = [uploads EXCEPT ![call[c].id].state = "completed"]
      PROVE  RetryInv'
  <2>1. PICK i \in UploadId : i = call[c].id
    BY <1>0
  <2>2. PICK k \in Repo \X Oid : k = Mine(c) /\ k[2] = call[c].oid
    <3>1. call[c].repo \in Repo /\ call[c].oid \in Oid
      BY <1>0 DEF Request
    <3>2. Mine(c) \in Repo \X Oid /\ Mine(c)[2] = call[c].oid
      BY <3>1 DEF Mine
    <3> QED BY <3>2
  <2>3. /\ uploads[i] \in Upload /\ uploads[i].state = "open"
        /\ <<uploads[i].repo, uploads[i].oid>> = k
    BY <1>2, <2>1, <2>2 DEF IsOpen, TypeInv, TypeOK
  <2>4. /\ uploads'[i].state = "completed" /\ uploads'[i].body = uploads[i].body
        /\ uploads'[i].repo = uploads[i].repo /\ uploads'[i].oid = uploads[i].oid
        /\ \A j \in UploadId \ {i} : uploads'[j] = uploads[j]
    BY <1>2, <2>1, <2>3 DEF TypeInv, TypeOK, Upload
  <2>5. Built(k)' = Built(k) \cup {i}
    BY <2>3, <2>4 DEF Built
  <2>6. \A j \in Repo \X Oid : j # k => Built(j)' = Built(j)
    BY <2>3, <2>4 DEF Built
  <2>7. /\ staging'[k] = uploads[i].body
        /\ \A j \in Repo \X Oid : j # k => staging'[j] = staging[j]
    BY <1>2, <2>1, <2>2 DEF TypeInv, TypeOK
  <2>8. BuiltRight(k)' => staging'[k] = k[2]
    BY <2>4, <2>5, <2>7 DEF BuiltRight
  <2>9. ASSUME NEW j \in Repo \X Oid, j # k PROVE Held(j)'
    <3>1. i \notin Built(j)
      BY <2>3 DEF Built
    <3>2. (BuiltRight(j)' <=> BuiltRight(j)) /\ (Good(j)' <=> Good(j))
      BY <1>2, <2>4, <2>6, <2>9, <3>1 DEF BuiltRight, Good, others, Built
    <3> QED BY <1>2, <2>7, <2>9, <3>2 DEF RetryInv, Held
  <2>10. Held(k)'
    BY <2>8 DEF Held, Good
  <2>11. Moved(c, s, call[c].answer, call[c].body)
    BY <1>0, <1>2, GoMoves DEF TypeInv, Steps
  <2>12. Mine(c)' = k
    BY <2>2, <2>11 DEF Mine, Moved
  <2>13. Good(Mine(c))' => staging'[k] = k[2]
    BY <2>8, <2>12 DEF Good, BuiltRight, Built
  <2>14. CarriesOn(c)'
    <3>1. \A d \in Call : call'[d] # Idle => d = c
      BY <1>0, <2>11 DEF CarriesOn, Moved
    <3>2. Staging(c)' = staging'[k]
      BY <2>12 DEF Staging
    <3> QED BY <1>0, <2>2, <2>11, <2>13, <3>1, <3>2 DEF CarriesOn, Knows, Moved
  <2>15. \A d \in Call \ {c} : CarriesOn(d)'
    BY <1>0, <2>11 DEF CarriesOn, Moved
  <2> QED BY <2>9, <2>10, <2>14, <2>15 DEF RetryInv
<1> QED BY <1>1, <1>2 DEF Complete

\* A call comes in when none is in flight, or goes.
LEMMA ComeAndGo ==
  ASSUME TypeInv, Alone, RetryInv, NEW c \in Call,
         \/ Respond(c)
         \/ \E op, r, o, size, body, id : Accept(c, op, r, o, size, body, id)
  PROVE  RetryInv'
<1>1. UNCHANGED <<live, staging, uploads, others>>
  BY DEF Respond, Accept, bucket
<1>2. \A k \in Repo \X Oid : Held(k)'
  BY <1>1 DEF RetryInv, Held, Good, Built, BuiltRight, others
<1>3. CASE Respond(c)
  <2>1. \A d \in Call : call'[d] = IF d = c THEN Idle ELSE call[d]
    BY <1>3 DEF Respond, TypeInv, TypeOK
  <2>2. ASSUME NEW d \in Call PROVE CarriesOn(d)'
    <3>1. CASE call'[d] = Idle
      BY <3>1 DEF CarriesOn
    <3>2. CASE call'[d] # Idle
      <4>1. call'[d] = call[d] /\ \A e \in Call : call'[e] # Idle => e = d
        BY <2>1, <3>2 DEF RetryInv, CarriesOn
      <4>2. Mine(d)' = Mine(d) /\ Staging(d)' = Staging(d) /\ live'[Mine(d)'] = live[Mine(d)]
        BY <1>1, <4>1 DEF Mine, Staging
      <4>3. Good(Mine(d))' <=> Good(Mine(d))
        BY <1>1, <4>2 DEF Good, Built, BuiltRight, others
      <4> QED BY <4>1, <4>2, <4>3 DEF RetryInv, CarriesOn
    <3> QED BY <3>1, <3>2
  <2> QED BY <1>2, <2>2 DEF RetryInv
<1>4. ASSUME NEW op, NEW r, NEW o, NEW size, NEW body, NEW id, Accept(c, op, r, o, size, body, id)
      PROVE  RetryInv'
  <2>1. \A d \in Call : call[d] = Idle /\ size = Size[o]
    BY <1>4 DEF Accept, Alone
  <2>2. /\ call'[c].size = Size[call'[c].oid] /\ call'[c].answer = "none"
        /\ call'[c].step \in {"look", "complete"}
        /\ \A d \in Call : call'[d] # Idle => d = c
    BY <1>4, <2>1 DEF Accept, FirstStep, TypeInv, TypeOK
  <2>3. \A d \in Call : CarriesOn(d)'
    BY <2>2 DEF CarriesOn, Knows
  <2> QED BY <1>2, <2>3 DEF RetryInv
<1> QED BY <1>3, <1>4

LEMMA RetryStep ==
  ASSUME TypeInv, TypeInv', HashInv, Alone, RetryInv, \A c \in Call : Served(c), [Next]_vars
  PROVE  RetryInv'
<1>1. ASSUME NEW c \in Call,
             \/ UploadLook(c) \/ UploadPut(c) \/ VerifyLook(c) \/ HashStaging(c)
             \/ PeekLive(c) \/ VerifyCopy(c) \/ VerifyLookup(c) \/ VerifyMember(c)
             \/ Salvage(c) \/ SalvageLive(c) \/ SalvageMember(c)
             \/ CheckStaging(c) \/ PromoteRead(c) \/ PromoteWrite(c)
             \/ DropStaging(c) \/ Mark(c) \/ Fail(c)
      PROVE  RetryInv'
  <2>1. call[c] # Idle
    BY <1>1 DEF Idle, At, UploadLook, UploadPut, VerifyLook, HashStaging, PeekLive, VerifyCopy,
       VerifyLookup, VerifyMember, Salvage, SalvageLive, SalvageMember, CheckStaging,
       PromoteRead, PromoteWrite, DropStaging, Mark, Fail
  <2> QED BY <1>1, <2>1, CallCarriesOn
<1>2. ASSUME NEW r \in Repo, NEW o \in Oid,
             \/ \E size \in Sizes : BatchUpload(r, o, size)
             \/ \E content \in setting.contents : PutToLink(r, o, content)
      PROVE  RetryInv'
  BY <1>2 DEF BatchUpload, PutToLink, Alone, HashInv
<1>3. ASSUME NEW r \in Repo, NEW o \in Oid, LinkExpires(r, o) PROVE RetryInv'
  <2>1. UNCHANGED <<live, staging, uploads, call, trashed>>
    BY <1>3 DEF LinkExpires, bucket, others
  <2> QED BY <2>1, LeftCarriesOn
<1>4. ASSUME NEW i \in UploadId,
             \/ \E r \in Repo, o \in Oid : StartMultipart(i, r, o)
             \/ AbortMultipart(i)
             \/ \E content \in setting.contents : UploadParts(i, content)
      PROVE  RetryInv'
  <2>1. UNCHANGED <<live, staging, call, trashed>>
    BY <1>4 DEF StartMultipart, AbortMultipart, UploadParts, bucket, others
  <2>2. \A j \in UploadId : \/ uploads'[j] = uploads[j]
                            \/ uploads[j].state # "completed" /\ uploads'[j].state # "completed"
    <3>1. uploads[i] \in Upload
      BY DEF TypeInv, TypeOK
    <3> QED BY <1>4, <3>1 DEF StartMultipart, AbortMultipart, UploadParts, TypeInv, TypeOK, Upload
  <2> QED BY <2>1, <2>2, LeftCarriesOn
<1>5. ASSUME NEW k \in Prefix \X Oid, TrashLive(k) PROVE RetryInv'
  <2>1. \A j \in Repo \X Oid : live'[j] = live[j] \/ j \in trashed'
    BY <1>5 DEF TrashLive, TypeInv, TypeOK, Prefix
  <2> QED BY <1>5, <2>1, LeftCarriesOn DEF TrashLive
<1>6. CASE UNCHANGED vars
  BY <1>6, LeftCarriesOn DEF vars
<1> QED
  BY <1>1, <1>2, <1>3, <1>4, <1>5, <1>6, CompleteCarriesOn, ComeAndGo DEF Next

-----------------------------------------------------------------------------
(* The theorems. *)

\* The state of the bucket and of every request in flight is well typed, and
\* a request is only ever at the steps of its own handler
\* (lfs.ts upload and verify, multipart.ts completeMultipart).
THEOREM UploadsTyped == Spec => []TypeOK
<1>1. Init => TypeInv
  BY InitHolds
<1>2. TypeInv /\ [Next]_vars => TypeInv'
  BY StepKeeps DEF Kept
<1>3. TypeInv => TypeOK
  BY DEF TypeInv
<1> QED
  BY <1>1, <1>2, <1>3, PTL DEF Spec

\* In the shared layout a repository is marked as a reader of an object only if
\* it has sent the object's content itself, however its requests, links and
\* multipart uploads interleave with those of other repositories; the one
\* exception the code makes is presigned mode with VERIFY_UPLOADS off
\* (lfs.ts isMember, upload and verify, multipart.ts completeMultipart).
THEOREM OnlyUploadersRead == Spec => []ReadersUploaded
<1> DEFINE Inv == TypeInv /\ (TakesClaims \/ SuppliedInv)
<1>1. Init => Inv
  BY InitHolds
<1>2. Inv /\ [Next]_vars => Inv'
  <2>1. TypeInv /\ [Next]_vars => (TakesClaims' <=> TakesClaims)
    BY SettingStays DEF TakesClaims, Presigned, Staged
  <2> QED
    BY <2>1, StepKeeps DEF Kept
<1>3. Inv => ReadersUploaded
  BY DEF SuppliedInv, ReadersSent, ReadersUploaded
<1> QED
  BY <1>1, <1>2, <1>3, PTL DEF Spec

\* Stored content hashes to its oid: always when R2 checks the hash of what the
\* Worker sends it, and with presigned uploads that are verified as long as
\* nobody writes the staging key of an upload between its hash check and its
\* copy (lfs.ts verify, upload, multipart.ts completeMultipart).
THEOREM StoredContentIsRight == Spec => []StoredContentHashes
<1> DEFINE Inv == TypeInv /\ (HashesChecked => HashInv)
<1>1. Init => Inv
  BY InitHolds
<1>2. Inv /\ [Next]_vars => Inv'
  <2>1. TypeInv /\ [Next]_vars => (HashesChecked' <=> HashesChecked)
    BY SettingStays DEF HashesChecked, Presigned, Staged
  <2> QED
    BY <2>1, StepKeeps DEF Kept
<1>3. Inv => StoredContentHashes
  BY DEF HashInv, StoredContentHashes
<1> QED
  BY <1>1, <1>2, <1>3, PTL DEF Spec

\* Whoever is told that an upload, a verification or a multipart complete went well
\* can download the object, or could until gc moved it to the trash, whatever other
\* calls, clients with links and gc do meanwhile
\* (lfs.ts upload and verify, multipart.ts completeMultipart).
THEOREM AcceptedCanBeRead == Spec => []AcceptedIsReadable
<1> DEFINE Inv == TypeInv /\ \A c \in Call : Served(c)
<1>1. Init => Inv
  <2>1. Init => \A c \in Call : Served(c)
    BY DEF Init, Served
  <2> QED BY <2>1, InitHolds
<1>2. Inv /\ [Next]_vars => Inv'
  BY StepKeeps, ServedStep DEF Kept
<1>3. Inv => AcceptedIsReadable
  <2> SUFFICES ASSUME Inv, NEW c \in Call, At(c, "done"), call[c].answer = "ok"
               PROVE  \/ Readable(call[c].repo, call[c].oid)
                      \/ /\ IsMember(call[c].repo, call[c].oid)
                         /\ <<Home(call[c].repo), call[c].oid>> \in trashed
    BY DEF AcceptedIsReadable
  <2>1. call[c] # Idle
    BY DEF At, Idle
  <2> QED BY <2>1 DEF Served, Sees, At, Arrived, HomeKey, Readable
<1> QED
  BY <1>1, <1>2, <1>3, PTL DEF Spec

\* In the per-repo layout and proxy mode, a client that sends its calls one after
\* the other may repeat a multipart complete wherever earlier calls have stopped: it
\* is not refused once R2 has put the upload together from the right content. The
\* content waits in the staging key until it is live, and every step of the one call
\* in flight knows where it is (multipart.ts completeMultipart).
THEOREM RetryCarriesOn == Spec => []RetryIsNotRefused
<1> DEFINE Inv == /\ TypeInv
                  /\ HashesChecked => HashInv
                  /\ \A c \in Call : Served(c)
                  /\ Alone => RetryInv
<1>1. Init => Inv
  <2> SUFFICES ASSUME Init PROVE (\A c \in Call : Served(c) /\ CarriesOn(c)) /\ \A k \in Repo \X Oid : Held(k)
    BY InitHolds DEF RetryInv
  <2>1. \A k \in Repo \X Oid : Built(k) = {}
    BY DEF Init, Built
  <2> QED BY <2>1 DEF Init, Served, CarriesOn, Held, Good
<1>2. Inv /\ [Next]_vars => Inv'
  <2> SUFFICES ASSUME Inv, [Next]_vars PROVE Inv'
    OBVIOUS
  <2>1. setting' = setting
    BY SettingStays
  <2>2. (Alone' <=> Alone) /\ (HashesChecked' <=> HashesChecked)
    BY <2>1 DEF Alone, Shared, Presigned, HashesChecked, Staged
  <2>3. TypeInv' /\ (HashesChecked' => HashInv') /\ \A c \in Call : Served(c)'
    BY <2>2, StepKeeps, ServedStep DEF Kept
  <2>4. Alone => HashInv
    BY DEF Alone, HashesChecked
  <2> QED BY <2>2, <2>3, <2>4, RetryStep
<1>3. Inv => RetryIsNotRefused
  <2> SUFFICES ASSUME Inv, Alone, NEW c \in Call, At(c, "done"), call[c].op = "complete", Rightful(c),
                      Mine(c) \notin trashed
               PROVE  call[c].answer # "mismatch"
    BY DEF RetryIsNotRefused, RetriesCarryOn, Alone, Mine, Home
  <2>1. call[c] # Idle /\ Mine(c)[2] = call[c].oid
    BY DEF At, Idle, Mine
  <2>2. Good(Mine(c))
    BY <2>1 DEF Rightful, Good, BuiltRight
  <2> QED BY <2>1, <2>2 DEF RetryInv, CarriesOn, Knows
<1> QED
  BY <1>1, <1>2, <1>3, PTL DEF Spec
=============================================================================
