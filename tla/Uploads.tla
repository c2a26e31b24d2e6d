------------------------------ MODULE Uploads ------------------------------
(***************************************************************************)
(* How an object gets into the bucket: proxy uploads, presigned uploads    *)
(* that are verified, and multipart uploads that are completed             *)
(* (src/app/lfs.ts, src/app/multipart.ts and the R2 adapters they use).    *)
(*                                                                         *)
(* A call is one request to the Worker.  It moves from one bucket          *)
(* operation to the next, and other calls, clients holding upload links    *)
(* and gc come in between.  The bucket has three kinds of keys: the live   *)
(* key of an object, which the repositories share in the shared layout;    *)
(* one staging key per repository and object, which all three kinds of     *)
(* upload use; and, in the shared layout, one empty marker per repository  *)
(* that may read the object.                                               *)
(*                                                                         *)
(* A content is what a client may send.  Contents are told apart by their  *)
(* hash, so the content that hashes to an oid is that oid; two contents    *)
(* may have the same size.                                                 *)
(***************************************************************************)
EXTENDS Naturals, FiniteSets

CONSTANTS
  Repo, Oid,
  Junk,           \* contents that hash to no oid
  Size,           \* the size of each content
  Call,           \* the requests in flight at once
  UploadId,       \* multipart uploads, each id given out once
  Settings,       \* the deployments, and what else happens on them
  SharedPrefix,   \* the live prefix of the shared layout
  None            \* no content

Content == Oid \cup Junk

ASSUME ContentAssumption == (\A c \in Content : Size[c] \in Nat) /\ None \notin Content
ASSUME SettingsAssumption == Settings \subseteq
  [layout : {"shared", "per-repo"},               \* STORAGE_LAYOUT
   transfer : {"proxy", "presigned"},             \* TRANSFER_MODE
   verifyUploads : BOOLEAN,                       \* VERIFY_UPLOADS
   ops : SUBSET {"upload", "verify", "complete"}, \* what clients ask for
   contents : SUBSET Content,                     \* what they may send
   clients : {"any", "calm", "alone"},            \* how they behave, see MayRewrite and Accept
   gc : BOOLEAN]                                  \* whether live objects are trashed

Prefix == Repo \cup {SharedPrefix}

VARIABLES
  live,       \* what each live key holds
  staging,    \* what each staging key holds
  member,     \* the membership markers
  uploads,    \* the multipart uploads
  links,      \* repositories and oids with a signed link that has not expired
  call,       \* what each request in flight is doing
  supplied,   \* who has sent the content of which oid, ever
  trashed,    \* the live keys whose object gc has moved to the trash
  setting     \* what this deployment is like; it stays so

\* What only gc changes, and what nobody does.
others == <<trashed, setting>>
bucket == <<live, staging, member, others>>
vars == <<live, staging, member, uploads, links, call, supplied, trashed, setting>>

Shared == setting.layout = "shared"
Presigned == setting.transfer = "presigned"

\* Presigned uploads are staged when the Worker checks their hash.
Staged == setting.transfer = "presigned" /\ setting.verifyUploads

Home(r) == IF Shared THEN SharedPrefix ELSE r

Steps == {"look", "put", "hash", "peek", "copy", "lookup", "member", "complete",
          "salvage", "salvage-live", "salvage-member", "check", "read",
          "promote", "delete", "mark"}
Answers == {"ok", "mismatch", "missing", "error"}

Idle == [op |-> "none", step |-> "idle"]
Request == [op : {"upload", "verify", "complete"}, repo : Repo, oid : Oid, size : Nat,
            body : Content \cup {None}, id : UploadId \cup {None},
            aside : BOOLEAN, step : Steps \cup {"done"},
            answer : Answers \cup {"none"}]
Upload == [state : {"new"}] \cup
          [state : {"open", "completed", "aborted"}, repo : Repo, oid : Oid,
           body : Content \cup {None}]

TypeOK ==
  /\ live \in [Prefix \X Oid -> Content \cup {None}]
  /\ staging \in [Repo \X Oid -> Content \cup {None}]
  /\ member \subseteq Repo \X Oid
  /\ uploads \in [UploadId -> Upload]
  /\ links \subseteq Repo \X Oid
  /\ call \in [Call -> {Idle} \cup Request]
  /\ supplied \subseteq Repo \X Oid
  /\ trashed \subseteq Prefix \X Oid
  /\ setting \in Settings
  /\ \A c \in Call : call[c].step = "done" => call[c].answer \in Answers

Init ==
  /\ live = [k \in Prefix \X Oid |-> None]
  /\ staging = [k \in Repo \X Oid |-> None]
  /\ member = {}
  /\ uploads = [i \in UploadId |-> [state |-> "new"]]
  /\ links = {}
  /\ call = [c \in Call |-> Idle]
  /\ supplied = {}
  /\ trashed = {}
  /\ setting \in Settings

-----------------------------------------------------------------------------
At(c, step) == call[c].step = step
Mine(c) == <<call[c].repo, call[c].oid>>
Live(c) == live[<<Home(call[c].repo), call[c].oid>>]
Staging(c) == staging[Mine(c)]

Go(c, step) == call' = [call EXCEPT ![c].step = step]
GoPending(c, step, answer) ==
  call' = [call EXCEPT ![c].step = step, ![c].answer = answer]
Answer(c, answer) == GoPending(c, "done", answer)

Sized(content, size) == content # None /\ Size[content] = size
Supply(r, o, content) ==
  supplied' = IF content = o THEN supplied \cup {<<r, o>>} ELSE supplied

PutLive(c, content) ==
  live' = [live EXCEPT ![<<Home(call[c].repo), call[c].oid>>] = content]

\* In the shared layout, only repositories that uploaded an object read it.
IsMember(r, o) == ~Shared \/ <<r, o>> \in member

\* What a repository can download.
Readable(r, o) == live[<<Home(r), o>>] # None /\ IsMember(r, o)

\* Calm clients do not write the staging key of an upload being verified.
MayRewrite(k) ==
  setting.clients = "calm" => \A c \in Call : call[c] # Idle /\ call[c].op = "verify" => Mine(c) # k

-----------------------------------------------------------------------------
(* Requests come in; links and upload ids are given out. *)

FirstStep(op) == IF op = "complete" THEN "complete" ELSE "look"

\* A client alone waits for each call to end, and names the size of the object.
Accept(c, op, r, o, size, body, id) ==
  /\ call[c] = Idle
  /\ op \in setting.ops
  /\ setting.clients = "alone" => size = Size[o] /\ \A d \in Call : call[d] = Idle
  /\ call' = [call EXCEPT ![c] =
       [op |-> op, repo |-> r, oid |-> o, size |-> size, body |-> body, id |-> id,
        aside |-> FALSE, step |-> FirstStep(op), answer |-> "none"]]
  /\ UNCHANGED <<bucket, uploads, links, supplied>>

\* The client names the size of the pointer file, which may be wrong.
Sizes == {Size[content] : content \in setting.contents}

\* git-lfs is offered a signed link unless the object of the size it names is
\* there already.
BatchUpload(r, o, size) ==
  /\ Presigned
  /\ ~(Sized(live[<<Home(r), o>>], size) /\ IsMember(r, o))
  /\ links' = links \cup {<<r, o>>}
  /\ UNCHANGED <<bucket, uploads, call, supplied>>

LinkExpires(r, o) ==
  /\ links' = links \ {<<r, o>>}
  /\ links' # links
  /\ UNCHANGED <<bucket, uploads, call, supplied>>

\* A client sends any content to its link, as often as it likes.
PutToLink(r, o, content) ==
  /\ <<r, o>> \in links
  /\ MayRewrite(<<r, o>>)
  /\ Supply(r, o, content)
  /\ IF Staged
       THEN staging' = [staging EXCEPT ![<<r, o>>] = content] /\ live' = live
       ELSE live' = [live EXCEPT ![<<Home(r), o>>] = content] /\ staging' = staging
  /\ UNCHANGED <<member, others, uploads, links, call>>

StartMultipart(i, r, o) ==
  /\ uploads[i].state = "new"
  /\ uploads' = [uploads EXCEPT ![i] =
       [state |-> "open", repo |-> r, oid |-> o, body |-> None]]
  /\ UNCHANGED <<bucket, links, call, supplied>>

\* Uploading parts: the last ones sent under each number make up the content.
UploadParts(i, content) ==
  /\ uploads[i].state = "open"
  /\ uploads' = [uploads EXCEPT ![i].body = content]
  /\ Supply(uploads[i].repo, uploads[i].oid, content)
  /\ UNCHANGED <<bucket, links, call>>

AbortMultipart(i) ==
  /\ uploads[i].state = "open"
  /\ uploads' = [uploads EXCEPT ![i].state = "aborted"]
  /\ UNCHANGED <<bucket, links, call, supplied>>

-----------------------------------------------------------------------------
(* PUT /objects/<oid>: the body is in the request. *)

\* A second upload of a stored object is checked on the side, not rewritten.
UploadLook(c) ==
  /\ At(c, "look") /\ call[c].op = "upload"
  /\ call' = [call EXCEPT ![c].step = "put", ![c].aside = (Live(c) # None)]
  /\ UNCHANGED <<bucket, uploads, links, supplied>>

\* R2 refuses a body that does not hash to the oid.
UploadPut(c) ==
  /\ At(c, "put")
  /\ IF call[c].body # call[c].oid
       THEN Answer(c, "mismatch") /\ UNCHANGED <<live, staging, supplied>>
       ELSE /\ Supply(call[c].repo, call[c].oid, call[c].body)
            /\ IF call[c].aside
                 THEN /\ staging' = [staging EXCEPT ![Mine(c)] = call[c].body]
                      /\ live' = live
                      /\ GoPending(c, "delete", "ok")
                 ELSE /\ PutLive(c, call[c].body)
                      /\ staging' = staging
                      /\ GoPending(c, "mark", "ok")
  /\ UNCHANGED <<member, others, uploads, links>>

-----------------------------------------------------------------------------
(* POST /objects/verify. *)

VerifyLook(c) ==
  /\ At(c, "look") /\ call[c].op = "verify"
  /\ IF ~Staged \/ Staging(c) = None THEN Go(c, "lookup")
     ELSE IF Sized(Staging(c), call[c].size) THEN Go(c, "hash")
     ELSE GoPending(c, "delete", "mismatch")
  /\ UNCHANGED <<bucket, uploads, links, supplied>>

\* The staged content is read in full, by verify and by a multipart complete
\* that finds the object stored already.  Gone, it hashes to nothing.
Hashes_AnyContent(c) == Staging(c) # None
Hashes(c) == Staging(c) = call[c].oid

HashStaging(c) ==
  /\ At(c, "hash")
  /\ IF ~Hashes(c) THEN GoPending(c, "delete", "mismatch")
     ELSE IF call[c].op = "verify" THEN Go(c, "peek")
     ELSE GoPending(c, "delete", "ok")
  /\ UNCHANGED <<bucket, uploads, links, supplied>>

PeekLive(c) ==
  /\ At(c, "peek")
  /\ IF call[c].op = "verify"
       THEN IF Live(c) = None THEN Go(c, "copy") ELSE GoPending(c, "delete", "ok")
       ELSE IF Live(c) = None THEN Go(c, "read") ELSE Go(c, "hash")
  /\ UNCHANGED <<bucket, uploads, links, supplied>>

\* The bucket copies whatever the staging key holds by now.
VerifyCopy(c) ==
  /\ At(c, "copy")
  /\ IF Staging(c) = None THEN Answer(c, "error") /\ live' = live
     ELSE PutLive(c, Staging(c)) /\ GoPending(c, "delete", "ok")
  /\ UNCHANGED <<staging, member, others, uploads, links, supplied>>

VerifyLookup(c) ==
  /\ At(c, "lookup")
  /\ IF Live(c) = None THEN Answer(c, "missing")
     ELSE IF ~Sized(Live(c), call[c].size) THEN Answer(c, "mismatch")
     ELSE Go(c, "member")
  /\ UNCHANGED <<bucket, uploads, links, supplied>>

\* Without hash checks a presigned upload cannot be told apart from a claim.
TakesClaims == Presigned /\ ~Staged

VerifyMember(c) ==
  /\ At(c, "member")
  /\ IF IsMember(call[c].repo, call[c].oid) THEN Answer(c, "ok")
     ELSE IF TakesClaims THEN GoPending(c, "mark", "ok")
     ELSE Answer(c, "missing")
  /\ UNCHANGED <<bucket, uploads, links, supplied>>

-----------------------------------------------------------------------------
(* POST /objects/<oid>/multipart/<uploadId>/complete. *)

IsOpen(c) ==
  LET u == uploads[call[c].id]
  IN  u.state = "open" /\ <<u.repo, u.oid>> = Mine(c) /\ u.body # None

\* R2 puts the parts together under the staging key.  The answer may be lost,
\* and there is none for an upload that is over or has no parts.
Complete(c) ==
  /\ At(c, "complete")
  /\ \/ /\ IsOpen(c)
        /\ MayRewrite(Mine(c))
        /\ staging' = [staging EXCEPT ![Mine(c)] = uploads[call[c].id].body]
        /\ uploads' = [uploads EXCEPT ![call[c].id].state = "completed"]
        /\ Go(c, "check") \/ Go(c, "salvage")
     \/ Go(c, "salvage") /\ UNCHANGED <<staging, uploads>>
  /\ UNCHANGED <<live, member, others, links, supplied>>

\* Carrying on from what an earlier call with a lost answer left.
Salvage(c) ==
  /\ At(c, "salvage")
  /\ Go(c, IF Sized(Staging(c), call[c].size) THEN "check" ELSE "salvage-live")
  /\ UNCHANGED <<bucket, uploads, links, supplied>>

AfterSalvageLive_Refuses(c) == Answer(c, "mismatch")

AfterSalvageLive(c) ==
  IF Sized(Live(c), call[c].size) THEN Go(c, "salvage-member")
  ELSE Answer(c, "mismatch")

SalvageLive(c) ==
  /\ At(c, "salvage-live")
  /\ AfterSalvageLive(c)
  /\ UNCHANGED <<bucket, uploads, links, supplied>>

Salvaged(c) == IsMember(call[c].repo, call[c].oid)

SalvageMember(c) ==
  /\ At(c, "salvage-member")
  /\ Answer(c, IF Salvaged(c) THEN "ok" ELSE "mismatch")
  /\ UNCHANGED <<bucket, uploads, links, supplied>>

CheckStaging(c) ==
  /\ At(c, "check")
  /\ IF Sized(Staging(c), call[c].size) THEN Go(c, "peek")
     ELSE GoPending(c, "delete", "mismatch")
  /\ UNCHANGED <<bucket, uploads, links, supplied>>

PromoteRead(c) ==
  /\ At(c, "read")
  /\ IF Staging(c) = None THEN GoPending(c, "delete", "mismatch")
     ELSE call' = [call EXCEPT ![c].step = "promote", ![c].body = Staging(c)]
  /\ UNCHANGED <<bucket, uploads, links, supplied>>

\* What was read is written only if it hashes to the oid.
Promotes_AnyHash(c) == call[c].body # None
Promotes(c) == call[c].body = call[c].oid

PromoteWrite(c) ==
  /\ At(c, "promote")
  /\ IF Promotes(c)
       THEN PutLive(c, call[c].body) /\ GoPending(c, "delete", "ok")
       ELSE GoPending(c, "delete", "mismatch") /\ live' = live
  /\ UNCHANGED <<staging, member, others, uploads, links, supplied>>

-----------------------------------------------------------------------------
(* What all three end with. *)

DropStaging(c) ==
  /\ At(c, "delete")
  /\ staging' = [staging EXCEPT ![Mine(c)] = None]
  /\ IF call[c].answer = "ok" THEN Go(c, "mark") ELSE Go(c, "done")
  /\ UNCHANGED <<live, member, others, uploads, links, supplied>>

Marks_OnlyMissing(c) == Shared /\ Live(c) = None
Marks(c) == Shared

Mark(c) ==
  /\ At(c, "mark")
  /\ member' = IF Marks(c) THEN member \cup {Mine(c)} ELSE member
  /\ Answer(c, "ok")
  /\ UNCHANGED <<live, staging, others, uploads, links, supplied>>

Respond(c) ==
  /\ At(c, "done")
  /\ call' = [call EXCEPT ![c] = Idle]
  /\ UNCHANGED <<bucket, uploads, links, supplied>>

\* A bucket operation fails or the Worker is evicted: the client sees an error.
Fail(c) ==
  /\ call[c] # Idle /\ ~At(c, "done")
  /\ Answer(c, "error")
  /\ UNCHANGED <<bucket, uploads, links, supplied>>

\* gc moves a live object to the trash.
TrashLive(k) ==
  /\ setting.gc
  /\ live[k] # None
  /\ live' = [live EXCEPT ![k] = None]
  /\ trashed' = trashed \cup {k}
  /\ UNCHANGED <<staging, member, uploads, links, call, supplied, setting>>

Next ==
  \/ \E c \in Call :
       \/ \E r \in Repo, o \in Oid, content \in setting.contents :
            Accept(c, "upload", r, o, Size[content], content, None)
       \/ \E r \in Repo, o \in Oid, size \in Sizes : Accept(c, "verify", r, o, size, None, None)
       \/ \E r \in Repo, o \in Oid, size \in Sizes, i \in UploadId :
            Accept(c, "complete", r, o, size, None, i)
       \/ UploadLook(c)
       \/ UploadPut(c)
       \/ VerifyLook(c)
       \/ HashStaging(c)
       \/ PeekLive(c)
       \/ VerifyCopy(c)
       \/ VerifyLookup(c)
       \/ VerifyMember(c)
       \/ Complete(c)
       \/ Salvage(c)
       \/ SalvageLive(c)
       \/ SalvageMember(c)
       \/ CheckStaging(c)
       \/ PromoteRead(c)
       \/ PromoteWrite(c)
       \/ DropStaging(c)
       \/ Mark(c)
       \/ Respond(c)
       \/ Fail(c)
  \/ \E r \in Repo, o \in Oid :
       \/ \E size \in Sizes : BatchUpload(r, o, size)
       \/ LinkExpires(r, o)
       \/ \E content \in setting.contents : PutToLink(r, o, content)
       \/ \E i \in UploadId : StartMultipart(i, r, o)
  \/ \E i \in UploadId : AbortMultipart(i) \/ \E content \in setting.contents : UploadParts(i, content)
  \/ \E k \in Prefix \X Oid : TrashLive(k)

Spec == Init /\ [][Next]_vars

-----------------------------------------------------------------------------
(* What has to hold. *)

\* R2 checks every hash, or the Worker does and clients are calm meanwhile.
HashesChecked == ~Presigned \/ (Staged /\ setting.clients = "calm")

ContentHashes == \A p \in Prefix, o \in Oid : live[<<p, o>>] \in {None, o}

\* Stored content always hashes to its oid, whatever clients send and however
\* their uploads of one object come in between each other's steps.
StoredContentHashes == HashesChecked => ContentHashes

\* In the shared layout a repository can read an object only after uploading
\* its content itself, even if another repository stored the object first.
\* Only where presigned uploads go unchecked is a claim taken for an upload.
ReadersUploaded == ~TakesClaims => member \subseteq supplied

\* A repository that is told an upload, a verification or a multipart complete
\* went well can download the object, whatever the other calls on it did; or
\* it could, and gc has moved the object to the trash.
AcceptedIsReadable ==
  \A c \in Call : At(c, "done") /\ call[c].answer = "ok"
    => \/ Readable(call[c].repo, call[c].oid)
       \/ /\ IsMember(call[c].repo, call[c].oid)
          /\ <<Home(call[c].repo), call[c].oid>> \in trashed

\* The multipart uploads of a repository's object that R2 has put together.
Built(k) == {i \in UploadId : uploads[i].state = "completed" /\ <<uploads[i].repo, uploads[i].oid>> = k}

\* A complete call names the right size, and its upload was put together, like
\* any other of the object, from the content it should hold.
Rightful(c) ==
  /\ call[c].id \in Built(Mine(c))
  /\ \A i \in Built(Mine(c)) : uploads[i].body = call[c].oid
  /\ call[c].size = Size[call[c].oid]

\* A client that lost the answer of a complete may send it again: the upload is
\* not refused if R2 has put it together from what it should hold, unless gc has
\* moved the object to the trash.
RetriesCarryOn ==
  \A c \in Call : At(c, "done") /\ call[c].op = "complete" /\ Rightful(c)
    => call[c].answer # "mismatch" \/ <<Home(call[c].repo), call[c].oid>> \in trashed

\* So it is in the per-repo layout and proxy mode, wherever earlier calls have
\* stopped, for a client that waits for each call to end before it sends the next.
RetryIsNotRefused ==
  ~Shared /\ ~Presigned /\ setting.clients = "alone" => RetriesCarryOn
=============================================================================
