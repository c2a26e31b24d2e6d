------------------------------ MODULE Archive ------------------------------
(***************************************************************************)
(* `r2-lfs archive` (cli/app/archive.ts): a tag's files in tar parts, put   *)
(* on a draft release one asset at a time (cli/infra/github-cli.ts) and     *)
(* published.  A run may stop anywhere, and is then tried again, perhaps    *)
(* with parts of another size; "the draft release is left in place for you  *)
(* to retry".                                                               *)
(*                                                                         *)
(* Every run writes the parts anew, with its own time in them, so a part is *)
(* the number of the run that wrote it.                                     *)
(***************************************************************************)
EXTENDS Tar

CONSTANTS
  Entries,      \* the sequences of entries that the tag may have
  PartBytes,    \* the part sizes that may be asked for
  Runs          \* bound: how often the command is tried

ASSUME ArchiveAssumption ==
  /\ Entries \subseteq Seq([name : Nat, size : Nat, link : BOOLEAN, target : Nat])
  /\ PartBytes \subseteq Nat /\ Runs \in Nat

VARIABLES
  tagged,       \* the tag's entries
  release,      \* the release: its state, which run wrote each of its assets, and whether
                \* a run has gone on although it was published
  attempt       \* the run going on, or the last one

archiveVars == <<tagged, release, attempt>>

\* The parts' names are their numbers; the only part has a name of its own, 0.
Names == Nat
SumsName == -1
Assets(n) == (IF n = 1 THEN {0} ELSE 1..n) \cup {SumsName}
AllAssets == Assets(Len(SplitParts(tagged, attempt.limit)))

ArchiveTypes ==
  /\ tagged \in Entries
  /\ release.state \in {"none", "draft", "published"}
  /\ release.sums \subseteq Names
  /\ release.unseen \in BOOLEAN
  /\ DOMAIN release.assets \subseteq Names \cup {SumsName}
  /\ \A a \in DOMAIN release.assets : release.assets[a] \in 1..Runs
  /\ attempt.run \in 0..Runs
  /\ attempt.step \in {"over", "check", "write", "draft", "upload", "publish"}
  /\ attempt.limit \in PartBytes
  /\ attempt.todo \subseteq Names \cup {SumsName}

ArchiveInit ==
  /\ tagged \in Entries
  /\ release = [state |-> "none", sums |-> {}, assets |-> <<>>, unseen |-> FALSE]
  /\ attempt \in [run : {0}, step : {"over"}, limit : PartBytes, todo : {{}}]

-----------------------------------------------------------------------------
OnStep(step) == attempt.step = step
Then(step) == attempt' = [attempt EXCEPT !.step = step]
Fail == attempt' = [attempt EXCEPT !.step = "over", !.todo = {}]

Archived(limit) ==
  /\ OnStep("over")
  /\ attempt.run < Runs
  /\ attempt' = [run |-> attempt.run + 1, step |-> "check", limit |-> limit, todo |-> {}]
  /\ UNCHANGED <<tagged, release>>

\* A published release is left alone, unless gh fails to show it: that is taken for
\* there being none.
CheckRelease ==
  /\ OnStep("check")
  /\ \/ Fail /\ release' = release
     \/ Then("write") /\ release' = [release EXCEPT !.unseen = @ \/ release.state = "published"]
  /\ tagged' = tagged

\* Objects are fetched and parts written; an entry may be too large for a part.
WriteParts ==
  /\ OnStep("write")
  /\ \/ CanSplit(tagged, attempt.limit) /\ Then("draft")
     \/ Fail
  /\ UNCHANGED <<tagged, release>>

\* A draft that an earlier run made is used again, with what is on it.
CreateDraft ==
  /\ OnStep("draft")
  /\ \/ /\ release' = [release EXCEPT !.state = IF @ = "none" THEN "draft" ELSE @]
        /\ attempt' = [attempt EXCEPT !.step = "upload",
                                      !.todo = AllAssets]
     \/ release' = release /\ Fail
  /\ UNCHANGED tagged

\* gh replaces an asset of the same name by removing it first.
UploadAsset(a) ==
  /\ OnStep("upload")
  /\ \/ /\ release' = [release EXCEPT
             !.assets = [b \in DOMAIN @ \cup {a} |-> IF b = a THEN attempt.run ELSE @[b]],
             !.sums = IF a = SumsName THEN AllAssets \ {SumsName} ELSE @]
        /\ attempt' = [attempt EXCEPT !.todo = @ \ {a}]
     \/ /\ release' = [release EXCEPT !.assets = [b \in DOMAIN @ \ {a} |-> @[b]],
                                      !.sums = IF a = SumsName THEN {} ELSE @]
        /\ Fail
  /\ UNCHANGED tagged

Uploaded_Some == attempt.todo # AllAssets
Uploaded == attempt.todo = {}

EndUpload ==
  /\ OnStep("upload")
  /\ Uploaded
  /\ Then("publish")
  /\ UNCHANGED <<tagged, release>>

Publish ==
  /\ OnStep("publish")
  /\ release' \in {[release EXCEPT !.state = "published"], release}
  /\ Fail
  /\ UNCHANGED tagged

StopArchive ==
  /\ ~OnStep("over")
  /\ Fail
  /\ UNCHANGED <<tagged, release>>

ArchiveNext ==
  \/ \E limit \in PartBytes : Archived(limit)
  \/ CheckRelease \/ WriteParts \/ CreateDraft \/ EndUpload \/ Publish \/ StopArchive
  \/ \E a \in attempt.todo : UploadAsset(a)

ArchiveSpec == ArchiveInit /\ [][ArchiveNext]_archiveVars

-----------------------------------------------------------------------------
(* What should hold. *)

\* "Assets go onto a draft first: once published, an immutable release cannot change": so
\* whatever earlier tries left on the draft, the parts that a published SHA256SUMS lists
\* are there, and are those that it was made from, as long as gh shows a published release
\* to the runs that follow.
PublishedIsWhole ==
  release.state = "published" /\ ~release.unseen =>
    /\ release.sums \cup {SumsName} \subseteq DOMAIN release.assets
    /\ \A a \in release.sums : release.assets[a] = release.assets[SumsName]

\* The parts have the tag's entries in their order, each is written in no more bytes than
\* asked for, and no two neighbours would have fitted into one.
PartsFit ==
  OnStep("upload") =>
    LET parts == SplitParts(tagged, attempt.limit)
    IN /\ FoldLeft(\o, <<>>, parts) = tagged
       /\ \A i \in DOMAIN parts : parts[i] # <<>> /\ Written(parts[i]) <= attempt.limit
       /\ \A i \in 1 .. Len(parts) - 1 :
            Written(Append(parts[i], Head(parts[i + 1]))) > attempt.limit

\* And the length that begins a PAX record is the record's.
RecordsCountThemselves ==
  \A tail \in 1..1200 : RecordBytes(tail) = tail + Digits(RecordBytes(tail))

ArchiveHolds == PublishedIsWhole /\ PartsFit /\ RecordsCountThemselves
=============================================================================
