---------------------------- MODULE StorageReport ----------------------------
(***************************************************************************)
(* The storage report of the admin UI's Overview (src/app/admin-storage.ts,*)
(* src/infra/r2-bucket-lister.ts, r2-storage-report.ts and                 *)
(* src/routes/[_]admin/index.tsx).                                         *)
(*                                                                         *)
(* A count lists the whole bucket, page by page, while uploads, moves to   *)
(* the trash and clean-ups put and remove keys; it stops after MaxPages.   *)
(* The result is kept in the bucket, where a page shows the last one.      *)
(* Time is the number of changes of the bucket so far.                     *)
(***************************************************************************)
EXTENDS Naturals, Sequences, FiniteSets, FiniteSetsExt, SequencesExt

CONSTANTS
  KeyOrder,      \* the keys there may be, in the order R2 lists them
  PageKeys,      \* the keys on a page of a listing, 1000 in R2
  MaxPages,      \* maxPages, the pages a count lists at most
  Layouts,
  NearlyAll,     \* QUOTA_WARNING of the quota, in bytes
  Counter,       \* the people at the Overview
  MaxMoves,      \* the changes of the bucket (a bound)
  NoReport

\* A key is [kind, repo, oid, bytes]; what has no repository or oid has NoReport there.
KeyKinds == {"trash", "incoming", "member", "shared", "object", "other"}

ASSUME StorageReportAssumption ==
  /\ KeyOrder \in Seq(Range(KeyOrder))
  /\ \A i \in DOMAIN KeyOrder : KeyOrder[i].kind \in KeyKinds /\ KeyOrder[i].bytes \in Nat
  /\ PageKeys \in Nat \ {0} /\ MaxPages \in Nat \ {0} /\ MaxMoves \in Nat
  /\ Layouts \subseteq {"per-repo", "shared"}
  /\ NearlyAll \in Nat

VARIABLES
  layout,        \* STORAGE_LAYOUT
  past,          \* the keys the bucket has had, after each change
  counting,      \* each count that goes on
  lastReport,    \* _meta/storage-report.json
  overview       \* the report each Overview shows

reportVars == <<layout, past, counting, lastReport, overview>>

Now == Len(past)
Bucket == past[Now]
Keys == Range(KeyOrder)
Repos == {k.repo : k \in {k \in Keys : k.kind \in {"member", "object"}}}

Tally(keys) == [objects |-> Cardinality(keys), bytes |-> MapThenSumSet(LAMBDA k : k.bytes, keys)]
OfKind(kinds, keys) == {k \in keys : k.kind \in kinds}

\* storageReport: the shared objects a repository has a marker of, both listed.
Uploaded(repo, keys) ==
  {k \in OfKind({"shared"}, keys) :
     \E marker \in OfKind({"member"}, keys) : marker.repo = repo /\ marker.oid = k.oid}

Rows(repo, keys) ==
  {k \in OfKind({"object"}, keys) : k.repo = repo}
    \cup (IF layout = "shared" THEN Uploaded(repo, keys) ELSE {})

CountOf(keys, truncated) ==
  [repositories |-> [repo \in {repo \in Repos : Rows(repo, keys) # {}} |-> Tally(Rows(repo, keys))],
   total |-> Tally(OfKind({"object", "shared"}, keys)),
   trash |-> Tally(OfKind({"trash"}, keys)),
   incoming |-> Tally(OfKind({"incoming"}, keys)),
   truncated |-> truncated]

-----------------------------------------------------------------------------
Uncounted == [step |-> "idle"]
Counting(c, step) == counting[c].step = step

ReportInit ==
  /\ layout \in Layouts
  /\ past \in {<<keys>> : keys \in SUBSET Keys}
  /\ counting = [c \in Counter |-> Uncounted]
  /\ lastReport = NoReport
  /\ overview = [c \in Counter |-> NoReport]

\* countStorage asks for the time before it lists.
StartCount(c) ==
  /\ Counting(c, "idle")
  /\ counting' = [counting EXCEPT ![c] = [step |-> "list", countedAt |-> Now,
                                           listed |-> {}, cursor |-> 0, pages |-> 0]]
  /\ UNCHANGED <<layout, past, lastReport, overview>>

\* R2 lists the keys after a cursor, in order.
KeysAfter(cursor) == {i \in DOMAIN KeyOrder : i > cursor /\ KeyOrder[i] \in Bucket}
PageAfter(cursor) ==
  {i \in KeysAfter(cursor) : Cardinality({j \in KeysAfter(cursor) : j < i}) < PageKeys}

\* The time is asked for after the listing.
Saved_StampedLate(c, listed, truncated) ==
  [countedAt |-> Now, doneAt |-> Now, report |-> CountOf(listed, truncated)]

Saved(c, listed, truncated) ==
  [countedAt |-> counting[c].countedAt, doneAt |-> Now, report |-> CountOf(listed, truncated)]

\* A page at the end of the bucket comes without a cursor.
Unlisted_Unsaid(cursor, pages) == KeysAfter(cursor) # {} /\ pages < MaxPages
Unlisted(cursor, pages) == KeysAfter(cursor) # {}

\* The count goes on until there is no cursor, or for MaxPages.
CountPage(c) ==
  /\ Counting(c, "list")
  /\ LET page == PageAfter(counting[c].cursor)
         listed == counting[c].listed \cup {KeyOrder[i] : i \in page}
         cursor == IF page = {} THEN Len(KeyOrder) ELSE Max(page)
         pages == counting[c].pages + 1
     IN counting' = [counting EXCEPT ![c] =
          IF KeysAfter(cursor) # {} /\ pages < MaxPages
            THEN [@ EXCEPT !.listed = listed, !.cursor = cursor, !.pages = pages]
            ELSE [step |-> "keep", saved |-> Saved(c, listed, Unlisted(cursor, pages))]]
  /\ UNCHANGED <<layout, past, lastReport, overview>>

\* A failure to keep it is only logged.
Keep(c) ==
  /\ Counting(c, "keep")
  /\ lastReport' \in {lastReport, counting[c].saved}
  /\ counting' = [counting EXCEPT ![c] = [step |-> "show"]]
  /\ UNCHANGED <<layout, past, overview>>

\* lastStorageReport: what is kept; nothing, when it cannot be read.
Readable == {lastReport, NoReport}

\* A visit, or router.invalidate after a count.
ShowKept(c) ==
  /\ Counting(c, "idle") \/ Counting(c, "show")
  /\ \E shown \in Readable : overview' = [overview EXCEPT ![c] = shown]
  /\ counting' = [counting EXCEPT ![c] = Uncounted]
  /\ UNCHANGED <<layout, past, lastReport>>

\* A page of the listing fails, or the isolate stops: the page says so and shows what it did.
Abandon(c) ==
  /\ ~Counting(c, "idle")
  /\ counting' = [counting EXCEPT ![c] = Uncounted]
  /\ UNCHANGED <<layout, past, lastReport, overview>>

\* Uploads, gc, the trash, lifecycle rules.
Alter(k) ==
  /\ Now <= MaxMoves
  /\ past' = Append(past, IF k \in Bucket THEN Bucket \ {k} ELSE Bucket \cup {k})
  /\ UNCHANGED <<layout, counting, lastReport, overview>>

ReportNext ==
  \/ \E c \in Counter : StartCount(c) \/ CountPage(c) \/ Keep(c) \/ ShowKept(c) \/ Abandon(c)
  \/ \E k \in Keys : Alter(k)

-----------------------------------------------------------------------------
(* Properties. *)

Count ==
  [step : {"list"}, countedAt : 1..Now, listed : SUBSET Keys, cursor : 0..Len(KeyOrder), pages : Nat]

ReportTypes ==
  /\ past \in Seq(SUBSET Keys) /\ past # <<>>
  /\ DOMAIN counting = Counter /\ DOMAIN overview = Counter
  /\ \A c \in Counter : /\ counting[c].step \in {"idle", "list", "keep", "show"}
                        /\ counting[c].step = "list" => counting[c] \in Count

\* What the bucket had all along between two times, and what it had at some time.
Always(from, to) == {k \in Keys : \A t \in from..to : k \in past[t]}
Ever(from, to) == {k \in Keys : \E t \in from..to : k \in past[t]}

AtMost(a, b) == a.objects <= b.objects /\ a.bytes <= b.bytes

\* The use a quota limits (usage of src/infra/r2-object-store.ts): a repository's own
\* keys, or the pool.
Used(repo, keys) ==
  Tally(IF layout = "shared" THEN OfKind({"shared"}, keys)
        ELSE {k \in OfKind({"object"}, keys) : k.repo = repo}).bytes

RowOf(report, repo) ==
  IF repo \in DOMAIN report.repositories THEN report.repositories[repo] ELSE [objects |-> 0, bytes |-> 0]

\* StorageView marks a repository, or the pool, as nearly full.
Share(report, repo) == IF layout = "shared" THEN report.total.bytes ELSE RowOf(report, repo).bytes
NearlyFull(report, repo) == Share(report, repo) > NearlyAll

Holds(saved) ==
  LET report == saved.report
      least == CountOf(Always(saved.countedAt, saved.doneAt), FALSE)
      most == CountOf(Ever(saved.countedAt, saved.doneAt), FALSE)
  IN /\ \A part \in {"total", "trash", "incoming"} :
          /\ AtMost(report[part], most[part])
          /\ ~report.truncated => AtMost(least[part], report[part])
     /\ \A repo \in Repos :
          /\ AtMost(RowOf(report, repo), RowOf(most, repo))
          /\ ~report.truncated => AtMost(RowOf(least, repo), RowOf(report, repo))
          /\ ~report.truncated /\ Used(repo, Always(saved.countedAt, saved.doneAt)) > NearlyAll
               => NearlyFull(report, repo)

\* A storage report that is kept or shown (countStorage(), src/app/admin-storage.ts) counts
\* at most what was in the bucket at some time since it says it was counted, and all that was
\* there the whole time unless it says it is a lower bound.
ReportHolds ==
  \A saved \in {lastReport} \cup Range(overview) : saved # NoReport => Holds(saved)
=============================================================================
