------------------------------ MODULE AuditLog ------------------------------
(***************************************************************************)
(* The audit log of the admin UI (src/infra/r2-audit-log.ts) and the page  *)
(* that shows it (src/routes/[_]admin/audit.tsx).                          *)
(*                                                                         *)
(* An entry is an object whose key sorts by the time left until the end of *)
(* time and then by a random number, so that the bucket lists the newest   *)
(* first.  Its time is taken before it is written: entries of several      *)
(* isolates land late and out of order, also while somebody pages through  *)
(* the log.  What an entry says is left to the modules whose requests      *)
(* write one; here an entry is its key.                                    *)
(***************************************************************************)
EXTENDS Integers, SequencesExt

CONSTANTS
  EndOfLog,   \* the last moment the clock reaches (a bound)
  Random,     \* the random ends a key may have
  PageLimit   \* the entries one page shows

ASSUME AuditLogAssumption ==
  EndOfLog \in Nat /\ Random \subseteq Nat /\ PageLimit \in Nat \ {0}

VARIABLES
  now,        \* the clock, in milliseconds
  landing,    \* the keys of the entries that are being written
  log,        \* the keys of the entries in the bucket
  search,     \* the page's place: its cursor, and those of the pages before it
  seen,       \* the pages shown on the way here, the newest entries first
  older,      \* whether the page shown has older ones behind it
  began       \* the entries in the bucket when the first page was shown

logVars == <<now, landing, log, search, seen, older, began>>

First == {}                              \* the cursor "" of the first page
Key == [at : 0..EndOfLog, left : 0..EndOfLog, random : Random]

\* What record leaves behind: the entry, or nothing but a line on the console.
Written(outcome) == {outcome, "lost"}

TimeLeft(time) == EndOfLog - time

Before(k, l) == k.left < l.left \/ (k.left = l.left /\ k.random < l.random)

\* The bucket lists ascending from behind the cursor, the last key listed: a page has the
\* first of those.
Behind(cursor) == {k \in log : \A c \in cursor : Before(c, k)}
Listing(cursor) ==
  {k \in Behind(cursor) : Cardinality({j \in Behind(cursor) : Before(j, k)}) < PageLimit}
Truncated(cursor) == Listing(cursor) # Behind(cursor)
LastOf(page) == {k \in page : \A l \in page \ {k} : Before(l, k)}

LogTypes ==
  /\ now \in 0..EndOfLog
  /\ landing \subseteq Key /\ log \subseteq Key /\ began \subseteq log
  /\ Len(search.prev) + 1 = Len(seen)
  /\ older \in BOOLEAN

LogInit ==
  /\ now = 0
  /\ landing = {} /\ log = {} /\ began = {}
  /\ search = [cursor |-> First, prev |-> <<>>]
  /\ seen = <<{}>>
  /\ older = FALSE

-----------------------------------------------------------------------------
Tick == /\ now < EndOfLog /\ now' = now + 1
        /\ UNCHANGED <<landing, log, search, seen, older, began>>

\* A change ends, and its entry gets its time and its key.
Describe(r) ==
  LET k == [at |-> now, left |-> TimeLeft(now), random |-> r]
  IN /\ k \notin log \cup landing
     /\ landing' = landing \cup {k}
     /\ UNCHANGED <<now, log, search, seen, older, began>>

\* The entry is in the bucket, or its put fails.
Land(k) ==
  /\ k \in landing
  /\ landing' = landing \ {k}
  /\ log' \in {log, log \cup {k}}
  /\ UNCHANGED <<now, search, seen, older, began>>

\* The page at `place` is loaded, `before` being the pages shown on the way.
Show(place, before) ==
  /\ search' = place
  /\ seen' = Append(before, Listing(place.cursor))
  /\ older' = Truncated(place.cursor)
  /\ began' = IF before = <<>> THEN log ELSE began
  /\ UNCHANGED <<now, landing, log>>

OlderPlace_PushesNext ==
  [cursor |-> LastOf(Last(seen)), prev |-> Append(search.prev, LastOf(Last(seen)))]

\* The page to come gets the listing's cursor, this one's goes on the stack.
OlderPlace == [cursor |-> LastOf(Last(seen)), prev |-> Append(search.prev, search.cursor)]

NewerPlace_KeepsStack == [cursor |-> Last(search.prev), prev |-> search.prev]
NewerPlace == [cursor |-> Last(search.prev), prev |-> Front(search.prev)]

ShowOlder == older /\ Show(OlderPlace, seen)
ShowNewer == search.prev # <<>> /\ Show(NewerPlace, Front(Front(seen)))

\* Opening the page, or loading it again where it is.
Open == Show([cursor |-> First, prev |-> <<>>], <<>>)
Reload == Show(search, Front(seen))

LogNext ==
  \/ Tick
  \/ \E r \in Random : Describe(r)
  \/ \E k \in Key : Land(k)
  \/ ShowOlder \/ ShowNewer \/ Open \/ Reload

LogSpec == LogInit /\ [][LogNext]_logVars

-----------------------------------------------------------------------------
\* Paging to older entries and back, while others are written late and out of
\* order, shows the newest first and none twice, and passes over none of those
\* there when the first page was shown.
PagesMeet ==
  LET shown == UNION Range(seen)
  IN /\ \A i, j \in DOMAIN seen : i < j => \A k \in seen[i], l \in seen[j] : Before(k, l)
     /\ \A k, l \in shown : Before(k, l) => k.at >= l.at
     /\ \A k \in began \ shown : older /\ \A l \in shown : Before(l, k)
=============================================================================
