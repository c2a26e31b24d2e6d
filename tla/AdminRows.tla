------------------------------ MODULE AdminRows ------------------------------
(***************************************************************************)
(* The admin UI's pages that list locks and tokens and take one away       *)
(* (src/routes/[_]admin/locks.tsx, tokens.tsx), the server functions       *)
(* behind them (src/app/admin-locks.ts, admin-tokens.ts) and audited(),    *)
(* which wraps them (src/app/admin-audit.ts).                              *)
(*                                                                         *)
(* A row is a lock or a token: its id, which is made anew each time, and   *)
(* what the person reads, the path and the holder or the label.  While a   *)
(* person looks at the list and at the dialog, others take rows away and   *)
(* make new ones that read alike.                                          *)
(***************************************************************************)
EXTENDS AuditLog

CONSTANTS
  Row,        \* the ids of locks or tokens
  Reading,    \* what a row says: a path and its holder, a label
  Changes,    \* the changes the person confirms (a bound)
  NoRow

ASSUME AdminRowsAssumption == Changes \in Nat

VARIABLES
  rows,       \* what the store holds: what each row there says
  spent,      \* the ids given out so far
  listed,     \* the rows as the page last loaded them
  asked,      \* the row in the confirmation, and what it says
  change,     \* each change the person confirmed: the page's part and the Worker's
  changes     \* how many there were

rowVars == <<rows, spent, listed, asked, change, changes>>

Line == [id : Row, says : Reading]
Partial == UNION {[S -> Reading] : S \in SUBSET Row}
LineAt(id) == [id |-> id, says |-> rows[id]]

Change ==
  [line : Line, step : {"sent", "found", "record", "answered", "over"},
   result : {"none", "done", "failed", "refused", "thrown"},
   took : SUBSET Line, entry : {"none", "done", "failed", "refused", "lost"}, heard : BOOLEAN]

RowTypes ==
  /\ rows \in Partial /\ listed \in Partial
  /\ DOMAIN rows \cup DOMAIN listed \subseteq spent /\ spent \subseteq Row
  /\ asked \in Line \cup {NoRow}
  /\ changes \in 0..Changes /\ DOMAIN change = 1..changes
  /\ \A c \in 1..changes : change[c] \in Change

RowsInit ==
  /\ rows \in Partial /\ spent = DOMAIN rows /\ listed = rows
  /\ asked = NoRow /\ change = <<>> /\ changes = 0

-----------------------------------------------------------------------------
(* The person. *)

\* Any load of the page: opening it, another page of it, the reload of the router.
Load ==
  /\ listed' = rows
  /\ UNCHANGED <<rows, spent, asked, change, changes>>

BusyRows == \E c \in 1..changes : change[c].heard

AskRow(id) ==
  /\ asked = NoRow /\ ~BusyRows /\ changes < Changes
  /\ id \in DOMAIN listed
  /\ asked' = [id |-> id, says |-> listed[id]]
  /\ UNCHANGED <<rows, spent, listed, change, changes>>

CancelRow ==
  /\ asked # NoRow /\ asked' = NoRow
  /\ UNCHANGED <<rows, spent, listed, change, changes>>

ConfirmRow ==
  /\ asked # NoRow /\ asked' = NoRow
  /\ change' = Append(change, [line |-> asked, step |-> "sent", result |-> "none",
                               took |-> {}, entry |-> "none", heard |-> TRUE])
  /\ changes' = changes + 1
  /\ UNCHANGED <<rows, spent, listed>>

\* The answer arrives: a change that was done loads the list again.
Hear(c) ==
  /\ change[c].step = "answered" /\ change[c].heard
  /\ change' = [change EXCEPT ![c].heard = FALSE, ![c].step = "over"]
  /\ listed' = IF change[c].result = "done" THEN rows ELSE listed
  /\ UNCHANGED <<rows, spent, asked, changes>>

\* The connection breaks, or the person leaves for another page.
Leave(c) ==
  /\ change[c].heard
  /\ change' = [change EXCEPT ![c].heard = FALSE]
  /\ UNCHANGED <<rows, spent, listed, asked, changes>>

-----------------------------------------------------------------------------
(* The Worker. *)

EndsAs(c, result) == change' = [change EXCEPT ![c].step = "record", ![c].result = result]

\* The person may only look.
RefuseChange(c) ==
  /\ change[c].step = "sent" /\ EndsAs(c, "refused")
  /\ UNCHANGED <<rows, spent, listed, asked, changes>>

\* forceUnlock's find, revokeToken's load; an id that is not there is a 404.
Find(c) ==
  /\ change[c].step = "sent"
  /\ IF change[c].line.id \in DOMAIN rows
       THEN change' = [change EXCEPT ![c].step = "found"]
       ELSE EndsAs(c, "failed")
  /\ UNCHANGED <<rows, spent, listed, asked, changes>>

Meant_Alike(line) == {id \in DOMAIN rows : rows[id] = line.says}
Meant(line) == {line.id} \cap DOMAIN rows

\* The store takes it away, and may fail to answer; or it refuses, as the tokens
\* file does that has changed since.
TakeAway(c) ==
  LET ids == Meant(change[c].line)
  IN /\ change[c].step = "found"
     /\ \/ /\ \E result \in {"done", "thrown"} :
                change' = [change EXCEPT ![c].step = "record", ![c].result = result,
                                         ![c].took = {LineAt(id) : id \in ids}]
           /\ rows' = [id \in DOMAIN rows \ ids |-> rows[id]]
        \/ /\ \E result \in {"failed", "thrown"} : EndsAs(c, result)
           /\ rows' = rows
  /\ UNCHANGED <<spent, listed, asked, changes>>

EntryFor_Answers(result) == IF result = "thrown" THEN {"none"} ELSE Written(result)

\* audited(): an exception is recorded as a failure and thrown on.
EntryFor(result) == Written(IF result = "thrown" THEN "failed" ELSE result)

RecordChange(c) ==
  /\ change[c].step = "record"
  /\ \E entry \in EntryFor(change[c].result) :
       change' = [change EXCEPT ![c].step = "answered", ![c].entry = entry]
  /\ UNCHANGED <<rows, spent, listed, asked, changes>>

\* The isolate stops before the entry is written.
EvictChange(c) ==
  /\ change[c].step \in {"sent", "found", "record"}
  /\ change' = [change EXCEPT ![c].step = "over", ![c].heard = FALSE]
  /\ UNCHANGED <<rows, spent, listed, asked, changes>>

-----------------------------------------------------------------------------
(* Everybody else locks, unlocks, makes and revokes. *)

TakeRow(id) ==
  /\ id \in DOMAIN rows
  /\ rows' = [i \in DOMAIN rows \ {id} |-> rows[i]]
  /\ UNCHANGED <<spent, listed, asked, change, changes>>

MakeRow(id, says) ==
  /\ id \notin spent
  /\ spent' = spent \cup {id}
  /\ rows' = [i \in DOMAIN rows \cup {id} |-> IF i = id THEN says ELSE rows[i]]
  /\ UNCHANGED <<listed, asked, change, changes>>

RowsNext ==
  \/ Load \/ CancelRow \/ ConfirmRow
  \/ \E id \in Row : AskRow(id) \/ TakeRow(id) \/ \E says \in Reading : MakeRow(id, says)
  \/ \E c \in 1..changes : \/ Hear(c) \/ Leave(c) \/ RefuseChange(c) \/ Find(c) \/ TakeAway(c)
                           \/ RecordChange(c) \/ EvictChange(c)

RowsSpec == RowsInit /\ [][RowsNext]_rowVars

-----------------------------------------------------------------------------
\* A change takes away the row the dialog named and no other, which says what
\* the dialog said; one that was done leaves none of that id.
NamedRowOnly ==
  \A c \in 1..changes :
    /\ change[c].took \subseteq {change[c].line}
    /\ change[c].result = "done" => change[c].line.id \notin DOMAIN rows

\* What a change took away is in the log, however it ended, unless the isolate
\* stopped first or the log could not be written; a refusal took nothing.
RowsRecorded ==
  \A c \in 1..changes :
    /\ change[c].step = "answered" /\ change[c].took # {} => change[c].entry \in {"done", "failed", "lost"}
    /\ change[c].entry = "refused" => change[c].took = {}
    /\ change[c].entry = "done" => change[c].line.id \notin DOMAIN rows
=============================================================================
