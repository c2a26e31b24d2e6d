------------------------------ MODULE AdminPage ------------------------------
(***************************************************************************)
(* A repository's page of the admin UI, which trashes, restores and tiers  *)
(* selected objects (src/routes/[_]admin/repos.$owner.$name.tsx), and the  *)
(* Worker's requests that do it (src/app/admin-objects.ts, audited by      *)
(* src/app/admin-audit.ts).                                                *)
(*                                                                         *)
(* A run sends its objects in requests of MaxChanges, one after the other. *)
(* A request works on one object at a time, by the procedures of Trash,    *)
(* and interleaves with everybody else's.  The table is mounted anew on    *)
(* each tab and page: the runs of the table before it go on unseen, and    *)
(* the new one does not know of them.  Answers get lost, the person's      *)
(* rights may end, isolates stop.                                          *)
(***************************************************************************)
EXTENDS Trash, AuditLog

CONSTANTS
  Tab,          \* the movers that are the requests of this page
  MaxChanges,   \* MAX_STORAGE_CHANGES, the objects one request may change
  MaxRuns,      \* the runs the person starts (a bound)
  None

ASSUME AdminPageAssumption ==
  /\ Tab \subseteq Mover /\ IsFiniteSet(Oid) /\ {"trash", "restore", "tier"} \subseteq Ops
  /\ MaxChanges \in Nat \ {0} /\ MaxRuns \in Nat

VARIABLES
  page,         \* the tab, the listing, the selection, the dialog, the report
  runOf,        \* the page's run behind each request, while it goes on
  request,      \* what the Worker does for it
  moved,        \* the objects a run has put under their live key or removed from it
  runs          \* the runs started

pageVars == <<page, runOf, request, moved, runs>>

Kinds(where) == IF where = "live" THEN {"trash", "tier"} ELSE {"restore"}
\* "failed" is every answer that changed nothing as far as the caller knows: also "missing", and
\* the "locked" of a tier.
Outcomes == {"trashed", "locked", "restored", "tiered", "failed"}
Results == UNION {[S -> Outcomes] : S \in SUBSET Oid}
Nothing == [o \in {} |-> "failed"]
Over(new, old) == [o \in DOMAIN new \cup DOMAIN old |-> IF o \in DOMAIN new THEN new[o] ELSE old[o]]
Stored(where) == IF where = "live" THEN live ELSE trash

Run == [kind : Ops, rest : SUBSET Oid, results : Results, shown : BOOLEAN]
Request == [kind : Ops, todo : SUBSET Oid, replies : Results, entry : {"none", "done", "refused", "lost"}]
Report == [by : Tab, kind : Ops, results : Results, stopped : BOOLEAN]

ASSUME NoneAssumption == None \notin Request

PageTypes ==
  /\ page.where \in {"live", "trash"}
  /\ page.listing \subseteq Oid /\ page.selected \subseteq Oid
  /\ page.report # None => page.report \in Report
  /\ \A m \in Tab : /\ runOf[m] # None => runOf[m] \in Run
                    /\ request[m] # None => request[m] \in Request
                    /\ moved[m] \subseteq Oid
  /\ runs \in 0..MaxRuns

Mounted(where, listing) ==
  [where |-> where, listing |-> listing, selected |-> {}, dialog |-> None, report |-> None]

PageInit ==
  /\ page = Mounted("live", live)
  /\ runOf = [m \in Tab |-> None] /\ request = [m \in Tab |-> None]
  /\ moved = [m \in Tab |-> {}]
  /\ runs = 0

-----------------------------------------------------------------------------
(* The person. *)

\* useAction: one task at a time, of those this table started.
BusyPage == \E m \in Tab : runOf[m] # None /\ runOf[m].shown

\* Another tab or page: the loader lists it, and a new table is mounted.
Browse(where) ==
  /\ page.dialog = None
  /\ page' = Mounted(where, Stored(where))
  /\ runOf' = [m \in Tab |-> IF runOf[m] = None THEN None ELSE [runOf[m] EXCEPT !.shown = FALSE]]
  /\ UNCHANGED <<request, moved, runs, vars>>

Toggle(o) ==
  /\ page.dialog = None /\ o \in page.listing
  /\ page' = [page EXCEPT !.selected = (@ \ {o}) \cup ({o} \ @)]
  /\ UNCHANGED <<runOf, request, moved, runs, vars>>

\* The dialog names the selected objects the table still lists.
Ask(kind) ==
  /\ page.dialog = None /\ ~BusyPage /\ page.selected # {} /\ runs < MaxRuns
  /\ kind \in Kinds(page.where)
  /\ page' = [page EXCEPT !.dialog = [kind |-> kind, oids |-> page.listing \cap page.selected]]
  /\ UNCHANGED <<runOf, request, moved, runs, vars>>

Cancel ==
  /\ page.dialog # None
  /\ page' = [page EXCEPT !.dialog = None]
  /\ UNCHANGED <<runOf, request, moved, runs, vars>>

Begin(m, kind, oids) ==
  /\ ~BusyPage /\ runOf[m] = None /\ request[m] = None /\ runs < MaxRuns
  /\ runOf' = [runOf EXCEPT ![m] = [kind |-> kind, rest |-> oids, results |-> Nothing, shown |-> TRUE]]
  /\ page' = [page EXCEPT !.dialog = None, !.report = None]
  /\ moved' = [moved EXCEPT ![m] = {}]
  /\ runs' = runs + 1
  /\ UNCHANGED <<request, vars>>

Confirm(m) == page.dialog # None /\ Begin(m, page.dialog.kind, page.dialog.oids)

Reported(outcome) == {o \in DOMAIN page.report.results : page.report.results[o] = outcome}

Undo(m) ==
  /\ page.dialog = None /\ page.report # None /\ page.report.kind = "trash"
  /\ Reported("trashed") # {}
  /\ Begin(m, "restore", Reported("trashed"))

-----------------------------------------------------------------------------
(* The run, in the browser. *)

Fewer(a, b) == IF a < b THEN a ELSE b
Batches(oids) == kSubset(Fewer(MaxChanges, Cardinality(oids)), oids)

Send(m) ==
  /\ runOf[m] # None /\ request[m] = None
  /\ \E batch \in Batches(runOf[m].rest) \ {{}} :
       /\ request' = [request EXCEPT ![m] = [kind |-> runOf[m].kind, todo |-> batch,
                                            replies |-> Nothing, entry |-> "none"]]
       /\ runOf' = [runOf EXCEPT ![m].rest = @ \ batch]
  /\ UNCHANGED <<page, moved, runs, vars>>

Reporting(m, stopped) ==
  IF runOf[m].shown
    THEN [by |-> m, kind |-> runOf[m].kind, results |-> runOf[m].results, stopped |-> stopped]
    ELSE page.report

AfterFailure_GoesOn(m) ==
  IF runOf[m].rest # {} THEN UNCHANGED <<runOf, page>>
  ELSE /\ page' = [page EXCEPT !.report = Reporting(m, TRUE)]
       /\ runOf' = [runOf EXCEPT ![m] = None]

\* A request that failed ends the run; selection and listing stay as they are.
AfterFailure(m) ==
  /\ page' = [page EXCEPT !.report = Reporting(m, TRUE)]
  /\ runOf' = [runOf EXCEPT ![m] = None]

Receive(m) ==
  /\ runOf[m] # None /\ request[m] # None /\ request[m].entry # "none"
  /\ request' = [request EXCEPT ![m] = None]
  /\ IF request[m].todo # {} THEN AfterFailure(m)
     ELSE /\ runOf' = [runOf EXCEPT ![m].results = Over(request[m].replies, @)]
          /\ page' = page
  /\ UNCHANGED <<moved, runs, vars>>

\* The connection breaks: the Worker may still be at it, or has stopped.
LoseAnswer(m) ==
  /\ runOf[m] # None /\ request[m] # None
  /\ AfterFailure(m)
  /\ UNCHANGED <<request, moved, runs, vars>>

\* All requests answered: the report, a fresh selection, a fresh listing.
Finish(m) ==
  /\ runOf[m] # None /\ request[m] = None /\ runOf[m].rest = {}
  /\ page' = [page EXCEPT !.report = Reporting(m, FALSE), !.listing = Stored(page.where),
                          !.selected = IF runOf[m].shown THEN {} ELSE @]
  /\ runOf' = [runOf EXCEPT ![m] = None]
  /\ UNCHANGED <<request, moved, runs, vars>>

-----------------------------------------------------------------------------
(* The requests, in the Worker. *)

Working(m) == request[m] # None /\ request[m].entry = "none"

\* ADMIN_EMAILS no longer lists the person: refused, recorded, nothing done.
Refuse(m) ==
  /\ Working(m) /\ job[m] = Idle /\ request[m].replies = Nothing
  /\ \E entry \in Written("refused") : request' = [request EXCEPT ![m].entry = entry]
  /\ UNCHANGED <<page, runOf, moved, runs, vars>>

Take(m, o) ==
  /\ Working(m) /\ o \in request[m].todo
  /\ Start(m, request[m].kind, o)
  /\ UNCHANGED pageVars

Moves(m) ==
  \/ TierHead(m) \/ CopyRead(m) \/ CopyWrite(m) \/ DeleteLive(m) \/ CheckLive(m) \/ DropCopy(m)

Work(m) ==
  /\ Moves(m)
  /\ moved' = IF live' = live THEN moved ELSE [moved EXCEPT ![m] = @ \cup {job[m].oid}]
  /\ UNCHANGED <<page, runOf, request, runs>>

Outcome(answer) == IF answer \in Outcomes THEN answer ELSE "failed"

Collect(m) ==
  /\ Working(m) /\ Acknowledge(m)
  /\ request' = [request EXCEPT ![m].todo = @ \ {job[m].oid},
                                ![m].replies = Over(@, [o \in {job[m].oid} |-> Outcome(job[m].answer)])]
  /\ UNCHANGED <<page, runOf, moved, runs>>

Record(m) ==
  /\ Working(m) /\ request[m].todo = {}
  /\ \E entry \in Written("done") : request' = [request EXCEPT ![m].entry = entry]
  /\ UNCHANGED <<page, runOf, moved, runs, vars>>

\* Nobody waits for the answer any more.
Unheard(m) ==
  /\ runOf[m] = None /\ request[m] # None /\ request[m].entry # "none"
  /\ request' = [request EXCEPT ![m] = None]
  /\ UNCHANGED <<page, runOf, moved, runs, vars>>

\* The isolate stops, in the middle of an object or between two.
Evict(m) ==
  /\ Working(m)
  /\ \/ Crash(m)
     \/ job[m] = Idle /\ UNCHANGED vars
  /\ request' = [request EXCEPT ![m] = None]
  /\ IF runOf[m] = None THEN UNCHANGED <<page, runOf>> ELSE AfterFailure(m)
  /\ UNCHANGED <<moved, runs>>

\* gc, restore commands, uploads and the lifecycle rule.
Others ==
  /\ \/ \E m \in Mover \ Tab : \/ \E op \in Ops, o \in Oid : Start(m, op, o)
                               \/ Moves(m) \/ Acknowledge(m) \/ Crash(m)
     \/ \E o \in Oid : Upload(o) \/ Expire(o)
  /\ UNCHANGED pageVars

PageNext ==
  \/ \E where \in {"live", "trash"} : Browse(where)
  \/ \E o \in Oid : Toggle(o)
  \/ \E kind \in Ops : Ask(kind)
  \/ Cancel
  \/ \E m \in Tab : \/ Confirm(m) \/ Undo(m) \/ Send(m) \/ Receive(m) \/ LoseAnswer(m) \/ Finish(m)
                    \/ Refuse(m) \/ (\E o \in Oid : Take(m, o))
                    \/ Work(m) \/ Collect(m) \/ Record(m) \/ Unheard(m) \/ Evict(m)
  \/ Others

PageSpec == Init /\ PageInit /\ [][PageNext]_<<vars, pageVars>>

-----------------------------------------------------------------------------
\* A run's report accounts for every object it moved, however it ended: it has
\* its outcome, or it is one of the request that went unanswered, of which
\* there is one at most and the report says so.  What was locked has not moved.
RunAccounted ==
  page.report # None =>
    LET r == page.report
        unreported == moved[r.by] \ DOMAIN r.results
    IN /\ unreported # {} => r.stopped
       /\ Cardinality(unreported) <= MaxChanges
       /\ \A o \in DOMAIN r.results \cap moved[r.by] : r.results[o] # "locked"

\* The entry of a change covers what it moved, and that of a refusal is true:
\* the request moved nothing.
EntriesTell ==
  \A m \in Tab : runOf[m] # None /\ request[m] # None =>
    LET its == moved[m] \ DOMAIN runOf[m].results
    IN /\ request[m].entry = "done" => its \subseteq DOMAIN request[m].replies
       /\ request[m].entry = "refused" => its = {}
=============================================================================
