------------------------------ MODULE MCAdmin ------------------------------
(***************************************************************************)
(* The admin UI and what rests on it, one scene each: in a scene only that *)
(* part of the world moves, and the rest stays as it is at first.  "trash" *)
(* is the procedures of the trash alone, with nobody at the page.          *)
(***************************************************************************)
EXTENDS AdminPage, AdminRows, SigningKeys, StorageReport

CONSTANTS Scenes, TheObject

VARIABLE scene

MCEnds == {-2, 4}
PageScenes == {"requests", "runs", "shared"}

\* In the order of R2: owners may start with a digit, before "_", or with a letter.
StoredKey(kind, repo, oid, bytes) == [kind |-> kind, repo |-> repo, oid |-> oid, bytes |-> bytes]
MCKeyOrder ==
  <<StoredKey("object", "0-org/a", "o", 2), StoredKey("incoming", NoReport, "o", 1),
    StoredKey("member", "org/b", "o", 0), StoredKey("other", NoReport, NoReport, 1),
    StoredKey("shared", NoReport, "o", 3), StoredKey("trash", NoReport, "o", 2),
    StoredKey("object", "org/b", "o", 3)>>

\* The session key stays.
SessionKeyStays(bucket) == OfKind({"other"}, Keys) \subseteq bucket

AdminInit ==
  /\ scene \in Scenes
  /\ Init
  /\ scene \notin {"trash"} \cup PageScenes => live = {}
  /\ scene \in {"runs", "shared"} => live \subseteq {TheObject}
  /\ PageInit
  /\ LogInit
  /\ RowsInit
  /\ scene # "rows" => rows = [r \in {} |-> NoRow]
  /\ KeysInit
  /\ scene # "keys" => published = {}
  /\ ReportInit
  /\ IF scene = "storage" THEN SessionKeyStays(Bucket) ELSE layout = "shared" /\ past = <<{}>>

\* The person selects before a run and not while it lists.
Going(most) ==
  /\ runs' <= most
  /\ runs < most \/ \E m \in Tab : runOf[m] # None \/ request[m] # None
  /\ BusyPage /\ BusyPage' => page'.selected = page.selected

OneObject ==
  /\ live' \cup trash' \subseteq {TheObject}
  /\ \A m \in Mover : job'[m] # Idle => job'[m].oid = TheObject

\* One count is kept, and the bucket changes while it lists.
OneCount ==
  /\ SessionKeyStays(past'[Len(past')])
  /\ past' # past => \E c \in Counter : counting[c].step = "list"
  /\ counting' # counting => lastReport = NoReport \/ \E c \in Counter : counting[c].step # "idle"

Alone == \A m \in Mover \ Tab : job'[m] = Idle

AdminNext ==
  /\ scene' = scene
  /\ scene \notin {"trash"} \cup PageScenes => UNCHANGED vars
  /\ scene \notin PageScenes => UNCHANGED pageVars
  /\ scene # "log" => UNCHANGED logVars
  /\ scene # "rows" => UNCHANGED rowVars
  /\ scene # "keys" => UNCHANGED keyVars
  /\ scene # "storage" => UNCHANGED reportVars
  /\ \/ scene = "trash" /\ Next /\ \E m \in Tab : job'[m] = Idle
     \* One run in two requests; two runs over one object; one run and somebody else.
     \/ scene = "requests" /\ PageNext /\ Going(1) /\ Alone
     \/ scene = "runs" /\ PageNext /\ Going(2) /\ OneObject /\ Alone
     \/ scene = "shared" /\ PageNext /\ Going(1) /\ OneObject
     \/ scene = "log" /\ LogNext
     \/ scene = "rows" /\ RowsNext
     \/ scene = "keys" /\ KeysNext
     \/ scene = "storage" /\ ReportNext /\ OneCount

AdminSpec == AdminInit /\ [][AdminNext]_<<scene, vars, pageVars, logVars, rowVars, keyVars, reportVars>>

\* Every variable of the page, the log, the rows and the key memory keeps its type; the
\* audit page's way back has one step for each page shown before this one.
AdminTypes == PageTypes /\ LogTypes /\ RowTypes /\ KeysTypes /\ ReportTypes
\* The audit log tells of the changes that were made (audited(), src/app/admin-audit.ts):
\* its entries are true and cover what changed, and paging shows them all once, in order.
LogHolds == PagesMeet /\ EntriesTell /\ RowsRecorded
Symmetry == Permutations(Tab) \cup Permutations(Check)
=============================================================================
