------------------------------ MODULE Migrate ------------------------------
(***************************************************************************)
(* `r2-lfs migrate` and `init` (cli/app/migrate.ts, init.ts, verify.ts):    *)
(* copying every LFS object of a repository from its old server to r2-lfs.  *)
(* A clone fetches all refs, downloads what they need, points .lfsconfig at *)
(* the new server, uploads and verifies.  Each is a step after which the    *)
(* command may fail or be interrupted and be run again, while others push   *)
(* to the repository as it was.                                             *)
(***************************************************************************)
EXTENDS FiniteSets

CONSTANTS
  Blob          \* the LFS objects of the repository

VARIABLES
  origin,       \* the objects that the remote's branches and tags need
  clone,        \* those that the refs of this clone need
  local,        \* the objects in this clone's LFS storage
  store,        \* the objects on the old and on the new server
  lfsconfig,    \* the server .lfsconfig names: in the tree, as committed, and at first
  override,     \* the server that git's own configuration names, if any
  migration,    \* the run of migrate
  pointed       \* what the clone needed when .lfsconfig was last pointed, and what was downloaded from

migrateVars == <<origin, clone, local, store, lfsconfig, override, migration, pointed>>

\* "renamed" is another owner/name on the Worker that the run is given; "new" is its own.
Server == {"old", "renamed", "new"}
OneOrigin == {"renamed", "new"}
Resting == [at |-> "none"]
\* from: --from, and after the refs what is downloaded from; began: what the remote needed
\* when the run began; wanted: what it verifies.
Running ==
  [at : {"refs", "download", "import", "server", "point", "settings", "commit", "upload",
         "wanted", "verify", "complete", "missing"},
   from : Server \cup {"none"}, import : BOOLEAN, commit : BOOLEAN, began : SUBSET Blob, wanted : SUBSET Blob]

MigrateTypes ==
  /\ origin \subseteq Blob /\ clone \subseteq Blob /\ local \subseteq Blob
  /\ store \in [Server -> SUBSET Blob]
  /\ lfsconfig \in [tree : Server, head : Server, first : Server]
  /\ override \in Server \cup {"none"}
  /\ migration \in Running \cup {Resting}
  /\ pointed \in [needs : SUBSET Blob, from : Server \cup {"none"}]

NeverPointed == [needs |-> {}, from |-> "none"]

\* A clone of a repository whose .lfsconfig names another server than the new one, and whose
\* user may have told git another one, the new one included: the objects are on these two.
\* The clone has no object that no ref needs.
MigrateInit ==
  /\ origin \in SUBSET Blob
  /\ clone \in SUBSET origin
  /\ local \in SUBSET clone
  /\ \E s \in Server \ {"new"} : lfsconfig = [tree |-> s, head |-> s, first |-> s]
  /\ override \in Server \cup {"none"}
  /\ store \in [Server -> SUBSET origin]
  /\ UNION {store[s] : s \in Server} = origin
  /\ \A s \in Server \ {lfsconfig.head, override} : store[s] = {}
  /\ migration = Resting
  /\ pointed = NeverPointed

-----------------------------------------------------------------------------
Migrating(at) == migration # Resting /\ migration.at = at
GoOn(at) == migration' = [migration EXCEPT !.at = at]
GiveUpMigration == migration' = Resting

\* lfs.url: git's own configuration comes before .lfsconfig.
LfsUrl == IF override # "none" THEN override ELSE lfsconfig.tree

Pushed(server, blobs) == [store EXCEPT ![server] = @ \cup blobs]

\* A clone with changes that are not committed is refused.
Migrate(from, import, commit) ==
  /\ migration = Resting
  /\ lfsconfig.tree = lfsconfig.head
  /\ migration' = [at |-> "refs", from |-> from, import |-> import, commit |-> commit,
                   began |-> origin, wanted |-> {}]
  /\ UNCHANGED <<origin, clone, local, store, lfsconfig, override, pointed>>

FetchAll_Branches == \E some \in SUBSET origin : clone' = clone \cup some
FetchAll == clone' = clone \cup origin

\* Only the origin is compared, not the owner and the name.
AlreadyMigrated == LfsUrl \in OneOrigin

\* Without --from, a repository that points at the new Worker is taken for migrated.
Source ==
  IF migration.from # "none" THEN migration.from ELSE IF AlreadyMigrated THEN "none" ELSE LfsUrl

\* A clone without some of the history, or that cannot fetch, is refused.
FetchRefs ==
  /\ Migrating("refs")
  /\ \/ /\ FetchAll
        /\ migration' = [migration EXCEPT !.from = Source,
                                           !.at = IF Source = "none" THEN "import" ELSE "download"]
     \/ clone' = clone /\ GiveUpMigration
  /\ UNCHANGED <<origin, local, store, lfsconfig, override, pointed>>

Downloaded_Tried == TRUE
\* git-lfs succeeds when every object is here in the end.
Downloaded == clone \subseteq local'

Download ==
  /\ Migrating("download")
  /\ \E got \in SUBSET (clone \cap store[migration.from]) : local' = local \cup got
  /\ (Downloaded /\ GoOn("import")) \/ GiveUpMigration
  /\ UNCHANGED <<origin, clone, store, lfsconfig, override, pointed>>

\* Files that were committed as they are become objects.
Import ==
  /\ Migrating("import")
  /\ \/ /\ migration.import
        /\ \E converted \in SUBSET (Blob \ origin) :
             clone' = clone \cup converted /\ local' = local \cup converted
        /\ (GoOn("server") \/ GiveUpMigration)
     \/ ~migration.import /\ GoOn("server") /\ UNCHANGED <<clone, local>>
  /\ UNCHANGED <<origin, store, lfsconfig, override, pointed>>

\* The new server answers, git-lfs and its hooks are there, or init ends here.
CheckServer ==
  /\ Migrating("server")
  /\ (GoOn("point") \/ GiveUpMigration)
  /\ UNCHANGED <<origin, clone, local, store, lfsconfig, override, pointed>>

Point ==
  /\ Migrating("point")
  /\ lfsconfig' = [lfsconfig EXCEPT !.tree = "new"]
  /\ pointed' = IF lfsconfig.tree = "new" /\ migration.from = "none" THEN pointed
                ELSE [needs |-> clone, from |-> migration.from]
  /\ GoOn("settings")
  /\ UNCHANGED <<origin, clone, local, store, override>>

\* Tracking, credentials, the transfer agent, and the access they give.
Settings ==
  /\ Migrating("settings")
  /\ (GoOn("commit") \/ GiveUpMigration)
  /\ UNCHANGED <<origin, clone, local, store, lfsconfig, override, pointed>>

CommitFiles ==
  /\ Migrating("commit")
  /\ lfsconfig' = [lfsconfig EXCEPT !.head = IF migration.commit THEN lfsconfig.tree ELSE @]
  /\ GoOn("upload")
  /\ UNCHANGED <<origin, clone, local, store, override, pointed>>

\* git-lfs pushes to where its configuration points, fails on an object that is neither
\* here nor there, and by lfs.allowincompletepush does not.
LfsPushAll ==
  /\ Migrating("upload")
  /\ \E sent \in SUBSET (clone \cap local) :
       /\ store' = Pushed(LfsUrl, sent)
       /\ \/ clone \cap local \subseteq store'[LfsUrl] /\ GoOn("wanted")
          \/ GiveUpMigration
  /\ UNCHANGED <<origin, clone, local, lfsconfig, override, pointed>>

ReadWanted ==
  /\ Migrating("wanted")
  /\ migration' = [migration EXCEPT !.at = "verify", !.wanted = clone]
  /\ UNCHANGED <<origin, clone, local, store, lfsconfig, override, pointed>>

\* verify asks the server that the run was given.
Stored == store["new"]

Verify ==
  /\ Migrating("verify")
  /\ \/ GoOn(IF migration.wanted \subseteq Stored THEN "complete" ELSE "missing")
     \/ GiveUpMigration
  /\ UNCHANGED <<origin, clone, local, store, lfsconfig, override, pointed>>

Interrupted ==
  /\ migration # Resting
  /\ GiveUpMigration
  /\ UNCHANGED <<origin, clone, local, store, lfsconfig, override, pointed>>

-----------------------------------------------------------------------------
(* Everybody else, and the user between two runs. *)

\* Another clone pushes an object, to where the commit that it has points.
PushElsewhere(b, server) ==
  /\ b \notin origin
  /\ server \in {lfsconfig.first, lfsconfig.head}
  /\ origin' = origin \cup {b}
  /\ store' = Pushed(server, {b})
  /\ UNCHANGED <<clone, local, lfsconfig, override, migration, pointed>>

CommitHere(b) ==
  /\ b \notin clone \cup origin
  /\ clone' = clone \cup {b}
  /\ local' = local \cup {b}
  /\ UNCHANGED <<origin, store, lfsconfig, override, migration, pointed>>

\* What the last run left uncommitted is committed or dropped.
TidyUp ==
  /\ migration = Resting
  /\ lfsconfig' \in {[lfsconfig EXCEPT !.head = lfsconfig.tree], [lfsconfig EXCEPT !.tree = lfsconfig.head]}
  /\ UNCHANGED <<origin, clone, local, store, override, migration, pointed>>

\* `r2-lfs init` alone points the repository at the new server and copies nothing.
InitOnly ==
  /\ migration = Resting
  /\ lfsconfig' = [lfsconfig EXCEPT !.tree = "new"]
  /\ pointed' = IF lfsconfig.tree = "new" THEN pointed ELSE NeverPointed
  /\ UNCHANGED <<origin, clone, local, store, override, migration>>

DropOverride ==
  /\ override' = "none"
  /\ UNCHANGED <<origin, clone, local, store, lfsconfig, migration, pointed>>

MigrateNext ==
  \/ \E from \in Server \cup {"none"}, import, commit \in BOOLEAN : Migrate(from, import, commit)
  \/ FetchRefs \/ Download \/ Import \/ CheckServer \/ Point \/ Settings
  \/ CommitFiles \/ LfsPushAll \/ ReadWanted \/ Verify \/ Interrupted
  \/ \E b \in Blob : CommitHere(b) \/ \E s \in Server : PushElsewhere(b, s)
  \/ TidyUp \/ InitOnly \/ DropOverride

MigrateSpec == MigrateInit /\ [][MigrateNext]_migrateVars

-----------------------------------------------------------------------------
(* What should hold. *)

\* "Every version is on <server>" (cli/commands/migrate.ts): then the new server has what
\* every branch and tag of the remote needed when the run began, and what the clone needs
\* besides, whatever earlier runs did and wherever git-lfs pushed to.
CompleteIsComplete ==
  Migrating("complete") =>
    migration.began \subseteq store["new"] /\ migration.wanted \subseteq store["new"]

\* "nothing was deleted, so you can fix the problem and run migrate again": the next run
\* takes a repository that points at the new server for migrated and downloads nothing, so
\* when a run that has downloaded pointed it there, all that the clone needed then is at
\* hand, however that run and later ones ended.
\* A run that was never given --from downloads nothing when lfs.url names the new Worker, be
\* it under another owner/name or in git's own configuration; it leaves on the old server
\* what the clone does not have, against "copies every LFS object from the current endpoint".
PointedIsAtHand ==
  lfsconfig.tree = "new" /\ pointed.from # "none" => pointed.needs \subseteq local \cup store["new"]

MigrationHolds == CompleteIsComplete /\ PointedIsAtHand
=============================================================================
