-------------------------------- MODULE MCGc --------------------------------
(* A file that changes and is put back, beside one that stays; two commits in
   one line and one on a branch of its own. *)
EXTENDS Gc, TLC

CONSTANTS a, b, p, q, first, second, branch, ours, theirs, MinAge

MCOid == {a, b}
MCPath == {p, q}
MCCommit == {first, second, branch}

MCTree == [c \in Commit |->
  CASE c = first  -> p :> a @@ q :> None
    [] c = second -> p :> b @@ q :> None
    [] c = branch -> p :> None @@ q :> a]

MCAncestors == [c \in Commit |-> IF c = second THEN {first, second} ELSE {c}]
MCFirstParent == [c \in Commit |-> IF c = second THEN first ELSE None]
MCCommitDay == [c \in Commit |-> IF c = second THEN 2 ELSE 1]

Rule(paths, days, versions, all, old) ==
  [matches |-> paths, keepDays |-> days, keepVersions |-> versions,
   keepAll |-> all, oldVersions |-> old]

\* Our policy gives up nothing that a commit uses; theirs keeps what q ever had,
\* and of p the newest version and what a commit of the last day uses; the other
\* versions of p become cold.
MCPolicy ==
  ours :> [keepDays |-> Unset, keepVersions |-> 0, minAge |-> MinAge,
           oldVersions |-> "delete", rules |-> <<>>] @@
  theirs :> [keepDays |-> 1, keepVersions |-> 0, minAge |-> MinAge, oldVersions |-> "delete",
             rules |-> <<Rule({q}, Unset, Unset, TRUE, Unset),
                         Rule({p}, Unset, 1, FALSE, "infrequent-access")>>]

\* Prompt pushes for long enough that all of the policies' limits pass, and
\* pushes of any kind.
MCScenes == {
  [anyPush |-> FALSE, commits |-> MCCommit, days |-> 5],
  [anyPush |-> TRUE, commits |-> {first, second}, days |-> 4]}
=============================================================================
