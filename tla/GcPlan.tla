------------------------------- MODULE GcPlan -------------------------------
(***************************************************************************)
(* What `r2-lfs gc` decides about a stored object, from the history of a   *)
(* clone and its retention policy (cli/app/common.ts, cli/domain/plan.ts,  *)
(* cli/domain/policy.ts).                                                  *)
(*                                                                         *)
(* The git history is a constant graph of commits; refs move over it.  A   *)
(* rule is given by the paths it matches, so the glob matcher is left out. *)
(* Commits have different times, so versions of a file never tie.          *)
(***************************************************************************)
EXTENDS Integers, Sequences, FiniteSets

CONSTANTS
  Oid, Path, Commit,
  Tree,         \* what each commit has at each path
  Ancestors,    \* each commit and all it descends from
  FirstParent,
  CommitDay,
  None,         \* no object at a path, no parent
  Unset,        \* a setting the policy leaves out
  UnknownPath   \* where an object that history does not know is judged

ASSUME GraphAssumption ==
  /\ Tree \in [Commit -> [Path -> Oid \cup {None}]]
  /\ Ancestors \in [Commit -> SUBSET Commit]
  /\ \A c \in Commit : c \in Ancestors[c]
  /\ \A c \in Commit : \A d \in Ancestors[c] : Ancestors[d] \subseteq Ancestors[c]
  /\ CommitDay \in [Commit -> Nat \ {0}]
  /\ None \notin Oid /\ UnknownPath \notin Path /\ Unset \notin Nat


Objects(c) == {Tree[c][p] : p \in Path} \ {None}
AllObjects(commits) == UNION {Objects(c) : c \in commits}
History(tips) == UNION {Ancestors[c] : c \in tips}

\* A commit writes what its tree has and its first parent's has not.
Writes(c, p) ==
  /\ Tree[c][p] # None
  /\ FirstParent[c] # None => Tree[c][p] # Tree[FirstParent[c]][p]

\* Follow the first parents from a commit that has an object: one of them wrote it.
ASSUME WrittenAssumption ==
  \A c \in Commit, p \in Path : Tree[c][p] # None =>
    \E d \in Ancestors[c] : Writes(d, p) /\ Tree[d][p] = Tree[c][p]

-----------------------------------------------------------------------------
(* The policy that holds for one path. *)

Or(setting, default) == IF setting = Unset THEN default ELSE setting

\* The first rule that matches wins, setting by setting.
Effective(policy, path) ==
  LET hits == {i \in DOMAIN policy.rules : path \in policy.rules[i].matches}
      rule == policy.rules[CHOOSE i \in hits : \A j \in hits : i <= j]
      own == [keepDays |-> policy.keepDays, keepVersions |-> policy.keepVersions,
              keepAll |-> FALSE, oldVersions |-> policy.oldVersions]
  IN  IF hits = {} THEN own
      ELSE [keepDays |-> Or(rule.keepDays, own.keepDays),
            keepVersions |-> Or(rule.keepVersions, own.keepVersions),
            keepAll |-> rule.keepAll,
            oldVersions |-> Or(rule.oldVersions, own.oldVersions)]

KeepDayWindows(policy) ==
  ({policy.keepDays} \cup {Or(policy.rules[i].keepDays, policy.keepDays) :
                            i \in DOMAIN policy.rules}) \ {Unset}

-----------------------------------------------------------------------------
(* What the history says about the objects. *)

\* The commits of the last n days.
CommitsSince(tips, n, now) == {c \in History(tips) : CommitDay[c] >= now - n}
Window(tips, n, now) == AllObjects(CommitsSince(tips, n, now))

\* The commits that wrote a version of a file, and when the last one did.
Writers(tips, p, o) == {c \in History(tips) : Writes(c, p) /\ Tree[c][p] = o}
WrittenOn(tips, p, o) ==
  LET days == {CommitDay[c] : c \in Writers(tips, p, o)}
  IN  IF days = {} THEN 0 ELSE CHOOSE d \in days : \A e \in days : e <= d

CollectFacts(tips, policy, now) ==
  LET windows == [n \in KeepDayWindows(policy) |-> Window(tips, n, now)]
      listed == tips \cup UNION {CommitsSince(tips, n, now) : n \in KeepDayWindows(policy)}
  IN  [tips |-> AllObjects(tips),
       windows |-> windows,
       versions |-> [p \in Path |-> [o \in Oid |-> WrittenOn(tips, p, o)]],
       paths |-> [o \in Oid |->
         {p \in Path : Writers(tips, p, o) # {} \/ \E c \in listed : Tree[c][p] = o}]]

-----------------------------------------------------------------------------
(* The decision. *)

Candidates(facts, o) == IF facts.paths[o] = {} THEN {UnknownPath} ELSE facts.paths[o]

IsNewest(facts, p, o, n) ==
  /\ facts.versions[p][o] # 0
  /\ Cardinality({v \in Oid : facts.versions[p][v] > facts.versions[p][o]}) < n

\* Without keep_days only what no commit uses is collected, like git gc.
KeptAt(facts, policy, o, p) ==
  LET eff == Effective(policy, p)
  IN  \/ eff.keepAll
      \/ eff.keepDays = Unset /\ p # UnknownPath
      \/ /\ eff.keepDays # Unset
         /\ \/ o \in facts.windows[eff.keepDays]
            \/ p # UnknownPath /\ IsNewest(facts, p, o, eff.keepVersions)

KeepReason(facts, policy, o) ==
  \/ o \in facts.tips
  \/ \E p \in Candidates(facts, o) : KeptAt(facts, policy, o, p)

Young_DayShort(policy, uploaded, now) == uploaded + policy.minAge > now + 1
Young(policy, uploaded, now) == uploaded + policy.minAge > now

\* When paths disagree, the gentler action wins.
Tiers(facts, policy, o) ==
  \E p \in Candidates(facts, o) : Effective(policy, p).oldVersions = "infrequent-access"

Decision(facts, policy, o, uploaded, cold, now) ==
  IF KeepReason(facts, policy, o) THEN "keep"
  ELSE IF Young(policy, uploaded, now) THEN "young"
  ELSE IF ~Tiers(facts, policy, o) THEN "delete"
  ELSE IF cold THEN "keep" ELSE "tier"

\* The most lenient of all repositories' decisions, each by its own policy.
Leniency == [keep |-> 0, young |-> 1, tier |-> 2, delete |-> 3]
Combine_Harshest(decisions) ==
  CHOOSE d \in decisions : \A e \in decisions : Leniency[d] >= Leniency[e]
Combine(decisions) ==
  CHOOSE d \in decisions : \A e \in decisions : Leniency[d] <= Leniency[e]
=============================================================================
