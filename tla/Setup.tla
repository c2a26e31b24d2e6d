------------------------------- MODULE Setup -------------------------------
(***************************************************************************)
(* `r2-lfs setup` (cli/app/setup.ts): a bucket, its lifecycle and lock      *)
(* rules and a deployed Worker, one call of Wrangler after the other.  Any  *)
(* call may fail, or lose its answer after it took effect; the command then *)
(* stops, and is run again, perhaps with other options, over what is there. *)
(*                                                                         *)
(* A prefix is what matters about it: the keys under it.  A lock rule is    *)
(* known by an id made of its prefix, and two prefixes may have one id.     *)
(***************************************************************************)
EXTENDS FiniteSets

CONSTANTS
  Pattern,      \* what --repos may name
  Prefix,       \* the prefixes that rules may lock
  LockedAs,     \* the prefix of each pattern, up to its first star
  OwnerStar,    \* the patterns with a star in the owner's name
  RuleId,       \* the id of the lock rule of each prefix
  KeysOf,       \* the keys under each prefix
  SharedPrefix, \* where objects are in the shared layout
  Unlockable,   \* keys no rule may lock: the trash, incoming uploads, other owners
  Tried,        \* bound: the options that runs are given
  NoPlan

\* What may be asked of setup.
Options ==
  [repos : SUBSET Pattern, layout : {"per-repo", "shared"},
   lock : BOOLEAN, trash : BOOLEAN, deploy : BOOLEAN]

ASSUME TriedAssumption == Tried \subseteq Options
ASSUME PrefixAssumption ==
  /\ LockedAs \in [Pattern -> Prefix] /\ SharedPrefix \in Prefix
  /\ NoPlan \notin Tried
\* A prefix that names an owner, or the shared layout, has none but their keys under it.
ASSUME KeysAssumption ==
  /\ KeysOf[SharedPrefix] \cap Unlockable = {}
  /\ \A r \in Pattern \ OwnerStar : KeysOf[LockedAs[r]] \cap Unlockable = {}

VARIABLES
  bucket,       \* whether the bucket exists
  expiring,     \* the lifecycle rules it has
  locked,       \* the prefixes its lock rules lock
  worker,       \* the options that the deployed Worker was deployed with
  plan,         \* the options of the run going on, if any
  stage         \* what the run is about to ask Wrangler for

setupVars == <<bucket, expiring, locked, worker, plan, stage>>

Stages == {"login", "bucket", "trash", "incoming", "lock", "deploy", "over"}

SetupTypes ==
  /\ bucket \in BOOLEAN
  /\ expiring \subseteq {"trash", "incoming"}
  /\ locked \subseteq Prefix
  /\ worker \in Tried \cup {NoPlan}
  /\ plan \in Tried \cup {NoPlan}
  /\ stage \in [at : Stages, todo : SUBSET Prefix]

SetupInit ==
  /\ bucket = FALSE
  /\ expiring = {}
  /\ locked = {}
  /\ worker = NoPlan
  /\ plan = NoPlan
  /\ stage = [at |-> "over", todo |-> {}]

-----------------------------------------------------------------------------
(* lockPrefixes. *)

Candidates_Star(repos) == {LockedAs[r] : r \in repos}
Candidates(repos) == {LockedAs[r] : r \in repos \ OwnerStar}

\* A prefix inside another needs no rule of its own.
Outermost(prefixes) ==
  {p \in prefixes : ~\E other \in prefixes \ {p} : KeysOf[p] \subseteq KeysOf[other]}

LockPrefixes(o) ==
  IF o.layout = "shared" THEN {SharedPrefix} ELSE Outermost(Candidates(o.repos))

-----------------------------------------------------------------------------
(* The run. *)

Reached(at) == plan # NoPlan /\ stage.at = at
To(at) == stage' = [stage EXCEPT !.at = at]
\* A call that failed stops the command, whether or not it took effect.
Abandon == plan' = NoPlan /\ stage' = [at |-> "over", todo |-> {}]

Run(o) ==
  /\ plan = NoPlan
  /\ plan' = o
  /\ stage' = [at |-> "login", todo |-> {}]
  /\ UNCHANGED <<bucket, expiring, locked, worker>>

CheckLogin ==
  /\ Reached("login")
  /\ \/ To("bucket") /\ plan' = plan
     \/ Abandon
  /\ UNCHANGED <<bucket, expiring, locked, worker>>

\* An existing bucket is kept.
CreateBucket ==
  /\ Reached("bucket")
  /\ \/ bucket' = TRUE /\ To("trash") /\ plan' = plan
     \/ bucket' \in {bucket, TRUE} /\ Abandon
  /\ UNCHANGED <<expiring, locked, worker>>

AddExpiry(rule) == expiring' = expiring \cup {rule}

\* A lifecycle rule that exists is kept as it is.
ExpireTrash ==
  /\ Reached("trash")
  /\ \/ plan.trash /\ AddExpiry("trash") /\ To("incoming") /\ plan' = plan
     \/ ~plan.trash /\ expiring' = expiring /\ To("incoming") /\ plan' = plan
     \/ plan.trash /\ (expiring' = expiring \/ AddExpiry("trash")) /\ Abandon
  /\ UNCHANGED <<bucket, locked, worker>>

ExpireIncoming ==
  /\ Reached("incoming")
  /\ \/ /\ AddExpiry("incoming")
        /\ stage' = [at |-> "lock", todo |-> IF plan.lock THEN LockPrefixes(plan) ELSE {}]
        /\ plan' = plan
     \/ (expiring' = expiring \/ AddExpiry("incoming")) /\ Abandon
  /\ UNCHANGED <<bucket, locked, worker>>

\* What Wrangler says of a rule whose id is taken: maybe words that setup
\* understands, maybe not.  The rule there is keeps its prefix.
Taken(p) == \E r \in locked : RuleId[r] = RuleId[p]
AddLock(p) == locked' = IF Taken(p) THEN locked ELSE locked \cup {p}

LockOne(p) ==
  /\ Reached("lock")
  /\ p \in stage.todo
  /\ \/ AddLock(p) /\ stage' = [stage EXCEPT !.todo = @ \ {p}] /\ plan' = plan
     \/ (locked' = locked \/ AddLock(p)) /\ Abandon
  /\ UNCHANGED <<bucket, expiring, worker>>

AllLocked == stage.todo = {}

Locks ==
  /\ Reached("lock")
  /\ AllLocked
  /\ IF plan.deploy THEN To("deploy") /\ plan' = plan ELSE Abandon
  /\ UNCHANGED <<bucket, expiring, locked, worker>>

Deploy ==
  /\ Reached("deploy")
  /\ worker' \in {plan, worker}
  /\ Abandon
  /\ UNCHANGED <<bucket, expiring, locked>>

SetupNext ==
  \/ \E o \in Tried : Run(o)
  \/ CheckLogin \/ CreateBucket \/ ExpireTrash \/ ExpireIncoming
  \/ \E p \in Prefix : LockOne(p)
  \/ Locks \/ Deploy

SetupSpec == SetupInit /\ [][SetupNext]_setupVars

-----------------------------------------------------------------------------
(* What should hold. *)

LockedKeys == UNION {KeysOf[p] : p \in locked}

\* However often setup fails halfway and is run again with other options: a Worker that
\* was deployed with lock rules has every prefix it serves locked, unless the id of the
\* prefix's rule was taken by another prefix, and its trash and incoming uploads expire.
ServedIsLocked ==
  worker # NoPlan =>
    /\ bucket
    /\ "incoming" \in expiring
    /\ worker.trash => "trash" \in expiring
    /\ worker.lock => \A p \in LockPrefixes(worker) :
         KeysOf[p] \subseteq LockedKeys \/ \E r \in locked \ {p} : RuleId[r] = RuleId[p]

\* "Lock rules cover the live prefixes only, so gc can still empty `_trash/`", and "whose
\* prefix would also cover the trash and other owners" (cli/app/setup.ts): the rules of all
\* runs together lock nothing else.
TrashStaysFree == LockedKeys \cap Unlockable = {}

RulesHold == ServedIsLocked /\ TrashStaysFree
=============================================================================
