--------------------------------- MODULE Gc ---------------------------------
(***************************************************************************)
(* Runs of `r2-lfs gc` that change the bucket, next to the pushes that     *)
(* fill it and the refs that move (cli/app/gc.ts, cli/commands/gc.ts).     *)
(*                                                                         *)
(* A run fetches the refs of every repository, lists the bucket and plans; *)
(* somebody may pick from the plan; then it fetches again, plans again if  *)
(* a ref has moved, and changes one object after the other.  Between any   *)
(* two of these steps days may pass, pushes come in and other runs act.    *)
(* Every run knows every repository that stores objects in the bucket.     *)
(*                                                                         *)
(* A push first asks the server which objects it has, sends the others,    *)
(* and only then moves the ref.                                            *)
(***************************************************************************)
EXTENDS GcPlan

CONSTANTS
  Repo,
  Policy,     \* the policy file of each repository
  Run,        \* gc runs that can be going on at once
  Client,     \* pushes that can be going on at once
  MaxDay,     \* bound: the days that pass
  Scenes      \* how pushes go, and the bounds of a behaviour

ASSUME PolicyAssumption ==
  \A r \in Repo : Policy[r].minAge \in Nat
ASSUME RunAssumption ==
  Repo # {} /\ MaxDay \in Nat \ {0}

\* Whether pushes take any time and rely on what the bucket already has; the
\* commits there are; the days that pass.
ASSUME ScenesAssumption ==
  Scenes \subseteq [anyPush : BOOLEAN, commits : SUBSET Commit, days : 1..MaxDay]

VARIABLES
  scene,      \* which of them this behaviour is; it stays
  now,        \* the day
  stored,     \* the day each live object was written; 0 if there is none
  cold,       \* live objects in Infrequent Access
  refs,       \* the commits the refs of each repository point to
  push,       \* what each push is doing
  run         \* what each gc run is doing

bucket == <<stored, cold>>
vars == <<scene, now, bucket, refs, push, run>>

Nobody == [step |-> "idle"]
Pushing == [step : {"ask", "send", "ref"}, repo : Repo, commit : Commit, need : SUBSET Oid, day : Nat]
Change == Oid \X {"tier", "delete"}
Running == [step : {"fetch", "list", "pick", "refetch", "relist", "apply"}, left : SUBSET Repo,
            clone : [Repo -> SUBSET Commit], planned : [Repo -> SUBSET Commit],
            day : Nat, chosen : SUBSET Change]

TypeOK ==
  /\ scene \in Scenes
  /\ now \in 1..MaxDay
  /\ stored \in [Oid -> 0..MaxDay]
  /\ cold \subseteq Oid
  /\ refs \in [Repo -> SUBSET Commit]
  /\ push \in [Client -> {Nobody} \cup Pushing]
  /\ run \in [Run -> {Nobody} \cup Running]
  /\ \A g \in Run : run[g].step = "apply" => run[g].chosen # {}

NoRefs == [r \in Repo |-> {}]

Init ==
  /\ scene \in Scenes
  /\ now = 1
  /\ stored = [o \in Oid |-> 0]
  /\ cold = {}
  /\ refs = NoRefs
  /\ push = [k \in Client |-> Nobody]
  /\ run = [g \in Run |-> Nobody]

-----------------------------------------------------------------------------
(* Pushes, other changes of refs, and time. *)

StartPush(k, r, c) ==
  /\ push[k] = Nobody
  /\ c \notin History(refs[r]) /\ CommitDay[c] <= now
  /\ push' = [push EXCEPT ![k] =
       [step |-> "ask", repo |-> r, commit |-> c, day |-> now,
        need |-> AllObjects(Ancestors[c] \ History(refs[r]))
                   \ AllObjects(refs[r] \cap Ancestors[c])]]
  /\ UNCHANGED <<scene, now, bucket, refs, run>>

\* The server leaves out the objects it has.
Missing(objects) == {o \in objects : stored[o] = 0}

AskServer(k) ==
  /\ push[k].step = "ask"
  /\ scene.anyPush \/ Missing(push[k].need) = push[k].need
  /\ push' = [push EXCEPT ![k] =
       [push[k] EXCEPT !.step = "send", !.need = Missing(@), !.day = now]]
  /\ UNCHANGED <<scene, now, bucket, refs, run>>

\* An object that is there by now is only checked, not written again.
Send(k, o) ==
  /\ push[k].step = "send"
  /\ o \in push[k].need
  /\ stored' = IF stored[o] = 0 THEN [stored EXCEPT ![o] = now] ELSE stored
  /\ push' = [push EXCEPT ![k] = [push[k] EXCEPT !.need = @ \ {o}]]
  /\ UNCHANGED <<scene, now, cold, refs, run>>

\* Unless any push goes, what other pushes in flight build on stays where it is.
Unbuilt(r, others) == scene.anyPush \/ \A k \in others : push[k] # Nobody => push[k].repo # r

\* A ref is added, or moved forward.
PushRef(k) ==
  /\ push[k].step = "send" /\ push[k].need = {}
  /\ \E old \in SUBSET (refs[push[k].repo] \cap Ancestors[push[k].commit]) :
       /\ old = {} \/ Unbuilt(push[k].repo, Client \ {k})
       /\ refs' = [refs EXCEPT ![push[k].repo] = (@ \ old) \cup {push[k].commit}]
  /\ push' = [push EXCEPT ![k] = Nobody]
  /\ UNCHANGED <<scene, now, bucket, run>>

GiveUpPush(k) ==
  /\ push[k] # Nobody
  /\ push' = [push EXCEPT ![k] = Nobody]
  /\ UNCHANGED <<scene, now, bucket, refs, run>>

DeleteRef(r, c) ==
  /\ c \in refs[r]
  /\ Unbuilt(r, Client)
  /\ refs' = [refs EXCEPT ![r] = @ \ {c}]
  /\ UNCHANGED <<scene, now, bucket, push, run>>

\* A push is over before an object it sent has come of age.
Prompt ==
  \A k \in Client, r \in Repo : push[k] # Nobody => now + 1 < push[k].day + Policy[r].minAge

Tick ==
  /\ now < scene.days
  /\ scene.anyPush \/ Prompt
  /\ now' = now + 1
  /\ UNCHANGED <<scene, bucket, refs, push, run>>

-----------------------------------------------------------------------------
(* A run of gc. *)

At(g, step) == run[g].step = step

\* The objects a plan made from these refs would change, and how.
Plan(clone, day) ==
  LET facts == [r \in Repo |-> CollectFacts(clone[r], Policy[r], day)]
      decisions(o) ==
        {Decision(facts[r], Policy[r], o, stored[o], o \in cold, day) : r \in Repo}
  IN  {<<o, Combine(decisions(o))>> : o \in {o \in Oid : stored[o] # 0}} \cap Change

Becomes(g, new) ==
  /\ run' = [run EXCEPT ![g] = new]
  /\ UNCHANGED <<scene, now, bucket, refs, push>>

StartRun(g) ==
  /\ run[g] = Nobody
  /\ Becomes(g, [step |-> "fetch", left |-> Repo, clone |-> NoRefs,
                 planned |-> NoRefs, day |-> now, chosen |-> {}])

Fetched(g, r) == [run[g].clone EXCEPT ![r] = refs[r]]

Fetch(g, r) ==
  /\ At(g, "fetch")
  /\ r \in run[g].left
  /\ Becomes(g, [run[g] EXCEPT !.clone = Fetched(g, r), !.left = @ \ {r},
                               !.step = IF run[g].left = {r} THEN "list" ELSE "fetch"])

ListBucket(g) ==
  /\ At(g, "list")
  /\ Becomes(g, [run[g] EXCEPT !.step = "pick", !.planned = run[g].clone,
                               !.chosen = Plan(run[g].clone, run[g].day)])

\* All candidates with --apply, some of them with -i.
Pick(g) ==
  /\ At(g, "pick")
  /\ \E chosen \in SUBSET run[g].chosen :
       Becomes(g, IF chosen = {} THEN Nobody
                  ELSE [run[g] EXCEPT !.step = "refetch", !.left = Repo, !.chosen = chosen])

\* Whether a ref of any repository has moved since the plan.
Moved_OneRepo(old, new) == \A r \in Repo : new[r] # old[r]
Moved(old, new) == new # old

Refetch(g, r) ==
  /\ At(g, "refetch")
  /\ r \in run[g].left
  /\ Becomes(g, [run[g] EXCEPT !.clone = Fetched(g, r), !.left = @ \ {r},
                               !.step = IF run[g].left # {r} THEN "refetch"
                                        ELSE IF Moved(run[g].planned, Fetched(g, r))
                                          THEN "relist" ELSE "apply"])

\* What the plan made afresh would change in the same way is still changed.
Relist(g) ==
  /\ At(g, "relist")
  /\ LET still == run[g].chosen \cap Plan(run[g].clone, now)
     IN  Becomes(g, IF still = {} THEN Nobody
                    ELSE [run[g] EXCEPT !.step = "apply", !.chosen = still])

\* A copy onto itself is a new object in another storage class.
TierObject(o) ==
  /\ stored[o] # 0
  /\ stored' = [stored EXCEPT ![o] = now]
  /\ cold' = cold \cup {o}

\* Into the trash, as Trash models it, or deleted for good.
RemoveObject(o) ==
  /\ stored[o] # 0
  /\ stored' = [stored EXCEPT ![o] = 0]
  /\ cold' = cold \ {o}

\* One change after the other, the tiering first; the bucket may refuse each.
Apply(g) ==
  /\ At(g, "apply")
  /\ \E change \in run[g].chosen :
       /\ change[2] = "tier" \/ \A other \in run[g].chosen : other[2] # "tier"
       /\ \/ change[2] = "tier" /\ TierObject(change[1])
          \/ change[2] = "delete" /\ RemoveObject(change[1])
          \/ UNCHANGED bucket
       /\ run' = [run EXCEPT ![g] = IF run[g].chosen = {change} THEN Nobody
                                    ELSE [run[g] EXCEPT !.chosen = @ \ {change}]]
  /\ UNCHANGED <<scene, now, refs, push>>

\* A fetch fails, a request throws, or the command is interrupted.
StopRun(g) == run[g] # Nobody /\ Becomes(g, Nobody)

Next ==
  \/ \E k \in Client :
       \/ \E r \in Repo, c \in scene.commits : StartPush(k, r, c)
       \/ AskServer(k)
       \/ \E o \in Oid : Send(k, o)
       \/ PushRef(k)
       \/ GiveUpPush(k)
  \/ \E r \in Repo, c \in Commit : DeleteRef(r, c)
  \/ Tick
  \/ \E g \in Run :
       \/ StartRun(g)
       \/ \E r \in Repo : Fetch(g, r) \/ Refetch(g, r)
       \/ ListBucket(g)
       \/ Pick(g)
       \/ Relist(g)
       \/ Apply(g)
       \/ StopRun(g)

Spec == Init /\ [][Next]_vars

-----------------------------------------------------------------------------
(* What has to hold. *)

\* What the policy of a repository never gives up: what its refs point to, and at
\* the paths that keep all, or have no keep_days, every version.
KeepsAllAt(r) == {p \in Path : \/ Effective(Policy[r], p).keepAll
                             \/ Effective(Policy[r], p).keepDays = Unset}
Versions(tips, paths) == {Tree[c][p] : c \in History(tips), p \in paths} \ {None}
Promised(r, tips) == AllObjects(tips) \cup Versions(tips, KeepsAllAt(r))

\* Every commit stays checkoutable: whatever gc does, the objects of what has
\* been pushed are live, those of commits that were on their way included, if
\* pushes are prompt and send what they need.
PushedStaysLive == ~scene.anyPush => \A r \in Repo : \A o \in Promised(r, refs[r]) : stored[o] # 0

\* gc never touches an object that is younger than any repository's min_age_days.
YoungStays ==
  [][\A o \in Oid : stored[o] # 0 /\ stored'[o] # stored[o] =>
       \A r \in Repo : now - stored[o] >= Policy[r].minAge]_vars

\* When gc starts to change objects, it leaves alone what any ref needs that had
\* been pushed by the time it fetched again.
RecheckSparesPushed ==
  \A g \in Run : At(g, "apply") =>
    \A r \in Repo : \A o \in Promised(r, run[g].clone[r]) :
      \A kind \in {"tier", "delete"} : <<o, kind>> \notin run[g].chosen
=============================================================================
