----------------------------- MODULE GcProofs -----------------------------
(***************************************************************************)
(* What gc's second look at the refs guarantees, and that a single run     *)
(* never touches a young object, for every graph of commits and every      *)
(* policy.                                                                 *)
(***************************************************************************)
EXTENDS Gc, TLAPS

(* What plans never change. *)

\* Any decision to keep an object, by any repository, keeps it.
LEMMA KeepWins ==
  ASSUME NEW decisions, "keep" \in decisions,
         decisions \subseteq {"keep", "young", "tier", "delete"}
  PROVE  Combine(decisions) = "keep"
<1> DEFINE chosen == Combine(decisions)
<1>1. Leniency["keep"] = 0 /\ \A d \in decisions : Leniency[d] \in Nat
  BY DEF Leniency
<1>2. \A d \in decisions : Leniency[d] = 0 => d = "keep"
  BY DEF Leniency
<1>3. \E d \in decisions : \A e \in decisions : Leniency[d] <= Leniency[e]
  BY <1>1
<1>4. chosen \in decisions /\ \A e \in decisions : Leniency[chosen] <= Leniency[e]
  BY <1>3 DEF Combine
<1> HIDE DEF chosen
<1>5. Leniency[chosen] = 0
  <2>1. Leniency[chosen] \in Nat /\ Leniency[chosen] <= Leniency["keep"]
    BY <1>1, <1>4
  <2> QED BY <2>1, <1>1
<1>6. chosen = "keep"
  BY <1>2, <1>4, <1>5
<1> QED BY <1>6 DEF chosen

LEMMA DecisionKinds ==
  \A facts, policy, o, uploaded, isCold, day :
    Decision(facts, policy, o, uploaded, isCold, day) \in {"keep", "young", "tier", "delete"}
BY DEF Decision

LEMMA NeedTyped ==
  ASSUME NEW commits \in SUBSET Commit
  PROVE  AllObjects(commits) \subseteq Oid
BY GraphAssumption DEF AllObjects, Objects

\* What a policy promises is a reason to keep.
LEMMA PromiseIsReason ==
  ASSUME NEW r \in Repo, NEW tips \in SUBSET Commit, NEW day, NEW o \in Promised(r, tips)
  PROVE  o \in Oid /\ KeepReason(CollectFacts(tips, Policy[r], day), Policy[r], o)
<1> DEFINE facts == CollectFacts(tips, Policy[r], day)
<1>1. CASE o \in AllObjects(tips)
  <2>1. o \in facts.tips
    BY <1>1 DEF CollectFacts
  <2>2. o \in Oid
    BY <1>1, NeedTyped
  <2> QED BY <2>1, <2>2 DEF KeepReason
<1>2. CASE \E c \in History(tips), p \in Path :
             /\ o = Tree[c][p] /\ o # None
             /\ Effective(Policy[r], p).keepAll \/ Effective(Policy[r], p).keepDays = Unset
  <2>1. PICK c \in History(tips), p \in Path :
             /\ o = Tree[c][p] /\ o # None
             /\ Effective(Policy[r], p).keepAll \/ Effective(Policy[r], p).keepDays = Unset
    BY <1>2
  <2>2. PICK t \in tips : c \in Ancestors[t]
    BY <2>1 DEF History
  <2>3. c \in Commit /\ t \in Commit
    BY <2>2, GraphAssumption
  <2>4. o \in Oid
    BY <2>1, <2>3, GraphAssumption
  <2>5. PICK d \in Ancestors[c] : Writes(d, p) /\ Tree[d][p] = Tree[c][p]
    BY <2>1, <2>3, WrittenAssumption
  <2>6. d \in History(tips)
    BY <2>2, <2>3, <2>5, GraphAssumption DEF History
  <2>7. Writers(tips, p, o) # {}
    BY <2>1, <2>5, <2>6 DEF Writers
  <2>8. p \in facts.paths[o]
    BY <2>1, <2>4, <2>7 DEF CollectFacts
  <2>9. KeptAt(facts, Policy[r], o, p)
    BY <2>1, GraphAssumption DEF KeptAt
  <2> QED BY <2>4, <2>8, <2>9 DEF KeepReason, Candidates
<1>3. CASE o \in Versions(tips, KeepsAllAt(r))
  <2>1. PICK c \in History(tips), p \in KeepsAllAt(r) : o = Tree[c][p] /\ o # None
    BY <1>3 DEF Versions
  <2> QED BY <1>2, <2>1 DEF KeepsAllAt
<1> QED BY <1>1, <1>3 DEF Promised

\* A plan spares what any repository was promised at the refs it was made from.
Spares(clone, chosen) ==
  \A r \in Repo : \A o \in Promised(r, clone[r]) :
    \A kind \in {"tier", "delete"} : <<o, kind>> \notin chosen

LEMMA PlanSpares ==
  ASSUME NEW clone \in [Repo -> SUBSET Commit], NEW day
  PROVE  Spares(clone, Plan(clone, day))
<1> SUFFICES ASSUME NEW r \in Repo, NEW o \in Promised(r, clone[r]),
                    NEW kind \in {"tier", "delete"}, <<o, kind>> \in Plan(clone, day)
             PROVE  FALSE
  BY DEF Spares
<1> DEFINE facts == [s \in Repo |-> CollectFacts(clone[s], Policy[s], day)]
           decisions(x) == {Decision(facts[s], Policy[s], x, stored[x], x \in cold, day) : s \in Repo}
<1>1. kind = Combine(decisions(o))
  BY DEF Plan
<1>2. KeepReason(facts[r], Policy[r], o)
  BY PromiseIsReason
<1>3. Decision(facts[r], Policy[r], o, stored[o], o \in cold, day) = "keep"
  BY <1>2 DEF Decision
<1>4. "keep" \in decisions(o)
  BY <1>3
<1>5. decisions(o) \subseteq {"keep", "young", "tier", "delete"}
  BY DecisionKinds
<1>6. Combine(decisions(o)) = "keep"
  <2> HIDE DEF decisions
  <2> QED BY <1>4, <1>5, KeepWins
<1> QED BY <1>1, <1>6

-----------------------------------------------------------------------------
(* Types. *)

\* The part of TypeOK that the other proofs need, and that a plan has no say in.
Typed ==
  /\ scene \in Scenes
  /\ now \in 1..MaxDay
  /\ stored \in [Oid -> 0..MaxDay]
  /\ cold \subseteq Oid
  /\ refs \in [Repo -> SUBSET Commit]
  /\ push \in [Client -> {Nobody} \cup Pushing]
  /\ run \in [Run -> {Nobody} \cup Running]

LEMMA PlanTyped ==
  ASSUME NEW clone, NEW day
  PROVE  Plan(clone, day) \subseteq Change
BY DEF Plan

\* What the steps of a run make of its record.
LEMMA NewRun ==
  ASSUME NEW day \in Nat
  PROVE  [step |-> "fetch", left |-> Repo, clone |-> NoRefs, planned |-> NoRefs,
          day |-> day, chosen |-> {}] \in Running
BY DEF Running, NoRefs

LEMMA FetchedRun ==
  ASSUME NEW c \in Running, NEW clone \in [Repo -> SUBSET Commit], NEW left \in SUBSET Repo,
         NEW step \in {"fetch", "list", "refetch", "relist", "apply"}
  PROVE  [c EXCEPT !.clone = clone, !.left = left, !.step = step] \in Running
BY DEF Running

LEMMA ListedRun ==
  ASSUME NEW c \in Running, NEW chosen \in SUBSET Change
  PROVE  [c EXCEPT !.step = "pick", !.planned = c.clone, !.chosen = chosen] \in Running
BY DEF Running

LEMMA PickedRun ==
  ASSUME NEW c \in Running, NEW chosen \in SUBSET Change
  PROVE  [c EXCEPT !.step = "refetch", !.left = Repo, !.chosen = chosen] \in Running
BY DEF Running

LEMMA RelistedRun ==
  ASSUME NEW c \in Running, NEW chosen \in SUBSET Change
  PROVE  [c EXCEPT !.step = "apply", !.chosen = chosen] \in Running
BY DEF Running

LEMMA LeftRun ==
  ASSUME NEW c \in Running, NEW chosen \in SUBSET Change
  PROVE  [c EXCEPT !.chosen = chosen] \in Running
BY DEF Running

LEMMA AskedPush ==
  ASSUME NEW c \in Pushing, NEW need \in SUBSET Oid, NEW day \in Nat
  PROVE  [c EXCEPT !.step = "send", !.need = need, !.day = day] \in Pushing
BY DEF Pushing

LEMMA SentPush ==
  ASSUME NEW c \in Pushing, NEW need \in SUBSET Oid
  PROVE  [c EXCEPT !.need = need] \in Pushing
BY DEF Pushing

\* A run in progress, and how it becomes another.
LEMMA InProgress ==
  ASSUME Typed, NEW g \in Run, run[g].step \in {"fetch", "list", "pick", "refetch", "relist", "apply"}
  PROVE  run[g] \in Running
BY DEF Typed, Nobody

LEMMA PushInProgress ==
  ASSUME Typed, NEW k \in Client, push[k].step \in {"ask", "send", "ref"}
  PROVE  push[k] \in Pushing
BY DEF Typed, Nobody

LEMMA BecomesTyped ==
  ASSUME Typed, NEW g \in Run, NEW new \in {Nobody} \cup Running, Becomes(g, new)
  PROVE  Typed'
BY DEF Typed, Becomes, bucket

LEMMA TypeStep ==
  ASSUME Typed, [Next]_vars
  PROVE  Typed'
<1> USE RunAssumption
<1>1. ASSUME NEW k \in Client, NEW r \in Repo, NEW c \in Commit, StartPush(k, r, c)
      PROVE  Typed'
  <2> DEFINE need == AllObjects(Ancestors[c] \ History(refs[r]))
                     \ AllObjects(refs[r] \cap Ancestors[c])
  <2>1. Ancestors[c] \ History(refs[r]) \in SUBSET Commit
    BY GraphAssumption
  <2>2. need \in SUBSET Oid
    BY <2>1, NeedTyped
  <2> HIDE DEF need
  <2>3. [step |-> "ask", repo |-> r, commit |-> c, day |-> now, need |-> need] \in Pushing
    BY <2>2 DEF Typed, Pushing
  <2>4. push' = [push EXCEPT ![k] =
          [step |-> "ask", repo |-> r, commit |-> c, day |-> now, need |-> need]]
    BY <1>1 DEF StartPush, need
  <2> QED BY <1>1, <2>3, <2>4 DEF Typed, StartPush, bucket
<1>2. ASSUME NEW k \in Client, AskServer(k) PROVE Typed'
  <2>1. push[k] \in Pushing
    BY <1>2, PushInProgress DEF AskServer
  <2>2. Missing(push[k].need) \in SUBSET Oid /\ now \in Nat
    BY <2>1 DEF Missing, Pushing, Typed
  <2>3. [push[k] EXCEPT !.step = "send", !.need = Missing(@), !.day = now] \in Pushing
    BY <2>1, <2>2, AskedPush
  <2> QED BY <1>2, <2>3 DEF Typed, AskServer, bucket
<1>3. ASSUME NEW k \in Client, NEW o \in Oid, Send(k, o) PROVE Typed'
  <2>1. push[k] \in Pushing
    BY <1>3, PushInProgress DEF Send
  <2>2. push[k].need \ {o} \in SUBSET Oid
    BY <2>1 DEF Pushing
  <2>3. [push[k] EXCEPT !.need = @ \ {o}] \in Pushing
    BY <2>1, <2>2, SentPush
  <2>4. stored' \in [Oid -> 0..MaxDay]
    BY <1>3 DEF Typed, Send
  <2> QED BY <1>3, <2>3, <2>4 DEF Typed, Send
<1>4. ASSUME NEW k \in Client, PushRef(k) PROVE Typed'
  <2>1. push[k] \in Pushing
    BY <1>4, PushInProgress DEF PushRef
  <2>2. push[k].repo \in Repo /\ push[k].commit \in Commit
    BY <2>1 DEF Pushing
  <2> QED BY <1>4, <2>2 DEF Typed, PushRef, bucket
<1>5. ASSUME NEW k \in Client, GiveUpPush(k) PROVE Typed'
  BY <1>5 DEF Typed, GiveUpPush, bucket
<1>6. ASSUME NEW r \in Repo, NEW c \in Commit, DeleteRef(r, c) PROVE Typed'
  BY <1>6 DEF Typed, DeleteRef, bucket
<1>7. CASE Tick
  <2>1. scene.days \in 1..MaxDay
    BY ScenesAssumption DEF Typed
  <2> QED BY <1>7, <2>1 DEF Typed, Tick, bucket
<1>8. ASSUME NEW g \in Run, StartRun(g) PROVE Typed'
  <2>1. now \in Nat
    BY DEF Typed
  <2> QED BY <1>8, <2>1, NewRun, BecomesTyped DEF StartRun
<1>9. ASSUME NEW g \in Run, NEW r \in Repo, Fetch(g, r) \/ Refetch(g, r) PROVE Typed'
  <2>1. run[g] \in Running
    BY <1>9, InProgress DEF Fetch, Refetch, At
  <2>2. Fetched(g, r) \in [Repo -> SUBSET Commit] /\ run[g].left \ {r} \in SUBSET Repo
    BY <2>1 DEF Fetched, Running, Typed
  <2>3. PICK step \in {"fetch", "list", "refetch", "relist", "apply"} :
          Becomes(g, [run[g] EXCEPT !.clone = Fetched(g, r), !.left = @ \ {r}, !.step = step])
    BY <1>9 DEF Fetch, Refetch
  <2>4. [run[g] EXCEPT !.clone = Fetched(g, r), !.left = @ \ {r}, !.step = step] \in Running
    BY <2>1, <2>2, FetchedRun
  <2> QED BY <2>3, <2>4, BecomesTyped
<1>11. ASSUME NEW g \in Run, ListBucket(g) PROVE Typed'
  <2>1. run[g] \in Running
    BY <1>11, InProgress DEF ListBucket, At
  <2> QED BY <1>11, <2>1, PlanTyped, ListedRun, BecomesTyped DEF ListBucket
<1>12. ASSUME NEW g \in Run, Pick(g) PROVE Typed'
  <2>1. run[g] \in Running /\ run[g].chosen \subseteq Change
    BY <1>12, InProgress DEF Pick, At, Running
  <2>2. PICK chosen \in SUBSET run[g].chosen :
          Becomes(g, IF chosen = {} THEN Nobody
                     ELSE [run[g] EXCEPT !.step = "refetch", !.left = Repo, !.chosen = chosen])
    BY <1>12 DEF Pick
  <2>3. [run[g] EXCEPT !.step = "refetch", !.left = Repo, !.chosen = chosen] \in Running
    BY <2>1, PickedRun
  <2> QED BY <2>2, <2>3, BecomesTyped
<1>13. ASSUME NEW g \in Run, Relist(g) PROVE Typed'
  <2> DEFINE still == run[g].chosen \cap Plan(run[g].clone, now)
  <2>1. run[g] \in Running
    BY <1>13, InProgress DEF Relist, At
  <2>2. [run[g] EXCEPT !.step = "apply", !.chosen = still] \in Running
    BY <2>1, PlanTyped, RelistedRun
  <2>3. Becomes(g, IF still = {} THEN Nobody ELSE [run[g] EXCEPT !.step = "apply", !.chosen = still])
    BY <1>13 DEF Relist
  <2> HIDE DEF still
  <2> QED BY <2>2, <2>3, BecomesTyped
<1>14. ASSUME NEW g \in Run, Apply(g) PROVE Typed'
  <2>1. run[g] \in Running /\ run[g].chosen \subseteq Change
    BY <1>14, InProgress DEF Apply, At, Running
  <2>2. PICK change \in run[g].chosen :
          /\ \/ TierObject(change[1]) \/ RemoveObject(change[1]) \/ UNCHANGED bucket
          /\ run' = [run EXCEPT ![g] = IF run[g].chosen = {change} THEN Nobody
                                        ELSE [run[g] EXCEPT !.chosen = @ \ {change}]]
    BY <1>14 DEF Apply
  <2>3. [run[g] EXCEPT !.chosen = @ \ {change}] \in Running
    BY <2>1, LeftRun
  <2>4. run' \in [Run -> {Nobody} \cup Running]
    BY <2>2, <2>3 DEF Typed
  <2>5. change[1] \in Oid
    BY <2>1, <2>2 DEF Change
  <2>6. stored' \in [Oid -> 0..MaxDay] /\ cold' \subseteq Oid
    BY <2>2, <2>5 DEF Typed, TierObject, RemoveObject, bucket
  <2> QED BY <1>14, <2>4, <2>6 DEF Typed, Apply
<1>15. ASSUME NEW g \in Run, StopRun(g) PROVE Typed'
  BY <1>15, BecomesTyped DEF StopRun
<1>16. CASE UNCHANGED vars
  BY <1>16 DEF Typed, vars, bucket
<1>17. scene.commits \subseteq Commit
  BY ScenesAssumption DEF Typed
<1> QED
  BY <1>1, <1>2, <1>3, <1>4, <1>5, <1>6, <1>7, <1>8, <1>9, <1>11, <1>12, <1>13, <1>14,
     <1>15, <1>16, <1>17 DEF Next

-----------------------------------------------------------------------------
(* The second look at the refs. *)

\* What a run would change is spared by its plan, and once it starts to change
\* objects by what it fetched last.
Sparing(c) ==
  /\ c.step \in {"pick", "refetch"} => Spares(c.planned, c.chosen)
  /\ c.step = "apply" => Spares(c.clone, c.chosen)
  /\ c.step \in {"refetch", "apply"} => c.chosen # {}

AllSpare == \A g \in Run : Sparing(run[g])

LEMMA SparesSubset ==
  ASSUME NEW clone, NEW chosen, Spares(clone, chosen), NEW some \in SUBSET chosen
  PROVE  Spares(clone, some)
BY DEF Spares

LEMMA NobodySpares == Sparing(Nobody)
BY DEF Sparing, Nobody

LEMMA BecomesSparing ==
  ASSUME Typed, AllSpare, NEW g \in Run, NEW new, Sparing(new), run' = [run EXCEPT ![g] = new]
  PROVE  AllSpare'
BY DEF Typed, AllSpare

LEMMA SpareStep ==
  ASSUME Typed, AllSpare, [Next]_vars
  PROVE  AllSpare'
<1>1. ASSUME NEW g \in Run, StartRun(g) PROVE AllSpare'
  <2> DEFINE new == [step |-> "fetch", left |-> Repo, clone |-> NoRefs,
                     planned |-> NoRefs, day |-> now, chosen |-> {}]
  <2>1. Sparing(new)
    BY DEF Sparing
  <2>2. run' = [run EXCEPT ![g] = new]
    BY <1>1 DEF StartRun, Becomes
  <2> HIDE DEF new
  <2> QED BY <2>1, <2>2, BecomesSparing
<1>2. ASSUME NEW g \in Run, NEW r \in Repo, Fetch(g, r) PROVE AllSpare'
  <2> DEFINE new == [run[g] EXCEPT !.clone = Fetched(g, r), !.left = @ \ {r},
                                   !.step = IF run[g].left = {r} THEN "list" ELSE "fetch"]
  <2>1. run[g] \in Running
    BY <1>2, InProgress DEF Fetch, At
  <2>2. new.step \in {"list", "fetch"}
    BY <2>1 DEF Running
  <2>3. Sparing(new)
    BY <2>2 DEF Sparing
  <2>4. run' = [run EXCEPT ![g] = new]
    BY <1>2 DEF Fetch, Becomes
  <2> HIDE DEF new
  <2> QED BY <2>3, <2>4, BecomesSparing
<1>3. ASSUME NEW g \in Run, ListBucket(g) PROVE AllSpare'
  <2> DEFINE plan == Plan(run[g].clone, run[g].day)
             new == [run[g] EXCEPT !.step = "pick", !.planned = run[g].clone, !.chosen = plan]
  <2>1. run[g] \in Running
    BY <1>3, InProgress DEF ListBucket, At
  <2>2. run[g].clone \in [Repo -> SUBSET Commit]
    BY <2>1 DEF Running
  <2>3. Spares(run[g].clone, plan)
    BY <2>2, PlanSpares
  <2>4. run' = [run EXCEPT ![g] = new]
    BY <1>3 DEF ListBucket, Becomes
  <2> HIDE DEF plan
  <2>5. new.step = "pick" /\ new.planned = run[g].clone /\ new.chosen = plan
    BY <2>1 DEF Running
  <2> HIDE DEF new
  <2>6. Sparing(new)
    BY <2>3, <2>5 DEF Sparing
  <2> QED BY <2>4, <2>6, BecomesSparing
<1>4. ASSUME NEW g \in Run, Pick(g) PROVE AllSpare'
  <2>1. run[g] \in Running /\ run[g].step = "pick"
    BY <1>4, InProgress DEF Pick, At
  <2>2. PICK chosen \in SUBSET run[g].chosen :
          Becomes(g, IF chosen = {} THEN Nobody
                     ELSE [run[g] EXCEPT !.step = "refetch", !.left = Repo, !.chosen = chosen])
    BY <1>4 DEF Pick
  <2> DEFINE new == [run[g] EXCEPT !.step = "refetch", !.left = Repo, !.chosen = chosen]
  <2>3. new.step = "refetch" /\ new.planned = run[g].planned /\ new.chosen = chosen
    BY <2>1 DEF Running
  <2>4. Spares(run[g].planned, chosen)
    BY <2>1, SparesSubset DEF AllSpare, Sparing
  <2>5. run' = [run EXCEPT ![g] = IF chosen = {} THEN Nobody ELSE new]
    BY <2>2 DEF Becomes
  <2> HIDE DEF new
  <2>6. chosen # {} => Sparing(new)
    BY <2>3, <2>4 DEF Sparing
  <2> QED BY <2>5, <2>6, NobodySpares, BecomesSparing
<1>5. ASSUME NEW g \in Run, NEW r \in Repo, Refetch(g, r) PROVE AllSpare'
  <2> DEFINE step == IF run[g].left # {r} THEN "refetch"
                     ELSE IF Moved(run[g].planned, Fetched(g, r)) THEN "relist" ELSE "apply"
             new == [run[g] EXCEPT !.clone = Fetched(g, r), !.left = @ \ {r}, !.step = step]
  <2>1. run[g] \in Running /\ run[g].step = "refetch"
    BY <1>5, InProgress DEF Refetch, At
  <2>2. run' = [run EXCEPT ![g] = new]
    BY <1>5 DEF Refetch, Becomes
  <2>3. step = "apply" => run[g].planned = Fetched(g, r)
    BY DEF Moved
  <2> HIDE DEF step
  <2>4. /\ new.step = step /\ new.clone = Fetched(g, r)
        /\ new.planned = run[g].planned /\ new.chosen = run[g].chosen
    BY <2>1 DEF Running
  <2> HIDE DEF new
  <2>5. Spares(run[g].planned, run[g].chosen) /\ run[g].chosen # {}
    BY <2>1 DEF AllSpare, Sparing
  <2>6. Sparing(new)
    BY <2>3, <2>4, <2>5 DEF Sparing
  <2> QED BY <2>2, <2>6, BecomesSparing
<1>6. ASSUME NEW g \in Run, Relist(g) PROVE AllSpare'
  <2> DEFINE plan == Plan(run[g].clone, now)
             still == run[g].chosen \cap plan
             new == [run[g] EXCEPT !.step = "apply", !.chosen = still]
  <2>1. run[g] \in Running
    BY <1>6, InProgress DEF Relist, At
  <2>2. run[g].clone \in [Repo -> SUBSET Commit]
    BY <2>1 DEF Running
  <2>3. Spares(run[g].clone, plan)
    BY <2>2, PlanSpares
  <2>4. run' = [run EXCEPT ![g] = IF still = {} THEN Nobody ELSE new]
    BY <1>6 DEF Relist, Becomes
  <2> HIDE DEF plan
  <2>5. Spares(run[g].clone, still)
    BY <2>3, SparesSubset
  <2> HIDE DEF still
  <2>6. new.step = "apply" /\ new.clone = run[g].clone /\ new.chosen = still
    BY <2>1 DEF Running
  <2> HIDE DEF new
  <2>7. still # {} => Sparing(new)
    BY <2>5, <2>6 DEF Sparing
  <2> QED BY <2>4, <2>7, NobodySpares, BecomesSparing
<1>7. ASSUME NEW g \in Run, Apply(g) PROVE AllSpare'
  <2>1. run[g] \in Running /\ run[g].step = "apply"
    BY <1>7, InProgress DEF Apply, At
  <2>2. PICK change \in run[g].chosen :
          run' = [run EXCEPT ![g] = IF run[g].chosen = {change} THEN Nobody
                                    ELSE [run[g] EXCEPT !.chosen = @ \ {change}]]
    BY <1>7 DEF Apply
  <2> DEFINE left == run[g].chosen \ {change}
             new == [run[g] EXCEPT !.chosen = left]
  <2>3. Spares(run[g].clone, left)
    BY <2>1, SparesSubset DEF AllSpare, Sparing
  <2>4. run[g].chosen # {change} => left # {}
    BY <2>2
  <2>5. run' = [run EXCEPT ![g] = IF run[g].chosen = {change} THEN Nobody ELSE new]
    BY <2>2
  <2> HIDE DEF left
  <2>6. new.step = "apply" /\ new.clone = run[g].clone /\ new.chosen = left
    BY <2>1 DEF Running
  <2> HIDE DEF new
  <2>7. left # {} => Sparing(new)
    BY <2>3, <2>6 DEF Sparing
  <2> QED BY <2>4, <2>5, <2>7, NobodySpares, BecomesSparing
<1>8. ASSUME NEW g \in Run, StopRun(g) PROVE AllSpare'
  BY <1>8, NobodySpares, BecomesSparing DEF StopRun, Becomes
<1>9. CASE UNCHANGED run
  BY <1>9 DEF AllSpare
<1> QED
  BY <1>1, <1>2, <1>3, <1>4, <1>5, <1>6, <1>7, <1>8, <1>9
  DEF Next, vars, StartPush, AskServer, Send, PushRef, GiveUpPush, DeleteRef, Tick

-----------------------------------------------------------------------------
(* The age of what a single run changes. *)

OldEnough(o) == stored[o] # 0 /\ \A r \in Repo : now - stored[o] >= Policy[r].minAge

\* A run only ever means to change live objects that are old enough, each in one
\* way.
Ripe(c) ==
  /\ c.step \in {"fetch", "list"} => c.day \in Nat /\ c.day <= now
  /\ c.step \in {"pick", "refetch", "relist", "apply"} =>
       /\ \A x \in c.chosen : OldEnough(x[1])
       /\ \A x, y \in c.chosen : x[1] = y[1] => x = y

AllRipe == \A g \in Run : Ripe(run[g])

\* An object is only changed if no repository wants to keep it or finds it young.
LEMMA HarshestOnly ==
  ASSUME NEW decisions, decisions # {}, decisions \subseteq {"keep", "young", "tier", "delete"},
         Combine(decisions) \in {"tier", "delete"}
  PROVE  \A d \in decisions : d \in {"tier", "delete"}
<1>1. "keep" \notin decisions
  BY KeepWins
<1>2. SUFFICES ASSUME "young" \in decisions PROVE FALSE
  BY <1>1
<1>3. \A e \in decisions : Leniency["young"] <= Leniency[e]
  BY <1>1 DEF Leniency
<1>4. \E d \in decisions : \A e \in decisions : Leniency[d] <= Leniency[e]
  BY <1>2, <1>3
<1> DEFINE chosen == Combine(decisions)
<1>5. \A e \in decisions : Leniency[chosen] <= Leniency[e]
  BY <1>4 DEF Combine
<1>6. chosen \in {"tier", "delete"}
  OBVIOUS
<1> HIDE DEF chosen
<1>7. Leniency[chosen] <= Leniency["young"]
  BY <1>2, <1>5
<1> QED BY <1>6, <1>7 DEF Leniency

LEMMA PlanRipe ==
  ASSUME Typed, NEW clone, NEW day \in Nat, day <= now
  PROVE  /\ \A x \in Plan(clone, day) : OldEnough(x[1])
         /\ \A x, y \in Plan(clone, day) : x[1] = y[1] => x = y
<1> DEFINE facts == [s \in Repo |-> CollectFacts(clone[s], Policy[s], day)]
           decisions(o) == {Decision(facts[s], Policy[s], o, stored[o], o \in cold, day) : s \in Repo}
<1>1. \A x \in Plan(clone, day) :
        /\ x \in Change /\ stored[x[1]] # 0
        /\ x = <<x[1], Combine(decisions(x[1]))>>
  <2> SUFFICES ASSUME NEW x \in Plan(clone, day)
               PROVE  /\ x \in Change /\ stored[x[1]] # 0
                      /\ x = <<x[1], Combine(decisions(x[1]))>>
    OBVIOUS
  <2>1. /\ x \in Change
        /\ x \in {<<o, Combine(decisions(o))>> : o \in {o \in Oid : stored[o] # 0}}
    BY DEF Plan
  <2> HIDE DEF decisions
  <2>2. PICK o \in Oid : stored[o] # 0 /\ x = <<o, Combine(decisions(o))>>
    BY <2>1
  <2> QED BY <2>1, <2>2
<1>2. ASSUME NEW x \in Plan(clone, day) PROVE OldEnough(x[1])
  <2> DEFINE o == x[1]
  <2>1. Combine(decisions(o)) \in {"tier", "delete"} /\ o \in Oid
    BY <1>1, <1>2 DEF Change
  <2>2. decisions(o) # {} /\ decisions(o) \subseteq {"keep", "young", "tier", "delete"}
    BY DecisionKinds, RunAssumption
  <2>3. \A d \in decisions(o) : d \in {"tier", "delete"}
    <3> HIDE DEF decisions
    <3> QED BY <2>1, <2>2, HarshestOnly
  <2>4. ASSUME NEW r \in Repo PROVE now - stored[o] >= Policy[r].minAge
    <3>1. Decision(facts[r], Policy[r], o, stored[o], o \in cold, day) \in {"tier", "delete"}
      BY <2>3
    <3>2. ~Young(Policy[r], stored[o], day)
      BY <3>1 DEF Decision
    <3>3. stored[o] \in Nat /\ now \in Nat /\ Policy[r].minAge \in Nat
      BY <2>1, PolicyAssumption DEF Typed
    <3> QED BY <3>2, <3>3 DEF Young
  <2> QED BY <1>1, <1>2, <2>4 DEF OldEnough
<1>3. ASSUME NEW x \in Plan(clone, day), NEW y \in Plan(clone, day), x[1] = y[1]
      PROVE  x = y
  <2> HIDE DEF decisions
  <2> QED BY <1>1, <1>3
<1> QED BY <1>2, <1>3

\* What was old enough stays so while it is left alone.
LEMMA OldEnoughStays ==
  ASSUME Typed, Typed', now <= now', NEW o \in Oid, stored'[o] = stored[o], OldEnough(o)
  PROVE  OldEnough(o)'
<1>1. stored[o] \in Nat /\ now \in Nat /\ now' \in Nat
  BY DEF Typed
<1>2. ASSUME NEW r \in Repo PROVE now' - stored'[o] >= Policy[r].minAge
  BY <1>1, PolicyAssumption DEF OldEnough
<1> QED BY <1>2 DEF OldEnough

LEMMA RipeStays ==
  ASSUME Typed, Typed', now <= now', AllRipe, \A o \in Oid : stored[o] # 0 => stored'[o] = stored[o]
  PROVE  \A g \in Run : Ripe(run[g])'  \/ run'[g] # run[g]
<1> SUFFICES ASSUME NEW g \in Run, run'[g] = run[g] PROVE Ripe(run[g])'
  OBVIOUS
<1>1. run[g] \in {Nobody} \cup Running /\ Ripe(run[g])
  BY DEF Typed, AllRipe
<1>2. CASE run[g] = Nobody
  BY <1>2 DEF Ripe, Nobody
<1>3. CASE run[g] \in Running
  <2>1. run[g].chosen \subseteq Change /\ run[g].day \in Nat
    BY <1>3 DEF Running
  <2>2. \A x \in run[g].chosen : x[1] \in Oid
    BY <2>1 DEF Change
  <2>3. \A x \in run[g].chosen : OldEnough(x[1]) => OldEnough(x[1])'
    BY <2>2, OldEnoughStays DEF OldEnough
  <2>4. now \in Nat /\ now' \in Nat
    BY DEF Typed
  <2> QED BY <1>1, <2>1, <2>3, <2>4 DEF Ripe
<1> QED BY <1>1, <1>2, <1>3

OneRun == \A g, h \in Run : g = h

LEMMA NobodyRipe == Ripe(Nobody)
BY DEF Ripe, Nobody

\* A run that becomes another while nothing is stored or removed.
LEMMA BecomesRipe ==
  ASSUME Typed, Typed', AllRipe, NEW g \in Run, NEW new, Ripe(new), Becomes(g, new)
  PROVE  AllRipe'
<1>1. now <= now' /\ \A o \in Oid : stored[o] # 0 => stored'[o] = stored[o]
  BY DEF Becomes, bucket, Typed
<1>2. \A h \in Run \ {g} : run'[h] = run[h]
  BY DEF Becomes, Typed
<1>3. run'[g] = new /\ UNCHANGED <<now, stored>>
  BY DEF Becomes, bucket, Typed
<1>4. Ripe(run[g])'
  BY <1>3 DEF Ripe, OldEnough
<1> QED BY <1>1, <1>2, <1>4, RipeStays DEF AllRipe

\* Only gc changes an object that is there.
LEMMA OnlyGc ==
  ASSUME Typed, [Next]_vars, \A g \in Run : ~Apply(g)
  PROVE  \A o \in Oid : stored[o] # 0 => stored'[o] = stored[o]
<1>1. ASSUME NEW k \in Client, NEW x \in Oid, Send(k, x) 
      PROVE  \A o \in Oid : stored[o] # 0 => stored'[o] = stored[o]
  BY <1>1 DEF Send, Typed
<1> QED
  BY <1>1 DEF Next, vars, bucket, StartPush, AskServer, PushRef, GiveUpPush, DeleteRef, Tick, StartRun,
     Fetch, Refetch, ListBucket, Pick, Relist, StopRun, Becomes

LEMMA ChangedByGc ==
  ASSUME Typed, NEW g \in Run, Apply(g)
  PROVE  \E x \in run[g].chosen :
           /\ x[1] \in Oid
           /\ \A o \in Oid \ {x[1]} : stored'[o] = stored[o]
           /\ run' = [run EXCEPT ![g] = IF run[g].chosen = {x} THEN Nobody
                                         ELSE [run[g] EXCEPT !.chosen = @ \ {x}]]
           /\ UNCHANGED now
<1>1. run[g] \in Running /\ run[g].chosen \subseteq Change
  BY InProgress DEF Apply, At, Running
<1>2. PICK x \in run[g].chosen :
        /\ \/ TierObject(x[1]) \/ RemoveObject(x[1]) \/ UNCHANGED bucket
        /\ run' = [run EXCEPT ![g] = IF run[g].chosen = {x} THEN Nobody
                                      ELSE [run[g] EXCEPT !.chosen = @ \ {x}]]
  BY DEF Apply
<1>3. x[1] \in Oid
  BY <1>1, <1>2 DEF Change
<1>4. \A o \in Oid \ {x[1]} : stored'[o] = stored[o]
  BY <1>2 DEF TierObject, RemoveObject, bucket, Typed
<1> QED BY <1>2, <1>3, <1>4 DEF Apply

LEMMA RipeStep ==
  ASSUME OneRun, Typed, Typed', AllRipe, [Next]_vars
  PROVE  AllRipe'
<1>1. ASSUME NEW g \in Run, StartRun(g) PROVE AllRipe'
  <2> DEFINE new == [step |-> "fetch", left |-> Repo, clone |-> NoRefs,
                     planned |-> NoRefs, day |-> now, chosen |-> {}]
  <2>1. Ripe(new)
    BY DEF Ripe, Typed
  <2>2. Becomes(g, new)
    BY <1>1 DEF StartRun
  <2> HIDE DEF new
  <2> QED BY <2>1, <2>2, BecomesRipe
<1>2. ASSUME NEW g \in Run, NEW r \in Repo, Fetch(g, r) \/ Refetch(g, r) PROVE AllRipe'
  <2>1. run[g] \in Running /\ run[g].step \in {"fetch", "refetch"}
    BY <1>2, InProgress DEF Fetch, Refetch, At
  <2>2. PICK step :
          /\ \/ run[g].step = "fetch" /\ step \in {"fetch", "list"}
             \/ run[g].step = "refetch" /\ step \in {"refetch", "relist", "apply"}
          /\ Becomes(g, [run[g] EXCEPT !.clone = Fetched(g, r), !.left = @ \ {r}, !.step = step])
    BY <1>2 DEF Fetch, Refetch, At
  <2> DEFINE new == [run[g] EXCEPT !.clone = Fetched(g, r), !.left = @ \ {r}, !.step = step]
  <2>3. new.step = step /\ new.day = run[g].day /\ new.chosen = run[g].chosen
    BY <2>1 DEF Running
  <2> HIDE DEF new
  <2>4. Ripe(new)
    BY <2>2, <2>3 DEF AllRipe, Ripe
  <2> QED BY <2>2, <2>4, BecomesRipe DEF new
<1>3. ASSUME NEW g \in Run, ListBucket(g) PROVE AllRipe'
  <2> DEFINE plan == Plan(run[g].clone, run[g].day)
             new == [run[g] EXCEPT !.step = "pick", !.planned = run[g].clone, !.chosen = plan]
  <2>1. run[g] \in Running /\ run[g].step = "list"
    BY <1>3, InProgress DEF ListBucket, At
  <2>2. run[g].day \in Nat /\ run[g].day <= now
    BY <2>1 DEF AllRipe, Ripe
  <2>3. /\ \A x \in plan : OldEnough(x[1])
        /\ \A x, y \in plan : x[1] = y[1] => x = y
    BY <2>2, PlanRipe
  <2>4. Becomes(g, new)
    BY <1>3 DEF ListBucket
  <2> HIDE DEF plan
  <2>5. new.step = "pick" /\ new.chosen = plan
    BY <2>1 DEF Running
  <2> HIDE DEF new
  <2>6. Ripe(new)
    BY <2>3, <2>5 DEF Ripe
  <2> QED BY <2>4, <2>6, BecomesRipe
<1>4. ASSUME NEW g \in Run, Pick(g) \/ Relist(g) PROVE AllRipe'
  <2>1. run[g] \in Running /\ run[g].step \in {"pick", "relist"}
    BY <1>4, InProgress DEF Pick, Relist, At
  <2>2. ASSUME NEW some \in SUBSET run[g].chosen,
               Becomes(g, [run[g] EXCEPT !.step = "refetch", !.left = Repo, !.chosen = some])
        PROVE  AllRipe'
    <3> DEFINE new == [run[g] EXCEPT !.step = "refetch", !.left = Repo, !.chosen = some]
    <3>1. new.step = "refetch" /\ new.chosen = some
      BY <2>1 DEF Running
    <3> HIDE DEF new
    <3>2. Ripe(new)
      BY <2>1, <3>1 DEF AllRipe, Ripe
    <3> QED BY <2>2, <3>2, BecomesRipe DEF new
  <2>3. ASSUME NEW some \in SUBSET run[g].chosen,
               Becomes(g, [run[g] EXCEPT !.step = "apply", !.chosen = some])
        PROVE  AllRipe'
    <3> DEFINE new == [run[g] EXCEPT !.step = "apply", !.chosen = some]
    <3>1. new.step = "apply" /\ new.chosen = some
      BY <2>1 DEF Running
    <3> HIDE DEF new
    <3>2. Ripe(new)
      BY <2>1, <3>1 DEF AllRipe, Ripe
    <3> QED BY <2>3, <3>2, BecomesRipe DEF new
  <2>4. Becomes(g, Nobody) => AllRipe'
    BY NobodyRipe, BecomesRipe
  <2> QED BY <1>4, <2>2, <2>3, <2>4 DEF Pick, Relist
<1>5. ASSUME NEW g \in Run, Apply(g) PROVE AllRipe'
  <2>1. run[g] \in Running /\ run[g].chosen \subseteq Change /\ run[g].step = "apply"
    BY <1>5, InProgress DEF Apply, At, Running
  <2>2. PICK x \in run[g].chosen :
           /\ x[1] \in Oid
           /\ \A o \in Oid \ {x[1]} : stored'[o] = stored[o]
           /\ run' = [run EXCEPT ![g] = IF run[g].chosen = {x} THEN Nobody
                                         ELSE [run[g] EXCEPT !.chosen = @ \ {x}]]
           /\ UNCHANGED now
    BY <1>5, ChangedByGc
  <2> DEFINE left == run[g].chosen \ {x}
             new == [run[g] EXCEPT !.chosen = left]
  <2>3. ASSUME NEW y \in left PROVE OldEnough(y[1])'
    <3>1. y[1] # x[1] /\ y[1] \in Oid /\ OldEnough(y[1])
      BY <2>1, <2>2 DEF AllRipe, Ripe, Change
    <3>2. stored'[y[1]] = stored[y[1]] /\ now <= now'
      BY <2>2, <3>1 DEF Typed
    <3> QED BY <3>1, <3>2, OldEnoughStays
  <2>4. \A y, z \in left : y[1] = z[1] => y = z
    BY <2>1 DEF AllRipe, Ripe
  <2>5. run'[g] = IF run[g].chosen = {x} THEN Nobody ELSE new
    BY <2>2 DEF Typed
  <2> HIDE DEF left
  <2>6. new.step = "apply" /\ new.chosen = left
    BY <2>1 DEF Running
  <2> HIDE DEF new
  <2>7. run'[g] # Nobody => Ripe(run[g])'
    BY <2>3, <2>4, <2>5, <2>6 DEF Ripe
  <2>8. Ripe(run[g])'
    BY <2>7 DEF Ripe, Nobody
  <2> QED BY <2>8 DEF AllRipe, OneRun
<1>6. ASSUME NEW g \in Run, StopRun(g) PROVE AllRipe'
  BY <1>6, NobodyRipe, BecomesRipe DEF StopRun
<1>7. ASSUME UNCHANGED run, \A g \in Run : ~Apply(g), now <= now' PROVE AllRipe'
  <2>1. \A o \in Oid : stored[o] # 0 => stored'[o] = stored[o]
    BY <1>7, OnlyGc
  <2>2. \A g \in Run : Ripe(run[g])'  \/ run'[g] # run[g]
    BY <1>7, <2>1, RipeStays
  <2> QED BY <1>7, <2>2 DEF AllRipe
<1>8. now' \in {now, now + 1}
  BY DEF Next, vars, bucket, StartPush, AskServer, Send, PushRef, GiveUpPush, DeleteRef, Tick,
     StartRun, Fetch, Refetch, ListBucket, Pick, Relist, Apply, StopRun, Becomes
<1>9. now <= now'
  BY <1>8, RunAssumption DEF Typed
<1> QED
  BY <1>1, <1>2, <1>3, <1>4, <1>5, <1>6, <1>7, <1>9
  DEF Next, vars, StartPush, AskServer, Send, PushRef, GiveUpPush, DeleteRef, Tick

-----------------------------------------------------------------------------
(* What has been pushed stays live. *)

Waits(r) == Policy[r].minAge # 0

\* An object is there that was written since the push began to send.
Sent(c, o) == c.step = "send" /\ stored[o] # 0 /\ stored[o] >= c.day

\* A push is on time, and what its commit needs it will send, has sent, or is kept
\* for what its repository's refs point to.
Provided(c) ==
  /\ c.day <= now
  /\ \A r \in Repo : Waits(r) => now < c.day + Policy[r].minAge
  /\ \A o \in Promised(c.repo, {c.commit}) :
       o \in c.need \/ Sent(c, o) \/ o \in Promised(c.repo, refs[c.repo])
  /\ c.step = "send" => \A o \in c.need : stored[o] = 0 \/ Sent(c, o)

AllProvided == \A k \in Client : push[k] # Nobody => Provided(push[k])

\* From the second fetch of a repository on, what a run would change is needed there
\* only if the fetched refs say so.
Knowing(c) ==
  /\ c.step \in {"relist", "apply"} => c.left = {}
  /\ c.step \in {"refetch", "relist", "apply"} =>
       \A x \in c.chosen, r \in Repo \ c.left :
         x[1] \in Promised(r, refs[r]) => x[1] \in Promised(r, c.clone[r])

AllKnow == \A g \in Run : Knowing(run[g])

Live == \A r \in Repo : \A o \in Promised(r, refs[r]) : stored[o] # 0

SomeoneWaits == \E r \in Repo : Waits(r)

LiveInv == ~scene.anyPush => AllProvided /\ AllKnow /\ Live

\* More refs promise more, and nothing but what each of them does.
LEMMA PromisedUnion ==
  ASSUME NEW r, NEW A, NEW B
  PROVE  Promised(r, A \cup B) = Promised(r, A) \cup Promised(r, B)
BY DEF Promised, AllObjects, Versions, History

LEMMA PromisedGrows ==
  ASSUME NEW r, NEW A, NEW B, A \subseteq B
  PROVE  Promised(r, A) \subseteq Promised(r, B)
BY DEF Promised, AllObjects, Versions, History

LEMMA PromisedTyped ==
  ASSUME NEW r \in Repo, NEW tips \in SUBSET Commit
  PROVE  Promised(r, tips) \subseteq Oid
BY PromiseIsReason

\* What a push does not have to send, its repository already needs.
LEMMA NeedCovers ==
  ASSUME NEW r \in Repo, NEW tips \in SUBSET Commit, NEW c \in Commit, c \notin History(tips),
         NEW o \in Promised(r, {c})
  PROVE  \/ o \in AllObjects(Ancestors[c] \ History(tips)) \ AllObjects(tips \cap Ancestors[c])
         \/ o \in Promised(r, tips)
<1>1. CASE o \in AllObjects(tips \cap Ancestors[c])
  <2>1. o \in AllObjects(tips)
    BY <1>1 DEF AllObjects
  <2> QED BY <2>1 DEF Promised
<1>2. CASE o \in AllObjects({c}) /\ o \notin AllObjects(tips \cap Ancestors[c])
  <2>1. c \in Ancestors[c] \ History(tips)
    BY GraphAssumption
  <2>2. o \in AllObjects(Ancestors[c] \ History(tips))
    BY <1>2, <2>1 DEF AllObjects
  <2> QED BY <1>2, <2>2
<1>3. CASE o \in Versions({c}, KeepsAllAt(r)) /\ o \notin AllObjects(tips \cap Ancestors[c])
  <2>1. PICK d \in Ancestors[c], p \in KeepsAllAt(r) : o = Tree[d][p] /\ o # None
    BY <1>3 DEF Versions, History
  <2>2. p \in Path
    BY DEF KeepsAllAt
  <2>3. CASE d \in History(tips)
    <3>1. o \in Versions(tips, KeepsAllAt(r))
      BY <2>1, <2>3 DEF Versions
    <3> QED BY <3>1 DEF Promised
  <2>4. CASE d \notin History(tips)
    <3>1. o \in AllObjects(Ancestors[c] \ History(tips))
      BY <2>1, <2>2, <2>4 DEF AllObjects, Objects
    <3> QED BY <1>3, <3>1
  <2> QED BY <2>3, <2>4
<1> QED BY <1>1, <1>2, <1>3 DEF Promised

\* An object that is old enough was written before any push in flight began to send.
LEMMA OldIsNotSent ==
  ASSUME SomeoneWaits, Typed, NEW k \in Client, push[k] \in Pushing, Provided(push[k]),
         NEW o \in Oid, OldEnough(o)
  PROVE  stored[o] < push[k].day
<1>1. PICK r \in Repo : Waits(r)
  BY DEF SomeoneWaits
<1>2. now < push[k].day + Policy[r].minAge /\ now - stored[o] >= Policy[r].minAge
  BY <1>1 DEF Provided, OldEnough
<1>3. now \in Nat /\ stored[o] \in Nat /\ Policy[r].minAge \in Nat /\ push[k].day \in Nat
  BY PolicyAssumption DEF Typed, Pushing
<1> QED BY <1>2, <1>3

\* A push stays provided for while its refs do not promise less and objects are at
\* most written again, or removed if they were written before it began to send.
LEMMA ProvidedKept ==
  ASSUME Typed, NEW k \in Client, push[k] \in Pushing, push'[k] = push[k], Provided(push[k]),
         now' = now,
         Promised(push[k].repo, refs[push[k].repo]) \subseteq
           Promised(push[k].repo, refs'[push[k].repo]),
         \A o \in Oid : \/ stored'[o] = stored[o]
                        \/ stored'[o] = now
                        \/ stored'[o] = 0 /\ stored[o] < push[k].day
  PROVE  Provided(push[k])'
<1> DEFINE c == push[k]
<1>1. c.repo \in Repo /\ c.commit \in Commit /\ c.need \subseteq Oid /\ c.day \in Nat
  BY DEF Pushing
<1>2. now \in Nat \ {0} /\ stored \in [Oid -> Nat] /\ c.day <= now
  BY RunAssumption DEF Typed, Provided
<1>3. \A o \in Oid : Sent(c, o) => c.step = "send" /\ stored'[o] # 0 /\ stored'[o] >= c.day
  BY <1>1, <1>2 DEF Sent
<1>4. Promised(c.repo, {c.commit}) \subseteq Oid
  BY <1>1, PromisedTyped
<1>5. \A o \in Promised(c.repo, {c.commit}) :
        \/ o \in c.need
        \/ c.step = "send" /\ stored'[o] # 0 /\ stored'[o] >= c.day
        \/ o \in Promised(c.repo, refs'[c.repo])
  BY <1>3, <1>4 DEF Provided
<1>6. c.step = "send" => \A o \in c.need :
        stored'[o] = 0 \/ (stored'[o] # 0 /\ stored'[o] >= c.day)
  BY <1>1, <1>2, <1>3 DEF Provided
<1>7. \A r \in Repo : Waits(r) => now' < c.day + Policy[r].minAge
  BY DEF Provided
<1>8. push'[k] = c
  OBVIOUS
<1>9. c.day <= now'
  BY <1>2
<1> HIDE DEF c
<1> QED BY <1>5, <1>6, <1>7, <1>8, <1>9 DEF Provided, Sent, Waits

\* The promises of a repository once a ref of it has been added or moved forward.
LEMMA PushedPromises ==
  ASSUME NEW r, NEW tips, NEW old, NEW c
  PROVE  /\ Promised(r, (tips \ old) \cup {c}) \subseteq Promised(r, tips) \cup Promised(r, {c})
         /\ old = {} => Promised(r, tips) \subseteq Promised(r, (tips \ old) \cup {c})
<1>1. Promised(r, (tips \ old) \cup {c}) \subseteq Promised(r, tips \cup {c})
  BY PromisedGrows
<1>2. Promised(r, tips \cup {c}) = Promised(r, tips) \cup Promised(r, {c})
  BY PromisedUnion
<1>3. old = {} => (tips \ old) \cup {c} = tips \cup {c}
  OBVIOUS
<1> QED BY <1>1, <1>2, <1>3

\* While the bucket and the run stay, a run knows what it knew unless a repository
\* is promised more than before of what the run would change.
LEMMA KnowingKept ==
  ASSUME Typed, AllKnow, run' = run,
         \A g \in Run, r \in Repo : \A x \in run[g].chosen :
           /\ run[g].step \in {"refetch", "relist", "apply"}
           /\ x[1] \in Promised(r, refs'[r])
           => x[1] \in Promised(r, refs[r])
  PROVE  AllKnow'
<1> SUFFICES ASSUME NEW g \in Run PROVE Knowing(run[g])'
  BY DEF AllKnow
<1>1. Knowing(run[g])
  BY DEF AllKnow
<1> QED BY <1>1 DEF Knowing

LEMMA BecomesKnowing ==
  ASSUME Typed, AllProvided, AllKnow, Live, NEW g \in Run, NEW new, Knowing(new), Becomes(g, new)
  PROVE  AllProvided' /\ AllKnow' /\ Live'
<1>1. UNCHANGED <<now, stored, cold, refs, push>> /\ run' = [run EXCEPT ![g] = new]
  BY DEF Becomes, bucket
<1>2. AllProvided'
  <2> SUFFICES ASSUME NEW k \in Client, push'[k] # Nobody PROVE Provided(push[k])'
    BY DEF AllProvided
  <2>1. Provided(push[k])
    BY <1>1 DEF AllProvided
  <2> QED BY <1>1, <2>1 DEF Provided, Sent, Waits
<1>3. AllKnow'
  <2> SUFFICES ASSUME NEW h \in Run PROVE Knowing(run[h])'
    BY DEF AllKnow
  <2>1. run'[h] = IF h = g THEN new ELSE run[h]
    BY <1>1 DEF Typed
  <2>2. Knowing(run[h])
    BY DEF AllKnow
  <2> QED BY <1>1, <2>1, <2>2 DEF Knowing
<1> QED BY <1>1, <1>2, <1>3 DEF Live

LEMMA NobodyKnowing == Knowing(Nobody)
BY DEF Knowing, Nobody

\* The steps of a run up to its first change.
LEMMA LookKeepsLive ==
  ASSUME Typed, AllProvided, AllKnow, Live, NEW g \in Run,
         \/ StartRun(g) \/ ListBucket(g) \/ Pick(g) \/ Relist(g) \/ StopRun(g)
         \/ \E r \in Repo : Fetch(g, r) \/ Refetch(g, r)
  PROVE  AllProvided' /\ AllKnow' /\ Live'
<1> DEFINE Goal == AllProvided' /\ AllKnow' /\ Live'
<1>1. CASE StartRun(g)
  <2> DEFINE new == [step |-> "fetch", left |-> Repo, clone |-> NoRefs,
                     planned |-> NoRefs, day |-> now, chosen |-> {}]
  <2>1. Knowing(new)
    BY DEF Knowing
  <2>2. Becomes(g, new)
    BY <1>1 DEF StartRun
  <2> HIDE DEF new
  <2> QED BY <2>1, <2>2, BecomesKnowing
<1>2. CASE ListBucket(g)
  <2> DEFINE plan == Plan(run[g].clone, run[g].day)
             new == [run[g] EXCEPT !.step = "pick", !.planned = run[g].clone, !.chosen = plan]
  <2>1. run[g] \in Running
    BY <1>2, InProgress DEF ListBucket, At
  <2>2. Becomes(g, new)
    BY <1>2 DEF ListBucket
  <2> HIDE DEF plan
  <2>3. new.step = "pick"
    BY <2>1 DEF Running
  <2> HIDE DEF new
  <2>4. Knowing(new)
    BY <2>3 DEF Knowing
  <2> QED BY <2>2, <2>4, BecomesKnowing
<1>3. CASE Pick(g)
  <2>1. run[g] \in Running
    BY <1>3, InProgress DEF Pick, At
  <2>2. PICK some \in SUBSET run[g].chosen :
          Becomes(g, IF some = {} THEN Nobody
                     ELSE [run[g] EXCEPT !.step = "refetch", !.left = Repo, !.chosen = some])
    BY <1>3 DEF Pick
  <2> DEFINE new == [run[g] EXCEPT !.step = "refetch", !.left = Repo, !.chosen = some]
  <2>3. new.step = "refetch" /\ new.left = Repo
    BY <2>1 DEF Running
  <2>4. Becomes(g, Nobody) \/ Becomes(g, new)
    BY <2>2
  <2> HIDE DEF new
  <2>5. Knowing(new)
    BY <2>3 DEF Knowing
  <2> QED BY <2>4, <2>5, NobodyKnowing, BecomesKnowing
<1>4. CASE Relist(g)
  <2> DEFINE still == run[g].chosen \cap Plan(run[g].clone, now)
             new == [run[g] EXCEPT !.step = "apply", !.chosen = still]
  <2>1. run[g] \in Running /\ run[g].step = "relist"
    BY <1>4, InProgress DEF Relist, At
  <2>2. Becomes(g, Nobody) \/ Becomes(g, new)
    BY <1>4 DEF Relist
  <2>3. still \subseteq run[g].chosen
    OBVIOUS
  <2> HIDE DEF still
  <2>4. /\ new.step = "apply" /\ new.left = run[g].left
        /\ new.clone = run[g].clone /\ new.chosen = still
    BY <2>1 DEF Running
  <2> HIDE DEF new
  <2>5. Knowing(run[g])
    BY DEF AllKnow
  <2>6. Knowing(new)
    BY <2>1, <2>3, <2>4, <2>5 DEF Knowing
  <2> QED BY <2>2, <2>6, NobodyKnowing, BecomesKnowing
<1>5. CASE StopRun(g)
  BY <1>5, NobodyKnowing, BecomesKnowing DEF StopRun
<1>6. ASSUME NEW r \in Repo, Fetch(g, r) PROVE Goal
  <2> DEFINE step == IF run[g].left = {r} THEN "list" ELSE "fetch"
             new == [run[g] EXCEPT !.clone = Fetched(g, r), !.left = @ \ {r}, !.step = step]
  <2>1. run[g] \in Running
    BY <1>6, InProgress DEF Fetch, At
  <2>2. Becomes(g, new)
    BY <1>6 DEF Fetch
  <2>3. new.step \in {"list", "fetch"}
    BY <2>1 DEF Running
  <2> HIDE DEF new
  <2>4. Knowing(new)
    BY <2>3 DEF Knowing
  <2> QED BY <2>2, <2>4, BecomesKnowing
<1>7. ASSUME NEW r \in Repo, Refetch(g, r) PROVE Goal
  <2> DEFINE step == IF run[g].left # {r} THEN "refetch"
                     ELSE IF Moved(run[g].planned, Fetched(g, r)) THEN "relist" ELSE "apply"
             new == [run[g] EXCEPT !.clone = Fetched(g, r), !.left = @ \ {r}, !.step = step]
  <2>1. run[g] \in Running /\ run[g].step = "refetch"
    BY <1>7, InProgress DEF Refetch, At
  <2>2. Becomes(g, new)
    BY <1>7 DEF Refetch
  <2>3. step \in {"relist", "apply"} => run[g].left = {r}
    OBVIOUS
  <2> HIDE DEF step
  <2>4. /\ new.step = step /\ new.left = run[g].left \ {r}
        /\ new.clone = [run[g].clone EXCEPT ![r] = refs[r]] /\ new.chosen = run[g].chosen
    BY <2>1 DEF Running, Fetched
  <2>5. run[g].clone \in [Repo -> SUBSET Commit]
    BY <2>1 DEF Running
  <2> HIDE DEF new
  <2>6. ASSUME NEW x \in run[g].chosen, NEW s \in Repo \ (run[g].left \ {r}),
               x[1] \in Promised(s, refs[s])
        PROVE  x[1] \in Promised(s, new.clone[s])
    <3>1. CASE s = r
      BY <2>4, <2>5, <2>6, <3>1
    <3>2. CASE s # r
      <4>1. new.clone[s] = run[g].clone[s] /\ s \notin run[g].left
        BY <2>4, <2>5, <3>2
      <4> QED BY <2>1, <2>6, <4>1 DEF AllKnow, Knowing
    <3> QED BY <3>1, <3>2
  <2>7. Knowing(new)
    BY <2>3, <2>4, <2>6 DEF Knowing
  <2> QED BY <2>2, <2>7, BecomesKnowing
<1> QED BY <1>1, <1>2, <1>3, <1>4, <1>5, <1>6, <1>7

\* The start of a push.
LEMMA StartKeepsLive ==
  ASSUME Typed, AllProvided, AllKnow, Live,
         NEW k \in Client, NEW r \in Repo, NEW c \in Commit, StartPush(k, r, c)
  PROVE  AllProvided' /\ AllKnow' /\ Live'
<1>1. PICK new :
        /\ new = [step |-> "ask", repo |-> r, commit |-> c, day |-> now,
                  need |-> AllObjects(Ancestors[c] \ History(refs[r]))
                             \ AllObjects(refs[r] \cap Ancestors[c])]
        /\ push' = [push EXCEPT ![k] = new] /\ UNCHANGED <<now, stored, refs, run>>
  BY DEF StartPush, bucket
<1>2. \A o \in Promised(r, {c}) : o \in new.need \/ o \in Promised(r, refs[r])
  BY <1>1, NeedCovers DEF StartPush, Typed
<1>3. Provided(new)'
  <2>1. now' = now /\ now \in Nat /\ refs' = refs
    BY <1>1 DEF Typed
  <2>2. \A s \in Repo : Waits(s) => now < now + Policy[s].minAge
    BY <2>1, PolicyAssumption DEF Waits
  <2>3. new.step = "ask" /\ new.repo = r /\ new.commit = c /\ new.day = now
    BY <1>1
  <2> QED BY <1>2, <2>1, <2>2, <2>3 DEF Provided
<1>4. ASSUME NEW j \in Client, push'[j] # Nobody PROVE Provided(push[j])'
  <2>1. CASE j = k
    <3>1. push'[j] = new
      BY <1>1, <2>1 DEF Typed
    <3> QED BY <1>3, <3>1 DEF Provided, Sent, Waits
  <2>2. CASE j # k
    <3>1. push'[j] = push[j]
      BY <1>1, <2>2 DEF Typed
    <3>2. push[j] \in Pushing /\ Provided(push[j])
      BY <1>4, <3>1 DEF Typed, AllProvided
    <3> QED BY <1>1, <3>1, <3>2, ProvidedKept
  <2> QED BY <2>1, <2>2
<1>5. AllKnow'
  BY <1>1, KnowingKept
<1> QED BY <1>1, <1>4, <1>5 DEF AllProvided, Live

\* The server has none of the objects that the push needs.
LEMMA AskKeepsLive ==
  ASSUME Typed, ~scene.anyPush, AllProvided, AllKnow, Live, NEW k \in Client, AskServer(k)
  PROVE  AllProvided' /\ AllKnow' /\ Live'
<1>1. PICK new :
        /\ new = [push[k] EXCEPT !.step = "send", !.need = Missing(@), !.day = now]
        /\ push' = [push EXCEPT ![k] = new] /\ UNCHANGED <<now, stored, refs, run>>
  BY DEF AskServer, bucket
<1>2. push[k] \in Pushing /\ push[k].step = "ask" /\ Missing(push[k].need) = push[k].need
  BY PushInProgress DEF AskServer
<1>3. /\ new.step = "send" /\ new.need = push[k].need /\ new.day = now
      /\ new.repo = push[k].repo /\ new.commit = push[k].commit
  BY <1>1, <1>2 DEF Pushing
<1>4. Provided(push[k])
  BY <1>2 DEF AllProvided, Nobody
<1>5. Provided(new)'
  <2>1. now' = now /\ now \in Nat /\ refs' = refs /\ stored' = stored
    BY <1>1 DEF Typed
  <2>2. \A s \in Repo : Waits(s) => now < now + Policy[s].minAge
    BY <2>1, PolicyAssumption DEF Waits
  <2>3. \A o \in push[k].need : stored[o] = 0
    BY <1>2 DEF Missing
  <2>4. \A o \in Promised(new.repo, {new.commit}) :
          o \in new.need \/ o \in Promised(new.repo, refs[new.repo])
    BY <1>2, <1>3, <1>4 DEF Provided, Sent
  <2> QED BY <1>3, <2>1, <2>2, <2>3, <2>4 DEF Provided
<1>6. ASSUME NEW j \in Client, push'[j] # Nobody PROVE Provided(push[j])'
  <2>1. CASE j = k
    <3>1. push'[j] = new
      BY <1>1, <2>1 DEF Typed
    <3> QED BY <1>5, <3>1 DEF Provided, Sent, Waits
  <2>2. CASE j # k
    <3>1. push'[j] = push[j]
      BY <1>1, <2>2 DEF Typed
    <3>2. push[j] \in Pushing /\ Provided(push[j])
      BY <1>6, <3>1 DEF Typed, AllProvided
    <3> QED BY <1>1, <3>1, <3>2, ProvidedKept
  <2> QED BY <2>1, <2>2
<1>7. AllKnow'
  BY <1>1, KnowingKept
<1> QED BY <1>1, <1>6, <1>7 DEF AllProvided, Live

LEMMA SendKeepsLive ==
  ASSUME Typed, AllProvided, AllKnow, Live, NEW k \in Client, NEW o \in Oid, Send(k, o)
  PROVE  AllProvided' /\ AllKnow' /\ Live'
<1>1. PICK new :
        /\ new = [push[k] EXCEPT !.need = @ \ {o}]
        /\ push' = [push EXCEPT ![k] = new] /\ UNCHANGED <<now, refs, run>>
  BY DEF Send
<1>2. push[k] \in Pushing /\ push[k].step = "send" /\ o \in push[k].need
  BY PushInProgress DEF Send
<1>3. /\ new.step = "send" /\ new.need = push[k].need \ {o} /\ new.day = push[k].day
      /\ new.repo = push[k].repo /\ new.commit = push[k].commit
  BY <1>1, <1>2 DEF Pushing
<1>4. Provided(push[k])
  BY <1>2 DEF AllProvided, Nobody
<1>5. \A x \in Oid : stored'[x] = IF x = o /\ stored[o] = 0 THEN now ELSE stored[x]
  BY DEF Send, Typed
<1>6. now \in Nat \ {0} /\ stored \in [Oid -> Nat] /\ push[k].day \in Nat /\ push[k].day <= now
  BY <1>2, <1>4, RunAssumption DEF Typed, Pushing, Provided
<1>7. Provided(new)'
  <2>1. \A x \in Oid : Sent(push[k], x) => stored'[x] # 0 /\ stored'[x] >= push[k].day
    BY <1>5, <1>6 DEF Sent
  <2>2. stored'[o] # 0 /\ stored'[o] >= push[k].day
    <3>1. stored[o] = 0 \/ Sent(push[k], o)
      BY <1>2, <1>4 DEF Provided
    <3> QED BY <1>5, <1>6, <2>1, <3>1
  <2>3. push[k].repo \in Repo /\ push[k].commit \in Commit /\ push[k].need \subseteq Oid
    BY <1>2 DEF Pushing
  <2>4. Promised(push[k].repo, {push[k].commit}) \subseteq Oid
    BY <2>3, PromisedTyped
  <2>5. ASSUME NEW x \in Promised(push[k].repo, {push[k].commit})
        PROVE  \/ x \in new.need
               \/ stored'[x] # 0 /\ stored'[x] >= push[k].day
               \/ x \in Promised(push[k].repo, refs[push[k].repo])
    BY <1>3, <1>4, <2>1, <2>2, <2>4 DEF Provided
  <2>6. ASSUME NEW x \in new.need
        PROVE  stored'[x] = 0 \/ (stored'[x] # 0 /\ stored'[x] >= push[k].day)
    <3>1. x \in push[k].need /\ x \in Oid /\ x # o
      BY <1>3, <2>3
    <3>2. stored'[x] = stored[x]
      BY <1>5, <3>1
    <3>3. stored[x] = 0 \/ Sent(push[k], x)
      BY <1>2, <1>4, <3>1 DEF Provided
    <3> QED BY <2>1, <3>1, <3>2, <3>3
  <2>7. now' = now /\ refs' = refs
    BY <1>1
  <2>8. \A r \in Repo : Waits(r) => now < push[k].day + Policy[r].minAge
    BY <1>4 DEF Provided
  <2> QED BY <1>3, <1>6, <2>5, <2>6, <2>7, <2>8 DEF Provided, Sent
<1>8. ASSUME NEW j \in Client, push'[j] # Nobody PROVE Provided(push[j])'
  <2>1. CASE j = k
    <3>1. push'[j] = new
      BY <1>1, <2>1 DEF Typed
    <3> QED BY <1>7, <3>1 DEF Provided, Sent, Waits
  <2>2. CASE j # k
    <3>1. push'[j] = push[j]
      BY <1>1, <2>2 DEF Typed
    <3>2. push[j] \in Pushing /\ Provided(push[j])
      BY <1>8, <3>1 DEF Typed, AllProvided
    <3> QED BY <1>1, <1>5, <3>1, <3>2, ProvidedKept
  <2> QED BY <2>1, <2>2
<1>9. AllKnow'
  BY <1>1, KnowingKept
<1>10. Live'
  <2> SUFFICES ASSUME NEW r \in Repo, NEW x \in Promised(r, refs[r]) PROVE stored'[x] # 0
    BY <1>1 DEF Live
  <2>1. x \in Oid /\ stored[x] # 0
    BY PromisedTyped DEF Typed, Live
  <2> QED BY <1>5, <1>6, <2>1
<1> QED BY <1>8, <1>9, <1>10 DEF AllProvided

\* Where refs have gone: of what a repository needs now, nothing is new that is old
\* enough for gc, and pushes in flight keep what they build on.
LEMMA RefsKeepLive ==
  ASSUME Typed, AllProvided, AllKnow, AllRipe, NEW r \in Repo, NEW tips \in SUBSET Commit,
         UNCHANGED <<now, stored, run>>, refs' = [refs EXCEPT ![r] = tips],
         \A k \in Client : push'[k] # Nobody => push'[k] = push[k],
         \A k \in Client : push'[k] # Nobody /\ push[k].repo = r =>
                             Promised(r, refs[r]) \subseteq Promised(r, tips),
         \A o \in Promised(r, tips) : stored[o] # 0,
         \A o \in Promised(r, tips) : OldEnough(o) => o \in Promised(r, refs[r]),
         Live
  PROVE  AllProvided' /\ AllKnow' /\ Live'
<1>1. ASSUME NEW k \in Client, push'[k] # Nobody PROVE Provided(push[k])'
  <2>1. push'[k] = push[k] /\ push[k] \in Pushing /\ Provided(push[k])
    BY <1>1 DEF Typed, AllProvided
  <2>2. refs'[push[k].repo] = IF push[k].repo = r THEN tips ELSE refs[push[k].repo]
    BY <2>1 DEF Typed, Pushing
  <2>3. Promised(push[k].repo, refs[push[k].repo]) \subseteq
          Promised(push[k].repo, refs'[push[k].repo])
    BY <1>1, <2>2
  <2> QED BY <2>1, <2>3, ProvidedKept
<1>2. \A s \in Repo : refs'[s] = IF s = r THEN tips ELSE refs[s]
  BY DEF Typed
<1>3. ASSUME NEW g \in Run, NEW s \in Repo, NEW x \in run[g].chosen,
             run[g].step \in {"refetch", "relist", "apply"}, x[1] \in Promised(s, refs'[s])
      PROVE  x[1] \in Promised(s, refs[s])
  <2>1. OldEnough(x[1])
    BY <1>3 DEF AllRipe, Ripe
  <2> QED BY <1>2, <1>3, <2>1
<1>4. AllKnow'
  BY <1>3, KnowingKept
<1>5. Live'
  BY <1>2 DEF Live
<1> QED BY <1>1, <1>4, <1>5 DEF AllProvided

LEMMA PushRefKeepsLive ==
  ASSUME SomeoneWaits, Typed, ~scene.anyPush, AllProvided, AllKnow, AllRipe, Live,
         NEW k \in Client, PushRef(k)
  PROVE  AllProvided' /\ AllKnow' /\ Live'
<1>1. push[k] \in Pushing /\ push[k].step = "send" /\ push[k].need = {}
  BY PushInProgress DEF PushRef
<1> DEFINE r == push[k].repo
           c == push[k].commit
<1>2. PICK old \in SUBSET (refs[r] \cap Ancestors[c]) :
        /\ old = {} \/ Unbuilt(r, Client \ {k})
        /\ refs' = [refs EXCEPT ![r] = (@ \ old) \cup {c}]
  BY DEF PushRef
<1>3. r \in Repo /\ c \in Commit
  BY <1>1 DEF Pushing
<1>4. PICK tips \in SUBSET Commit : tips = (refs[r] \ old) \cup {c}
  BY <1>3 DEF Typed
<1>5. push' = [push EXCEPT ![k] = Nobody] /\ UNCHANGED <<now, stored, run>>
  BY DEF PushRef, bucket
<1>6. /\ Promised(r, tips) \subseteq Promised(r, refs[r]) \cup Promised(r, {c})
      /\ old = {} => Promised(r, refs[r]) \subseteq Promised(r, tips)
  BY <1>4, PushedPromises
<1>7. Provided(push[k])
  BY <1>1 DEF AllProvided, Nobody
<1>8. \A o \in Promised(r, {c}) : Sent(push[k], o) \/ o \in Promised(r, refs[r])
  BY <1>1, <1>7 DEF Provided
<1>9. refs' = [refs EXCEPT ![r] = tips]
  BY <1>2, <1>4
<1>10. \A o \in Promised(r, tips) : stored[o] # 0
  BY <1>3, <1>6, <1>8 DEF Sent, Live
<1>11. ASSUME NEW o \in Promised(r, tips), OldEnough(o) PROVE o \in Promised(r, refs[r])
  <2>1. o \in Oid
    BY <1>3, <1>4, PromisedTyped
  <2>2. stored[o] < push[k].day
    BY <1>1, <1>7, <1>11, <2>1, OldIsNotSent
  <2>3. stored[o] \in Nat /\ push[k].day \in Nat
    BY <1>1, <2>1 DEF Typed, Pushing
  <2>4. ~Sent(push[k], o)
    BY <2>2, <2>3 DEF Sent
  <2> QED BY <1>6, <1>8, <2>4
<1>12. \A j \in Client : push'[j] # Nobody => push'[j] = push[j] /\ j # k
  BY <1>5 DEF Typed
<1>13. \A j \in Client : push'[j] # Nobody /\ push[j].repo = r =>
         Promised(r, refs[r]) \subseteq Promised(r, tips)
  BY <1>2, <1>6, <1>12 DEF Unbuilt
<1>14. PICK s \in Repo : s = r
  BY <1>3
<1> HIDE DEF r, c
<1> QED BY <1>5, <1>9, <1>10, <1>11, <1>12, <1>13, <1>14, RefsKeepLive

LEMMA DeleteRefKeepsLive ==
  ASSUME Typed, ~scene.anyPush, AllProvided, AllKnow, AllRipe, Live,
         NEW r \in Repo, NEW c \in Commit, DeleteRef(r, c)
  PROVE  AllProvided' /\ AllKnow' /\ Live'
<1>1. PICK tips \in SUBSET Commit : tips = refs[r] \ {c}
  BY DEF Typed
<1>2. UNCHANGED <<now, stored, run, push>> /\ refs' = [refs EXCEPT ![r] = tips]
  BY <1>1 DEF DeleteRef, bucket
<1>3. Promised(r, tips) \subseteq Promised(r, refs[r])
  BY <1>1, PromisedGrows
<1>4. \A o \in Promised(r, tips) : stored[o] # 0
  BY <1>3 DEF Live
<1>5. \A k \in Client : push'[k] # Nobody =>
        push'[k] = push[k] /\ push[k].repo # r
  BY <1>2 DEF DeleteRef, Unbuilt
<1>6. \A o \in Promised(r, tips) : OldEnough(o) => o \in Promised(r, refs[r])
  BY <1>3
<1> QED BY <1>2, <1>4, <1>5, <1>6, RefsKeepLive

LEMMA GiveUpKeepsLive ==
  ASSUME Typed, AllProvided, AllKnow, Live, NEW k \in Client, GiveUpPush(k)
  PROVE  AllProvided' /\ AllKnow' /\ Live'
<1>1. UNCHANGED <<now, stored, refs, run>> /\ push' = [push EXCEPT ![k] = Nobody]
  BY DEF GiveUpPush, bucket
<1>2. ASSUME NEW j \in Client, push'[j] # Nobody PROVE Provided(push[j])'
  <2>1. push'[j] = push[j] /\ push[j] \in Pushing /\ Provided(push[j])
    BY <1>1, <1>2 DEF Typed, AllProvided
  <2> QED BY <1>1, <2>1, ProvidedKept
<1>3. AllKnow'
  BY <1>1, KnowingKept
<1> QED BY <1>1, <1>2, <1>3 DEF AllProvided, Live

\* Days only pass while every push is on time.
LEMMA TickKeepsLive ==
  ASSUME Typed, ~scene.anyPush, AllProvided, AllKnow, Live, Tick
  PROVE  AllProvided' /\ AllKnow' /\ Live'
<1>1. UNCHANGED <<stored, refs, run, push>> /\ now' = now + 1 /\ now \in Nat /\ Prompt
  BY DEF Tick, bucket, Typed
<1>2. ASSUME NEW k \in Client, push'[k] # Nobody PROVE Provided(push[k])'
  <2>1. push'[k] = push[k] /\ push[k] \in Pushing /\ Provided(push[k])
    BY <1>1, <1>2 DEF Typed, AllProvided
  <2>2. push[k].day \in Nat /\ push[k].day <= now
    BY <2>1 DEF Pushing, Provided
  <2>3. \A r \in Repo : now + 1 < push[k].day + Policy[r].minAge
    BY <1>1, <1>2 DEF Prompt
  <2>4. push[k].day <= now + 1
    BY <1>1, <2>2
  <2> QED BY <1>1, <2>1, <2>3, <2>4 DEF Provided, Sent
<1>3. AllKnow'
  BY <1>1, KnowingKept
<1> QED BY <1>1, <1>2, <1>3 DEF AllProvided, Live

\* gc changes nothing that a ref needs but to write it again, and nothing that a
\* push in flight relies on.
LEMMA ApplyKeepsLive ==
  ASSUME SomeoneWaits, Typed, AllSpare, AllRipe, AllProvided, AllKnow, Live,
         NEW g \in Run, Apply(g)
  PROVE  AllProvided' /\ AllKnow' /\ Live'
<1>1. run[g] \in Running /\ run[g].chosen \subseteq Change /\ run[g].step = "apply"
  BY InProgress DEF Apply, At, Running
<1>2. PICK x \in run[g].chosen :
        /\ \/ x[2] = "tier" /\ TierObject(x[1])
           \/ x[2] = "delete" /\ RemoveObject(x[1])
           \/ UNCHANGED bucket
        /\ run' = [run EXCEPT ![g] = IF run[g].chosen = {x} THEN Nobody
                                      ELSE [run[g] EXCEPT !.chosen = @ \ {x}]]
  BY DEF Apply
<1>3. UNCHANGED <<now, refs, push>>
  BY DEF Apply
<1>4. x[1] \in Oid /\ OldEnough(x[1]) /\ x = <<x[1], x[2]>>
  BY <1>1, <1>2 DEF AllRipe, Ripe, Change
<1>5. \A o \in Oid : \/ stored'[o] = stored[o]
                     \/ o = x[1] /\ stored'[o] = now
                     \/ o = x[1] /\ x[2] = "delete" /\ stored'[o] = 0
  BY <1>2, <1>4 DEF TierObject, RemoveObject, bucket, Typed
<1>6. ASSUME NEW k \in Client, push'[k] # Nobody PROVE Provided(push[k])'
  <2>1. push'[k] = push[k] /\ push[k] \in Pushing /\ Provided(push[k])
    BY <1>3, <1>6 DEF Typed, AllProvided
  <2>2. stored[x[1]] < push[k].day
    BY <1>4, <2>1, OldIsNotSent
  <2> QED BY <1>3, <1>5, <2>1, <2>2, ProvidedKept
<1>7. ASSUME NEW h \in Run PROVE Knowing(run[h])'
  <2>1. Knowing(run[h])
    BY DEF AllKnow
  <2>2. CASE run'[h] = run[h]
    BY <1>3, <2>1, <2>2 DEF Knowing
  <2>3. CASE run'[h] = Nobody
    BY <2>3 DEF Knowing, Nobody
  <2>4. CASE h = g /\ run'[g] = [run[g] EXCEPT !.chosen = @ \ {x}]
    <3>1. /\ run'[g].step = "apply" /\ run'[g].left = run[g].left
          /\ run'[g].clone = run[g].clone /\ run'[g].chosen \subseteq run[g].chosen
      BY <1>1, <2>4 DEF Running
    <3> QED BY <1>1, <1>3, <2>1, <2>4, <3>1 DEF Knowing
  <2> QED BY <1>2, <2>2, <2>3, <2>4 DEF Typed
<1>8. Live'
  <2> SUFFICES ASSUME NEW r \in Repo, NEW o \in Promised(r, refs[r]) PROVE stored'[o] # 0
    BY <1>3 DEF Live
  <2>1. o \in Oid /\ stored[o] # 0 /\ now # 0
    BY PromisedTyped DEF Typed, Live
  <2>2. ASSUME o = x[1], x[2] = "delete" PROVE FALSE
    <3>1. o \in Promised(r, run[g].clone[r])
      BY <1>1, <1>2, <2>2 DEF AllKnow, Knowing
    <3>2. Spares(run[g].clone, run[g].chosen)
      BY <1>1 DEF AllSpare, Sparing
    <3> QED BY <1>2, <1>4, <2>2, <3>1, <3>2 DEF Spares
  <2> QED BY <1>5, <2>1, <2>2
<1> QED BY <1>6, <1>7, <1>8 DEF AllProvided, AllKnow

LEMMA LiveStep ==
  ASSUME SomeoneWaits, Typed, AllSpare, AllRipe, LiveInv, [Next]_vars
  PROVE  LiveInv'
<1>1. scene' = scene
  BY DEF Next, vars, bucket, StartPush, AskServer, Send, PushRef, GiveUpPush, DeleteRef, Tick,
     StartRun, Fetch, Refetch, ListBucket, Pick, Relist, Apply, StopRun, Becomes
<1>2. SUFFICES ASSUME ~scene.anyPush, AllProvided, AllKnow, Live
               PROVE  AllProvided' /\ AllKnow' /\ Live'
  BY <1>1 DEF LiveInv
<1>3. scene.commits \subseteq Commit
  BY ScenesAssumption DEF Typed
<1>4. CASE UNCHANGED vars
  <2>1. UNCHANGED <<now, stored, refs, push, run>>
    BY <1>4 DEF vars, bucket
  <2> QED BY <1>2, <2>1 DEF AllProvided, Provided, Sent, Waits, AllKnow, Knowing, Live
<1> QED
  BY <1>2, <1>3, <1>4, StartKeepsLive, AskKeepsLive, SendKeepsLive, PushRefKeepsLive,
     GiveUpKeepsLive, DeleteRefKeepsLive, TickKeepsLive, LookKeepsLive, ApplyKeepsLive DEF Next

-----------------------------------------------------------------------------
(* The theorems. *)

GcInv == Typed /\ AllSpare

\* The inductive invariant of the runs' records, and of what they mean to change.
THEOREM GcInvariant == Spec => []GcInv
<1>1. Init => GcInv
  <2> SUFFICES ASSUME Init PROVE GcInv
    OBVIOUS
  <2>1. Typed
    BY RunAssumption DEF Init, Typed, NoRefs
  <2>2. AllSpare
    BY NobodySpares DEF Init, AllSpare
  <2> QED BY <2>1, <2>2 DEF GcInv
<1>2. GcInv /\ [Next]_vars => GcInv'
  BY TypeStep, SpareStep DEF GcInv
<1> QED BY <1>1, <1>2, PTL DEF Spec

\* All variables keep their types, and a run that starts to change objects has
\* some to change.
THEOREM GcTyped == Spec => []TypeOK
<1>1. GcInv => TypeOK
  BY DEF GcInv, Typed, AllSpare, Sparing, TypeOK
<1> QED BY <1>1, GcInvariant, PTL

\* Whatever is pushed, fetched or removed in between: when a run starts to change
\* objects, it spares what the refs it fetched last were promised (recheckPlan).
THEOREM RecheckSpares == Spec => []RecheckSparesPushed
<1>1. GcInv => RecheckSparesPushed
  BY DEF GcInv, AllSpare, Sparing, Spares, RecheckSparesPushed, At
<1> QED BY <1>1, GcInvariant, PTL

\* A single run of gc never touches an object younger than any repository's
\* min_age_days, however long it takes and whatever is pushed meanwhile.
THEOREM OneRunSparesTheYoung == OneRun /\ Spec => YoungStays
<1> SUFFICES ASSUME OneRun PROVE Spec => YoungStays
  OBVIOUS
<1>1. Init => AllRipe
  BY NobodyRipe DEF Init, AllRipe
<1>2. GcInv /\ GcInv' /\ AllRipe /\ [Next]_vars => AllRipe'
  BY RipeStep DEF GcInv
<1>3. GcInv /\ AllRipe /\ [Next]_vars =>
        [\A o \in Oid : stored[o] # 0 /\ stored'[o] # stored[o] =>
           \A r \in Repo : now - stored[o] >= Policy[r].minAge]_vars
  <2> SUFFICES ASSUME GcInv, AllRipe, [Next]_vars, NEW o \in Oid, stored[o] # 0,
                      stored'[o] # stored[o]
               PROVE  \A r \in Repo : now - stored[o] >= Policy[r].minAge
    OBVIOUS
  <2>1. PICK g \in Run : Apply(g)
    BY OnlyGc DEF GcInv
  <2>2. PICK x \in run[g].chosen : \A other \in Oid \ {x[1]} : stored'[other] = stored[other]
    BY <2>1, ChangedByGc DEF GcInv
  <2>3. x[1] = o /\ run[g].step = "apply"
    BY <2>1, <2>2 DEF Apply, At
  <2> QED BY <2>2, <2>3 DEF AllRipe, Ripe, OldEnough
<1> QED BY <1>1, <1>2, <1>3, GcInvariant, PTL DEF Spec, YoungStays
\* What has been pushed stays live, whoever pushes meanwhile: for every history and
\* every policy, as long as one run of gc goes at a time, some policy has a
\* min_age_days above 0, and pushes are prompt, send what they need and keep what
\* each other build on.
THEOREM PushedStays == OneRun /\ SomeoneWaits /\ Spec => []PushedStaysLive
<1> SUFFICES ASSUME OneRun, SomeoneWaits PROVE Spec => []PushedStaysLive
  OBVIOUS
<1>1. Init => AllRipe
  BY NobodyRipe DEF Init, AllRipe
<1>2. Init => LiveInv
  <2> SUFFICES ASSUME Init PROVE AllProvided /\ AllKnow /\ Live
    BY DEF LiveInv
  <2>1. \A r \in Repo : Promised(r, refs[r]) = {}
    BY DEF Init, NoRefs, Promised, AllObjects, Versions, History
  <2> QED BY <2>1, NobodyKnowing DEF Init, AllProvided, AllKnow, Live
<1>3. GcInv /\ GcInv' /\ AllRipe /\ [Next]_vars => AllRipe'
  BY RipeStep DEF GcInv
<1>4. GcInv /\ AllRipe /\ LiveInv /\ [Next]_vars => LiveInv'
  BY LiveStep DEF GcInv
<1>5. LiveInv => PushedStaysLive
  BY DEF LiveInv, Live, PushedStaysLive
<1> QED BY <1>1, <1>2, <1>3, <1>4, <1>5, GcInvariant, PTL DEF Spec
=============================================================================
