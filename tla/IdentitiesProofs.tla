-------------------------- MODULE IdentitiesProofs --------------------------
(***************************************************************************)
(* A repository's name belongs to the repository it was recorded for,      *)
(* whatever the lifetimes and the number of isolates, requests and         *)
(* repositories.                                                           *)
(*                                                                         *)
(* What a request or an isolate knows of the record is true, or the record *)
(* was deleted not before some time; and the id a request shows was the    *)
(* host's not long before the request started.                             *)
(***************************************************************************)
EXTENDS Identities, TLAPS

Recent(t) == deleted # Never /\ t <= deleted
For(id, t) == id \in Id /\ (Recent(t) \/ record = id)
Against(id, t) == Recent(t) \/ record \notin {id, None}

\* The host named this repository less than HostTTL + Patience before t.
Shown(id, t) == id \in Id /\ owned[id] # Never /\ t < owned[id] + HostTTL + Patience

InTime(r) == r.started <= now /\ now <= r.started + Patience

\* A cached record may be this much older than the request that finds it.
Since(r) == r.started - RecordTTL - Patience + 1

Good(r) ==
  /\ InTime(r)
  /\ r.step # "lookup" => r.id \in Id
  /\ r.step = "remember" => owned[r.id] # Never /\ r.started <= owned[r.id]
  /\ r.step \in {"claim", "put"} => Shown(r.id, r.started)
  /\ r.step = "reread" => Recent(r.started) \/ record # None
  /\ r.step = "set" => For(r.current, r.started)
  /\ r.step = "granted" => For(r.id, Since(r))
  /\ r.step = "refused" => Against(r.id, Since(r))

CallOK(c) == call[c] # Idle => Good(call[c])

CopyOK(i) ==
  /\ recorded[i].expires <= now + RecordTTL
  /\ recorded[i].id # None => For(recorded[i].id, recorded[i].expires - RecordTTL - Patience)

LookupOK(i) ==
  \A id \in Id : lookups[i][id] # 0 =>
    owned[id] # Never /\ lookups[i][id] <= owned[id] + HostTTL + Patience

Inv ==
  /\ TypeOK
  /\ owned[owner] = now /\ \A id \in Id : owned[id] <= now
  /\ \A c \in Call : CallOK(c)
  /\ \A i \in Isolate : CopyOK(i) /\ LookupOK(i)

-----------------------------------------------------------------------------
(* Numbers. *)

LEMMA Numbers ==
  ASSUME TypeOK
  PROVE  /\ now \in Nat /\ HostTTL \in Nat /\ RecordTTL \in Nat /\ Patience \in Nat
         /\ HostTTL > 0 /\ RecordTTL > 0
         /\ \A id \in Id : owned[id] \in Int /\ (owned[id] # Never => owned[id] \in Nat)
         /\ deleted \in Int
         /\ \A c \in Call : call[c] # Idle =>
              /\ call[c] \in Request /\ call[c].started \in Nat /\ call[c].isolate \in Isolate
              /\ call[c].id \in Id \cup {None} /\ call[c].current \in Id \cup {None}
         /\ \A i \in Isolate : recorded[i].expires \in Nat
         /\ \A i \in Isolate : \A id \in Id : lookups[i][id] \in Nat
<1>1. Time \subseteq Nat /\ Never \in Int /\ \A n \in Nat : 0..n \subseteq Nat
  BY TimeAssumption DEF Time, Never
<1>2. 0 .. MaxTime + RecordTTL \subseteq Nat /\ 0 .. MaxTime + HostTTL \subseteq Nat
  BY TimeAssumption
<1>3. \A id \in Id : owned[id] \in Int /\ (owned[id] # Never => owned[id] \in Nat)
  BY <1>1 DEF TypeOK, Time, Never
<1>4. \A c \in Call : call[c] # Idle =>
        /\ call[c] \in Request /\ call[c].started \in Nat /\ call[c].isolate \in Isolate
        /\ call[c].id \in Id \cup {None} /\ call[c].current \in Id \cup {None}
  BY <1>1 DEF TypeOK, Request
<1>5. \A i \in Isolate : recorded[i].expires \in Nat
  BY <1>2 DEF TypeOK, Copy, Empty
<1>6. \A i \in Isolate : \A id \in Id : lookups[i][id] \in Nat
  BY <1>2 DEF TypeOK
<1> QED BY <1>1, <1>3, <1>4, <1>5, <1>6, TimeAssumption DEF TypeOK

-----------------------------------------------------------------------------
(* What every step leaves alone. *)

\* The record only changes when it is claimed or deleted.
Turn ==
  \/ record' = record /\ deleted' = deleted
  \/ record = None /\ record' \in Id /\ deleted' = deleted
  \/ record # None /\ record' = None /\ deleted' = now

\* The name only changes hands: what had it has had it.
Later ==
  /\ now' \in Nat /\ now <= now'
  /\ \A id \in Id : owned'[id] = owned[id]
                    \/ (owned'[id] # Never /\ owned'[id] \in Nat /\ now <= owned'[id])
  /\ \A id \in Id : owned[id] <= now

RecentNext(t) == deleted' # Never /\ t <= deleted'

\* What is known of the record stays true, or becomes a thing of the past.
LEMMA RecordKept ==
  ASSUME TypeOK, Turn
  PROVE  \A t \in Int : t <= now =>
           /\ Recent(t) => RecentNext(t)
           /\ \A id : For(id, t) => id \in Id /\ (RecentNext(t) \/ record' = id)
           /\ \A id \in Id : Against(id, t) => RecentNext(t) \/ record' \notin {id, None}
           /\ Recent(t) \/ record # None => RecentNext(t) \/ record' # None
<1> SUFFICES ASSUME NEW t \in Int, t <= now
             PROVE  /\ Recent(t) => RecentNext(t)
                    /\ \A id : For(id, t) => id \in Id /\ (RecentNext(t) \/ record' = id)
                    /\ \A id \in Id : Against(id, t) => RecentNext(t) \/ record' \notin {id, None}
                    /\ Recent(t) \/ record # None => RecentNext(t) \/ record' # None
  OBVIOUS
<1>1. now \in Nat /\ now # Never
  BY Numbers DEF Never
<1>2. Recent(t) => RecentNext(t)
  BY <1>1 DEF Recent, RecentNext, Turn
<1>3. record' # record => RecentNext(t) \/ record = None
  BY <1>1 DEF RecentNext, Turn
<1>4. record' # record => RecentNext(t) \/ record' # None
  BY <1>1, IdAssumption DEF RecentNext, Turn
<1> QED BY <1>2, <1>3, <1>4, IdAssumption DEF For, Against

\* A request that does nothing stays good, as long as it is in time.
LEMMA CallKept ==
  ASSUME TypeOK, Turn, Later, NEW d \in Call, CallOK(d), call'[d] = call[d],
         call[d] # Idle => InTime(call[d])'
  PROVE  CallOK(d)'
<1> SUFFICES ASSUME call[d] # Idle PROVE Good(call[d])'
  BY DEF CallOK, Idle
<1>1. Good(call[d]) /\ InTime(call[d]) /\ call[d].started \in Nat
  BY Numbers DEF CallOK, Good
<1> DEFINE t == call[d].started
           u == Since(call[d])
           x == call[d].id
           y == call[d].current
<1>2. t \in Int /\ t <= now /\ u \in Int /\ u <= now
  BY <1>1, Numbers DEF InTime, Since
<1>3. /\ Recent(t) \/ record # None => RecentNext(t) \/ record' # None
      /\ For(y, t) => y \in Id /\ (RecentNext(t) \/ record' = y)
  <2> HIDE DEF t, y
  <2> QED BY <1>2, RecordKept
<1>4. /\ For(x, u) => x \in Id /\ (RecentNext(u) \/ record' = x)
      /\ x \in Id => (Against(x, u) => RecentNext(u) \/ record' \notin {x, None})
  <2> HIDE DEF u, x
  <2> QED BY <1>2, RecordKept
<1>5. ASSUME x \in Id, owned[x] # Never
      PROVE  owned'[x] # Never /\ owned[x] <= owned'[x] /\ owned'[x] \in Int /\ owned[x] \in Int
  BY <1>5, Numbers DEF Later
<1>6. Shown(x, t) => Shown(x, t)'
  <2> SUFFICES ASSUME Shown(x, t) PROVE Shown(x, t)'
    OBVIOUS
  <2>1. owned'[x] # Never /\ owned[x] <= owned'[x] /\ owned'[x] \in Int /\ owned[x] \in Int
    BY <1>5 DEF Shown
  <2> QED BY <1>2, <2>1, Numbers DEF Shown
<1>7. call[d].step = "remember" => owned'[x] # Never /\ t <= owned'[x]
  BY <1>1, <1>2, <1>5 DEF Good
<1>8. /\ (call[d].step = "reread" => Recent(t) \/ record # None)'
      /\ (call[d].step = "set" => For(y, t))'
  BY <1>1, <1>3 DEF Good, For, Recent, RecentNext
<1>9. /\ (call[d].step = "granted" => For(x, u))'
      /\ (call[d].step = "refused" => Against(x, u))'
  BY <1>1, <1>4 DEF Good, For, Against, Recent, RecentNext, Since
<1> QED BY <1>1, <1>6, <1>7, <1>8, <1>9 DEF Good

\* An isolate's copies stay true as well.
LEMMA CopyKept ==
  ASSUME TypeOK, Turn, Later, NEW i \in Isolate, CopyOK(i), recorded'[i] = recorded[i]
  PROVE  CopyOK(i)'
<1> DEFINE t == recorded[i].expires - RecordTTL - Patience
           x == recorded[i].id
<1>1. t \in Int /\ t <= now
  BY Numbers DEF CopyOK
<1>2. For(x, t) => x \in Id /\ (RecentNext(t) \/ record' = x)
  <2> HIDE DEF t, x
  <2> QED BY <1>1, RecordKept
<1>3. recorded[i].expires <= now' + RecordTTL
  BY Numbers DEF CopyOK, Later
<1> QED BY <1>2, <1>3 DEF CopyOK, For, Recent, RecentNext

LEMMA LookupKept ==
  ASSUME TypeOK, Later, NEW i \in Isolate, LookupOK(i), lookups'[i] = lookups[i]
  PROVE  LookupOK(i)'
<1> SUFFICES ASSUME NEW id \in Id, lookups[i][id] # 0
             PROVE  owned'[id] # Never /\ lookups[i][id] <= owned'[id] + HostTTL + Patience
  BY DEF LookupOK
<1>1. owned[id] # Never /\ lookups[i][id] <= owned[id] + HostTTL + Patience
      /\ lookups[i][id] \in Nat /\ owned[id] \in Int
  BY Numbers DEF LookupOK
<1>2. owned'[id] # Never /\ owned[id] <= owned'[id] /\ owned'[id] \in Int
  BY <1>1, Numbers DEF Later
<1> QED BY <1>1, <1>2, Numbers

\* So a step of one request keeps the invariant if the request and what its isolate
\* remembers are fine.
LEMMA Preserved ==
  ASSUME Inv, TypeOK', Turn, UNCHANGED <<now, owner, owned>>,
         NEW c \in Call, CallOK(c)', \A d \in Call \ {c} : call'[d] = call[d],
         \A i \in Isolate : recorded'[i] = recorded[i] \/ CopyOK(i)',
         \A i \in Isolate : lookups'[i] = lookups[i] \/ LookupOK(i)'
  PROVE  Inv'
<1>0. Later
  BY Numbers DEF Later, Inv, TypeOK, Time, Never
<1>1. \A d \in Call : CallOK(d)'
  <2> SUFFICES ASSUME NEW d \in Call, d # c PROVE CallOK(d)'
    OBVIOUS
  <2>1. call[d] # Idle => InTime(call[d])'
    BY DEF Inv, CallOK, Good, InTime
  <2> QED BY <1>0, <2>1, CallKept DEF Inv
<1>2. \A i \in Isolate : CopyOK(i)' /\ LookupOK(i)'
  BY <1>0, CopyKept, LookupKept DEF Inv
<1> QED BY <1>1, <1>2 DEF Inv

-----------------------------------------------------------------------------
(* Steps that only change what one request does. *)

Steps == {"lookup", "remember", "claim", "put", "reread", "set", "granted", "refused"}

\* The request c goes on to step s with id x and record y.
Moves(c, s, x, y) ==
  call' = [call EXCEPT ![c] = [call[c] EXCEPT !.step = s, !.id = x, !.current = y]]

LEMMA MovesGood ==
  ASSUME Inv, NEW c \in Call, call[c] # Idle, NEW s \in Steps,
         NEW x \in Id \cup {None}, NEW y \in Id \cup {None}, Moves(c, s, x, y)
  PROVE  /\ call' \in [Call -> Request \cup {Idle}]
         /\ call'[c] # Idle /\ call'[c].step = s /\ call'[c].id = x /\ call'[c].current = y
         /\ call'[c].started = call[c].started
         /\ \A d \in Call \ {c} : call'[d] = call[d]
<1> DEFINE q == [call[c] EXCEPT !.step = s, !.id = x, !.current = y]
<1>1. call[c] \in Request
  BY Numbers DEF Inv
<1>2. q \in Request /\ q # Idle /\ q.step = s /\ q.id = x /\ q.current = y
      /\ q.started = call[c].started
  BY <1>1 DEF Request, Idle, Steps
<1>3. call' = [call EXCEPT ![c] = q]
  BY DEF Moves
<1> HIDE DEF q
<1> QED BY <1>2, <1>3 DEF Inv, TypeOK

\* What a request must know to take a step.
Entitled(s, x, y, r) ==
  /\ s # "lookup" /\ x \in Id
  /\ s = "remember" => owned[x] # Never /\ r.started <= owned[x]
  /\ s \in {"claim", "put"} => Shown(x, r.started)
  /\ s = "reread" => Recent(r.started) \/ record # None
  /\ s = "set" => For(y, r.started)
  /\ s = "granted" => For(x, Since(r))
  /\ s = "refused" => Against(x, Since(r))

LEMMA MoveKeeps ==
  ASSUME Inv, NEW c \in Call, call[c] # Idle, NEW s \in Steps,
         NEW x \in Id, NEW y \in Id \cup {None}, Moves(c, s, x, y),
         Entitled(s, x, y, call[c]),
         UNCHANGED <<now, owner, owned, record, deleted, recorded>>,
         lookups' \in [Isolate -> [Id -> 0 .. MaxTime + HostTTL]],
         \A i \in Isolate : lookups'[i] = lookups[i] \/ LookupOK(i)'
  PROVE  Inv'
<1>1. /\ call' \in [Call -> Request \cup {Idle}]
      /\ call'[c] # Idle /\ call'[c].step = s /\ call'[c].id = x /\ call'[c].current = y
      /\ call'[c].started = call[c].started
      /\ \A d \in Call \ {c} : call'[d] = call[d]
  BY MovesGood
<1>2. TypeOK'
  BY <1>1 DEF Inv, TypeOK
<1>3. InTime(call[c])'
  BY <1>1 DEF Inv, CallOK, Good, InTime
<1>4. Good(call[c])'
  BY <1>1, <1>3 DEF Good, Entitled, Shown, Recent, For, Against, Since
<1> QED BY <1>1, <1>2, <1>4, Preserved DEF Turn, CallOK

\* Going on to a step is a move that keeps what is in hand.
LEMMA GoMoves ==
  ASSUME Inv, NEW c \in Call, call[c] # Idle, NEW s \in Steps, Go(c, s)
  PROVE  Moves(c, s, call[c].id, call[c].current)
<1>1. call[c] \in Request
  BY Numbers DEF Inv
<1>2. [call[c] EXCEPT !.step = s]
        = [call[c] EXCEPT !.step = s, !.id = call[c].id, !.current = call[c].current]
  BY <1>1 DEF Request
<1>3. call' = [call EXCEPT ![c] = [call[c] EXCEPT !.step = s]]
  BY DEF Go, Inv, TypeOK
<1> QED BY <1>2, <1>3 DEF Moves

\* What is known of a request at work.
LEMMA Working ==
  ASSUME Inv, NEW c \in Call, call[c] # Idle
  PROVE  /\ Good(call[c]) /\ InTime(call[c]) /\ call[c] \in Request
         /\ call[c].started \in Nat /\ call[c].isolate \in Isolate
         /\ call[c].id \in Id \cup {None} /\ call[c].current \in Id \cup {None}
         /\ CopyOK(call[c].isolate) /\ LookupOK(call[c].isolate)
<1>1. TypeOK /\ CallOK(c)
  BY DEF Inv
<1>2. call[c] \in Request /\ call[c].started \in Nat /\ call[c].isolate \in Isolate
      /\ call[c].id \in Id \cup {None} /\ call[c].current \in Id \cup {None}
  BY <1>1, Numbers
<1> QED BY <1>1, <1>2 DEF CallOK, Good, Inv

-----------------------------------------------------------------------------
(* One lemma per step. *)

LEMMA BeginKeeps ==
  ASSUME Inv, NEW c \in Call, NEW i \in Isolate, Begin(c, i)
  PROVE  Inv'
<1> DEFINE r == [isolate |-> i, started |-> now, id |-> None, current |-> None, step |-> "lookup"]
<1>1. r \in Request /\ r # Idle /\ r.started = now /\ r.step = "lookup"
  BY DEF Request, Idle, Inv, TypeOK
<1>2. call' = [call EXCEPT ![c] = r]
      /\ UNCHANGED <<now, owner, owned, record, deleted, lookups, recorded>>
  BY DEF Begin, atHost
<1> HIDE DEF r
<1>3. call'[c] = r /\ \A d \in Call \ {c} : call'[d] = call[d]
  BY <1>2 DEF Inv, TypeOK
<1>4. TypeOK'
  BY <1>1, <1>2 DEF Inv, TypeOK
<1>5. CallOK(c)'
  BY <1>1, <1>2, <1>3, Numbers DEF CallOK, Good, InTime, Inv
<1> QED BY <1>2, <1>3, <1>4, <1>5, Preserved DEF Turn

LEMMA AnswerKeeps ==
  ASSUME Inv, NEW c \in Call, Answer(c)
  PROVE  Inv'
<1>1. call' = [call EXCEPT ![c] = Idle]
      /\ UNCHANGED <<now, owner, owned, record, deleted, lookups, recorded>>
  BY DEF Answer, atHost
<1>2. call'[c] = Idle /\ TypeOK' /\ \A d \in Call \ {c} : call'[d] = call[d]
  BY <1>1 DEF Inv, TypeOK
<1> QED BY <1>1, <1>2, Preserved DEF Turn, CallOK

LEMMA RememberedKeeps ==
  ASSUME Inv, NEW c \in Call, Remembered(c)
  PROVE  Inv'
<1>1. PICK x \in Id : /\ Current(lookups[Isol(c)][x])
                      /\ call' = [call EXCEPT ![c].id = x, ![c].step = "claim"]
  BY DEF Remembered
<1>2. call[c] # Idle /\ UNCHANGED <<now, owner, owned, record, deleted, lookups, recorded>>
  BY DEF Remembered, At, atHost
<1>3. InTime(call[c]) /\ call[c] \in Request /\ call[c].started \in Nat
      /\ call[c].isolate \in Isolate /\ LookupOK(call[c].isolate)
      /\ call[c].current \in Id \cup {None}
  BY <1>2, Working
<1>4. Moves(c, "claim", x, call[c].current)
  <2>1. [call[c] EXCEPT !.id = x, !.step = "claim"]
          = [call[c] EXCEPT !.step = "claim", !.id = x, !.current = call[c].current]
    BY <1>3 DEF Request
  <2>2. call' = [call EXCEPT ![c] = [call[c] EXCEPT !.id = x, !.step = "claim"]]
    BY <1>1 DEF Inv, TypeOK
  <2> QED BY <2>1, <2>2 DEF Moves
<1>5. Shown(x, call[c].started)
  <2>1. lookups[call[c].isolate][x] \in Nat /\ lookups[call[c].isolate][x] > now /\ now \in Nat
    BY <1>1, <1>3, Numbers DEF Current, Isol, Inv
  <2>2. owned[x] # Never /\ lookups[call[c].isolate][x] <= owned[x] + HostTTL + Patience
    BY <2>1, <1>3 DEF LookupOK
  <2> QED BY <2>1, <2>2, <1>3, Numbers DEF Shown, InTime, Inv
<1>6. Entitled("claim", x, call[c].current, call[c]) /\ "claim" \in Steps
  BY <1>5 DEF Entitled, Steps
<1>7. lookups' \in [Isolate -> [Id -> 0 .. MaxTime + HostTTL]]
  BY <1>2 DEF Inv, TypeOK
<1> QED BY <1>2, <1>3, <1>4, <1>6, <1>7, MoveKeeps

LEMMA AskHostKeeps ==
  ASSUME Inv, NEW c \in Call, AskHost(c)
  PROVE  Inv'
<1>2. call[c] # Idle /\ UNCHANGED <<now, owner, owned, record, deleted, lookups, recorded>>
  BY DEF AskHost, At, atHost
<1>3. InTime(call[c]) /\ call[c] \in Request /\ call[c].started \in Nat
      /\ call[c].current \in Id \cup {None}
  BY <1>2, Working
<1>4. Moves(c, "remember", owner, call[c].current)
  <2>1. [call[c] EXCEPT !.id = owner, !.step = "remember"]
          = [call[c] EXCEPT !.step = "remember", !.id = owner, !.current = call[c].current]
    BY <1>3 DEF Request
  <2>2. call' = [call EXCEPT ![c] = [call[c] EXCEPT !.id = owner, !.step = "remember"]]
    BY DEF AskHost, Inv, TypeOK
  <2> QED BY <2>1, <2>2 DEF Moves
<1>5. owner \in Id /\ owned[owner] # Never /\ call[c].started <= owned[owner]
  BY <1>3, Numbers DEF Inv, TypeOK, InTime, Never
<1>6. Entitled("remember", owner, call[c].current, call[c]) /\ "remember" \in Steps
  BY <1>5 DEF Entitled, Steps
<1>7. lookups' \in [Isolate -> [Id -> 0 .. MaxTime + HostTTL]]
  BY <1>2 DEF Inv, TypeOK
<1> QED BY <1>2, <1>3, <1>4, <1>5, <1>6, <1>7, MoveKeeps

LEMMA RememberKeeps ==
  ASSUME Inv, NEW c \in Call, Remember(c)
  PROVE  Inv'
<1> DEFINE i == call[c].isolate
           x == call[c].id
<1>2. /\ call[c] # Idle /\ call[c].step = "remember" /\ Go(c, "claim")
      /\ UNCHANGED <<now, owner, owned, record, deleted, recorded>>
      /\ lookups' = [lookups EXCEPT ![i][x] = now + HostTTL]
  BY DEF Remember, At, atHost, Isol
<1>3. /\ InTime(call[c]) /\ call[c].started \in Nat /\ i \in Isolate /\ x \in Id
      /\ call[c].current \in Id \cup {None} /\ LookupOK(i)
      /\ owned[x] # Never /\ call[c].started <= owned[x] /\ owned[x] \in Nat
  BY <1>2, Working, Numbers DEF Good, Inv
<1>4. "claim" \in Steps /\ Moves(c, "claim", x, call[c].current)
  BY <1>2, GoMoves DEF Steps
<1>5. Entitled("claim", x, call[c].current, call[c])
  BY <1>3, Numbers DEF Entitled, Shown, Inv
<1> HIDE DEF i, x
<1>6. lookups' \in [Isolate -> [Id -> 0 .. MaxTime + HostTTL]]
  <2>1. now + HostTTL \in 0 .. MaxTime + HostTTL
    BY TimeAssumption DEF Inv, TypeOK, Time
  <2> QED BY <1>2, <2>1 DEF Inv, TypeOK
<1>7. now + HostTTL <= owned[x] + HostTTL + Patience
  BY <1>3, Numbers DEF InTime, Inv
<1>8. ASSUME NEW j \in Isolate PROVE lookups'[j] = lookups[j] \/ LookupOK(j)'
  <2>1. CASE j # i
    BY <2>1, <1>2 DEF Inv, TypeOK
  <2>2. CASE j = i
    <3>1. \A id \in Id : lookups'[i][id] = IF id = x THEN now + HostTTL ELSE lookups[i][id]
      BY <1>2, <1>3 DEF Inv, TypeOK
    <3> QED BY <2>2, <3>1, <1>2, <1>3, <1>7 DEF LookupOK
  <2> QED BY <2>1, <2>2
<1> QED BY <1>2, <1>3, <1>4, <1>5, <1>6, <1>8, MoveKeeps

\* A request that moves on within the claim.
LEMMA ClaimMoveKeeps ==
  ASSUME Inv, NEW c \in Call, call[c] # Idle, NEW s \in Steps, NEW y \in Id \cup {None},
         Moves(c, s, call[c].id, y), call[c].step # "lookup",
         Entitled(s, call[c].id, y, call[c]),
         UNCHANGED <<now, owner, owned, record, deleted, lookups, recorded>>
  PROVE  Inv'
<1>1. call[c].id \in Id
  BY Working DEF Good
<1>2. lookups' \in [Isolate -> [Id -> 0 .. MaxTime + HostTTL]]
  BY DEF Inv, TypeOK
<1> QED BY <1>1, <1>2, MoveKeeps

LEMMA KnownRecordKeeps ==
  ASSUME Inv, NEW c \in Call, KnownRecord(c)
  PROVE  Inv'
<1> DEFINE x == call[c].id
           k == recorded[call[c].isolate].id
           t == recorded[call[c].isolate].expires - RecordTTL - Patience
           s == Verdict(x, k)
<1>1. /\ call[c] # Idle /\ call[c].step = "claim" /\ Go(c, s)
      /\ UNCHANGED <<now, owner, owned, record, deleted, lookups, recorded>>
      /\ k # None /\ recorded[call[c].isolate].expires > now
  BY DEF KnownRecord, At, atHost, Isol, Fresh, Current
<1>2. /\ InTime(call[c]) /\ call[c].started \in Nat /\ x \in Id
      /\ call[c].current \in Id \cup {None} /\ For(k, t)
  BY <1>1, Working DEF Good, CopyOK
<1>3. recorded[call[c].isolate].expires \in Nat
  BY <1>1, Working, Numbers DEF Inv
<1>4. Recent(t) => Recent(Since(call[c]))
  BY <1>1, <1>2, <1>3, Numbers DEF Recent, Since, InTime, Inv
<1>5. s \in Steps /\ Moves(c, s, x, call[c].current)
  BY <1>1, GoMoves DEF Steps, Verdict
<1>6. Entitled(s, x, call[c].current, call[c])
  <2>1. CASE x = k
    BY <2>1, <1>2, <1>4 DEF Entitled, Verdict, For
  <2>2. CASE x # k
    BY <2>2, <1>2, <1>4, IdAssumption DEF Entitled, Verdict, For, Against
  <2> QED BY <2>1, <2>2
<1> QED BY <1>1, <1>2, <1>5, <1>6, ClaimMoveKeeps

LEMMA ReadRecordKeeps ==
  ASSUME Inv, NEW c \in Call, ReadRecord(c)
  PROVE  Inv'
<1> DEFINE x == call[c].id
           s == IF record = None THEN "put" ELSE "set"
<1>1. /\ call[c] # Idle /\ call[c].step = "claim"
      /\ call' = [call EXCEPT ![c].current = record, ![c].step = s]
      /\ UNCHANGED <<now, owner, owned, record, deleted, lookups, recorded>>
  BY DEF ReadRecord, At, atHost
<1>2. /\ call[c] \in Request /\ x \in Id /\ record \in Id \cup {None}
      /\ Shown(x, call[c].started)
  BY <1>1, Working DEF Good, Inv, TypeOK
<1>3. Moves(c, s, x, record)
  <2>1. [call[c] EXCEPT !.current = record, !.step = s]
          = [call[c] EXCEPT !.step = s, !.id = x, !.current = record]
    BY <1>2 DEF Request
  <2>2. call' = [call EXCEPT ![c] = [call[c] EXCEPT !.current = record, !.step = s]]
    BY <1>1 DEF Inv, TypeOK
  <2> QED BY <2>1, <2>2 DEF Moves
<1>4. s \in Steps /\ Entitled(s, x, record, call[c])
  BY <1>2 DEF Steps, Entitled, For
<1> QED BY <1>1, <1>2, <1>3, <1>4, ClaimMoveKeeps

LEMMA RereadRecordKeeps ==
  ASSUME Inv, NEW c \in Call, RereadRecord(c)
  PROVE  Inv'
<1> DEFINE x == call[c].id
           s == IF record = None THEN "refused" ELSE "set"
<1>1. /\ call[c] # Idle /\ call[c].step = "reread"
      /\ call' = [call EXCEPT ![c].current = record, ![c].step = s]
      /\ UNCHANGED <<now, owner, owned, record, deleted, lookups, recorded>>
  BY DEF RereadRecord, At, atHost
<1>2. /\ call[c] \in Request /\ x \in Id /\ record \in Id \cup {None}
      /\ (Recent(call[c].started) \/ record # None) /\ call[c].started \in Nat
  BY <1>1, Working DEF Good, Inv, TypeOK
<1>3. Moves(c, s, x, record)
  <2>1. [call[c] EXCEPT !.current = record, !.step = s]
          = [call[c] EXCEPT !.step = s, !.id = x, !.current = record]
    BY <1>2 DEF Request
  <2>2. call' = [call EXCEPT ![c] = [call[c] EXCEPT !.current = record, !.step = s]]
    BY <1>1 DEF Inv, TypeOK
  <2> QED BY <2>1, <2>2 DEF Moves
<1>4. Recent(call[c].started) => Recent(Since(call[c]))
  BY <1>2, Numbers DEF Recent, Since, Inv
<1>5. s \in Steps /\ Entitled(s, x, record, call[c])
  BY <1>2, <1>4 DEF Steps, Entitled, For, Against
<1> QED BY <1>1, <1>2, <1>3, <1>5, ClaimMoveKeeps

LEMMA WriteRecordKeeps ==
  ASSUME Inv, NEW c \in Call, WriteRecord(c)
  PROVE  Inv'
<1> DEFINE x == call[c].id
<1>1. /\ call[c] # Idle /\ call[c].step = "put"
      /\ UNCHANGED <<now, owner, owned, deleted, lookups, recorded>>
  BY DEF WriteRecord, At, atHost
<1>2. /\ Good(call[c]) /\ call[c] \in Request /\ x \in Id
      /\ InTime(call[c]) /\ call[c].current \in Id \cup {None}
  BY <1>1, Working DEF Good
<1>3. CASE ~MayClaim
  <2>1. Go(c, "reread") /\ record' = record /\ record # None
    BY <1>3 DEF WriteRecord, MayClaim
  <2>2. "reread" \in Steps /\ Moves(c, "reread", x, call[c].current)
    BY <1>1, <2>1, GoMoves DEF Steps
  <2>3. Entitled("reread", x, call[c].current, call[c])
    BY <1>2, <2>1 DEF Entitled
  <2> QED BY <1>1, <1>2, <2>1, <2>2, <2>3, ClaimMoveKeeps
<1>4. CASE MayClaim
  <2>1. /\ record = None /\ record' = x
        /\ call' = [call EXCEPT ![c].current = x, ![c].step = "set"]
    BY <1>4 DEF WriteRecord, MayClaim
  <2>2. Moves(c, "set", x, x)
    <3>1. [call[c] EXCEPT !.current = x, !.step = "set"]
            = [call[c] EXCEPT !.step = "set", !.id = x, !.current = x]
      BY <1>2 DEF Request
    <3>2. call' = [call EXCEPT ![c] = [call[c] EXCEPT !.current = x, !.step = "set"]]
      BY <2>1 DEF Inv, TypeOK
    <3> QED BY <3>1, <3>2 DEF Moves
  <2>3. /\ call' \in [Call -> Request \cup {Idle}]
        /\ call'[c] # Idle /\ call'[c].step = "set" /\ call'[c].id = x /\ call'[c].current = x
        /\ call'[c].started = call[c].started
        /\ \A d \in Call \ {c} : call'[d] = call[d]
    <3>1. "set" \in Steps
      BY DEF Steps
    <3> QED BY <1>1, <1>2, <2>2, <3>1, MovesGood
  <2>4. TypeOK'
    BY <1>1, <1>2, <2>1, <2>3 DEF Inv, TypeOK
  <2>5. CallOK(c)'
    BY <1>1, <1>2, <2>1, <2>3 DEF CallOK, Good, InTime, For
  <2> QED BY <1>1, <1>2, <2>1, <2>3, <2>4, <2>5, Preserved DEF Turn
<1> QED BY <1>3, <1>4

LEMMA SetRecordedKeeps ==
  ASSUME Inv, NEW c \in Call, SetRecorded(c)
  PROVE  Inv'
<1> DEFINE i == call[c].isolate
           x == call[c].id
           y == call[c].current
           s == Verdict(x, y)
           copy == [id |-> y, expires |-> now + RecordTTL]
<1>1. /\ call[c] # Idle /\ call[c].step = "set" /\ Go(c, s)
      /\ UNCHANGED <<now, owner, owned, record, deleted, lookups>>
      /\ recorded' = [recorded EXCEPT ![i] = copy]
  BY DEF SetRecorded, At, atHost, Isol
<1>2. /\ Good(call[c]) /\ InTime(call[c]) /\ x \in Id /\ y \in Id /\ i \in Isolate
      /\ For(y, call[c].started) /\ call[c].started \in Nat
  BY <1>1, Working DEF Good, For
<1>3. s \in Steps /\ s \in {"granted", "refused"} /\ Moves(c, s, x, y)
  BY <1>1, GoMoves DEF Steps, Verdict
<1>4. /\ call' \in [Call -> Request \cup {Idle}]
      /\ call'[c] # Idle /\ call'[c].step = s /\ call'[c].id = x /\ call'[c].current = y
      /\ call'[c].started = call[c].started
      /\ \A d \in Call \ {c} : call'[d] = call[d]
  <2> HIDE DEF s, x, y
  <2> QED BY <1>1, <1>2, <1>3, MovesGood
<1>5. copy \in Copy /\ copy.id = y /\ copy.expires = now + RecordTTL
  <2>1. now + RecordTTL \in 0 .. MaxTime + RecordTTL
    BY TimeAssumption DEF Inv, TypeOK, Time
  <2> QED BY <1>2, <2>1 DEF Copy
<1> HIDE DEF copy
<1>6. TypeOK'
  BY <1>1, <1>2, <1>4, <1>5 DEF Inv, TypeOK
<1>7. Recent(call[c].started) => /\ Recent(Since(call[c]))
                                /\ Recent(now + RecordTTL - RecordTTL - Patience)
  BY <1>2, Numbers DEF Recent, Since, InTime, Inv
<1>8. CallOK(c)'
  <2>1. CASE x = y
    BY <2>1, <1>1, <1>2, <1>4, <1>7 DEF Verdict, CallOK, Good, InTime, For, Recent, Since
  <2>2. CASE x # y
    BY <2>2, <1>1, <1>2, <1>4, <1>7, IdAssumption
       DEF Verdict, CallOK, Good, InTime, For, Against, Recent, Since
  <2> QED BY <2>1, <2>2
<1>9. ASSUME NEW j \in Isolate PROVE recorded'[j] = recorded[j] \/ CopyOK(j)'
  <2> HIDE DEF i, y
  <2>1. CASE j # i
    BY <2>1, <1>1 DEF Inv, TypeOK
  <2>2. CASE j = i
    <3>1. recorded'[j] = copy
      BY <2>2, <1>1, <1>2 DEF Inv, TypeOK
    <3> QED BY <3>1, <1>1, <1>2, <1>5, <1>7, Numbers DEF CopyOK, For, Recent, Inv
  <2> QED BY <2>1, <2>2
<1> QED BY <1>1, <1>4, <1>6, <1>8, <1>9, Preserved DEF Turn

-----------------------------------------------------------------------------
(* The world. *)

\* Steps of nobody in particular: all requests and copies are left alone.
LEMMA WorldKeeps ==
  ASSUME Inv, TypeOK', Turn, Later, call' = call,
         owned'[owner'] = now', \A id \in Id : owned'[id] <= now',
         \A c \in Call : call[c] # Idle => InTime(call[c])',
         \A i \in Isolate : recorded'[i] = recorded[i] \/ CopyOK(i)',
         \A i \in Isolate : lookups'[i] = lookups[i] \/ LookupOK(i)'
  PROVE  Inv'
<1>1. \A d \in Call : CallOK(d)'
  BY CallKept DEF Inv
<1>2. \A i \in Isolate : CopyOK(i)' /\ LookupOK(i)'
  BY CopyKept, LookupKept DEF Inv
<1> QED BY <1>1, <1>2 DEF Inv

LEMMA SameTime ==
  ASSUME Inv, now' = now, call' = call
  PROVE  \A c \in Call : call[c] # Idle => InTime(call[c])'
BY DEF Inv, CallOK, Good, InTime

LEMMA HandoverKeeps ==
  ASSUME Inv, NEW id \in Id, Handover(id)
  PROVE  Inv'
<1>1. /\ owner' = id /\ owned' = [owned EXCEPT ![id] = now]
      /\ UNCHANGED <<now, record, deleted, lookups, recorded, call>>
  BY DEF Handover
<1>2. TypeOK' /\ now \in Nat /\ now # Never
  BY <1>1, Numbers DEF Inv, TypeOK, Never
<1>3. \A x \in Id : owned'[x] = IF x = id THEN now ELSE owned[x]
  BY <1>1 DEF Inv, TypeOK
<1>4. Later
  BY <1>1, <1>2, <1>3 DEF Later, Inv
<1>5. owned'[owner'] = now' /\ \A x \in Id : owned'[x] <= now'
  BY <1>1, <1>2, <1>3 DEF Inv
<1> QED BY <1>1, <1>2, <1>4, <1>5, SameTime, WorldKeeps DEF Turn

LEMMA DeleteRecordKeeps ==
  ASSUME Inv, DeleteRecord
  PROVE  Inv'
<1>1. /\ record # None /\ record' = None /\ deleted' = now /\ call' = call
      /\ UNCHANGED <<now, owner, owned, lookups, recorded>>
  BY DEF DeleteRecord, atHost
<1>2. TypeOK'
  BY <1>1 DEF Inv, TypeOK
<1>3. Later
  BY <1>1, Numbers DEF Later, Inv
<1> QED BY <1>1, <1>2, <1>3, SameTime, WorldKeeps DEF Turn, Inv

LEMMA TickKeeps ==
  ASSUME Inv, Tick
  PROVE  Inv'
<1>1. /\ now' = now + 1 /\ owned' = [owned EXCEPT ![owner] = now + 1]
      /\ UNCHANGED <<owner, record, deleted, lookups, recorded, call>>
      /\ now < MaxTime /\ \A c \in Call : call[c] # Idle => now < call[c].started + Patience
  BY DEF Tick
<1>2. now + 1 \in Time /\ now \in Nat
  BY <1>1, TimeAssumption DEF Inv, TypeOK, Time
<1>3. TypeOK'
  BY <1>1, <1>2 DEF Inv, TypeOK
<1>4. \A x \in Id : owned'[x] = IF x = owner THEN now + 1 ELSE owned[x]
  BY <1>1 DEF Inv, TypeOK
<1>5. Later
  BY <1>1, <1>2, <1>4 DEF Later, Inv, Never
<1>6. owned'[owner'] = now' /\ \A x \in Id : owned'[x] <= now'
  BY <1>1, <1>2, <1>4, Numbers DEF Inv, TypeOK
<1>7. \A c \in Call : call[c] # Idle => InTime(call[c])'
  BY <1>1, <1>2, Working, Numbers DEF InTime, Inv
<1> QED BY <1>1, <1>3, <1>5, <1>6, <1>7, WorldKeeps DEF Turn

LEMMA EvictKeeps ==
  ASSUME Inv, NEW i \in Isolate, Evict(i)
  PROVE  Inv'
<1>1. /\ lookups' = [lookups EXCEPT ![i] = [id \in Id |-> 0]]
      /\ recorded' = [recorded EXCEPT ![i] = Empty]
      /\ UNCHANGED <<now, owner, owned, record, deleted, call>>
  BY DEF Evict, atHost
<1>2. TypeOK'
  <2>1. Empty \in Copy /\ 0 \in 0 .. MaxTime + HostTTL
    BY TimeAssumption DEF Copy
  <2> QED BY <1>1, <2>1 DEF Inv, TypeOK
<1>3. ASSUME NEW j \in Isolate
      PROVE  /\ recorded'[j] = recorded[j] \/ CopyOK(j)'
             /\ lookups'[j] = lookups[j] \/ LookupOK(j)'
  <2>1. CASE j # i
    BY <2>1, <1>1 DEF Inv, TypeOK
  <2>2. CASE j = i
    <3>1. recorded'[j] = Empty /\ lookups'[j] = [id \in Id |-> 0]
      BY <2>2, <1>1 DEF Inv, TypeOK
    <3>2. CopyOK(j)'
      BY <3>1, <1>1, Numbers DEF CopyOK, Empty, Inv
    <3>3. LookupOK(j)'
      BY <3>1 DEF LookupOK
    <3> QED BY <3>2, <3>3
  <2> QED BY <2>1, <2>2
<1>4. Later
  BY <1>1, Numbers DEF Later, Inv
<1> QED BY <1>1, <1>2, <1>3, <1>4, SameTime, WorldKeeps DEF Turn, Inv

-----------------------------------------------------------------------------
(* The theorems. *)

LEMMA InitInv ==
  ASSUME Init
  PROVE  Inv
<1>1. 0 \in Time /\ 0 # Never /\ Never < 0
  BY TimeAssumption DEF Time, Never
<1>2. TypeOK
  <2>1. Empty \in Copy /\ 0 \in 0 .. MaxTime + HostTTL
    BY TimeAssumption DEF Copy
  <2> QED BY <1>1, <2>1 DEF Init, TypeOK
<1>3. \A c \in Call : CallOK(c)
  BY DEF Init, CallOK
<1>4. ASSUME NEW i \in Isolate PROVE CopyOK(i) /\ LookupOK(i)
  <2>1. now = 0 /\ recorded[i] = Empty /\ \A id \in Id : lookups[i][id] = 0
    BY DEF Init
  <2>2. Empty.id = None /\ Empty.expires = 0
    BY DEF Empty
  <2> QED BY <2>1, <2>2, TimeAssumption DEF CopyOK, LookupOK
<1>5. owned[owner] = now /\ \A id \in Id : owned[id] <= now
  <2>1. now = 0 /\ owner \in Id /\ \A id \in Id : owned[id] = IF id = owner THEN 0 ELSE Never
    BY DEF Init
  <2> QED BY <2>1 DEF Never
<1> QED BY <1>2, <1>3, <1>4, <1>5 DEF Inv

LEMMA NextInv ==
  ASSUME Inv, [Next]_vars
  PROVE  Inv'
<1>1. CASE \E c \in Call : Step(c) \/ \E i \in Isolate : Begin(c, i)
  BY <1>1, BeginKeeps, RememberedKeeps, AskHostKeeps, RememberKeeps, KnownRecordKeeps,
     ReadRecordKeeps, WriteRecordKeeps, RereadRecordKeeps, SetRecordedKeeps, AnswerKeeps DEF Step
<1>2. CASE \E id \in Id : Handover(id)
  BY <1>2, HandoverKeeps
<1>3. CASE \E i \in Isolate : Evict(i)
  BY <1>3, EvictKeeps
<1>4. CASE DeleteRecord \/ Tick
  BY <1>4, DeleteRecordKeeps, TickKeeps
<1>5. CASE UNCHANGED vars
  <2>1. TypeOK' /\ UNCHANGED <<now, owner, owned, record, deleted, lookups, recorded, call>>
    BY <1>5 DEF vars, atHost, Inv, TypeOK
  <2>2. Later
    BY <2>1, Numbers DEF Later, Inv
  <2> QED BY <2>1, <2>2, SameTime, WorldKeeps DEF Turn, Inv
<1> QED BY <1>1, <1>2, <1>3, <1>4, <1>5 DEF Next

\* What is known of the record is true, or was until the record was deleted a while ago.
THEOREM IdentityInvariant == Spec => []Inv
<1>1. Init => Inv
  BY InitInv
<1>2. Inv /\ [Next]_vars => Inv'
  BY NextInv
<1> QED BY <1>1, <1>2, PTL DEF Spec

\* The variables keep their types.
THEOREM IdentitiesTyped == Spec => []TypeOK
<1>1. Inv => TypeOK
  BY DEF Inv
<1> QED BY <1>1, IdentityInvariant, PTL

\* What a finished request was told by the record stands once deletions are a while ago.
LEMMA SettledRecord ==
  ASSUME Inv, Settled, NEW c \in Call, call[c] # Idle
  PROVE  ~Recent(Since(call[c]))
BY Working, Numbers DEF Settled, Recent, Since, InTime, Inv

\* Only requests of the recorded repository are let in.
THEOREM NameIsKept == Spec => []AccessFollowsRepository
<1>1. ASSUME Inv PROVE AccessFollowsRepository
  <2> SUFFICES ASSUME Settled, NEW c \in Call, At(c, "granted") PROVE call[c].id = record
    BY DEF AccessFollowsRepository
  <2> QED BY <1>1, Working, SettledRecord DEF At, Good, For
<1> QED BY <1>1, IdentityInvariant, PTL

\* And they are let in.
THEOREM OwnerIsServed == Spec => []OwnerIsLetIn
<1>1. ASSUME Inv PROVE OwnerIsLetIn
  <2> SUFFICES ASSUME Settled, NEW c \in Call, At(c, "refused") PROVE call[c].id # record
    BY DEF OwnerIsLetIn
  <2> QED BY <1>1, Working, SettledRecord, IdAssumption DEF At, Good, Against
<1> QED BY <1>1, IdentityInvariant, PTL

\* A repository that lost its name long ago does not claim it.
THEOREM LostNamesStayLost == Spec => OnlyOwnersClaim
<1> DEFINE Owns == record' \notin {record, None} =>
                     owned[record'] # Never /\ now <= owned[record'] + ClaimBound
<1>1. ASSUME Inv, Next PROVE Owns
  <2> SUFFICES ASSUME record' \notin {record, None}
               PROVE  owned[record'] # Never /\ now <= owned[record'] + ClaimBound
    OBVIOUS
  <2>1. PICK c \in Call : WriteRecord(c) /\ MayClaim
    BY <1>1 DEF Next, Step, Begin, Answer, Remembered, AskHost, Remember, KnownRecord, ReadRecord,
       WriteRecord, RereadRecord, SetRecorded, Handover, DeleteRecord, Tick, Evict
  <2>2. /\ call[c] # Idle /\ Good(call[c]) /\ InTime(call[c]) /\ call[c].started \in Nat
        /\ call[c].step = "put" /\ record' = call[c].id
    BY <1>1, <2>1, Working DEF WriteRecord, At
  <2>3. Shown(call[c].id, call[c].started)
    BY <2>2 DEF Good
  <2> QED BY <1>1, <2>2, <2>3, Numbers DEF Shown, InTime, ClaimBound, Inv
<1>2. Inv /\ [Next]_vars => [Owns]_vars
  BY <1>1
<1> QED BY <1>2, IdentityInvariant, PTL DEF Spec, OnlyOwnersClaim
=============================================================================
