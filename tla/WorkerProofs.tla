---------------------------- MODULE WorkerProofs ----------------------------
(***************************************************************************)
(* What lets a request in, for how long and to what; and what a count of   *)
(* the bucket says.                                                        *)
(*                                                                         *)
(* Access ends within AccessEnds' Bound of the host's last yes, whatever   *)
(* the lifetimes and the number of isolates and requests.  Everything that *)
(* lets a request in ends a while after the last yes, which each hop       *)
(* prolongs by its lifetime and the time of a request: what an isolate     *)
(* remembers, then session tokens, then action tokens.                     *)
(*                                                                         *)
(* Nobody oversteps their rights, and what a batch offers is taken,        *)
(* whatever the settings, the host's answers, the objects and the number   *)
(* of batches: a token says no more than its account may, a batch in       *)
(* progress offers no more than its account may and the limits allow, and  *)
(* the gate asks for what the limits allowed.                              *)
(*                                                                         *)
(* An answer keeps to the quota as far as its count of the bucket tells,   *)
(* whatever the sizes, the isolates, the batches beside it and the         *)
(* lifetime of a count: a count, finished or under way, lies between what  *)
(* has stayed in the bucket since before it began and what was ever there  *)
(* since, and it is remembered for a lifetime at most; what is granted or  *)
(* refused by it therefore agrees with one of the two.                     *)
(*                                                                         *)
(* A storage report is true of what the bucket had while it was counted,   *)
(* whatever the bucket, its changes and the number of counts: a count has  *)
(* listed nothing but what was there at some time, and, up to its cursor,  *)
(* all that was there the whole time; and sums grow with what they sum.    *)
(***************************************************************************)
EXTENDS Access, Server, StorageReport, FiniteSetTheorems, WellFoundedInduction, TLAPS

-----------------------------------------------------------------------------
(* How long access lasts. *)

Kinds == {"host", "session", "action"}

\* How long after the last yes the credentials of each kind end.
Reach(kind) ==
  IF kind = "host" THEN HostTTL + Patience
  ELSE IF kind = "session" THEN SessionBound
  ELSE SessionBound + ActionTTL + Patience - 1

Inside == {"let in", "sign", "granted"}

InTime(r) == r.started <= now /\ now <= r.started + Patience

Good(r) ==
  /\ InTime(r)
  /\ r.step = "remember" => r.shown = Host /\ r.started <= lastAllowed
  /\ r.step = "credentials" => r.shown = Host
  /\ r.step = "token" => r.shown.expires <= lastAllowed + Reach(r.shown.kind)
  /\ r.step \in Inside => r.started < lastAllowed + Reach(r.shown.kind)
  /\ r.step = "sign" =>
       r.expires <= lastAllowed + Reach(IF r.op = "session" THEN "session" ELSE "action")

CallOK(c) == call[c] # Idle => Good(call[c])

Inv ==
  /\ TypeOK
  /\ lastAllowed <= now /\ (allowed => lastAllowed = now)
  /\ \A i \in Isolate : lookup[i] <= lastAllowed + Reach("host")
  /\ TokensEnd
  /\ \A c \in Call : CallOK(c)

Steps == {"credentials", "remember", "token", "let in", "sign", "granted", "refused"}

-----------------------------------------------------------------------------
(* Numbers. *)

\* The reaches are numbers, each longer than the one before.
LEMMA Reaches ==
  /\ HostTTL \in Nat /\ SessionTTL \in Nat /\ ActionTTL \in Nat /\ Patience \in Nat
  /\ HostTTL > 0 /\ SessionTTL > 0 /\ ActionTTL > 0
  /\ Reach("host") = HostTTL + Patience
  /\ Reach("session") = HostTTL + SessionTTL + 2 * Patience - 1
  /\ Reach("action") = HostTTL + SessionTTL + ActionTTL + 3 * Patience - 2
  /\ \A k \in Kinds : Reach(k) \in Int /\ Reach(k) <= Reach("action")
BY TimeAssumption DEF Reach, SessionBound, Kinds

LEMMA Numbers ==
  ASSUME TypeOK
  PROVE  /\ now \in Nat /\ lastAllowed \in Nat
         /\ \A i \in Isolate : lookup[i] \in Nat
         /\ \A c \in Call : call[c] # Idle =>
              /\ call[c] \in Request /\ call[c].started \in Nat /\ call[c].expires \in Nat
              /\ call[c].shown.expires \in Nat /\ call[c].shown.kind \in Kinds
         /\ \A t \in tokens : t.expires \in Nat /\ t.kind \in {"session", "action"}
<1>1. Time \subseteq Nat /\ Expiry \subseteq Nat
  BY TimeAssumption DEF Time, Expiry
<1>2. \A t \in Token \cup {Host} : t.expires \in Nat /\ t.kind \in Kinds
  <2>1. \A t \in Token : t.expires \in Nat /\ t.kind \in Kinds
    BY <1>1 DEF Token, Kinds
  <2>2. Host.expires \in Nat /\ Host.kind \in Kinds
    BY DEF Host, Kinds
  <2> QED BY <2>1, <2>2
<1>3. \A r \in Request : r.started \in Nat /\ r.expires \in Nat /\ r.shown \in Token \cup {Host}
  BY <1>1 DEF Request
<1>4. \A c \in Call : call[c] # Idle => call[c] \in Request
  BY DEF TypeOK
<1>5. \A t \in tokens : t.expires \in Nat /\ t.kind \in {"session", "action"}
  BY <1>1 DEF TypeOK, Token
<1> QED BY <1>1, <1>2, <1>3, <1>4, <1>5 DEF TypeOK

\* Tokens end as their kind does.
LEMMA TokensReach ==
  TokensEnd <=> \A t \in tokens : t.expires <= lastAllowed +
                    (IF t.kind = "session" THEN Reach("session") ELSE Reach("action"))
BY DEF TokensEnd, Reach

-----------------------------------------------------------------------------
(* What every step leaves alone. *)

\* A request that does nothing stays good, as long as it is in time.
LEMMA GoodKept ==
  ASSUME TypeOK, NEW d \in Call, CallOK(d), call'[d] = call[d],
         lastAllowed' \in Nat, lastAllowed <= lastAllowed', now' \in Nat,
         call[d] # Idle => InTime(call[d])'
  PROVE  CallOK(d)'
<1> SUFFICES ASSUME call[d] # Idle PROVE Good(call[d])'
  BY DEF CallOK, Idle
<1>1. Good(call[d]) /\ call[d].shown.kind \in Kinds
      /\ call[d].started \in Nat /\ call[d].expires \in Nat /\ call[d].shown.expires \in Nat
  BY Numbers DEF CallOK
<1>2. Reach(call[d].shown.kind) \in Int /\ Reach("session") \in Int /\ Reach("action") \in Int
  BY <1>1, Reaches
<1>3. lastAllowed \in Nat
  BY Numbers
<1> QED BY <1>1, <1>2, <1>3 DEF Good, Reach

\* A step of one request keeps the invariant if the request, what its isolate
\* remembers and the tokens are fine.
LEMMA Preserved ==
  ASSUME Inv, TypeOK', UNCHANGED <<now, allowed, lastAllowed>>, NEW c \in Call,
         CallOK(c)', \A d \in Call \ {c} : call'[d] = call[d],
         \A i \in Isolate : lookup'[i] <= lastAllowed + Reach("host"),
         TokensEnd'
  PROVE  Inv'
<1>1. \A d \in Call : CallOK(d)'
  <2> SUFFICES ASSUME NEW d \in Call, d # c PROVE CallOK(d)'
    OBVIOUS
  <2> QED BY GoodKept, Numbers DEF Inv, CallOK, Good, InTime
<1> QED BY <1>1 DEF Inv, Reach

\* A request that takes a step stays a request.
LEMMA Stepped ==
  ASSUME NEW r \in Request, NEW s \in Steps
  PROVE  /\ [r EXCEPT !.step = s] \in Request
         /\ [r EXCEPT !.step = s] # Idle
         /\ [r EXCEPT !.step = s].step = s
         /\ [r EXCEPT !.step = s].op = r.op
         /\ [r EXCEPT !.step = s].isolate = r.isolate
         /\ [r EXCEPT !.step = s].started = r.started
         /\ [r EXCEPT !.step = s].shown = r.shown
         /\ [r EXCEPT !.step = s].expires = r.expires
BY DEF Request, Idle, Steps

\* A step that only changes what one request does.
LEMMA GoKeeps ==
  ASSUME Inv, NEW c \in Call, call[c] # Idle, NEW s \in Steps, Go(c, s),
         UNCHANGED <<now, allowed, lastAllowed, lookup, tokens>>,
         s \in {"remember", "let in", "granted", "refused"},
         s = "remember" => call[c].shown = Host /\ allowed,
         s \in Inside => call[c].started < lastAllowed + Reach(call[c].shown.kind)
  PROVE  Inv'
<1> DEFINE r == [call[c] EXCEPT !.step = s]
<1>1. call[c] \in Request /\ Good(call[c])
  BY Numbers DEF Inv, CallOK
<1>2. call' = [call EXCEPT ![c] = r]
  BY DEF Go, Inv, TypeOK
<1>3. /\ r \in Request /\ r # Idle /\ r.step = s /\ r.op = call[c].op
      /\ r.started = call[c].started /\ r.shown = call[c].shown /\ r.expires = call[c].expires
  BY <1>1, Stepped
<1> HIDE DEF r
<1>4. call'[c] = r /\ \A d \in Call \ {c} : call'[d] = call[d]
  BY <1>2 DEF Inv, TypeOK
<1>5. TypeOK'
  BY <1>2, <1>3 DEF Inv, TypeOK
<1>6. CallOK(c)'
  BY <1>1, <1>3, <1>4, Reaches, Numbers DEF CallOK, Good, InTime, Inv, Inside, Reach
<1>7. TokensEnd'
  BY DEF Inv, TokensEnd
<1> QED BY <1>4, <1>5, <1>6, <1>7, Preserved DEF Inv

\* Only who is inside, and who started before the credentials end.
LEMMA Early ==
  ASSUME Inv, NEW c \in Call, call[c] # Idle
  PROVE  Good(call[c]) /\ InTime(call[c])
BY DEF Inv, CallOK, Good

LEMMA AskKeeps ==
  ASSUME Inv, NEW c \in Call, NEW i \in Isolate, NEW op \in {"session", "batch", "transfer"},
         NEW shown \in tokens \cup {Host}, Ask(c, i, op, shown)
  PROVE  Inv'
<1> DEFINE first == IF shown = Host THEN "credentials" ELSE "token"
           r == [op |-> op, isolate |-> i, started |-> now, shown |-> shown, expires |-> 0,
                 step |-> first]
<1>1. shown \in Token \cup {Host} /\ first \in {"credentials", "token"}
      /\ (first = "credentials" => shown = Host) /\ (first = "token" => shown \in tokens)
  BY DEF Inv, TypeOK
<1>2. call' = [call EXCEPT ![c] = r] /\ UNCHANGED <<now, allowed, lastAllowed, lookup, tokens>>
  BY DEF Ask, host
<1> HIDE DEF first
<1>2a. 0 \in Expiry /\ now \in Time
  BY TimeAssumption DEF Expiry, Inv, TypeOK
<1>3. /\ r \in Request /\ r # Idle /\ r.started = now /\ r.shown = shown /\ r.step = first
  BY <1>1, <1>2a DEF Request, Idle
<1> HIDE DEF r
<1>4. call'[c] = r /\ \A d \in Call \ {c} : call'[d] = call[d]
  BY <1>2 DEF Inv, TypeOK
<1>5. TypeOK'
  BY <1>2, <1>3 DEF Inv, TypeOK
<1>6. shown \in tokens => shown.expires <= lastAllowed + Reach(shown.kind)
  BY TokensReach, Numbers, Reaches DEF Inv, Reach
<1>7. CallOK(c)'
  <2>1. InTime(call[c])'
    BY <1>2, <1>3, <1>4, Numbers, Reaches DEF InTime, Inv
  <2>2. Good(call[c])'
    BY <1>1, <1>2, <1>3, <1>4, <1>6, <2>1 DEF Good, Inside, Reach
  <2> QED BY <2>2 DEF CallOK
<1>8. TokensEnd'
  BY <1>2 DEF Inv, TokensEnd
<1> QED BY <1>2, <1>4, <1>5, <1>7, <1>8, Preserved DEF Inv

LEMMA CredentialsKeeps ==
  ASSUME Inv, NEW c \in Call, Credentials(c)
  PROVE  Inv'
<1>1. call[c] # Idle /\ Good(call[c]) /\ InTime(call[c]) /\ call[c].shown = Host
      /\ call[c] \in Request /\ call[c].started \in Nat
  BY Early, Numbers DEF Credentials, At, Good, Inv
<1>2. UNCHANGED <<now, allowed, lastAllowed, lookup, tokens>>
  BY DEF Credentials, host
<1>3. CASE lookup[call[c].isolate] > now
  <2>1. Go(c, "let in")
    BY <1>3 DEF Credentials
  <2>2. /\ call[c].isolate \in Isolate
        /\ call[c].shown.kind = "host"
        /\ Reach(call[c].shown.kind) = HostTTL + Patience
    <3>1. Host.kind = "host"
      BY DEF Host
    <3> QED BY <1>1, <3>1, Reaches DEF Request
  <2>3. call[c].started < lastAllowed + Reach(call[c].shown.kind)
    BY <1>1, <1>3, <2>2, Numbers, Reaches DEF Inv, InTime
  <2> QED BY <1>1, <1>2, <2>1, <2>3, GoKeeps DEF Steps
<1>4. CASE ~(lookup[call[c].isolate] > now) /\ allowed
  <2>1. Go(c, "remember")
    BY <1>4 DEF Credentials
  <2> QED BY <1>1, <1>2, <1>4, <2>1, GoKeeps DEF Steps, Inside
<1>5. CASE ~(lookup[call[c].isolate] > now) /\ ~allowed
  <2>1. Go(c, "refused")
    BY <1>5 DEF Credentials
  <2> QED BY <1>1, <1>2, <2>1, GoKeeps DEF Steps, Inside
<1> QED BY <1>3, <1>4, <1>5

LEMMA VerifyKeeps ==
  ASSUME Inv, NEW c \in Call, Verify(c)
  PROVE  Inv'
<1>1. call[c] # Idle /\ Good(call[c]) /\ InTime(call[c])
      /\ call[c].started \in Nat /\ call[c].shown.expires \in Nat /\ call[c].shown.kind \in Kinds
  BY Early, Numbers DEF Verify, At, Inv
<1>2. UNCHANGED <<now, allowed, lastAllowed, lookup, tokens>>
  BY DEF Verify, host
<1>3. CASE call[c].shown.expires > now
  <2>1. Go(c, "let in")
    BY <1>3 DEF Verify
  <2>2. call[c].started < lastAllowed + Reach(call[c].shown.kind)
    <3>1. Reach(call[c].shown.kind) \in Int /\ now \in Nat /\ lastAllowed \in Nat
      BY <1>1, Numbers, Reaches DEF Inv
    <3>2. /\ call[c].shown.expires <= lastAllowed + Reach(call[c].shown.kind)
          /\ call[c].started <= now
      BY <1>1 DEF Good, Verify, At, InTime
    <3> HIDE DEF Reach
    <3> QED BY <1>1, <1>3, <3>1, <3>2
  <2> QED BY <1>1, <1>2, <2>1, <2>2, GoKeeps DEF Steps
<1>4. CASE ~(call[c].shown.expires > now)
  <2>1. Go(c, "refused")
    BY <1>4 DEF Verify
  <2> QED BY <1>1, <1>2, <2>1, GoKeeps DEF Steps, Inside
<1> QED BY <1>3, <1>4

LEMMA RememberKeeps ==
  ASSUME Inv, NEW c \in Call, Remember(c)
  PROVE  Inv'
<1> DEFINE r == [call[c] EXCEPT !.step = "let in"]
           i == call[c].isolate
<1>1. call[c] \in Request /\ Good(call[c]) /\ InTime(call[c]) /\ call[c].shown = Host
      /\ call[c].started <= lastAllowed /\ call[c].started \in Nat /\ i \in Isolate
  BY Early, Numbers DEF Remember, At, Good, Inv, Request
<1>2. /\ call' = [call EXCEPT ![c] = r] /\ lookup' = [lookup EXCEPT ![i] = now + HostTTL]
      /\ UNCHANGED <<now, allowed, lastAllowed, tokens>>
  BY DEF Remember, Go, host, Inv, TypeOK
<1> HIDE DEF i
<1>3. /\ r \in Request /\ r # Idle /\ r.step = "let in" /\ r.op = call[c].op
      /\ r.started = call[c].started /\ r.shown = call[c].shown
  BY <1>1, Stepped DEF Steps
<1> HIDE DEF r
<1>4. call'[c] = r /\ \A d \in Call \ {c} : call'[d] = call[d]
  BY <1>2 DEF Inv, TypeOK
<1>5. now + HostTTL \in Expiry
  BY TimeAssumption DEF Inv, TypeOK, Expiry, Time
<1>6. TypeOK'
  BY <1>1, <1>2, <1>3, <1>5 DEF Inv, TypeOK
<1>7. \A j \in Isolate : lookup'[j] <= lastAllowed + Reach("host")
  <2>1. now + HostTTL <= lastAllowed + Reach("host")
    BY <1>1, Numbers, Reaches DEF InTime, Inv
  <2> QED BY <1>1, <1>2, <2>1 DEF Inv, TypeOK
<1>8. CallOK(c)'
  <2>1. Host.kind = "host"
    BY DEF Host
  <2>2. call[c].started < lastAllowed + Reach(call[c].shown.kind)
    BY <1>1, <2>1, Numbers, Reaches DEF Inv
  <2> QED BY <1>1, <1>2, <1>3, <1>4, <2>2 DEF CallOK, Good, InTime, Inside, Reach
<1>9. TokensEnd'
  BY <1>2 DEF Inv, TokensEnd
<1> QED BY <1>2, <1>4, <1>6, <1>7, <1>8, <1>9, Preserved

LEMMA ServeKeeps ==
  ASSUME Inv, NEW c \in Call, Serve(c)
  PROVE  Inv'
<1>1. call[c] # Idle /\ call[c] \in Request /\ Good(call[c]) /\ InTime(call[c])
      /\ call[c].started < lastAllowed + Reach(call[c].shown.kind)
      /\ call[c].started \in Nat /\ call[c].shown.kind \in Kinds
  BY Early, Numbers DEF Serve, At, Good, Inside, Inv
<1>2. UNCHANGED <<now, allowed, lastAllowed, lookup, tokens>>
  BY DEF Serve, host
<1>3. CASE ~Suits(call[c].op, call[c].shown)
  <2>1. Go(c, "refused")
    BY <1>3 DEF Serve, Go
  <2> QED BY <1>1, <1>2, <2>1, GoKeeps DEF Steps, Inside
<1>4. CASE Suits(call[c].op, call[c].shown) /\ call[c].op = "transfer"
  <2>1. Go(c, "granted")
    BY <1>4 DEF Serve, Go
  <2> QED BY <1>1, <1>2, <2>1, GoKeeps DEF Steps
<1>5. CASE Suits(call[c].op, call[c].shown) /\ call[c].op # "transfer"
  <2> DEFINE e == now + Lifetime(call[c].op)
             r == [call[c] EXCEPT !.step = "sign", !.expires = e]
             k == IF call[c].op = "session" THEN "session" ELSE "action"
  <2>1. call' = [call EXCEPT ![c] = r]
    BY <1>5 DEF Serve, Inv, TypeOK
  <2>2. e \in Expiry /\ e \in Nat
    BY TimeAssumption DEF Inv, TypeOK, Expiry, Time, Lifetime
  <2>3. e <= lastAllowed + Reach(k)
    <3>1. CASE call[c].op = "session"
      <4>1. call[c].shown.kind = "host" /\ k = "session" /\ e = now + SessionTTL
        BY <1>5, <3>1 DEF Suits, Host, Lifetime
      <4> QED BY <1>1, <4>1, Numbers, Reaches DEF Inv, InTime
    <3>2. CASE call[c].op = "batch"
      <4>1. call[c].shown.kind \in {"host", "session"} /\ k = "action" /\ e = now + ActionTTL
        BY <1>1, <1>5, <3>2 DEF Suits, Lifetime, Kinds
      <4> QED BY <1>1, <4>1, Numbers, Reaches DEF Inv, InTime
    <3> QED BY <1>1, <1>5, <3>1, <3>2 DEF Request
  <2> HIDE DEF e
  <2>4. /\ r \in Request /\ r # Idle /\ r.step = "sign" /\ r.op = call[c].op
        /\ r.started = call[c].started /\ r.shown = call[c].shown /\ r.expires = e
    BY <1>1, <2>2 DEF Request, Idle
  <2> HIDE DEF r
  <2>5. call'[c] = r /\ \A d \in Call \ {c} : call'[d] = call[d]
    BY <2>1 DEF Inv, TypeOK
  <2>6. TypeOK'
    BY <1>2, <2>1, <2>4 DEF Inv, TypeOK
  <2>7. CallOK(c)'
    BY <1>1, <1>2, <2>3, <2>4, <2>5 DEF CallOK, Good, InTime, Inside, Reach
  <2>8. TokensEnd'
    BY <1>2 DEF Inv, TokensEnd
  <2> QED BY <1>2, <2>5, <2>6, <2>7, <2>8, Preserved DEF Inv
<1> QED BY <1>3, <1>4, <1>5

LEMMA SignKeeps ==
  ASSUME Inv, NEW c \in Call, Sign(c)
  PROVE  Inv'
<1> DEFINE k == IF call[c].op = "session" THEN "session" ELSE "action"
           t == [kind |-> k, expires |-> call[c].expires]
           r == [call[c] EXCEPT !.step = "granted"]
<1>1. call[c] \in Request /\ Good(call[c]) /\ InTime(call[c])
      /\ call[c].started < lastAllowed + Reach(call[c].shown.kind)
      /\ call[c].expires <= lastAllowed + Reach(k)
  BY Early, Numbers DEF Sign, At, Good, Inside, Inv
<1>2. /\ call' = [call EXCEPT ![c] = r] /\ tokens' = tokens \cup {t}
      /\ UNCHANGED <<now, allowed, lastAllowed, lookup>>
  BY DEF Sign, Go, host, Inv, TypeOK
<1>3. k \in {"session", "action"}
  OBVIOUS
<1> HIDE DEF k
<1>4. t \in Token /\ t.kind = k /\ t.expires = call[c].expires
  BY <1>1, <1>3 DEF Token, Request
<1>5. /\ r \in Request /\ r # Idle /\ r.step = "granted" /\ r.op = call[c].op
      /\ r.started = call[c].started /\ r.shown = call[c].shown
  BY <1>1, Stepped DEF Steps
<1> HIDE DEF r, t
<1>6. call'[c] = r /\ \A d \in Call \ {c} : call'[d] = call[d]
  BY <1>2 DEF Inv, TypeOK
<1>7. TypeOK'
  <2>1. tokens' \in SUBSET Token
    BY <1>2, <1>4 DEF Inv, TypeOK
  <2>2. call' \in [Call -> Request \cup {Idle}]
    BY <1>2, <1>5 DEF Inv, TypeOK
  <2> QED BY <1>2, <2>1, <2>2 DEF Inv, TypeOK
<1>8. CallOK(c)'
  BY <1>1, <1>2, <1>5, <1>6 DEF CallOK, Good, InTime, Inside, Reach
<1>9. TokensEnd'
  <2>1. \A u \in tokens : u.expires <= lastAllowed +
          (IF u.kind = "session" THEN SessionBound ELSE SessionBound + ActionTTL + Patience - 1)
    BY DEF Inv, TokensEnd
  <2>2. t.expires <= lastAllowed +
          (IF t.kind = "session" THEN SessionBound ELSE SessionBound + ActionTTL + Patience - 1)
    BY <1>1, <1>3, <1>4 DEF Reach
  <2> QED BY <1>2, <2>1, <2>2 DEF TokensEnd, SessionBound
<1> QED BY <1>2, <1>6, <1>7, <1>8, <1>9, Preserved DEF Inv

LEMMA AnswerKeeps ==
  ASSUME Inv, NEW c \in Call, Answer(c)
  PROVE  Inv'
<1>1. /\ call' = [call EXCEPT ![c] = Idle]
      /\ UNCHANGED <<now, allowed, lastAllowed, lookup, tokens>>
  BY DEF Answer, host
<1>2. call'[c] = Idle /\ TypeOK' /\ TokensEnd' /\ \A d \in Call \ {c} : call'[d] = call[d]
  BY <1>1 DEF Inv, TypeOK, TokensEnd
<1> QED BY <1>1, <1>2, Preserved DEF Inv, CallOK

LEMMA EvictKeeps ==
  ASSUME Inv, NEW i \in Isolate, Evict(i)
  PROVE  Inv'
<1>1. UNCHANGED <<now, allowed, lastAllowed, tokens, call>> /\ lookup' = [lookup EXCEPT ![i] = 0]
  BY DEF Evict, host
<1>2. TypeOK'
  BY <1>1, TimeAssumption DEF Inv, TypeOK, Expiry
<1>3. \A j \in Isolate : lookup'[j] <= lastAllowed + Reach("host")
  BY <1>1, Numbers, Reaches DEF Inv, TypeOK
<1>4. TokensEnd' /\ \A d \in Call : CallOK(d)'
  BY <1>1 DEF Inv, TokensEnd, CallOK, Good, InTime, Inside, Reach
<1> QED BY <1>1, <1>2, <1>3, <1>4 DEF Inv, Reach

\* The clock and the host only move the last yes on.
LEMMA LaterKeeps ==
  ASSUME Inv, TypeOK', UNCHANGED <<lookup, tokens, call>>,
         lastAllowed <= lastAllowed', lastAllowed' <= now', allowed' => lastAllowed' = now',
         \A c \in Call : call[c] # Idle => InTime(call[c])'
  PROVE  Inv'
<1>1. lastAllowed \in Nat /\ lastAllowed' \in Nat /\ now' \in Nat
  BY Numbers, TimeAssumption DEF Inv, TypeOK, Time
<1>2. \A c \in Call : CallOK(c)'
  BY <1>1, GoodKept DEF Inv
<1>3. \A i \in Isolate : lookup'[i] <= lastAllowed' + Reach("host")
  BY <1>1, Numbers, Reaches DEF Inv
<1>4. TokensEnd'
  <2>1. \A t \in tokens : t.expires \in Nat /\ t.expires <= lastAllowed +
          (IF t.kind = "session" THEN SessionBound ELSE SessionBound + ActionTTL + Patience - 1)
    BY Numbers DEF Inv, TokensEnd
  <2>2. SessionBound \in Int /\ ActionTTL \in Nat /\ Patience \in Nat
    BY Reaches DEF SessionBound
  <2> SUFFICES ASSUME NEW t \in tokens
               PROVE  t.expires <= lastAllowed' +
          (IF t.kind = "session" THEN SessionBound ELSE SessionBound + ActionTTL + Patience - 1)
    BY DEF TokensEnd, SessionBound
  <2> QED BY <1>1, <2>1, <2>2
<1> QED BY <1>2, <1>3, <1>4 DEF Inv, Reach

LEMMA TickKeeps ==
  ASSUME Inv, Tick
  PROVE  Inv'
<1>1. now' \in Time /\ lastAllowed' \in Time
  BY TimeAssumption DEF Tick, Inv, TypeOK, Time
<1>2. TypeOK'
  BY <1>1 DEF Tick, Inv, TypeOK
<1>3. \A c \in Call : call[c] # Idle => InTime(call[c])'
  BY Numbers, Early, TimeAssumption DEF Tick, InTime, Inv
<1>4. lastAllowed <= lastAllowed' /\ lastAllowed' <= now' /\ (allowed' => lastAllowed' = now')
  BY Numbers DEF Tick, Inv
<1> QED BY <1>2, <1>3, <1>4, LaterKeeps DEF Tick

LEMMA SetAllowedKeeps ==
  ASSUME Inv, SetAllowed
  PROVE  Inv'
<1>1. TypeOK'
  BY DEF SetAllowed, Inv, TypeOK
<1>2. \A c \in Call : call[c] # Idle => InTime(call[c])'
  BY Early DEF SetAllowed, InTime
<1>3. lastAllowed <= lastAllowed' /\ lastAllowed' <= now' /\ (allowed' => lastAllowed' = now')
  BY Numbers DEF SetAllowed, Inv
<1> QED BY <1>1, <1>2, <1>3, LaterKeeps DEF SetAllowed

-----------------------------------------------------------------------------
(* The theorems. *)

LEMMA InitInv ==
  ASSUME Init
  PROVE  Inv
<1>1. 0 \in Time /\ 0 \in Expiry
  BY TimeAssumption DEF Time, Expiry
<1>2. TypeOK
  BY <1>1 DEF Init, TypeOK, Idle
<1> QED BY <1>2, Reaches DEF Init, Inv, CallOK, TokensEnd, Idle

LEMMA NextInv ==
  ASSUME Inv, [Next]_vars
  PROVE  Inv'
<1>1. CASE \E c \in Call, i \in Isolate, op \in {"session", "batch", "transfer"},
              shown \in tokens \cup {Host} : Ask(c, i, op, shown)
  BY <1>1, AskKeeps
<1>2. CASE \E c \in Call : Step(c)
  BY <1>2, CredentialsKeeps, RememberKeeps, VerifyKeeps, ServeKeeps, SignKeeps, AnswerKeeps DEF Step
<1>3. CASE \E i \in Isolate : Evict(i)
  BY <1>3, EvictKeeps
<1>4. CASE Tick \/ SetAllowed
  BY <1>4, TickKeeps, SetAllowedKeeps
<1>5. CASE UNCHANGED vars
  BY <1>5 DEF vars, Inv, TypeOK, TokensEnd, SessionBound, CallOK, Good, InTime, Inside, Reach
<1> QED BY <1>1, <1>2, <1>3, <1>4, <1>5 DEF Next

\* Every credential, and every request let in with one, is from the reach of the
\* host's last yes.
THEOREM AccessInvariant == Spec => []Inv
<1>1. Init => Inv
  BY InitInv
<1>2. Inv /\ [Next]_vars => Inv'
  BY NextInv
<1> QED BY <1>1, <1>2, PTL DEF Spec

\* The variables keep their types.
THEOREM AccessTyped == Spec => []TypeOK
<1>1. Inv => TypeOK
  BY DEF Inv
<1> QED BY <1>1, AccessInvariant, PTL

\* No token outlives the host's last yes by more than its kind's reach.
THEOREM TokensAreShort == Spec => []TokensEnd
<1>1. Inv => TokensEnd
  BY DEF Inv
<1> QED BY <1>1, AccessInvariant, PTL

\* And nothing is let in by the Worker after that.
THEOREM AccessIsRevoked == Spec => []AccessEnds
<1>1. ASSUME Inv PROVE AccessEnds
  <2> SUFFICES ASSUME NEW c \in Call, At(c, "granted") PROVE now <= lastAllowed + Bound
    BY DEF AccessEnds
  <2>1. /\ call[c].started < lastAllowed + Reach(call[c].shown.kind)
        /\ now <= call[c].started + Patience
        /\ call[c].started \in Nat /\ call[c].shown.kind \in Kinds
    BY <1>1, Early, Numbers DEF Good, InTime, Inside, At, Inv
  <2>2. Reach(call[c].shown.kind) \in Int /\ Reach(call[c].shown.kind) <= Reach("action")
    BY <2>1, Reaches
  <2> HIDE DEF Reach
  <2> QED BY <1>1, <2>1, <2>2, Numbers, Reaches DEF Bound, Inv
<1> QED BY <1>1, AccessInvariant, PTL

-----------------------------------------------------------------------------
(* What credentials are worth, for any settings. *)

\* The order of the rights.
AtLeast(p, q) == Rank[p] >= Rank[q]

LEMMA Ranks ==
  /\ Rank["none"] = 0 /\ Rank["read"] = 1 /\ Rank["write"] = 2 /\ Rank["admin"] = 3
  /\ \A p \in Role : Rank[p] \in 0..3 /\ (p = "none" <=> Rank[p] = 0)
<1>1. Rank["none"] = 0 /\ Rank["read"] = 1 /\ Rank["write"] = 2 /\ Rank["admin"] = 3
  BY DEF Rank
<1>2. QED BY <1>1 DEF Role

\* Who is entitled to more is entitled to less.
LEMMA EntitledLess ==
  ASSUME NEW a \in Account, NEW r \in Repo, env \in Environment,
         NEW p \in GrantedPermission, NEW q \in GrantedPermission,
         Rank[p] >= Rank[q], Entitled(a, r, p)
  PROVE  Entitled(a, r, q)
<1>1. /\ Rank[p] \in Int /\ Rank[q] \in Int /\ Rank[q] >= 1
      /\ p = "read" => q = "read"
  BY Ranks DEF GrantedPermission, Role
<1>2. Rank[Standing[a][r]] \in Int /\ Rank[env.ACTIONS_OIDC] \in Int
  BY Ranks, HostAssumption DEF Environment
<1>3. \A t \in env.AUTH_TOKENS : Rank[t.permission] \in Int
  BY Ranks DEF Environment, StaticToken, GrantedPermission
<1>4. QED BY <1>1, <1>2, <1>3 DEF Entitled

\* What the host says of an account is what it means.
LEMMA LookupTrue ==
  ASSUME NEW a \in Account, NEW r \in Repo, env \in Environment,
         Lookup(env, a, r).status = 200
  PROVE  /\ Lookup(env, a, r).oid = None
         /\ Lookup(env, a, r).permission \in GrantedPermission
         /\ LET p == Lookup(env, a, r).permission
            IN Rank[Standing[a][r]] >= Rank[p] \/ (p = "read" /\ r \in Public)
<1> PICK role : role = Standing[a][r]
  OBVIOUS
<1>1. role \in Role
  BY HostAssumption
<1>2. role # "none" \/ r \in Public
  BY DEF Lookup, Refused
<1> DEFINE p == CASE env.AUTH_MODE = "gitlab" -> PermissionFromGitlab(LevelOf(role), r \in Public)
                  [] env.AUTH_MODE = "bitbucket" -> PermissionFromBitbucket(role, r \notin Public)
                  [] OTHER -> PermissionFromGithub(FlagsOf(role))
<1>3. Lookup(env, a, r) = LetIn(p, None)
  BY <1>2 DEF Lookup
<1>4. p \in GrantedPermission /\ (p = role \/ (role = "none" /\ p = "read" /\ r \in Public))
  <2>1. CASE env.AUTH_MODE = "gitlab"
    BY <1>1, <1>2, <2>1 DEF PermissionFromGitlab, LevelOf, Role, GrantedPermission
  <2>2. CASE env.AUTH_MODE = "bitbucket"
    BY <1>1, <1>2, <2>2 DEF PermissionFromBitbucket, Role, GrantedPermission
  <2>3. CASE env.AUTH_MODE \notin {"gitlab", "bitbucket"}
    BY <1>1, <1>2, <2>3 DEF PermissionFromGithub, FlagsOf, Role, GrantedPermission
  <2>4. QED BY <2>1, <2>2, <2>3
<1>5. Lookup(env, a, r).permission = p /\ Lookup(env, a, r).oid = None
  BY <1>3 DEF LetIn
<1>6. QED BY <1>1, <1>4, <1>5, Ranks

\* What an account is let in with is its right: the tokens it holds say no more.
LEMMA AuthorizeTrue ==
  ASSUME env \in Environment, held \subseteq Signed,
         \A t \in held : Entitled(t.by, t.repo, t.permission),
         NEW a \in Account, NEW r \in Repo, NEW shown \in Shown(a),
         Authorize(env, r, shown).status = 200
  PROVE  /\ r \in env.ALLOWED_REPOS
         /\ Authorize(env, r, shown).permission \in GrantedPermission
         /\ Entitled(a, r, Authorize(env, r, shown).permission)
         /\ Authorize(env, r, shown).oid = IF shown.kind = "signed" THEN shown.oid ELSE None
<1> PICK auth : auth = Authorize(env, r, shown)
  OBVIOUS
<1>1. r \in env.ALLOWED_REPOS /\ shown.kind # "nothing"
  BY DEF Authorize, Refused
<1>2. CASE shown \in held
  <2>1. shown.kind = "signed" /\ shown.by = a /\ shown \in Signed
    BY <1>2 DEF Shown, Signed
  <2>2. shown.repo = r /\ auth = LetIn(shown.permission, shown.oid)
    BY <1>1, <2>1 DEF Authorize, Refused
  <2>3. auth.permission = shown.permission /\ auth.oid = shown.oid
    BY <2>2 DEF LetIn
  <2>4. shown.permission \in GrantedPermission /\ Entitled(shown.by, shown.repo, shown.permission)
    BY <1>2, <2>1 DEF Signed
  <2>5. QED BY <1>1, <2>1, <2>2, <2>3, <2>4
<1>3. ASSUME NEW repo \in Repo, Standing[a][repo] # "none",
             shown = [kind |-> "jwt", by |-> a, repo |-> repo]
      PROVE  auth.permission \in GrantedPermission /\ Entitled(a, r, auth.permission) /\ auth.oid = None
  <2>1. shown.kind = "jwt" /\ shown.repo = repo
    BY <1>3
  <2>2. env.ACTIONS_OIDC # "none"
    BY <1>1, <2>1 DEF Authorize, Refused, GrantsFor
  <2>3. shown.repo = r /\ auth = LetIn(env.ACTIONS_OIDC, None)
    BY <1>1, <2>1, <2>2 DEF Authorize, Refused
  <2>4. auth.permission = env.ACTIONS_OIDC /\ auth.oid = None
    BY <2>3 DEF LetIn
  <2>5. env.ACTIONS_OIDC \in GrantedPermission /\ Rank[env.ACTIONS_OIDC] \in Int
    BY <2>2, Ranks DEF Environment, GrantedPermission
  <2>6. QED BY <1>1, <1>3, <2>1, <2>3, <2>4, <2>5 DEF Entitled
<1>4. ASSUME shown = [kind |-> "password", by |-> a]
      PROVE  auth.permission \in GrantedPermission /\ Entitled(a, r, auth.permission) /\ auth.oid = None
  <2>1. shown.kind = "password" /\ shown.by = a
    BY <1>4
  <2>2. env.AUTH_MODE # "token"
    BY <1>1, <2>1 DEF Authorize, Refused, GrantsFor
  <2>3. auth = Lookup(env, a, r)
    BY <1>1, <2>1, <2>2 DEF Authorize
  <2>4. auth.status = 200
    OBVIOUS
  <2>5. QED BY <1>1, <2>2, <2>3, <2>4, LookupTrue DEF Entitled
<1>5. ASSUME NEW t \in env.AUTH_TOKENS, t.by = a, shown = [kind |-> "opaque", by |-> a, token |-> t]
      PROVE  auth.permission \in GrantedPermission /\ Entitled(a, r, auth.permission) /\ auth.oid = None
  <2>1. shown.kind = "opaque" /\ shown.token = t
    BY <1>5
  <2>2. env.AUTH_MODE = "token"
    BY <1>1, <2>1 DEF Authorize, Refused
  <2> PICK best : best = StrongestGrant(GrantsFor(env, shown), r)
    OBVIOUS
  <2>3. GrantsFor(env, shown) \subseteq {t}
    BY <2>1 DEF GrantsFor
  <2>4. best \subseteq {t} /\ (t \in best => r \in t.scope)
    BY <2>3 DEF StrongestGrant
  <2> PICK g : g = CHOOSE x \in best : TRUE
    OBVIOUS
  <2>5. best # {} /\ auth = LetIn(g.permission, None)
    BY <1>1, <2>1, <2>2 DEF Authorize, Refused
  <2>6. g = t /\ r \in t.scope
    BY <2>4, <2>5
  <2>7. auth.permission = t.permission /\ auth.oid = None
    BY ONLY <2>5, <2>6 DEF LetIn
  <2>8. t.permission \in GrantedPermission /\ Rank[t.permission] \in Int
    BY Ranks DEF Environment, StaticToken, GrantedPermission
  <2>9. QED BY <1>1, <1>5, <2>2, <2>6, <2>7, <2>8 DEF Entitled
<1>6. \/ shown \in held
      \/ shown = [kind |-> "nothing", by |-> a] \/ shown = [kind |-> "password", by |-> a]
      \/ \E t \in env.AUTH_TOKENS : t.by = a /\ shown = [kind |-> "opaque", by |-> a, token |-> t]
      \/ \E repo \in Repo : Standing[a][repo] # "none" /\ shown = [kind |-> "jwt", by |-> a, repo |-> repo]
  BY DEF Shown
<1>7. QED BY <1>1, <1>2, <1>3, <1>4, <1>5, <1>6

\* A request that is let in passed every check.
LEMMA GateTrue ==
  ASSUME NEW r, NEW shown, NEW q, Gate(env, r, shown, q).status = 200
  PROVE  LET auth == Authorize(env, r, shown)
         IN /\ Gate(env, r, shown, q) = auth /\ auth.status = 200
            /\ ~Misconfigured(env)
            /\ InScope(auth.oid, q)
            /\ q.method \in Methods[q.endpoint]
            /\ HasPermission(auth.permission, Required(q))
            /\ Unfit(env, shown, auth.oid, q) = 200
  BY DEF Gate, Refused

\* Every endpoint asks for the right it makes use of, or for more.
LEMMA RightAsked ==
  ASSUME NEW q \in HttpRequest, q.method \in Methods[q.endpoint]
  PROVE  /\ Required(q) \in GrantedPermission /\ Right(q) \in GrantedPermission
         /\ Rank[Required(q)] >= Rank[Right(q)]
<1>1. q.endpoint \in Endpoint /\ q.do \in DoFor(q.endpoint)
  BY DEF HttpRequest
<1>2. /\ q.endpoint \in {"session", "batch", "verify", "unlock", "storage_change"} => q.method # "GET"
      /\ q.endpoint \in {"multipart_start", "multipart_part", "multipart_complete", "multipart_abort",
                         "locks_verify"} => q.method # "GET"
      /\ q.endpoint = "storage_list" => q.method = "GET"
  BY DEF Methods
<1>3. q.endpoint \in {"batch", "verify", "object", "session", "multipart_start", "multipart_part",
        "multipart_complete", "multipart_abort", "locks", "locks_verify", "unlock", "storage_list",
        "storage_change"}
  BY <1>1 DEF Endpoint, Methods
<1>4. QED BY <1>1, <1>2, <1>3, Ranks DEF DoFor, Required, Right, GrantedPermission, Role

-----------------------------------------------------------------------------
(* What is handed out. *)

\* What the action of an upload has been checked for.
Offered(o, multipart) ==
  /\ ~TooLargeFor(env, Size[o])
  /\ ~multipart => Size[o] <= IF Presign(env) THEN R2Max ELSE env.PROXY_MAX_UPLOAD_MB

\* A token says no more than its account may, and one of an action is good for it.
TokenOK(t) ==
  /\ ~Misconfigured(env)
  /\ Entitled(t.by, t.repo, t.permission)
  /\ t.at # "anywhere" => t.oid \in Oid
  /\ t.at = "object" /\ t.permission # "read" =>
       t.permission = "write" /\ Size[t.oid] <= env.PROXY_MAX_UPLOAD_MB
  /\ t.at \in {"verify", "multipart"} => t.permission = "write"
  /\ t.at = "multipart" => ~TooLargeFor(env, Size[t.oid])

\* A batch offers nothing beyond its account's rights or the limits.
BatchOK(b) ==
  b # NoBatch =>
    /\ ~Misconfigured(env)
    /\ DOMAIN b.plan = DOMAIN b.objects
    /\ Entitled(b.by, b.repo, IF b.do = "upload" THEN "write" ELSE "read")
    /\ \A k \in DOMAIN b.plan :
         b.do = "upload" /\ b.plan[k] = "action" => Offered(b.objects[k], b.multipart)

\* The inductive invariant of the server's tokens and batches.
ServerInv ==
  /\ ServerTypes
  /\ \A t \in held : TokenOK(t)
  /\ \A c \in Slot : BatchOK(batches[c])

LEMMA Deployed == ServerTypes => env \in Environment /\ scene.asks \subseteq HttpRequest
                                 /\ scene.who \subseteq Account /\ scene.lists \subseteq Seq(Oid)
                                 /\ scene.calls \subseteq Slot /\ scene.end \in Nat
  BY SceneAssumption DEF ServerTypes, env

LEMMA ServerInitInv == ServerInit => ServerInv
<1> SUFFICES ASSUME ServerInit PROVE ServerInv
  OBVIOUS
<1>1. scene \in Scenes /\ scene.end \in Nat
  BY SceneAssumption DEF ServerInit
<1>2. clock \in Moment /\ 0 \in Moment /\ Never <= 0
  BY <1>1 DEF ServerInit, Moment, Never
<1>3. ServerTypes
  BY <1>1, <1>2 DEF ServerInit, ServerTypes
<1>4. QED BY <1>3 DEF ServerInit, ServerInv, BatchOK

\* The tokens of an action: they are offered what the batch has checked.
LEMMA HandedOK ==
  ASSUME ServerTypes, ~Misconfigured(env), NEW a \in Account, NEW r \in Repo,
         NEW do \in {"upload", "download"}, NEW multipart \in BOOLEAN, NEW o \in Oid,
         Entitled(a, r, IF do = "upload" THEN "write" ELSE "read"),
         do = "upload" => Offered(o, multipart),
         NEW t \in Handed(env, a, r, do, multipart, o)
  PROVE  t \in Signed /\ TokenOK(t)
<1>1. \E permission \in {"read", "write"}, at \in {"object", "verify", "multipart", "link"} :
        /\ t = [kind |-> "signed", by |-> a, repo |-> r, permission |-> permission, oid |-> o, at |-> at]
        /\ permission = IF do = "upload" THEN "write" ELSE "read"
        /\ at \in {"verify", "multipart"} => do = "upload"
        /\ do = "upload" /\ at = "object" => ~multipart /\ ~Presign(env)
  BY DEF Handed
<1>2. PICK permission \in {"read", "write"}, at \in {"object", "verify", "multipart", "link"} :
        /\ t = [kind |-> "signed", by |-> a, repo |-> r, permission |-> permission, oid |-> o, at |-> at]
        /\ permission = IF do = "upload" THEN "write" ELSE "read"
        /\ at \in {"verify", "multipart"} => do = "upload"
        /\ do = "upload" /\ at = "object" => ~multipart /\ ~Presign(env)
  BY <1>1
<1>3. t.by = a /\ t.repo = r /\ t.permission = permission /\ t.oid = o /\ t.at = at
  BY <1>2
<1>4. t \in Signed
  BY <1>2 DEF Signed, GrantedPermission, Role
<1>5. Entitled(t.by, t.repo, t.permission)
  BY <1>2, <1>3
<1>6. QED BY <1>2, <1>3, <1>4, <1>5 DEF TokenOK, Offered

\* A deployment stays.
LEMMA SceneStays == scene' = scene => env' = env /\ Moment' = Moment /\ Batch' = Batch
  BY DEF env, Moment, Batch

\* Tokens are added to those held, or end.
LEMMA TokensKept ==
  ASSUME ServerInv, ServerTypes', UNCHANGED <<scene, batches>>,
         NEW handed, \A t \in handed : TokenOK(t), held' \subseteq held \cup handed
  PROVE  ServerInv'
<1>1. env' = env
  BY DEF env
<1>2. \A t \in held' : TokenOK(t)
  BY DEF ServerInv
<1>3. \A t \in held' : TokenOK(t)'
  BY <1>1, <1>2 DEF TokenOK, Entitled
<1>4. \A c \in Slot : BatchOK(batches[c])'
  BY <1>1 DEF ServerInv, BatchOK, Offered, Entitled
<1>5. QED BY <1>3, <1>4 DEF ServerInv

LEMMA FewerKept ==
  ASSUME ServerInv, ServerTypes', UNCHANGED <<scene, batches>>, held' \subseteq held
  PROVE  ServerInv'
<1> PICK handed : handed = {}
  OBVIOUS
<1>1. \A t \in handed : TokenOK(t)
  OBVIOUS
<1>2. held' \subseteq held \cup handed
  OBVIOUS
<1>3. QED BY <1>1, <1>2, TokensKept

-----------------------------------------------------------------------------
(* The steps. *)

\* What is stored, and since when.
LEMMA BucketTypes ==
  ASSUME ServerTypes, NEW p \in Place, NEW o \in Oid, Put(p, o) \/ Drop(p, o)
  PROVE  /\ since' \in [Place -> [Oid -> Moment \cup {Never}]]
         /\ left' \in [Place -> [Oid -> Moment \cup {Never}]]
         /\ \A q \in Place, x \in Oid : left'[q][x] <= clock /\ since'[q][x] <= clock
<1>1. clock \in Moment /\ clock \in Int /\ Never <= clock
  <2>1. clock \in 0 .. scene.end /\ scene.end \in Nat
    BY Deployed DEF ServerTypes, Moment
  <2>2. QED BY <2>1 DEF Moment, Never
<1>2. ASSUME NEW f \in [Place -> [Oid -> Moment \cup {Never}]], \A q \in Place, x \in Oid : f[q][x] <= clock,
             NEW v \in {clock, Never}, NEW g, g = [f EXCEPT ![p][o] = v]
      PROVE  /\ g \in [Place -> [Oid -> Moment \cup {Never}]]
             /\ \A q \in Place, x \in Oid : g[q][x] <= clock
  <2>1. v \in Moment \cup {Never} /\ v <= clock
    BY <1>1
  <2>2. g \in [Place -> [Oid -> Moment \cup {Never}]]
    BY <1>2, <2>1
  <2>3. \A q \in Place, x \in Oid : g[q][x] = IF q = p /\ x = o THEN v ELSE f[q][x]
    BY <1>2
  <2>4. QED BY <1>2, <2>1, <2>2, <2>3
<1>3. CASE Put(p, o)
  <2>1. left' = left /\ (since' = since \/ since' = [since EXCEPT ![p][o] = clock])
    BY <1>3 DEF Put
  <2>2. QED BY <1>2, <2>1 DEF ServerTypes
<1>4. CASE Drop(p, o)
  <2>1. /\ since' = [since EXCEPT ![p][o] = Never]
        /\ left' = left \/ left' = [left EXCEPT ![p][o] = clock]
    BY <1>4 DEF Drop
  <2>2. QED BY <1>2, <2>1 DEF ServerTypes
<1>5. QED BY <1>3, <1>4

LEMMA PlaceThere == ASSUME NEW r \in Repo PROVE PlaceOf(r) \in Place
  BY DEF PlaceOf, Place

\* A request other than a batch changes the bucket alone.
LEMMA HandleTypes ==
  ASSUME ServerTypes, NEW a, NEW r \in Repo, NEW shown, NEW q \in HttpRequest, Handle(a, r, shown, q)
  PROVE  ServerTypes' /\ UNCHANGED <<scene, clock, held, usage, batches>>
<1>1. UNCHANGED <<scene, clock, held, usage, batches>>
  BY DEF Handle
<1>2. CASE UNCHANGED bucket
  BY <1>1, <1>2, SceneStays DEF ServerTypes, bucket
<1>3. CASE ~UNCHANGED bucket
  <2>1. q.endpoint \in {"object", "multipart_complete", "verify", "storage_change"}
    BY <1>3 DEF Handle, Stores, Claims
  <2>2. q.oid \in Oid
    BY <2>1 DEF HttpRequest, OfNoObject
  <2>3. members' \subseteq Repo \X Oid
    BY <2>2 DEF Handle, Mark, ServerTypes, bucket
  <2>4. \/ Put(PlaceOf(r), q.oid) \/ Drop(PlaceOf(r), q.oid)
        \/ UNCHANGED <<since, left>>
    BY DEF Handle, bucket
  <2>5. /\ since' \in [Place -> [Oid -> Moment \cup {Never}]]
        /\ left' \in [Place -> [Oid -> Moment \cup {Never}]]
        /\ \A p \in Place, x \in Oid : left'[p][x] <= clock /\ since'[p][x] <= clock
    <3>1. CASE UNCHANGED <<since, left>>
      BY <3>1 DEF ServerTypes
    <3>2. CASE Put(PlaceOf(r), q.oid) \/ Drop(PlaceOf(r), q.oid)
      BY <2>2, <3>2, PlaceThere, BucketTypes
    <3>3. QED BY <2>4, <3>1, <3>2
  <2>6. QED BY <1>1, <2>3, <2>5, SceneStays DEF ServerTypes
<1>4. QED BY <1>2, <1>3

LEMMA HandleInv ==
  ASSUME ServerInv, NEW a, NEW r \in Repo, NEW shown, NEW q \in scene.asks, Handle(a, r, shown, q)
  PROVE  ServerInv'
<1>1. q \in HttpRequest /\ ServerTypes
  BY Deployed DEF ServerInv
<1>2. ServerTypes' /\ UNCHANGED <<scene, clock, held, usage, batches>>
  BY <1>1, HandleTypes
<1>3. QED BY <1>2, FewerKept

\* A session token says what its account was let in with.
LEMMA OpenSessionInv ==
  ASSUME ServerInv, NEW a \in scene.who, NEW r \in Repo, NEW shown \in Shown(a), NEW q \in scene.asks,
         OpenSession(a, r, shown, q)
  PROVE  ServerInv'
<1> PICK auth : auth = Authorize(env, r, shown)
  OBVIOUS
<1>1. /\ ServerTypes /\ env \in Environment /\ q \in HttpRequest /\ a \in Account
      /\ held \subseteq Signed /\ \A t \in held : Entitled(t.by, t.repo, t.permission)
  BY Deployed DEF ServerInv, TokenOK, ServerTypes
<1>2. Gate(env, r, shown, q).status = 200 /\ UNCHANGED <<scene, clock, bucket, usage, batches>>
  BY DEF OpenSession
<1>3. Gate(env, r, shown, q) = auth /\ auth.status = 200 /\ ~Misconfigured(env)
  BY <1>2, GateTrue
<1>4. auth.permission \in GrantedPermission /\ Entitled(a, r, auth.permission)
  BY <1>1, <1>3, AuthorizeTrue
<1> PICK token : token = [kind |-> "signed", by |-> a, repo |-> r, permission |-> auth.permission,
                          oid |-> None, at |-> "anywhere"]
  OBVIOUS
<1>5. held' \subseteq held \cup {token}
  BY <1>3 DEF OpenSession, Hand
<1>6. /\ token \in Signed /\ token.by = a /\ token.repo = r /\ token.permission = auth.permission
      /\ token.at = "anywhere"
  BY <1>1, <1>4 DEF Signed
<1>7. TokenOK(token)
  BY <1>3, <1>4, <1>6 DEF TokenOK
<1>8. ServerTypes'
  BY <1>1, <1>2, <1>5, <1>6, SceneStays DEF ServerTypes, bucket
<1> PICK handed : handed = {token}
  OBVIOUS
<1>9. held' \subseteq held \cup handed /\ \A t \in handed : TokenOK(t)
  BY <1>5, <1>7
<1>10. QED BY <1>2, <1>8, <1>9, TokensKept

\* A link is followed, a token ends, an isolate forgets.
LEMMA WorldInv ==
  ASSUME ServerInv,
         \/ \E t \in held : FollowLink(t) \/ Expire(t)
         \/ \E i \in Isolates : Restart(i)
         \/ Later
  PROVE  ServerInv'
<1>1. ServerTypes /\ scene.end \in Nat
  BY Deployed DEF ServerInv
<1>2. ASSUME NEW t \in held, FollowLink(t) PROVE ServerTypes' /\ UNCHANGED <<scene, held, batches>>
  <2>1. t \in Signed /\ t.at = "link"
    BY <1>1, <1>2 DEF FollowLink, ServerTypes
  <2>2. t.oid \in Oid /\ t.repo \in Repo
    BY <1>2, <2>1 DEF Signed, ServerInv, TokenOK
  <2>3. Put(PlaceOf(t.repo), t.oid) /\ UNCHANGED <<scene, clock, members, held, usage, batches>>
    BY <1>2 DEF FollowLink
  <2>4. /\ since' \in [Place -> [Oid -> Moment \cup {Never}]]
        /\ left' \in [Place -> [Oid -> Moment \cup {Never}]]
        /\ \A p \in Place, x \in Oid : left'[p][x] <= clock /\ since'[p][x] <= clock
    BY <1>1, <2>2, <2>3, PlaceThere, BucketTypes
  <2>5. QED BY <1>1, <2>3, <2>4, SceneStays DEF ServerTypes
<1>3. ASSUME NEW t \in held, Expire(t)
      PROVE  ServerTypes' /\ held' \subseteq held /\ UNCHANGED <<scene, batches>>
  BY <1>1, <1>3, SceneStays DEF Expire, ServerTypes, bucket
<1>4. ASSUME NEW i \in Isolates, Restart(i) PROVE ServerTypes' /\ UNCHANGED <<scene, held, batches>>
  <2>1. [p \in Place |-> [bytes |-> 0, expires |-> 0]] \in [Place -> [bytes : Nat, expires : Nat]]
    OBVIOUS
  <2>2. usage' \in [Isolates -> [Place -> [bytes : Nat, expires : Nat]]]
    BY <1>1, <1>4, <2>1 DEF Restart, ServerTypes
  <2>3. QED BY <1>1, <1>4, <2>2, SceneStays DEF Restart, ServerTypes, bucket
<1>5. CASE Later
  <2>1. clock' \in Moment /\ clock' >= clock /\ UNCHANGED <<scene, since, left, members, held, usage, batches>>
    BY <1>1, <1>5 DEF Later, ServerTypes, Moment, bucket
  <2>2. \A p \in Place, o \in Oid : left[p][o] \in Int /\ since[p][o] \in Int
    <3>1. Moment \subseteq Int /\ Never \in Int
      BY <1>1 DEF Moment, Never
    <3>2. since \in [Place -> [Oid -> Moment \cup {Never}]] /\ left \in [Place -> [Oid -> Moment \cup {Never}]]
      BY <1>1 DEF ServerTypes
    <3>3. QED BY <3>1, <3>2
  <2>3. clock \in Int /\ clock' \in Int
    BY <1>1, <2>1 DEF ServerTypes, Moment
  <2>4. \A p \in Place, o \in Oid : left[p][o] <= clock' /\ since[p][o] <= clock'
    BY <1>1, <2>1, <2>2, <2>3 DEF ServerTypes
  <2>5. ServerTypes'
    BY <1>1, <2>1, <2>4, SceneStays DEF ServerTypes
  <2>6. QED BY <2>1, <2>5, FewerKept
<1>6. QED BY <1>2, <1>3, <1>4, <1>5, FewerKept

\* A batch goes on, and hands out tokens that are good.
LEMMA BatchMoved ==
  ASSUME ServerInv, NEW c \in Slot, NEW b \in Batch \cup {NoBatch}, Proceed(c, b), BatchOK(b),
         UNCHANGED <<scene, clock, bucket>>,
         usage' \in [Isolates -> [Place -> [bytes : Nat, expires : Nat]]],
         NEW handed, \A t \in handed : t \in Signed /\ TokenOK(t), held' \subseteq held \cup handed
  PROVE  ServerInv'
<1>1. env' = env /\ Moment' = Moment /\ Batch' = Batch
  BY SceneStays
<1>2. batches' = [batches EXCEPT ![c] = b] /\ batches \in [Slot -> Batch \cup {NoBatch}]
  BY DEF Proceed, ServerInv, ServerTypes
<1>3. batches' \in [Slot -> Batch \cup {NoBatch}] /\ \A d \in Slot : batches'[d] = IF d = c THEN b ELSE batches[d]
  BY <1>2
<1>4. ServerTypes'
  <2>1. held' \subseteq Signed
    BY DEF ServerInv, ServerTypes
  <2>2. QED BY <1>1, <1>3, <2>1 DEF ServerInv, ServerTypes, bucket
<1>5. \A t \in held' : TokenOK(t)'
  <2>1. \A t \in held' : TokenOK(t)
    BY DEF ServerInv
  <2>2. QED BY <1>1, <2>1 DEF TokenOK, Entitled
<1>6. \A d \in Slot : BatchOK(batches[d])'
  <2>1. \A d \in Slot : BatchOK(batches'[d])
    BY <1>3 DEF ServerInv
  <2>2. QED BY <1>1, <2>1 DEF BatchOK, Offered, Entitled
<1>7. QED BY <1>4, <1>5, <1>6 DEF ServerInv

\* It goes on without handing out anything.
LEMMA BatchGoesOn ==
  ASSUME ServerInv, NEW c \in Slot, NEW b \in Batch \cup {NoBatch}, Proceed(c, b), BatchOK(b),
         UNCHANGED <<scene, clock, bucket, held, usage>>
  PROVE  ServerInv'
<1> PICK handed : handed = {}
  OBVIOUS
<1>1. (\A t \in handed : t \in Signed /\ TokenOK(t)) /\ held' \subseteq held \cup handed
  OBVIOUS
<1>2. usage' \in [Isolates -> [Place -> [bytes : Nat, expires : Nat]]]
  BY DEF ServerInv, ServerTypes
<1>3. QED BY <1>1, <1>2, BatchMoved

\* What is known of a batch that is being answered.
LEMMA BatchOf ==
  ASSUME ServerInv, NEW c \in Slot, batches[c] # NoBatch
  PROVE  /\ batches[c] \in Batch /\ BatchOK(batches[c])
         /\ env \in Environment
         /\ \A k \in DOMAIN batches[c].plan : batches[c].objects[k] \in Oid
<1>1. batches[c] \in Batch /\ BatchOK(batches[c]) /\ env \in Environment
  BY Deployed DEF ServerInv, ServerTypes
<1>2. batches[c].objects \in Seq(Oid)
  BY <1>1 DEF Batch
<1>3. QED BY <1>1, <1>2 DEF BatchOK

LEMMA NoBatchStep == NoBatch.step = "idle" /\ BatchOK(NoBatch)
  BY DEF NoBatch, BatchOK

\* A batch starts with the right that its operation asks for.
LEMMA StartBatchInv ==
  ASSUME ServerInv, NEW a \in scene.who, NEW r \in Repo, NEW shown \in Shown(a), NEW q \in scene.asks,
         NEW c \in scene.calls, NEW i \in Isolates, NEW objects \in scene.lists, NEW offered \in BOOLEAN,
         StartBatch(c, a, r, i, shown, q, objects, offered)
  PROVE  ServerInv'
<1> PICK auth : auth = Authorize(env, r, shown)
  OBVIOUS
<1>1. /\ ServerTypes /\ env \in Environment /\ q \in HttpRequest /\ a \in Account /\ c \in Slot
      /\ objects \in Seq(Oid) /\ clock \in Moment
      /\ held \subseteq Signed /\ \A t \in held : Entitled(t.by, t.repo, t.permission)
  BY Deployed DEF ServerInv, TokenOK, ServerTypes
<1>2. /\ q.endpoint = "batch" /\ Gate(env, r, shown, q).status = 200
      /\ UNCHANGED <<scene, clock, bucket, held, usage>>
  BY DEF StartBatch
<1>3. /\ auth.status = 200 /\ ~Misconfigured(env) /\ HasPermission(auth.permission, Required(q))
  BY <1>2, GateTrue
<1>4. auth.permission \in GrantedPermission /\ Entitled(a, r, auth.permission)
  BY <1>1, <1>3, AuthorizeTrue
<1>5. q.do \in {"upload", "download"} /\ Required(q) = IF q.do = "upload" THEN "write" ELSE "read"
  BY <1>1, <1>2 DEF HttpRequest, DoFor, Required
<1>6. Entitled(a, r, IF q.do = "upload" THEN "write" ELSE "read")
  <2>1. Required(q) \in GrantedPermission /\ Rank[auth.permission] >= Rank[Required(q)]
    BY <1>3, <1>5 DEF GrantedPermission, Role, HasPermission
  <2>2. QED BY <1>1, <1>4, <1>5, <2>1, EntitledLess
<1> PICK multipart \in BOOLEAN : multipart = (q.do = "upload" /\ Multipart(env, offered, objects))
  OBVIOUS
<1> PICK plan : plan = [k \in DOMAIN objects |-> "head"]
  OBVIOUS
<1>7. plan \in Seq(Verdict) /\ DOMAIN plan = DOMAIN objects /\ \A k \in DOMAIN plan : plan[k] = "head"
  BY <1>1 DEF Verdict
<1> PICK b : b = [step |-> "plan", by |-> a, repo |-> r, isolate |-> i, started |-> clock, do |-> q.do,
                  multipart |-> multipart, objects |-> objects, plan |-> plan, page |-> 1, used |-> 0]
  OBVIOUS
<1>8. Proceed(c, b)
  BY DEF StartBatch
<1>9. b \in Batch
  BY <1>1, <1>5, <1>7 DEF Batch
<1>10. b.plan = plan /\ b.objects = objects /\ b.by = a /\ b.repo = r /\ b.do = q.do
  OBVIOUS
<1>11. BatchOK(b)
  BY <1>3, <1>6, <1>7, <1>10 DEF BatchOK
<1>12. QED BY <1>1, <1>2, <1>8, <1>9, <1>11, BatchGoesOn

\* What is decided of an object to upload is offered only within the limits.
LEMMA DecisionOffers ==
  ASSUME ServerTypes, NEW b, NEW o \in Oid, NEW stored, NEW member
  PROVE  /\ Decision(b, o, stored, member) \in Verdict
         /\ b.do = "upload" /\ Decision(b, o, stored, member) = "action" => Offered(o, b.multipart)
<1>1. CASE b.do = "download"
  BY <1>1 DEF Decision, Verdict
<1>2. CASE b.do # "download"
  <2> PICK multipart : multipart = b.multipart
    OBVIOUS
  <2> PICK d : d = DecideUpload(env, o, multipart, stored, member)
    OBVIOUS
  <2>1. d \in {"exists", "refused", "upload"}
    BY DEF DecideUpload
  <2>2. d = "upload" => Offered(o, multipart)
    <3> PICK limit : limit = IF Presign(env) THEN R2Max ELSE env.PROXY_MAX_UPLOAD_MB
      OBVIOUS
    <3>1. Size[o] \in Int /\ limit \in Int
      BY Deployed, SizeAssumption, R2Assumption DEF Environment
    <3>2. d = "upload" => ~TooLargeFor(env, Size[o]) /\ (multipart \/ ~(Size[o] > limit))
      BY DEF DecideUpload
    <3>3. QED BY <3>1, <3>2 DEF Offered
  <2>3. Decision(b, o, stored, member) = IF d = "upload" THEN "action" ELSE d
    BY <1>2 DEF Decision
  <2>4. QED BY <2>1, <2>2, <2>3 DEF Verdict
<1>3. QED BY <1>1, <1>2

\* One of a batch's objects is looked up, or its marker.
LEMMA LookUpInv ==
  ASSUME ServerInv, NEW c \in Busy, NEW k \in DOMAIN batches[c].plan, LookUp(c, k) \/ AskMarker(c, k)
  PROVE  ServerInv'
<1> PICK old : old = batches[c]
  OBVIOUS
<1>1. c \in Slot /\ old # NoBatch /\ UNCHANGED <<scene, clock, bucket, held, usage>>
  BY DEF Busy, LookUp, AskMarker
<1>2. old \in Batch /\ BatchOK(old)
  BY <1>1, BatchOf
<1> PICK o \in Oid : o = old.objects[k]
  BY <1>1, BatchOf
<1>3. \E x \in Verdict : /\ Proceed(c, [old EXCEPT !.plan[k] = x])
                         /\ old.do = "upload" /\ x = "action" => Offered(old.objects[k], old.multipart)
  <2>1. CASE LookUp(c, k)
    <3> PICK stored : stored = Stored(PlaceOf(old.repo), old.objects[k])
      OBVIOUS
    <3> PICK d : d = Decision(old, old.objects[k], stored, stored)
      OBVIOUS
    <3>1. d \in Verdict /\ (old.do = "upload" /\ d = "action" => Offered(old.objects[k], old.multipart))
      BY DecisionOffers DEF ServerInv
    <3> PICK x : x = IF stored /\ IsShared(env) THEN "marker" ELSE d
      OBVIOUS
    <3>2. Proceed(c, [old EXCEPT !.plan[k] = x])
      BY <2>1 DEF LookUp
    <3>3. x \in Verdict /\ (x = "action" => d = "action")
      BY <3>1 DEF Verdict
    <3>4. QED BY <3>1, <3>2, <3>3
  <2>2. CASE AskMarker(c, k)
    <3> PICK d : d = Decision(old, old.objects[k], TRUE, <<old.repo, old.objects[k]>> \in members)
      OBVIOUS
    <3>1. d \in Verdict /\ (old.do = "upload" /\ d = "action" => Offered(old.objects[k], old.multipart))
      BY DecisionOffers DEF ServerInv
    <3>2. Proceed(c, [old EXCEPT !.plan[k] = d])
      BY <2>2 DEF AskMarker
    <3>3. QED BY <3>1, <3>2
  <2>3. QED BY <2>1, <2>2
<1>4. PICK x \in Verdict : /\ Proceed(c, [old EXCEPT !.plan[k] = x])
                           /\ old.do = "upload" /\ x = "action" => Offered(old.objects[k], old.multipart)
  BY <1>3
<1> PICK plan : plan = [old.plan EXCEPT ![k] = x]
  OBVIOUS
<1>5. old.plan \in Seq(Verdict)
  BY <1>2 DEF Batch
<1>6. /\ plan \in Seq(Verdict) /\ DOMAIN plan = DOMAIN old.plan
      /\ \A n \in DOMAIN plan : plan[n] = IF n = k THEN x ELSE old.plan[n]
  BY <1>5
<1> PICK b : b = [old EXCEPT !.plan = plan]
  OBVIOUS
<1>7. b \in Batch /\ b.plan = plan /\ b.objects = old.objects /\ b.by = old.by /\ b.repo = old.repo
      /\ b.do = old.do /\ b.multipart = old.multipart
  BY <1>2, <1>6 DEF Batch
<1>8. Proceed(c, b)
  BY <1>4
<1>9. BatchOK(b)
  BY <1>1, <1>2, <1>4, <1>6, <1>7 DEF BatchOK
<1>10. QED BY <1>1, <1>7, <1>8, <1>9, BatchGoesOn

\* The listing of what is stored, and the end of a batch.
LEMMA ListInv ==
  ASSUME ServerInv, NEW c \in Busy, StartListing(c) \/ ListPage(c) \/ Finish(c)
  PROVE  ServerInv'
<1> PICK old : old = batches[c]
  OBVIOUS
<1>1. c \in Slot /\ old # NoBatch /\ UNCHANGED <<scene, clock, bucket, held, usage>>
  BY DEF Busy, StartListing, ListPage, Finish
<1>2. old \in Batch /\ BatchOK(old)
  BY <1>1, BatchOf
<1>3. ASSUME NEW b \in Batch, Proceed(c, b), b.plan = old.plan, b.objects = old.objects, b.by = old.by,
             b.repo = old.repo, b.do = old.do, b.multipart = old.multipart
      PROVE  ServerInv'
  <2>1. BatchOK(b)
    BY <1>1, <1>2, <1>3 DEF BatchOK
  <2>2. QED BY <1>1, <1>3, <2>1, BatchGoesOn
<1>4. CASE StartListing(c)
  <2> PICK b : b = [old EXCEPT !.step = "list"]
    OBVIOUS
  <2>1. Proceed(c, b)
    BY <1>4 DEF StartListing
  <2>2. b \in Batch /\ b.plan = old.plan /\ b.objects = old.objects /\ b.by = old.by
        /\ b.repo = old.repo /\ b.do = old.do /\ b.multipart = old.multipart
    BY <1>2 DEF Batch
  <2>3. QED BY <1>3, <2>1, <2>2
<1>5. CASE ListPage(c)
  <2>1. old.page \in Nat \ {0} /\ old.used \in Nat /\ old.page <= Len(Order)
    BY <1>2, <1>5 DEF ListPage, Batch
  <2>2. Order[old.page] \in Oid
    BY <2>1, ListAssumption
  <2> PICK used : used = IF Stored(PlaceOf(old.repo), Order[old.page]) THEN old.used + Size[Order[old.page]]
                         ELSE old.used
    OBVIOUS
  <2>3. used \in Nat /\ old.page + 1 \in Nat \ {0}
    BY <2>1, <2>2, SizeAssumption
  <2> PICK b : b = [old EXCEPT !.page = old.page + 1, !.used = used]
    OBVIOUS
  <2>4. Proceed(c, b)
    BY <1>5 DEF ListPage
  <2>5. b \in Batch /\ b.plan = old.plan /\ b.objects = old.objects /\ b.by = old.by
        /\ b.repo = old.repo /\ b.do = old.do /\ b.multipart = old.multipart
    BY <1>2, <2>3 DEF Batch
  <2>6. QED BY <1>3, <2>4, <2>5
<1>6. CASE Finish(c)
  BY <1>1, <1>6, NoBatchStep, BatchGoesOn DEF Finish
<1>7. QED BY <1>4, <1>5, <1>6

\* The answer's plan keeps what was decided, but for what the quota has no room for.
LEMMA QuotaPlan ==
  ASSUME NEW b \in Batch, NEW used
  PROVE  /\ WithinQuota(b, used) \in Seq(Verdict) /\ DOMAIN WithinQuota(b, used) = DOMAIN b.plan
         /\ \A k \in DOMAIN b.plan : WithinQuota(b, used)[k] \in {"over", b.plan[k]}
<1> PICK over : over = {k \in DOMAIN b.plan : WithinQuota(b, used)[k] = "over"}
  OBVIOUS
<1>1. b.plan \in Seq(Verdict)
  BY DEF Batch
<1>2. DOMAIN WithinQuota(b, used) = DOMAIN b.plan
      /\ \A k \in DOMAIN b.plan : WithinQuota(b, used)[k] \in {"over", b.plan[k]}
  BY DEF WithinQuota
<1>3. WithinQuota(b, used) = [k \in 1..Len(b.plan) |-> WithinQuota(b, used)[k]]
  BY <1>1 DEF WithinQuota
<1>4. \A k \in 1..Len(b.plan) : WithinQuota(b, used)[k] \in Verdict
  BY <1>1, <1>2 DEF Verdict
<1>5. [k \in 1..Len(b.plan) |-> WithinQuota(b, used)[k]] \in Seq(Verdict)
  BY <1>1, <1>4
<1>6. QED BY <1>2, <1>3, <1>5

\* The answer hands out tokens for what it offers.
LEMMA AnswerInv ==
  ASSUME ServerInv, NEW c \in Busy, AnswerAll(c) \/ AnswerRemembered(c) \/ AnswerListed(c)
  PROVE  ServerInv'
<1> PICK old : old = batches[c]
  OBVIOUS
<1>1. c \in Slot /\ old # NoBatch /\ UNCHANGED <<scene, clock, bucket>>
  BY DEF Busy, AnswerAll, AnswerRemembered, AnswerListed
<1>2. old \in Batch /\ BatchOK(old) /\ ServerTypes /\ \A k \in DOMAIN old.plan : old.objects[k] \in Oid
  BY <1>1, BatchOf DEF ServerInv
<1>3. PICK plan \in Seq(Verdict) :
        /\ AnswerWith(c, old, plan) /\ DOMAIN plan = DOMAIN old.plan
        /\ \A k \in DOMAIN plan : plan[k] \in {"over", old.plan[k]}
  <2>1. old.plan \in Seq(Verdict)
    BY <1>2 DEF Batch
  <2>2. \E plan : AnswerWith(c, old, plan) /\ (plan = old.plan \/ \E used : plan = WithinQuota(old, used))
    BY DEF AnswerAll, AnswerRemembered, AnswerListed
  <2>3. QED BY <1>2, <2>1, <2>2, QuotaPlan
<1>4. usage' \in [Isolates -> [Place -> [bytes : Nat, expires : Nat]]]
  <2>1. usage \in [Isolates -> [Place -> [bytes : Nat, expires : Nat]]]
    BY <1>2 DEF ServerTypes
  <2>2. CASE usage' = usage
    BY <2>1, <2>2
  <2>3. CASE AnswerListed(c)
    <3> PICK remembered : remembered = [bytes |-> old.used, expires |-> clock + TTL]
      OBVIOUS
    <3>1. usage' = [usage EXCEPT ![old.isolate][PlaceOf(old.repo)] = remembered]
      BY <2>3 DEF AnswerListed
    <3>2. old.used \in Nat /\ clock + TTL \in Nat
      <4>1. clock \in Nat
        BY <1>2, Deployed DEF ServerTypes, Moment
      <4>2. QED BY <1>2, <4>1, TTLAssumption DEF Batch
    <3>3. remembered \in [bytes : Nat, expires : Nat]
      BY <3>2
    <3>4. QED BY <2>1, <3>1, <3>3
  <2>4. QED BY <2>2, <2>3 DEF AnswerAll, AnswerRemembered
<1> PICK handed : handed = UNION {Handed(env, old.by, old.repo, old.do, old.multipart, old.objects[k]) :
                                    k \in {k \in DOMAIN plan : plan[k] = "action"}}
  OBVIOUS
<1>5. held' \subseteq held \cup handed
  BY <1>3 DEF AnswerWith, Hand
<1>6. ASSUME NEW t \in handed PROVE t \in Signed /\ TokenOK(t)
  <2>1. PICK k \in DOMAIN plan :
          /\ plan[k] = "action"
          /\ t \in Handed(env, old.by, old.repo, old.do, old.multipart, old.objects[k])
    BY <1>6
  <2>2. /\ old.by \in Account /\ old.repo \in Repo /\ old.do \in {"upload", "download"}
        /\ old.multipart \in BOOLEAN /\ old.objects[k] \in Oid
    BY <1>2, <1>3 DEF Batch
  <2>3. old.plan[k] = "action"
    BY <1>3, <2>1
  <2>4. /\ ~Misconfigured(env) /\ Entitled(old.by, old.repo, IF old.do = "upload" THEN "write" ELSE "read")
        /\ old.do = "upload" => Offered(old.objects[k], old.multipart)
    BY <1>1, <1>2, <1>3, <2>3 DEF BatchOK
  <2>5. QED BY <1>2, <2>1, <2>2, <2>4, HandedOK
<1> PICK b : b = [old EXCEPT !.step = "answered", !.plan = plan]
  OBVIOUS
<1>7. Proceed(c, b)
  BY <1>3 DEF AnswerWith
<1>8. b \in Batch /\ b.plan = plan /\ b.objects = old.objects /\ b.by = old.by /\ b.repo = old.repo
      /\ b.do = old.do /\ b.multipart = old.multipart
  BY <1>2, <1>3 DEF Batch
<1>9. BatchOK(b)
  BY <1>1, <1>2, <1>3, <1>8 DEF BatchOK
<1>10. QED BY <1>1, <1>4, <1>5, <1>6, <1>7, <1>8, <1>9, BatchMoved

LEMMA ServerStep == ServerInv /\ [ServerNext]_serverVars => ServerInv'
<1> SUFFICES ASSUME ServerInv, [ServerNext]_serverVars PROVE ServerInv'
  OBVIOUS
<1>1. CASE UNCHANGED serverVars
  <2>1. UNCHANGED <<scene, held, batches>> /\ ServerTypes'
    BY <1>1, SceneStays DEF serverVars, ServerInv, ServerTypes
  <2>2. QED BY <2>1, FewerKept
<1>2. ASSUME NEW a \in scene.who, NEW r \in Repo, NEW shown \in Shown(a), NEW q \in scene.asks,
             \/ Handle(a, r, shown, q) \/ OpenSession(a, r, shown, q)
             \/ \E c \in scene.calls, i \in Isolates, objects \in scene.lists, offered \in BOOLEAN :
                  StartBatch(c, a, r, i, shown, q, objects, offered)
      PROVE  ServerInv'
  BY <1>2, HandleInv, OpenSessionInv, StartBatchInv
<1>3. ASSUME NEW c \in Busy,
             \/ \E k \in DOMAIN batches[c].plan : LookUp(c, k) \/ AskMarker(c, k)
             \/ AnswerAll(c) \/ AnswerRemembered(c) \/ StartListing(c) \/ ListPage(c)
             \/ AnswerListed(c) \/ Finish(c)
      PROVE  ServerInv'
  BY <1>3, LookUpInv, AnswerInv, ListInv
<1>4. QED BY <1>1, <1>2, <1>3, WorldInv DEF ServerNext

-----------------------------------------------------------------------------
(* What the invariant says of rights and offers. *)

\* The part of NobodyOversteps about requests.
LEMMA LetInWithinRights ==
  ASSUME ServerInv, NEW a \in scene.who, NEW r \in Repo, NEW shown \in Shown(a), NEW q \in scene.asks,
         Gate(env, r, shown, q).status = 200
  PROVE  /\ Entitled(a, r, Right(q))
         /\ shown.kind = "signed" /\ shown.at # "anywhere" => q.oid = shown.oid
<1> PICK auth : auth = Authorize(env, r, shown)
  OBVIOUS
<1>1. /\ env \in Environment /\ held \subseteq Signed /\ a \in Account /\ q \in HttpRequest
      /\ \A t \in held : TokenOK(t)
  BY Deployed DEF ServerInv, ServerTypes
<1>2. \A t \in held : Entitled(t.by, t.repo, t.permission)
  BY <1>1 DEF TokenOK
<1>3. /\ auth.status = 200 /\ InScope(auth.oid, q) /\ q.method \in Methods[q.endpoint]
      /\ HasPermission(auth.permission, Required(q)) /\ Unfit(env, shown, auth.oid, q) = 200
  BY GateTrue
<1>4. /\ auth.permission \in GrantedPermission /\ Entitled(a, r, auth.permission)
      /\ auth.oid = IF shown.kind = "signed" THEN shown.oid ELSE None
  BY <1>1, <1>2, <1>3, AuthorizeTrue
<1>5. Entitled(a, r, Right(q))
  <2>1. /\ Required(q) \in GrantedPermission /\ Right(q) \in GrantedPermission
        /\ Rank[Required(q)] >= Rank[Right(q)]
    BY <1>1, <1>3, RightAsked
  <2>2. Rank[auth.permission] \in Int /\ Rank[Required(q)] \in Int /\ Rank[Right(q)] \in Int
    BY <1>4, <2>1, Ranks DEF GrantedPermission
  <2>3. Rank[auth.permission] >= Rank[Right(q)]
    BY <1>3, <2>1, <2>2 DEF HasPermission
  <2>4. QED BY <1>1, <1>4, <2>1, <2>3, EntitledLess
<1>6. ASSUME shown.kind = "signed", shown.at # "anywhere"
      PROVE  q.oid = shown.oid
  <2>1. shown \in held
    BY <1>6 DEF Shown
  <2>2. auth.oid = shown.oid /\ shown.oid \in Oid
    BY <1>1, <1>4, <1>6, <2>1 DEF TokenOK
  <2>3. auth.oid # None
    BY <2>2, NoneAssumption
  <2>4. q.endpoint = "verify" \/ q.oid = auth.oid
    BY <1>3, <2>3 DEF InScope
  <2>5. q.endpoint = "verify" => q.oid = auth.oid
    BY <1>3, <2>3 DEF Unfit
  <2>6. QED BY <2>2, <2>4, <2>5
<1>7. QED BY <1>5, <1>6

LEMMA Within == ServerInv => NobodyOversteps
<1> SUFFICES ASSUME ServerInv PROVE NobodyOversteps
  OBVIOUS
<1>1. \A t \in held : Entitled(t.by, t.repo, t.permission)
  BY DEF ServerInv, TokenOK
<1>2. QED BY <1>1, LetInWithinRights DEF NobodyOversteps

\* The least and the greatest of two numbers.
LEMMA OfTwo ==
  ASSUME NEW m \in Int, NEW n \in Int
  PROVE  /\ Greatest({m, n}) \in {m, n} /\ Greatest({m, n}) >= m /\ Greatest({m, n}) >= n
         /\ Least({m, n}) \in {m, n} /\ Least({m, n}) <= m /\ Least({m, n}) <= n
<1>1. \E g \in {m, n} : \A x \in {m, n} : g >= x
  <2>1. CASE m >= n BY <2>1
  <2>2. CASE n >= m BY <2>2
  <2>3. QED BY <2>1, <2>2
<1>2. \E g \in {m, n} : \A x \in {m, n} : g <= x
  <2>1. CASE m <= n BY <2>1
  <2>2. CASE n <= m BY <2>2
  <2>3. QED BY <2>1, <2>2
<1>3. Greatest({m, n}) \in {m, n} /\ \A x \in {m, n} : Greatest({m, n}) >= x
  BY <1>1 DEF Greatest
<1>4. Least({m, n}) \in {m, n} /\ \A x \in {m, n} : Least({m, n}) <= x
  BY <1>2 DEF Least
<1>5. QED BY <1>3, <1>4

\* Requests of a transfer that pass the gate, by endpoint.
LEMMA TokenLetIn ==
  ASSUME ServerInv, NEW t \in held, NEW q,
         q.oid = t.oid,
         q.endpoint \in {"verify", "object", "multipart_start", "multipart_part",
                         "multipart_complete", "multipart_abort"},
         q.method \in Methods[q.endpoint],
         HasPermission(t.permission, Required(q)),
         Unfit(env, t, t.oid, q) = 200
  PROVE  Gate(env, t.repo, t, q).status = 200
<1>1. t.kind = "signed" /\ TokenOK(t)
  BY DEF ServerInv, ServerTypes, Signed
<1>2. t.repo \in env.ALLOWED_REPOS /\ ~Misconfigured(env)
  BY <1>1 DEF TokenOK, Entitled
<1>3. Authorize(env, t.repo, t) = LetIn(t.permission, t.oid)
  BY <1>1, <1>2 DEF Authorize
<1>4. PICK auth : auth = Authorize(env, t.repo, t)
  OBVIOUS
<1>5. auth.status = 200 /\ auth.permission = t.permission /\ auth.oid = t.oid
  BY <1>3, <1>4 DEF LetIn
<1>6. InScope(t.oid, q)
  BY DEF InScope
<1>7. QED BY <1>2, <1>4, <1>5, <1>6 DEF Gate

LEMMA Takes == ServerInv => OffersCanBeTaken
<1> SUFFICES ASSUME ServerInv, NEW t \in held, NEW q \in Instructed(t)
             PROVE  Gate(env, t.repo, t, q).status = 200
  BY DEF OffersCanBeTaken
<1>1. /\ env \in Environment /\ t \in Signed /\ TokenOK(t)
  BY Deployed DEF ServerInv, ServerTypes
<1>2. t.at \in {"object", "verify", "multipart"}
  BY DEF Instructed
<1>3. t.oid \in Oid /\ Size[t.oid] \in Nat /\ t.permission \in {"read", "write", "admin"}
  BY <1>1, <1>2, SizeAssumption DEF TokenOK, Signed, GrantedPermission, Role
<1> PICK size : size = Size[t.oid]
  OBVIOUS
<1>4. /\ MinPart \in Int /\ env.PROXY_MAX_UPLOAD_MB \in Int
  BY <1>1, R2Assumption DEF Environment
<1> PICK part : part = PartSizeFor(env)
  OBVIOUS
<1>5. part \in Int /\ Least({part, size}) \in Int /\ Least({part, size}) <= part
  <2> PICK most \in Int : most = env.PROXY_MAX_UPLOAD_MB
    BY <1>4
  <2> PICK greatest : greatest = Greatest({MinPart, most})
    OBVIOUS
  <2>1. greatest \in {MinPart, most}
    BY <1>4, OfTwo
  <2>2. part = greatest
    BY DEF PartSizeFor
  <2>3. part \in Int /\ size \in Int
    BY <1>3, <1>4, <2>1, <2>2
  <2> PICK least : least = Least({part, size})
    OBVIOUS
  <2>4. least \in {part, size} /\ least <= part
    BY <2>3, OfTwo
  <2>5. QED BY <2>3, <2>4
<1>6. CASE t.at = "object"
  <2>1. q = [endpoint |-> "object", method |-> IF t.permission = "read" THEN "GET" ELSE "PUT",
             oid |-> t.oid, size |-> size, do |-> "none"]
    BY <1>6 DEF Instructed
  <2>2. q.endpoint = "object" /\ q.oid = t.oid /\ q.method \in {"GET", "PUT"} /\ q.size = size
        /\ (q.method = "GET" <=> t.permission = "read")
    <3> PICK method : method = IF t.permission = "read" THEN "GET" ELSE "PUT"
      OBVIOUS
    <3>1. q.endpoint = "object" /\ q.oid = t.oid /\ q.method = method /\ q.size = size
      BY <2>1
    <3>2. QED BY <3>1
  <2>3. t.permission # "read" => t.permission = "write" /\ size <= env.PROXY_MAX_UPLOAD_MB
    BY <1>1, <1>6 DEF TokenOK
  <2>4. HasPermission(t.permission, Required(q))
    BY <2>2, <2>3, Ranks DEF HasPermission, Required
  <2>5. ~(q.method = "PUT" /\ q.size > env.PROXY_MAX_UPLOAD_MB)
    BY <1>3, <1>4, <2>2, <2>3
  <2>6. Unfit(env, t, t.oid, q) = 200
    BY <2>2, <2>5 DEF Unfit
  <2>7. QED BY <2>2, <2>4, <2>6, TokenLetIn DEF Methods
<1>7. CASE t.at = "verify"
  <2>1. q = [endpoint |-> "verify", method |-> "POST", oid |-> t.oid, size |-> size, do |-> "none"]
    BY <1>7 DEF Instructed
  <2>2. q.endpoint = "verify" /\ q.oid = t.oid /\ q.method = "POST"
    BY <2>1
  <2>3. t.permission = "write"
    BY <1>1, <1>7 DEF TokenOK
  <2>4. HasPermission(t.permission, Required(q))
    BY <2>2, <2>3, Ranks DEF HasPermission, Required
  <2>5. Unfit(env, t, t.oid, q) = 200
    BY <2>2 DEF Unfit
  <2>6. QED BY <2>2, <2>4, <2>5, TokenLetIn DEF Methods
<1>8. CASE t.at = "multipart"
  <2>1. t.permission = "write" /\ ~TooLargeFor(env, size)
    BY <1>1, <1>8 DEF TokenOK
  <2>2. size <= MaxParts * part
    BY <1>8 DEF Instructed
  <2>3. \/ q = [endpoint |-> "multipart_start", method |-> "POST", oid |-> t.oid, size |-> size, do |-> "none"]
        \/ q = [endpoint |-> "multipart_part", method |-> "PUT", oid |-> t.oid,
                size |-> Least({part, size}), do |-> "none"]
        \/ q = [endpoint |-> "multipart_complete", method |-> "POST", oid |-> t.oid, size |-> 0, do |-> "none"]
        \/ q = [endpoint |-> "multipart_abort", method |-> "DELETE", oid |-> t.oid, size |-> 0, do |-> "none"]
    BY <1>8 DEF Instructed
  <2>4. /\ q.oid = t.oid
        /\ q.endpoint \in {"multipart_start", "multipart_part", "multipart_complete", "multipart_abort"}
        /\ q.endpoint = "multipart_start" => q.method = "POST" /\ q.size = size
        /\ q.endpoint = "multipart_part" => q.method = "PUT" /\ q.size = Least({part, size})
        /\ q.endpoint = "multipart_complete" => q.method = "POST"
        /\ q.endpoint = "multipart_abort" => q.method = "DELETE"
    BY <2>3
  <2>5. HasPermission(t.permission, Required(q))
    BY <2>1, <2>4, Ranks DEF HasPermission, Required
  <2>6. q.endpoint = "multipart_part" => ~(q.size > part)
    BY <1>5, <2>4
  <2>7. q.endpoint = "multipart_start" => ~(TooLargeFor(env, q.size) \/ q.size > MaxParts * part)
    <3>1. MaxParts * part \in Int
      BY <1>5, R2Assumption
    <3>2. QED BY <1>3, <2>1, <2>2, <2>4, <3>1
  <2>8. Unfit(env, t, t.oid, q) = 200
    BY <2>4, <2>6, <2>7 DEF Unfit
  <2>9. q.method \in Methods[q.endpoint]
    BY <2>4 DEF Methods
  <2>10. QED BY <2>4, <2>5, <2>8, <2>9, TokenLetIn
<1>9. QED BY <1>2, <1>6, <1>7, <1>8

-----------------------------------------------------------------------------

THEOREM ServerInductive == ServerSpec => []ServerInv
BY ServerInitInv, ServerStep, PTL DEF ServerSpec

\* Whatever the requests, of whomever and in whatever order, the server's state is of its type.
THEOREM ServerTypesHold == ServerSpec => []ServerTypes
<1>1. ServerInv => ServerTypes
  BY DEF ServerInv
<1>2. QED BY <1>1, ServerInductive, PTL

\* However credentials are traded for tokens and tokens for tokens, nobody holds a token
\* beyond their rights, nor is let in beyond them or to another object than the token's.
THEOREM RightsAreKept == ServerSpec => []NobodyOversteps
BY ServerInductive, Within, PTL

\* No request that the actions of a batch ask for is refused while their token works.
THEOREM OffersAreTaken == ServerSpec => []OffersCanBeTaken
BY ServerInductive, Takes, PTL

-----------------------------------------------------------------------------
(* Sums over finite sets. *)

\* Of some natural numbers one is the least.
LEMMA NatMin ==
  ASSUME NEW T \in SUBSET Nat, T # {}
  PROVE  \E x \in T : \A y \in T : x <= y
<1>1. PICK x \in T : \A y \in T : ~ (<<y, x>> \in OpToRel(<, Nat))
  BY WFMin, NatLessThanWellFounded
<1>2. \A y \in Nat : y < x => <<y, x>> \in OpToRel(<, Nat)
  BY DEF OpToRel
<1>3. \A y \in T : ~ (y < x)
  BY <1>1, <1>2
<1>4. QED BY <1>3

\* A set of numbers that holds the next of each of its own holds all from the first on.
LEMMA AllNumbers ==
  ASSUME NEW T \in SUBSET Nat, 0 \in T, \A n \in T : n + 1 \in T
  PROVE  T = Nat
<1> PICK R \in SUBSET Nat : R = Nat \ T
  OBVIOUS
<1> SUFFICES ASSUME R # {} PROVE FALSE
  OBVIOUS
<1>1. PICK x \in R : \A y \in R : x <= y
  BY NatMin
<1>3. x # 0 /\ x - 1 \in Nat /\ x - 1 < x
  OBVIOUS
<1>4. x - 1 \notin R
  BY <1>1, <1>3
<1>5. x - 1 + 1 \in T
  BY <1>3, <1>4
<1>6. QED BY <1>3, <1>5

AnOf(s) == CHOOSE x \in s : TRUE

\* What is computed for a set, one element after the other.
Computes(g, f, D) == g = [s \in D |-> IF s = {} THEN 0 ELSE f[AnOf(s)] + g[s \ {AnOf(s)}]]

LEMMA SumDefined ==
  ASSUME NEW S, IsFiniteSet(S), NEW f
  PROVE  \E g : Computes(g, f, SUBSET S)
<1> DEFINE D(n) == {s \in SUBSET S : Cardinality(s) <= n}
           T == {n \in Nat : \E g : Computes(g, f, D(n))}
<1>1. \A s \in SUBSET S : IsFiniteSet(s) /\ Cardinality(s) \in Nat
  BY FS_Subset, FS_CardinalityType
<1>2. \A s \in SUBSET S : s # {} => /\ AnOf(s) \in s /\ s \ {AnOf(s)} \in SUBSET S
                                   /\ Cardinality(s \ {AnOf(s)}) = Cardinality(s) - 1
  BY <1>1, FS_RemoveElement DEF AnOf
<1>3. 0 \in T
  <2> PICK g : g = [s \in D(0) |-> 0]
    OBVIOUS
  <2>1. \A s \in D(0) : s = {}
    BY <1>1, FS_EmptySet
  <2>2. Computes(g, f, D(0))
    BY <2>1 DEF Computes
  <2>3. QED BY <2>2
<1>4. ASSUME NEW n \in T PROVE n + 1 \in T
  <2>1. n \in Nat
    OBVIOUS
  <2>2. PICK g : Computes(g, f, D(n))
    BY <1>4
  <2> PICK h : h = [s \in D(n + 1) |-> IF s = {} THEN 0 ELSE f[AnOf(s)] + g[s \ {AnOf(s)}]]
    OBVIOUS
  <2>3. \A s \in D(n) : s \in D(n + 1) /\ h[s] = g[s]
    <3>1. \A s \in D(n) : s \in D(n + 1)
      BY <1>1, <2>1
    <3>2. \A s \in D(n + 1) : h[s] = IF s = {} THEN 0 ELSE f[AnOf(s)] + g[s \ {AnOf(s)}]
      OBVIOUS
    <3>3. \A s \in D(n) : g[s] = IF s = {} THEN 0 ELSE f[AnOf(s)] + g[s \ {AnOf(s)}]
      BY <2>2 DEF Computes
    <3> HIDE DEF D
    <3>4. QED BY ONLY <3>1, <3>2, <3>3
  <2>4. \A s \in D(n + 1) : s # {} => s \ {AnOf(s)} \in D(n)
    BY <1>1, <1>2, <2>1
  <2>5. \A s \in D(n + 1) : s # {} => h[s \ {AnOf(s)}] = g[s \ {AnOf(s)}]
    BY <2>3, <2>4
  <2>6. Computes(h, f, D(n + 1))
    <3>0. PICK E : E = D(n + 1)
      OBVIOUS
    <3>1. h = [s \in E |-> IF s = {} THEN 0 ELSE f[AnOf(s)] + g[s \ {AnOf(s)}]]
      BY <3>0
    <3>2. \A s \in E : s # {} => h[s \ {AnOf(s)}] = g[s \ {AnOf(s)}]
      BY <2>5, <3>0
    <3> HIDE DEF D, T
    <3>3. h = [s \in E |-> IF s = {} THEN 0 ELSE f[AnOf(s)] + h[s \ {AnOf(s)}]]
      BY ONLY <3>1, <3>2
    <3>4. QED BY ONLY <3>0, <3>3 DEF Computes
  <2> HIDE DEF D
  <2>7. n + 1 \in Nat /\ \E k : Computes(k, f, D(n + 1))
    BY <2>1, <2>6
  <2>8. QED BY <2>7
<1> HIDE DEF T
<1>5. T = Nat
  <2>1. T \in SUBSET Nat
    BY DEF T
  <2>2. QED BY <1>3, <1>4, <2>1, AllNumbers
<1>6. Cardinality(S) \in T
  BY <1>1, <1>5
<1>7. PICK g : Computes(g, f, D(Cardinality(S)))
  BY <1>6 DEF T
<1>8. D(Cardinality(S)) = SUBSET S
  <2>1. \A s \in SUBSET S : Cardinality(s) <= Cardinality(S)
    BY FS_Subset
  <2>2. QED BY <2>1
<1>9. QED BY <1>7, <1>8
\* A set of finite sets that holds each set all of whose smaller ones it holds.
LEMMA AllSubsets ==
  ASSUME NEW U, IsFiniteSet(U), NEW F \in SUBSET SUBSET U, {} \in F,
         \A s \in SUBSET U : s # {} /\ (\A x \in s : s \ {x} \in F) => s \in F
  PROVE  F = SUBSET U
<1> DEFINE T == {n \in Nat : \A s \in SUBSET U : Cardinality(s) = n => s \in F}
<1>1. \A s \in SUBSET U : IsFiniteSet(s) /\ Cardinality(s) \in Nat
  BY FS_Subset, FS_CardinalityType
<1>2. 0 \in T
  BY <1>1, FS_EmptySet
<1>3. ASSUME NEW n \in T PROVE n + 1 \in T
  <2>1. n \in Nat /\ n + 1 \in Nat
    OBVIOUS
  <2>2. ASSUME NEW s \in SUBSET U, Cardinality(s) = n + 1 PROVE s \in F
    <3>1. s # {}
      BY <2>1, <2>2, FS_EmptySet
    <3>2. ASSUME NEW x \in s PROVE s \ {x} \in F
      <4>1. Cardinality(s \ {x}) = n
        BY <1>1, <2>1, <2>2, FS_RemoveElement
      <4>2. QED BY <4>1
    <3>3. QED BY <3>1, <3>2
  <2>3. QED BY <2>1, <2>2
<1>4. T = Nat
  <2>1. T \in SUBSET Nat
    OBVIOUS
  <2> HIDE DEF T
  <2>2. QED BY <1>2, <1>3, <2>1, AllNumbers
<1>5. QED BY <1>1, <1>4

\* What is computed does not depend on what else it is computed for.
LEMMA SumUnique ==
  ASSUME NEW S, IsFiniteSet(S), NEW f, NEW g, Computes(g, f, SUBSET S),
         NEW R \in SUBSET S, NEW h, Computes(h, f, SUBSET R)
  PROVE  g[R] = h[R]
<1> PICK F \in SUBSET SUBSET R : F = {s \in SUBSET R : g[s] = h[s]}
  OBVIOUS
<1>1. /\ \A s \in SUBSET R : h[s] = IF s = {} THEN 0 ELSE f[AnOf(s)] + h[s \ {AnOf(s)}]
      /\ \A s \in SUBSET S : g[s] = IF s = {} THEN 0 ELSE f[AnOf(s)] + g[s \ {AnOf(s)}]
  BY DEF Computes
<1>2. {} \in F
  BY <1>1
<1>3. ASSUME NEW s \in SUBSET R, s # {}, \A x \in s : s \ {x} \in F
      PROVE  s \in F
  <2>1. AnOf(s) \in s /\ s \in SUBSET S
    BY <1>3 DEF AnOf
  <2>2. g[s \ {AnOf(s)}] = h[s \ {AnOf(s)}]
    BY <1>3, <2>1
  <2>3. g[s] = f[AnOf(s)] + g[s \ {AnOf(s)}] /\ h[s] = f[AnOf(s)] + h[s \ {AnOf(s)}]
    BY <1>1, <1>3, <2>1
  <2>4. QED BY <2>2, <2>3
<1>4. F = SUBSET R
  <2>1. IsFiniteSet(R) /\ F \in SUBSET SUBSET R
    BY FS_Subset
  <2>2. \A s \in SUBSET R : s # {} /\ (\A x \in s : s \ {x} \in F) => s \in F
    BY <1>3
  <2>3. QED BY ONLY <1>2, <2>1, <2>2, AllSubsets
<1>5. QED BY <1>4

Sum(f, S) == MapThenSumSet(LAMBDA x : f[x], S)

\* A sum is computed.
LEMMA SumComputed ==
  ASSUME NEW S, IsFiniteSet(S), NEW f
  PROVE  \E g : Computes(g, f, SUBSET S) /\ Sum(f, S) = g[S]
<1> PICK g : g = CHOOSE h : Computes(h, f, SUBSET S)
  OBVIOUS
<1>1. Computes(g, f, SUBSET S)
  BY SumDefined
<1>2. Sum(f, S) = (CHOOSE h : Computes(h, f, SUBSET S))[S]
  BY DEF Sum, MapThenSumSet, MapThenFoldSet, Computes, AnOf
<1>3. QED BY <1>1, <1>2

LEMMA SumAny ==
  ASSUME NEW S, IsFiniteSet(S), NEW f
  PROVE  Sum(f, S) = IF S = {} THEN 0 ELSE f[AnOf(S)] + Sum(f, S \ {AnOf(S)})
<1>1. PICK g : Computes(g, f, SUBSET S) /\ Sum(f, S) = g[S]
  BY SumComputed
<1>2. g[S] = IF S = {} THEN 0 ELSE f[AnOf(S)] + g[S \ {AnOf(S)}]
  <2>1. S \in SUBSET S
    OBVIOUS
  <2>2. QED BY <1>1, <2>1 DEF Computes
<1> PICK R \in SUBSET S : R = S \ {AnOf(S)}
  OBVIOUS
<1>3. PICK h : Computes(h, f, SUBSET R) /\ Sum(f, R) = h[R]
  BY FS_Subset, SumComputed
<1>4. g[R] = h[R]
  BY <1>1, <1>3, SumUnique
<1>5. QED BY <1>1, <1>2, <1>3, <1>4

\* Any element may come first.
LEMMA SumOne ==
  ASSUME NEW U, IsFiniteSet(U), NEW f, \A x \in U : f[x] \in Nat
  PROVE  \A S \in SUBSET U : Sum(f, S) \in Nat /\ \A x \in S : Sum(f, S) = f[x] + Sum(f, S \ {x})
<1> PICK F \in SUBSET SUBSET U :
      F = {S \in SUBSET U : /\ Sum(f, S) \in Nat
                            /\ \A x \in S : Sum(f, S \ {x}) \in Nat /\ Sum(f, S) = f[x] + Sum(f, S \ {x})}
  OBVIOUS
<1>1. {} \in F
  <2>1. Sum(f, {}) = 0
    BY SumAny, FS_EmptySet
  <2>2. QED BY <2>1
<1>2. ASSUME NEW S \in SUBSET U, S # {}, \A x \in S : S \ {x} \in F
      PROVE  S \in F
  <2> PICK c : c = AnOf(S)
    OBVIOUS
  <2>1. c \in S /\ f[c] \in Nat
    BY <1>2 DEF AnOf
  <2>2. Sum(f, S) = f[c] + Sum(f, S \ {c})
    BY <1>2, FS_Subset, SumAny
  <2>3. \A x \in S : Sum(f, S \ {x}) \in Nat /\ \A y \in S \ {x} : /\ Sum(f, (S \ {x}) \ {y}) \in Nat
                                                 /\ Sum(f, S \ {x}) = f[y] + Sum(f, (S \ {x}) \ {y})
    BY <1>2
  <2>4. Sum(f, S) \in Nat
    BY <2>1, <2>2, <2>3
  <2>5. ASSUME NEW x \in S PROVE Sum(f, S) = f[x] + Sum(f, S \ {x})
    <3>1. CASE x = c
      BY <2>2, <3>1
    <3>2. CASE x # c
      <4> PICK R : R = (S \ {c}) \ {x}
        OBVIOUS
      <4>1. R = (S \ {x}) \ {c} /\ R \in SUBSET U /\ R = (S \ {c}) \ {x}
        BY <3>2
      <4>2. Sum(f, S \ {c}) = f[x] + Sum(f, R) /\ Sum(f, S \ {x}) = f[c] + Sum(f, R)
        BY <2>1, <2>3, <3>2, <4>1
      <4>3. Sum(f, R) \in Nat /\ f[x] \in Nat
        BY <2>1, <2>3, <3>2, <4>1
      <4>4. QED BY <2>1, <2>2, <4>2, <4>3
    <3>3. QED BY <3>1, <3>2
  <2>6. QED BY <2>3, <2>4, <2>5
<1>3. F = SUBSET U
  <2>1. IsFiniteSet(U) /\ F \in SUBSET SUBSET U
    OBVIOUS
  <2>2. \A S \in SUBSET U : S # {} /\ (\A x \in S : S \ {x} \in F) => S \in F
    BY <1>2
  <2>3. QED BY ONLY <1>1, <2>1, <2>2, AllSubsets
<1>4. QED BY <1>3

\* Sums of what is there at least.
LEMMA SumMore ==
  ASSUME NEW U, IsFiniteSet(U), NEW f, \A x \in U : f[x] \in Nat,
         NEW B \in SUBSET U, NEW A \in SUBSET B
  PROVE  Sum(f, A) \in Nat /\ Sum(f, B) \in Nat /\ Sum(f, A) <= Sum(f, B)
<1>1. \A S \in SUBSET U : Sum(f, S) \in Nat /\ \A x \in S : Sum(f, S) = f[x] + Sum(f, S \ {x})
  BY SumOne
<1> PICK F \in SUBSET SUBSET U : F = {S \in SUBSET U : \A R \in SUBSET S : Sum(f, R) <= Sum(f, S)}
  OBVIOUS
<1>2. {} \in F
  <2>1. Sum(f, {}) <= Sum(f, {})
    BY <1>1
  <2>2. QED BY <2>1
<1>3. ASSUME NEW S \in SUBSET U, S # {}, \A x \in S : S \ {x} \in F
      PROVE  S \in F
  <2>1. ASSUME NEW R \in SUBSET S PROVE Sum(f, R) <= Sum(f, S)
    <3>1. CASE R = S
      BY <1>1, <3>1
    <3>2. CASE R # S
      <4>1. PICK x \in S : x \notin R
        BY <3>2
      <4>2. R \in SUBSET (S \ {x}) /\ S \ {x} \in F
        BY <1>3, <4>1
      <4>3. Sum(f, R) <= Sum(f, S \ {x})
        BY <4>2
      <4>4. Sum(f, S) = f[x] + Sum(f, S \ {x}) /\ f[x] \in Nat /\ Sum(f, S \ {x}) \in Nat /\ Sum(f, R) \in Nat
        BY <1>1
      <4>5. QED BY <4>3, <4>4
    <3>3. QED BY <3>1, <3>2
  <2>2. QED BY <2>1
<1>4. F = SUBSET U
  <2>1. IsFiniteSet(U) /\ F \in SUBSET SUBSET U
    OBVIOUS
  <2>2. \A S \in SUBSET U : S # {} /\ (\A x \in S : S \ {x} \in F) => S \in F
    BY <1>3
  <2>3. QED BY ONLY <1>2, <2>1, <2>2, AllSubsets
<1>5. QED BY <1>1, <1>4

\* Of some numbers one is the greatest.
LEMMA SomeGreatest ==
  ASSUME NEW n \in Nat, NEW S \in SUBSET (1..n), S # {}
  PROVE  \E m \in S : \A i \in S : i <= m
<1> PICK U : U = 1..n
  OBVIOUS
<1> PICK F \in SUBSET SUBSET U : F = {s \in SUBSET U : s # {} => \E m \in s : \A i \in s : i <= m}
  OBVIOUS
<1>1. {} \in F
  OBVIOUS
<1>2. ASSUME NEW s \in SUBSET U, s # {}, \A x \in s : s \ {x} \in F
      PROVE  s \in F
  <2>1. PICK x \in s : TRUE
    BY <1>2
  <2>2. CASE s = {x}
    BY <2>2
  <2>3. CASE s # {x}
    <3>1. PICK m \in s \ {x} : \A i \in s \ {x} : i <= m
      BY <1>2, <2>1, <2>3
    <3>2. m \in Int /\ x \in Int
      OBVIOUS
    <3>3. CASE x <= m
      BY <3>1, <3>3
    <3>4. CASE m <= x
      <4>1. \A i \in s : i \in Int
        OBVIOUS
      <4>2. \A i \in s : i <= x
        BY <3>1, <3>2, <3>4, <4>1
      <4>3. QED BY <4>2
    <3>5. QED BY <3>2, <3>3, <3>4
  <2>4. QED BY <2>2, <2>3
<1>3. F = SUBSET U
  <2>1. IsFiniteSet(U) /\ F \in SUBSET SUBSET U
    BY FS_Interval
  <2>2. \A s \in SUBSET U : s # {} /\ (\A x \in s : s \ {x} \in F) => s \in F
    BY <1>2
  <2>3. QED BY ONLY <1>1, <2>1, <2>2, AllSubsets
<1>4. QED BY <1>3

-----------------------------------------------------------------------------
(* Tallies. *)

\* The bytes of a set of keys, as a sum.
LEMMA BytesSum ==
  ASSUME NEW S, IsFiniteSet(S), NEW f, \A k \in S : f[k] = k.bytes
  PROVE  MapThenSumSet(LAMBDA k : k.bytes, S) = Sum(f, S)
<1> DEFINE Is(g) == g = [s \in SUBSET S |-> IF s = {} THEN 0 ELSE AnOf(s).bytes + g[s \ {AnOf(s)}]]
<1>1. ASSUME NEW g PROVE Is(g) <=> Computes(g, f, SUBSET S)
  <2>1. \A s \in SUBSET S : s # {} => f[AnOf(s)] = AnOf(s).bytes
    BY DEF AnOf
  <2>2. [s \in SUBSET S |-> IF s = {} THEN 0 ELSE AnOf(s).bytes + g[s \ {AnOf(s)}]]
          = [s \in SUBSET S |-> IF s = {} THEN 0 ELSE f[AnOf(s)] + g[s \ {AnOf(s)}]]
    BY ONLY <2>1
  <2>3. QED BY <2>2 DEF Computes
<1>2. MapThenSumSet(LAMBDA k : k.bytes, S) = (CHOOSE g : Is(g))[S]
  BY DEF MapThenSumSet, MapThenFoldSet, AnOf
<1> HIDE DEF Is
<1> PICK g : g = CHOOSE h : Is(h)
  OBVIOUS
<1>3. PICK h : Computes(h, f, SUBSET S) /\ Sum(f, S) = h[S]
  BY SumComputed
<1>4. Is(h)
  BY <1>1, <1>3
<1>5. Is(g)
  BY <1>4
<1>6. Computes(g, f, SUBSET S)
  BY <1>1, <1>5
<1>7. S \in SUBSET S
  OBVIOUS
<1>8. g[S] = h[S]
  BY <1>3, <1>6, <1>7, SumUnique
<1>9. QED BY <1>2, <1>3, <1>8

LEMMA KeysFinite ==
  /\ IsFiniteSet(Keys) /\ \A k \in Keys : k.bytes \in Nat /\ k.kind \in KeyKinds
  /\ Len(KeyOrder) \in Nat /\ DOMAIN KeyOrder = 1..Len(KeyOrder)
  /\ \A k \in Keys : \E i \in 1..Len(KeyOrder) : k = KeyOrder[i]
  /\ \A i \in 1..Len(KeyOrder) : KeyOrder[i] \in Keys
<1>1. KeyOrder \in Seq(Range(KeyOrder))
  BY StorageReportAssumption
<1>2. Len(KeyOrder) \in Nat /\ DOMAIN KeyOrder = 1..Len(KeyOrder)
  BY <1>1
<1>3. Keys = {KeyOrder[i] : i \in 1..Len(KeyOrder)}
  BY <1>2 DEF Keys, Range
<1>4. IsFiniteSet(Keys)
  <2>1. IsFiniteSet(1..Len(KeyOrder))
    BY <1>2, FS_Interval
  <2>2. KeyOrder \in Surjection(1..Len(KeyOrder), Keys)
    BY <1>1, <1>2, <1>3 DEF Surjection, Keys
  <2>3. QED BY <2>1, <2>2, FS_Surjection
<1>5. QED BY <1>2, <1>3, <1>4, StorageReportAssumption

\* More keys come to no less.
LEMMA TallyMore ==
  ASSUME NEW B \in SUBSET Keys, NEW A \in SUBSET B
  PROVE  AtMost(Tally(A), Tally(B)) /\ Tally(A).bytes \in Nat /\ Tally(B).bytes \in Nat
<1> PICK f : f = [k \in Keys |-> k.bytes]
  OBVIOUS
<1>1. IsFiniteSet(Keys) /\ \A k \in Keys : f[k] \in Nat /\ f[k] = k.bytes
  BY KeysFinite
<1>2. IsFiniteSet(A) /\ IsFiniteSet(B) /\ Cardinality(A) <= Cardinality(B)
  BY <1>1, FS_Subset
<1>3. Sum(f, A) \in Nat /\ Sum(f, B) \in Nat /\ Sum(f, A) <= Sum(f, B)
  BY <1>1, SumMore
<1>4. Tally(A) = [objects |-> Cardinality(A), bytes |-> Sum(f, A)]
  <2>1. \A k \in A : f[k] = k.bytes
    BY <1>1
  <2>2. MapThenSumSet(LAMBDA k : k.bytes, A) = Sum(f, A)
    BY <1>2, <2>1, BytesSum
  <2>3. QED BY <2>2 DEF Tally
<1>5. Tally(B) = [objects |-> Cardinality(B), bytes |-> Sum(f, B)]
  <2>1. \A k \in B : f[k] = k.bytes
    BY <1>1
  <2>2. MapThenSumSet(LAMBDA k : k.bytes, B) = Sum(f, B)
    BY <1>2, <2>1, BytesSum
  <2>3. QED BY <2>2 DEF Tally
<1>6. QED BY <1>2, <1>3, <1>4, <1>5 DEF AtMost

LEMMA TallyNone == Tally({}) = [objects |-> 0, bytes |-> 0]
<1> PICK f : f = [k \in {} |-> 0]
  OBVIOUS
<1>1. IsFiniteSet({}) /\ Cardinality({}) = 0
  BY FS_EmptySet
<1>2. Sum(f, {}) = 0
  BY <1>1, SumAny
<1>3. MapThenSumSet(LAMBDA k : k.bytes, {}) = Sum(f, {})
  BY <1>1, BytesSum
<1>4. QED BY <1>1, <1>2, <1>3 DEF Tally

\* A repository's row in a count is the tally of its keys.
LEMMA RowTallies ==
  ASSUME NEW repo \in Repos, NEW keys, NEW truncated
  PROVE  RowOf(CountOf(keys, truncated), repo) = Tally(Rows(repo, keys))
<1> PICK report : report = CountOf(keys, truncated)
  OBVIOUS
<1>1. report.repositories = [r \in {r \in Repos : Rows(r, keys) # {}} |-> Tally(Rows(r, keys))]
  BY DEF CountOf
<1>2. CASE Rows(repo, keys) # {}
  BY <1>1, <1>2 DEF RowOf
<1>3. CASE Rows(repo, keys) = {}
  <2>1. repo \notin DOMAIN report.repositories
    BY <1>1, <1>3
  <2>2. QED BY <1>3, <2>1, TallyNone DEF RowOf
<1>4. QED BY <1>2, <1>3

LEMMA RowsMore ==
  ASSUME NEW repo, NEW B \in SUBSET Keys, NEW A \in SUBSET B
  PROVE  Rows(repo, B) \in SUBSET Keys /\ Rows(repo, A) \in SUBSET Rows(repo, B)
  BY DEF Rows, OfKind, Uploaded


\* A count of what was listed says what there was at most and, if it is whole, at least.
LEMMA CountHolds ==
  ASSUME NEW from, NEW to, NEW listed, NEW truncated \in BOOLEAN,
         listed \subseteq Ever(from, to), ~truncated => Always(from, to) \subseteq listed,
         NEW saved, saved = [countedAt |-> from, doneAt |-> to, report |-> CountOf(listed, truncated)]
  PROVE  Holds(saved)
<1> PICK most : most = Ever(from, to)
  OBVIOUS
<1> PICK least : least = Always(from, to)
  OBVIOUS
<1>1. most \in SUBSET Keys /\ least \in SUBSET Keys /\ listed \in SUBSET most
      /\ (~truncated => least \in SUBSET listed)
  BY DEF Ever, Always
<1> PICK report : report = CountOf(listed, truncated)
  OBVIOUS
<1>2. saved.countedAt = from /\ saved.doneAt = to /\ saved.report = report
  OBVIOUS
<1>3. report.truncated = truncated
  BY DEF CountOf
<1> DEFINE KindsOf(part) == CASE part = "total" -> {"object", "shared"}
                              [] part = "trash" -> {"trash"} [] OTHER -> {"incoming"}
<1>4. \A keys, cut : \A part \in {"total", "trash", "incoming"} :
         CountOf(keys, cut)[part] = Tally(OfKind(KindsOf(part), keys))
  BY DEF CountOf
<1>5. \A kinds : /\ AtMost(Tally(OfKind(kinds, listed)), Tally(OfKind(kinds, most)))
                 /\ ~truncated => AtMost(Tally(OfKind(kinds, least)), Tally(OfKind(kinds, listed)))
  <2> TAKE kinds
  <2>1. /\ OfKind(kinds, most) \in SUBSET Keys /\ OfKind(kinds, listed) \in SUBSET OfKind(kinds, most)
        /\ OfKind(kinds, listed) \in SUBSET Keys
        /\ ~truncated => OfKind(kinds, least) \in SUBSET OfKind(kinds, listed)
    BY <1>1 DEF OfKind
  <2>2. QED BY <2>1, TallyMore
<1>6. ASSUME NEW part \in {"total", "trash", "incoming"}
      PROVE  /\ AtMost(report[part], CountOf(most, FALSE)[part])
             /\ ~truncated => AtMost(CountOf(least, FALSE)[part], report[part])
  <2> HIDE DEF KindsOf
  <2>1. /\ report[part] = Tally(OfKind(KindsOf(part), listed))
        /\ CountOf(most, FALSE)[part] = Tally(OfKind(KindsOf(part), most))
        /\ CountOf(least, FALSE)[part] = Tally(OfKind(KindsOf(part), least))
    BY <1>4
  <2>2. QED BY <1>5, <2>1
<1>7. ASSUME NEW repo \in Repos
      PROVE  /\ AtMost(RowOf(report, repo), RowOf(CountOf(most, FALSE), repo))
             /\ ~truncated => AtMost(RowOf(CountOf(least, FALSE), repo), RowOf(report, repo))
  <2>1. /\ RowOf(report, repo) = Tally(Rows(repo, listed))
        /\ RowOf(CountOf(most, FALSE), repo) = Tally(Rows(repo, most))
        /\ RowOf(CountOf(least, FALSE), repo) = Tally(Rows(repo, least))
    BY RowTallies
  <2>2. /\ Rows(repo, most) \in SUBSET Keys /\ Rows(repo, listed) \in SUBSET Rows(repo, most)
        /\ Rows(repo, listed) \in SUBSET Keys
        /\ ~truncated => Rows(repo, least) \in SUBSET Rows(repo, listed)
    BY <1>1, RowsMore
  <2>3. QED BY <2>1, <2>2, TallyMore
<1>8. ASSUME NEW repo \in Repos, ~truncated, Used(repo, least) > NearlyAll
      PROVE  NearlyFull(report, repo)
  <2> PICK used : used = IF layout = "shared" THEN OfKind({"shared"}, least)
                         ELSE {k \in OfKind({"object"}, least) : k.repo = repo}
    OBVIOUS
  <2> PICK counted : counted = IF layout = "shared" THEN OfKind({"object", "shared"}, listed)
                               ELSE Rows(repo, listed)
    OBVIOUS
  <2>1. Used(repo, least) = Tally(used).bytes
    BY DEF Used
  <2>2. Share(report, repo) = Tally(counted).bytes
    <3>1. RowOf(report, repo) = Tally(Rows(repo, listed))
      BY RowTallies
    <3>2. report.total = Tally(OfKind({"object", "shared"}, listed))
      BY DEF CountOf
    <3>3. QED BY <3>1, <3>2 DEF Share
  <2>3. counted \in SUBSET Keys /\ used \in SUBSET counted
    BY <1>1, <1>8 DEF OfKind, Rows, Uploaded
  <2>4. Tally(used).bytes \in Nat /\ Tally(counted).bytes \in Nat /\ Tally(used).bytes <= Tally(counted).bytes
    BY <2>3, TallyMore DEF AtMost
  <2>5. NearlyAll \in Nat
    BY StorageReportAssumption
  <2>6. QED BY <1>8, <2>1, <2>2, <2>4, <2>5 DEF NearlyFull
<1>9. QED
  <2> HIDE DEF KindsOf
  <2>1. QED BY <1>2, <1>3, <1>6, <1>7, <1>8 DEF Holds

-----------------------------------------------------------------------------
(* Counts while the bucket changes. *)

\* A kept count is of keys between those of the whole time and those of any time.
Between(saved) ==
  \E from \in 1..Now : \E to \in from..Now, listed \in SUBSET Keys, truncated \in BOOLEAN :
    /\ saved = [countedAt |-> from, doneAt |-> to, report |-> CountOf(listed, truncated)]
    /\ listed \subseteq Ever(from, to)
    /\ ~truncated => Always(from, to) \subseteq listed

\* A count that goes on has listed, up to its cursor, what was there the whole time.
SoFar(count) ==
  /\ count.listed \subseteq Ever(count.countedAt, Now)
  /\ \A i \in 1..count.cursor :
       KeyOrder[i] \in Always(count.countedAt, Now) => KeyOrder[i] \in count.listed

Going == {counting[c] : c \in {c \in Counter : counting[c].step = "list"}}
Kept == ({lastReport} \cup {overview[c] : c \in Counter}
           \cup {counting[c].saved : c \in {c \in Counter : counting[c].step = "keep"}}) \ {NoReport}

ReportInv ==
  /\ ReportTypes
  /\ \A count \in Going : SoFar(count)
  /\ \A saved \in Kept : Between(saved)

\* A count of such keys is between them.
LEMMA IsBetween ==
  ASSUME NEW from \in 1..Now, NEW to \in from..Now, NEW listed \in SUBSET Keys, NEW truncated \in BOOLEAN,
         listed \subseteq Ever(from, to), ~truncated => Always(from, to) \subseteq listed,
         NEW saved, saved = [countedAt |-> from, doneAt |-> to, report |-> CountOf(listed, truncated)]
  PROVE  Between(saved)
BY Zenon DEF Between

LEMMA ReportInvHolds == ReportInv => ReportHolds
<1> SUFFICES ASSUME ReportInv, NEW saved \in {lastReport} \cup Range(overview), saved # NoReport
             PROVE  Holds(saved)
  BY DEF ReportHolds
<1>1. saved \in Kept
  BY DEF Range, ReportInv, ReportTypes, Kept
<1>2. Between(saved)
  BY <1>1 DEF ReportInv
<1>3. QED BY <1>2, CountHolds DEF Between

LEMMA Times == ReportTypes => Now \in Nat \ {0} /\ DOMAIN past = 1..Now /\ Bucket \in SUBSET Keys
                              /\ \A t \in 1..Now : past[t] \in SUBSET Keys
<1> SUFFICES ASSUME ReportTypes PROVE /\ Now \in Nat \ {0} /\ DOMAIN past = 1..Now
                                      /\ \A t \in 1..Now : past[t] \in SUBSET Keys
  BY DEF Bucket
<1>1. past \in Seq(SUBSET Keys) /\ past # <<>>
  BY DEF ReportTypes
<1>2. QED BY <1>1 DEF Now

\* A page of a listing holds the next keys.
LEMMA NextPage ==
  ASSUME ReportTypes, NEW cursor \in 0..Len(KeyOrder),
         NEW page, page = PageAfter(cursor),
         NEW to, to = IF page = {} THEN Len(KeyOrder) ELSE Max(page)
  PROVE  /\ page \in SUBSET KeysAfter(cursor) /\ to \in cursor..Len(KeyOrder)
         /\ \A i \in KeysAfter(cursor) : i <= to => i \in page
<1> PICK last \in Nat : last = Len(KeyOrder)
  BY KeysFinite
<1> PICK after : after = KeysAfter(cursor)
  OBVIOUS
<1>1. after \in SUBSET (1..last) /\ \A i \in after : i > cursor
  BY KeysFinite DEF KeysAfter
<1>2. IsFiniteSet(after)
  <2>1. IsFiniteSet(1..last)
    BY FS_Interval
  <2>2. QED BY <1>1, <2>1, FS_Subset
<1>3. page = {i \in after : Cardinality({j \in after : j < i}) < PageKeys} /\ PageKeys \in Nat \ {0}
  BY StorageReportAssumption DEF PageAfter
<1>4. CASE page = {}
  <2>1. ASSUME after # {} PROVE FALSE
    <3>1. PICK i \in after : \A j \in after : i <= j
      BY <1>1, <2>1, NatMin
    <3>2. {j \in after : j < i} = {}
      BY <1>1, <3>1
    <3>3. Cardinality({j \in after : j < i}) = 0
      BY <3>2, FS_EmptySet
    <3>4. i \in page
      BY <1>3, <3>3
    <3>5. QED BY <1>4, <3>4
  <2>2. QED BY <1>4, <2>1
<1>5. CASE page # {}
  <2>1. page \in SUBSET (1..last)
    BY <1>1, <1>3
  <2>2. \E m \in page : \A i \in page : m >= i
    <3>1. PICK m \in page : \A i \in page : i <= m
      BY <1>5, <2>1, SomeGreatest
    <3>2. QED BY <2>1, <3>1
  <2>3. to \in page /\ \A i \in page : to >= i
    BY <1>5, <2>2 DEF Max
  <2>4. ASSUME NEW i \in after, i <= to PROVE i \in page
    <3> PICK before : before = {j \in after : j < i}
      OBVIOUS
    <3> PICK more : more = {j \in after : j < to}
      OBVIOUS
    <3>0. to \in Int /\ i \in Int /\ \A j \in after : j \in Int
      BY <1>1, <2>1, <2>3
    <3>1. before \in SUBSET more /\ more \in SUBSET after
      <4>1. \A j \in after : j < i => j < to
        BY <2>4, <3>0
      <4>2. QED BY <4>1
    <3>2. IsFiniteSet(more)
      BY <1>2, <3>1, FS_Subset
    <3>3. Cardinality(before) <= Cardinality(more) /\ Cardinality(before) \in Nat /\ Cardinality(more) \in Nat
      BY <3>1, <3>2, FS_Subset, FS_CardinalityType
    <3>4. Cardinality(more) < PageKeys
      BY <1>3, <2>3
    <3>5. Cardinality(before) < PageKeys
      BY <1>3, <3>3, <3>4
    <3>6. QED BY <1>3, <3>5
  <2>5. page \in SUBSET after /\ to \in after
    BY <1>3, <2>3
  <2>6. to \in cursor..last
    BY <1>1, <2>5
  <2>7. QED BY <2>4, <2>5, <2>6
<1>6. QED BY <1>4, <1>5

\* What is true of a count stays true when the bucket changes, and with the bucket it does.
LEMMA PastStays ==
  ASSUME ReportTypes, layout' = layout,
         past' = past \/ \E keys \in SUBSET Keys : past' = Append(past, keys)
  PROVE  /\ past' \in Seq(SUBSET Keys) /\ past' # <<>> /\ Now' \in Nat /\ Now <= Now'
         /\ \A saved : Between(saved) => Between(saved)'
         /\ \A count \in Count : count \in Count' /\ (SoFar(count) => SoFar(count)')
<1>1. past \in Seq(SUBSET Keys) /\ past # <<>> /\ Now = Len(past) /\ Now \in Nat \ {0}
  BY Times DEF ReportTypes, Now
<1>2. /\ past' \in Seq(SUBSET Keys) /\ past' # <<>> /\ Now' \in Nat /\ Now <= Now'
      /\ \A t \in 1..Now : past'[t] = past[t]
  BY <1>1 DEF Now
<1>3. \A from \in 1..Now : \A to \in from..Now : /\ Ever(from, to)' = Ever(from, to)
                                                /\ Always(from, to)' = Always(from, to)
  <2>1. ASSUME NEW from \in 1..Now, NEW to \in from..Now
        PROVE  /\ Ever(from, to)' = Ever(from, to) /\ Always(from, to)' = Always(from, to)
    <3>1. \A t \in from..to : past'[t] = past[t]
      BY <1>1, <1>2
    <3>2. QED BY <3>1 DEF Ever, Always
  <2>2. QED BY <2>1
<1>4. \A from \in 1..Now : Ever(from, Now) \subseteq Ever(from, Now)' /\ Always(from, Now)' \subseteq Always(from, Now)
  <2>1. ASSUME NEW from \in 1..Now
        PROVE  Ever(from, Now) \subseteq Ever(from, Now)' /\ Always(from, Now)' \subseteq Always(from, Now)
    <3>1. \A t \in from..Now : past'[t] = past[t] /\ t \in from..Now'
      BY <1>1, <1>2
    <3>2. QED BY <3>1 DEF Ever, Always
  <2>2. QED BY <2>1
<1>5. \A listed, truncated : CountOf(listed, truncated)' = CountOf(listed, truncated)
  BY DEF CountOf, Rows, Uploaded
<1>6. ASSUME NEW saved, Between(saved) PROVE Between(saved)'
  <2>1. PICK from \in 1..Now : \E to \in from..Now, listed \in SUBSET Keys, truncated \in BOOLEAN :
          /\ saved = [countedAt |-> from, doneAt |-> to, report |-> CountOf(listed, truncated)]
          /\ listed \subseteq Ever(from, to)
          /\ ~truncated => Always(from, to) \subseteq listed
    BY <1>6 DEF Between
  <2>2. PICK to \in from..Now, listed \in SUBSET Keys, truncated \in BOOLEAN :
          /\ saved = [countedAt |-> from, doneAt |-> to, report |-> CountOf(listed, truncated)]
          /\ listed \subseteq Ever(from, to)
          /\ ~truncated => Always(from, to) \subseteq listed
    BY <2>1
  <2>3. from \in 1..Now' /\ to \in from..Now'
    BY <1>1, <1>2
  <2>4. Ever(from, to)' = Ever(from, to) /\ Always(from, to)' = Always(from, to)
        /\ CountOf(listed, truncated)' = CountOf(listed, truncated)
    BY <1>3, <1>5
  <2>5. QED BY <2>2, <2>3, <2>4 DEF Between
<1>7. ASSUME NEW count \in Count PROVE count \in Count' /\ (SoFar(count) => SoFar(count)')
  <2>1. count.countedAt \in 1..Now
    BY DEF Count
  <2>2. count \in Count'
    BY <1>1, <1>2 DEF Count
  <2>3. QED BY <1>4, <2>1, <2>2 DEF SoFar
<1>8. QED BY <1>2, <1>6, <1>7

LEMMA ReportInitInv == ReportInit => ReportInv
<1> SUFFICES ASSUME ReportInit PROVE ReportInv
  OBVIOUS
<1>1. PICK keys \in SUBSET Keys : past = <<keys>>
  BY DEF ReportInit
<1>2. past \in Seq(SUBSET Keys) /\ past # <<>>
  BY <1>1
<1>3. \A c \in Counter : counting[c].step = "idle"
  BY DEF ReportInit, Uncounted
<1>4. Going = {} /\ Kept = {}
  BY <1>3 DEF Going, Kept, ReportInit
<1>5. QED BY <1>2, <1>3, <1>4 DEF ReportInit, ReportInv, ReportTypes

\* One count moves, and the bucket stays.
LEMMA CountMoved ==
  ASSUME ReportInv, UNCHANGED <<layout, past>>, NEW c \in Counter, NEW count,
         counting' = [counting EXCEPT ![c] = count],
         count.step \in {"idle", "list", "keep", "show"},
         count.step = "list" => count \in Count /\ SoFar(count),
         count.step = "keep" => Between(count.saved),
         lastReport' \in Kept \cup {NoReport},
         DOMAIN overview' = Counter,
         \A d \in Counter : overview'[d] \in Kept \cup {NoReport}
  PROVE  ReportInv'
<1>1. ReportTypes
  BY DEF ReportInv
<1>2. /\ past' \in Seq(SUBSET Keys) /\ past' # <<>>
      /\ \A saved : Between(saved) => Between(saved)'
      /\ \A k \in Count : k \in Count' /\ (SoFar(k) => SoFar(k)')
  BY <1>1, PastStays
<1>3. DOMAIN counting' = Counter /\ \A d \in Counter : counting'[d] = IF d = c THEN count ELSE counting[d]
  BY <1>1 DEF ReportTypes
<1>4. ReportTypes'
  BY <1>1, <1>2, <1>3 DEF ReportTypes
<1>5. ASSUME NEW k \in Going' PROVE SoFar(k)'
  <2>1. k \in Going \/ (k = count /\ count.step = "list")
    BY <1>3 DEF Going
  <2>2. k \in Count /\ SoFar(k)
    BY <1>1, <2>1 DEF ReportInv, ReportTypes, Going
  <2>3. QED BY <1>2, <2>2
<1>6. ASSUME NEW saved \in Kept' PROVE Between(saved)'
  <2>1. saved \in Kept \/ (saved = count.saved /\ count.step = "keep")
    BY <1>3 DEF Kept
  <2>2. Between(saved)
    BY <2>1 DEF ReportInv
  <2>3. QED BY <1>2, <2>2
<1>7. QED BY <1>4, <1>5, <1>6 DEF ReportInv

\* What is kept and shown stays so.
LEMMA StillKept ==
  /\ lastReport \in Kept \cup {NoReport} /\ \A d \in Counter : overview[d] \in Kept \cup {NoReport}
  /\ \A c \in Counter : counting[c].step = "keep" => counting[c].saved \in Kept \cup {NoReport}
  BY DEF Kept

LEMMA CountPageInv ==
  ASSUME ReportInv, NEW c \in Counter, CountPage(c)
  PROVE  ReportInv'
<1> PICK b : b = counting[c]
  OBVIOUS
<1> PICK last \in Nat : last = Len(KeyOrder)
  BY KeysFinite
<1>1. b.step = "list" /\ b \in Count /\ SoFar(b) /\ ReportTypes /\ UNCHANGED <<layout, past, lastReport, overview>>
  BY DEF CountPage, Counting, ReportInv, ReportTypes, Going
<1>2. b.countedAt \in 1..Now /\ b.cursor \in 0..last /\ b.pages \in Nat /\ b.listed \in SUBSET Keys
  BY <1>1 DEF Count
<1>3. Now \in Nat \ {0} /\ Bucket = past[Now]
  BY <1>1, Times DEF Bucket
<1> PICK page : page = PageAfter(b.cursor)
  OBVIOUS
<1> PICK to : to = IF page = {} THEN Len(KeyOrder) ELSE Max(page)
  OBVIOUS
<1>4. /\ page \in SUBSET KeysAfter(b.cursor) /\ to \in b.cursor..last
      /\ \A i \in KeysAfter(b.cursor) : i <= to => i \in page
  BY <1>1, <1>2, NextPage
<1> PICK listed : listed = b.listed \cup {KeyOrder[i] : i \in page}
  OBVIOUS
<1>5. \A i : i \in KeysAfter(b.cursor) <=> i \in 1..last /\ i > b.cursor /\ KeyOrder[i] \in Bucket
  BY KeysFinite DEF KeysAfter
<1>6. listed \subseteq Ever(b.countedAt, Now) /\ listed \in SUBSET Keys
  <2>1. b.listed \subseteq Ever(b.countedAt, Now)
    BY <1>1 DEF SoFar
  <2>2. Now \in b.countedAt..Now
    BY <1>2, <1>3
  <2>3. \A i \in page : KeyOrder[i] \in Keys /\ KeyOrder[i] \in past[Now]
    BY <1>3, <1>4, <1>5, KeysFinite
  <2>4. QED BY <1>2, <2>1, <2>2, <2>3 DEF Ever
<1>7. \A k \in Always(b.countedAt, Now) : k \in Bucket
  BY <1>2, <1>3 DEF Always
<1>8. ASSUME NEW i \in 1..to, KeyOrder[i] \in Always(b.countedAt, Now) PROVE KeyOrder[i] \in listed
  <2>1. i \in Int /\ to \in Int /\ i <= to /\ i \in 1..last
    BY <1>2, <1>4
  <2>2. CASE i <= b.cursor
    BY <1>1, <1>2, <1>8, <2>1, <2>2 DEF SoFar
  <2>3. CASE i > b.cursor
    BY <1>4, <1>5, <1>7, <1>8, <2>1, <2>3
  <2>4. QED BY <1>2, <2>1, <2>2, <2>3
<1> PICK pages : pages = b.pages + 1
  OBVIOUS
<1>9. CASE KeysAfter(to) # {} /\ pages < MaxPages
  <2> PICK count : count = [b EXCEPT !.listed = listed, !.cursor = to, !.pages = pages]
    OBVIOUS
  <2>1. counting' = [counting EXCEPT ![c] = count]
    BY <1>9 DEF CountPage
  <2>2. count \in Count
    <3>1. to \in 0..Len(KeyOrder) /\ pages \in Nat
      BY <1>2, <1>4
    <3>2. QED BY <1>1, <1>6, <3>1 DEF Count
  <2>3. count.step = "list" /\ count.listed = listed /\ count.cursor = to /\ count.countedAt = b.countedAt
    BY <1>1 DEF Count
  <2>4. SoFar(count)
    BY <1>6, <1>8, <2>3 DEF SoFar
  <2>5. QED BY <1>1, <2>1, <2>2, <2>3, <2>4, StillKept, CountMoved DEF ReportTypes
<1>10. CASE ~(KeysAfter(to) # {} /\ pages < MaxPages)
  <2> PICK truncated \in BOOLEAN : truncated = Unlisted(to, pages)
    BY DEF Unlisted
  <2> PICK saved : saved = Saved(c, listed, truncated)
    OBVIOUS
  <2> PICK count : count = [step |-> "keep", saved |-> saved]
    OBVIOUS
  <2>1. counting' = [counting EXCEPT ![c] = count]
    BY <1>10 DEF CountPage
  <2>2. saved = [countedAt |-> b.countedAt, doneAt |-> Now, report |-> CountOf(listed, truncated)]
    BY DEF Saved
  <2>3. ASSUME ~truncated, NEW k \in Always(b.countedAt, Now) PROVE k \in listed
    <3>1. KeysAfter(to) = {}
      BY <2>3 DEF Unlisted
    <3>2. PICK i \in 1..last : k = KeyOrder[i]
      BY KeysFinite DEF Always
    <3>3. ~ (i > to)
      BY <1>7, <2>3, <3>1, <3>2, KeysFinite DEF KeysAfter
    <3>4. i \in 1..to
      BY <1>2, <1>4, <3>3
    <3>5. QED BY <1>8, <2>3, <3>2, <3>4
  <2>4. Now \in b.countedAt..Now
    BY <1>2, <1>3
  <2>5. Between(saved)
    <3>1. b.countedAt \in 1..Now /\ listed \subseteq Ever(b.countedAt, Now)
          /\ (~truncated => Always(b.countedAt, Now) \subseteq listed)
      BY <1>2, <1>6, <2>3
    <3>2. truncated \in BOOLEAN
      OBVIOUS
    <3>3. saved = [countedAt |-> b.countedAt, doneAt |-> Now, report |-> CountOf(listed, truncated)]
      BY <2>2
    <3>4. listed \in SUBSET Keys
      BY <1>6
    <3>5. QED BY ONLY <2>4, <3>1, <3>2, <3>3, <3>4, IsBetween
  <2>6. count.step = "keep" /\ count.saved = saved
    OBVIOUS
  <2>7. QED BY <1>1, <2>1, <2>5, <2>6, StillKept, CountMoved DEF ReportTypes
<1>11. QED BY <1>9, <1>10

LEMMA ReportStep == ReportInv /\ [ReportNext]_reportVars => ReportInv'
<1> SUFFICES ASSUME ReportInv, [ReportNext]_reportVars PROVE ReportInv'
  OBVIOUS
<1>0. ReportTypes /\ DOMAIN overview = Counter
  BY DEF ReportInv, ReportTypes
<1>1. ASSUME layout' = layout, UNCHANGED <<counting, lastReport, overview>>,
             past' = past \/ \E keys \in SUBSET Keys : past' = Append(past, keys)
      PROVE  ReportInv'
  <2>1. /\ past' \in Seq(SUBSET Keys) /\ past' # <<>>
        /\ \A saved : Between(saved) => Between(saved)'
        /\ \A k \in Count : k \in Count' /\ (SoFar(k) => SoFar(k)')
    BY <1>0, <1>1, PastStays
  <2>2. ReportTypes'
    BY <1>0, <1>1, <2>1 DEF ReportTypes
  <2>3. Going' = Going /\ Kept' = Kept /\ \A k \in Going : k \in Count
    BY <1>0, <1>1 DEF ReportTypes, Going, Kept
  <2>4. QED BY <2>1, <2>2, <2>3 DEF ReportInv
<1>2. CASE UNCHANGED reportVars
  BY <1>1, <1>2 DEF reportVars
<1>3. ASSUME NEW k \in Keys, Alter(k) PROVE ReportInv'
  <2>1. Bucket \in SUBSET Keys
    BY <1>0, Times
  <2>2. \E keys \in SUBSET Keys : past' = Append(past, keys)
    BY <1>3, <2>1 DEF Alter
  <2>3. QED BY <1>1, <1>3, <2>2 DEF Alter
<1>4. ASSUME NEW c \in Counter, StartCount(c) PROVE ReportInv'
  <2> PICK count : count = [step |-> "list", countedAt |-> Now, listed |-> {}, cursor |-> 0, pages |-> 0]
    OBVIOUS
  <2>1. counting' = [counting EXCEPT ![c] = count] /\ UNCHANGED <<layout, past, lastReport, overview>>
    BY <1>4 DEF StartCount
  <2>2. count.step = "list" /\ count.listed = {} /\ count.cursor = 0
    OBVIOUS
  <2>3. count \in Count
    BY <1>0, Times, KeysFinite DEF Count
  <2>4. SoFar(count)
    BY <2>2 DEF SoFar
  <2>5. QED BY <1>0, <2>1, <2>2, <2>3, <2>4, StillKept, CountMoved
<1>5. ASSUME NEW c \in Counter, Keep(c) PROVE ReportInv'
  <2> PICK count : count = [step |-> "show"]
    OBVIOUS
  <2>1. counting' = [counting EXCEPT ![c] = count] /\ UNCHANGED <<layout, past, overview>>
        /\ lastReport' \in {lastReport, counting[c].saved}
    BY <1>5 DEF Keep
  <2>2. lastReport' \in Kept \cup {NoReport}
    BY <1>5, <2>1, StillKept DEF Keep, Counting
  <2>3. count.step = "show"
    OBVIOUS
  <2>4. QED BY <1>0, <2>1, <2>2, <2>3, StillKept, CountMoved
<1>6. ASSUME NEW c \in Counter, ShowKept(c) PROVE ReportInv'
  <2>1. counting' = [counting EXCEPT ![c] = Uncounted] /\ UNCHANGED <<layout, past, lastReport>>
    BY <1>6 DEF ShowKept
  <2>2. PICK shown \in {lastReport, NoReport} : overview' = [overview EXCEPT ![c] = shown]
    BY <1>6 DEF ShowKept, Readable
  <2>3. DOMAIN overview' = Counter /\ \A d \in Counter : overview'[d] \in Kept \cup {NoReport}
    BY <1>0, <2>2, StillKept
  <2>4. Uncounted.step = "idle"
    BY DEF Uncounted
  <2>5. QED BY <2>1, <2>3, <2>4, StillKept, CountMoved
<1>7. ASSUME NEW c \in Counter, Abandon(c) PROVE ReportInv'
  <2>1. counting' = [counting EXCEPT ![c] = Uncounted] /\ UNCHANGED <<layout, past, lastReport, overview>>
    BY <1>7 DEF Abandon
  <2>2. Uncounted.step = "idle"
    BY DEF Uncounted
  <2>3. QED BY <1>0, <2>1, <2>2, StillKept, CountMoved
<1>8. QED BY <1>2, <1>3, <1>4, <1>5, <1>6, <1>7, CountPageInv DEF ReportNext

\* Whatever is uploaded, moved and removed while it lists, a report that is kept or shown
\* counts at most what was there at some time, and all that was there the whole time unless
\* it says that it is a lower bound.
THEOREM ReportsAreTrue == ReportInit /\ [][ReportNext]_reportVars => []ReportHolds
BY ReportInitInv, ReportStep, ReportInvHolds, PTL
-----------------------------------------------------------------------------
(* The quota. *)

\* What a place has had since some time, and what it had at some time after it.
SettledAt(p, h) == {o \in Oid : Stored(p, o) /\ since[p][o] <= h}
PossibleAt(p, h) == {o \in Oid : Stored(p, o) \/ (left[p][o] # Never /\ left[p][o] > h)}

\* A count of the objects seen lies between the two.
Counts(p, h, seen, n) ==
  /\ Sum(Size, SettledAt(p, h) \cap seen) <= n
  /\ n <= Sum(Size, PossibleAt(p, h) \cap seen)

Seen(page) == {Order[j] : j \in {j \in DOMAIN Order : j < page}}

\* A remembered count began no longer than TTL and a request before it ends.
UsageOK(p, u) ==
  u.expires > 0 => /\ u.expires <= clock + TTL
                   /\ Counts(p, u.expires - TTL - Longest - 1, Oid, u.bytes)

Fits(b) ==
  /\ UploadsOf(b, {"action"}) > 0 => UploadsOf(b, {"action"}) + SizeOf(Settled(b)) <= Least(env.QUOTA_GB)
  /\ (\E k \in DOMAIN b.plan : b.plan[k] = "over") =>
       UploadsOf(b, {"action", "over"}) + SizeOf(Possible(b)) > Least(env.QUOTA_GB)

CountOK(b) ==
  b # NoBatch =>
    /\ b.started <= clock /\ clock <= b.started + Longest
    /\ b.step \in {"plan", "list"} => \A k \in DOMAIN b.plan : b.plan[k] # "over"
    /\ b.step = "plan" => b.page = 1 /\ b.used = 0
    /\ b.step = "list" => Counts(PlaceOf(b.repo), b.started - 1, Seen(b.page), b.used)
    /\ b.step = "answered" /\ Counted(b) => Fits(b)

\* The inductive invariant of the quota, beside ServerInv.
QuotaInv ==
  /\ \A i \in Isolates, p \in Place : UsageOK(p, usage[i][p])
  /\ \A c \in Slot : CountOK(batches[c])

LEMMA QuotaInvHolds == ServerInv /\ QuotaInv => QuotaHolds
<1> SUFFICES ASSUME QuotaInv, NEW c \in Busy, batches[c].step = "answered" /\ Counted(batches[c])
             PROVE  Fits(batches[c])
  BY DEF QuotaHolds, Fits
<1>1. c \in Slot /\ batches[c] # NoBatch
  BY DEF Busy
<1>2. QED BY <1>1 DEF QuotaInv, CountOK

LEMMA QuotaInitInv == ServerInit => QuotaInv
BY DEF ServerInit, QuotaInv, UsageOK, CountOK

\* The objects are finitely many, and have sizes.
LEMMA ObjectsFinite == IsFiniteSet(Oid) /\ \A o \in Oid : Size[o] \in Nat
<1>1. \A o \in Oid : Size[o] \in Nat
  BY SizeAssumption
<1>2. Order \in [1..Len(Order) -> Oid] /\ Len(Order) \in Nat
  BY ListAssumption
<1>3. \A o \in Oid : \E i \in 1..Len(Order) : Order[i] = o
  BY <1>2, ListAssumption
<1>4. Order \in Surjection(1..Len(Order), Oid)
  BY <1>2, <1>3 DEF Surjection
<1>5. IsFiniteSet(1..Len(Order))
  BY <1>2, FS_Interval
<1>6. QED BY <1>1, <1>4, <1>5, FS_Surjection

LEMMA SizesSum == \A S : SizeOf(S) = Sum(Size, S)
BY DEF SizeOf, Sum

\* Of the sizes of fewer objects the sum is no greater.
LEMMA SizesMore ==
  ASSUME NEW B \in SUBSET Oid, NEW A \in SUBSET B
  PROVE  Sum(Size, A) \in Nat /\ Sum(Size, B) \in Nat /\ Sum(Size, A) <= Sum(Size, B)
BY ObjectsFinite, SumMore

\* The least of some numbers above zero.
LEMMA QuotaSet ==
  ASSUME env \in Environment, ~Misconfigured(env), env.QUOTA_GB # {}
  PROVE  Least(env.QUOTA_GB) \in Nat
<1> PICK S \in SUBSET Int : S = env.QUOTA_GB
  BY DEF Environment
<1>1. S \in SUBSET Nat /\ S # {}
  BY DEF Misconfigured, NotPositive
<1>2. \E x \in S : \A y \in S : x <= y
  BY <1>1, NatMin
<1>3. QED BY <1>1, <1>2 DEF Least

\* The bytes of the uploads a batch answers so, as a sum.
LEMMA UploadsSum ==
  ASSUME NEW b \in Batch, DOMAIN b.plan = DOMAIN b.objects, NEW answers,
         NEW f, f = [k \in DOMAIN b.plan |-> Size[b.objects[k]]]
  PROVE  /\ IsFiniteSet(DOMAIN b.plan) /\ \A k \in DOMAIN b.plan : f[k] \in Nat
         /\ UploadsOf(b, answers) = Sum(f, {k \in DOMAIN b.plan : b.plan[k] \in answers})
         /\ UploadsOf(b, answers) \in Nat
<1> PICK S \in SUBSET DOMAIN b.plan : S = {k \in DOMAIN b.plan : b.plan[k] \in answers}
  OBVIOUS
<1> PICK objects : objects = b.objects
  OBVIOUS
<1>1. b.plan \in Seq(Verdict) /\ objects \in Seq(Oid)
  BY DEF Batch
<1>2. IsFiniteSet(DOMAIN b.plan)
  <2> PICK v \in Seq(Verdict) : v = b.plan
    BY <1>1
  <2> PICK n \in Nat : n = Len(v)
    OBVIOUS
  <2>1. IsFiniteSet(1..n)
    BY FS_Interval
  <2>2. DOMAIN v = 1..n
    OBVIOUS
  <2>3. QED BY <2>1, <2>2
<1>3. \A k \in DOMAIN b.plan : f[k] \in Nat
  BY <1>1, ObjectsFinite
<1>4. IsFiniteSet(S)
  BY <1>2, FS_Subset
<1>5. UploadsOf(b, answers) = MapThenSumSet(LAMBDA k : Size[objects[k]], S)
  BY DEF UploadsOf
<1> DEFINE Is(g) == g = [s \in SUBSET S |-> IF s = {} THEN 0 ELSE Size[objects[AnOf(s)]] + g[s \ {AnOf(s)}]]
<1>6. ASSUME NEW g PROVE Is(g) <=> Computes(g, f, SUBSET S)
  <2>1. \A s \in SUBSET S : s # {} => f[AnOf(s)] = Size[objects[AnOf(s)]]
    BY DEF AnOf
  <2>2. [s \in SUBSET S |-> IF s = {} THEN 0 ELSE Size[objects[AnOf(s)]] + g[s \ {AnOf(s)}]]
          = [s \in SUBSET S |-> IF s = {} THEN 0 ELSE f[AnOf(s)] + g[s \ {AnOf(s)}]]
    BY ONLY <2>1
  <2>3. QED BY <2>2 DEF Computes
<1>7. MapThenSumSet(LAMBDA k : Size[objects[k]], S) = (CHOOSE g : Is(g))[S]
  BY DEF MapThenSumSet, MapThenFoldSet, AnOf
<1> HIDE DEF Is
<1> PICK g : g = CHOOSE h : Is(h)
  OBVIOUS
<1>8. PICK h : Computes(h, f, SUBSET S) /\ Sum(f, S) = h[S]
  BY <1>4, SumComputed
<1>9. Is(h)
  BY <1>6, <1>8
<1>10. Is(g)
  BY <1>9
<1>11. Computes(g, f, SUBSET S)
  BY <1>6, <1>10
<1>12. S \in SUBSET S
  OBVIOUS
<1>13. g[S] = h[S]
  BY ONLY <1>4, <1>8, <1>11, <1>12, SumUnique
<1>14. UploadsOf(b, answers) = Sum(f, S)
  BY <1>5, <1>7, <1>8, <1>13
<1>15. Sum(f, S) \in Nat
  BY <1>2, <1>3, SumMore
<1>16. QED BY <1>2, <1>3, <1>14, <1>15

-----------------------------------------------------------------------------
(* The bucket changes. *)

\* What is put and removed leaves fewer objects that have long been there, and more
\* that may be.
LEMMA BucketTurns ==
  ASSUME ServerTypes, clock' = clock,
         UNCHANGED <<since, left>> \/ \E p \in Place, o \in Oid : Put(p, o) \/ Drop(p, o)
  PROVE  \A p \in Place, h \in Int : h < clock =>
           SettledAt(p, h)' \subseteq SettledAt(p, h) /\ PossibleAt(p, h) \subseteq PossibleAt(p, h)'
<1>1. clock \in Nat /\ Never \notin Nat
  BY Deployed DEF ServerTypes, Moment, Never
<1>2. /\ since \in [Place -> [Oid -> Moment \cup {Never}]]
      /\ left \in [Place -> [Oid -> Moment \cup {Never}]]
      /\ \A p \in Place, o \in Oid : left[p][o] <= clock /\ since[p][o] <= clock
  BY DEF ServerTypes
<1>3. ASSUME NEW p \in Place, NEW o \in Oid, Put(p, o) \/ Drop(p, o), NEW q \in Place, NEW x \in Oid
      PROVE  /\ since'[q][x] \in {since[q][x], Never} \/ (since'[q][x] = clock /\ since[q][x] = Never)
             /\ left'[q][x] \in {left[q][x], clock}
             /\ since'[q][x] = Never /\ since[q][x] # Never => left'[q][x] = clock
  <2>1. CASE Put(p, o) /\ Stored(p, o)
    BY <2>1 DEF Put
  <2>2. CASE Put(p, o) /\ ~Stored(p, o)
    <3>1. since' = [since EXCEPT ![p][o] = clock] /\ left' = left /\ since[p][o] = Never
      BY <2>2 DEF Put, Stored
    <3>2. since'[q][x] = IF q = p /\ x = o THEN clock ELSE since[q][x]
      BY <1>2, <3>1
    <3>3. QED BY <1>1, <3>1, <3>2
  <2>3. CASE Drop(p, o)
    <3>1. /\ since' = [since EXCEPT ![p][o] = Never]
          /\ left' = IF Stored(p, o) THEN [left EXCEPT ![p][o] = clock] ELSE left
      BY <2>3 DEF Drop
    <3>2. since'[q][x] = IF q = p /\ x = o THEN Never ELSE since[q][x]
      BY <1>2, <3>1
    <3>3. left'[q][x] = IF q = p /\ x = o /\ Stored(p, o) THEN clock ELSE left[q][x]
      BY <1>2, <3>1
    <3>4. QED BY <3>2, <3>3 DEF Stored
  <2>4. QED BY <1>3, <2>1, <2>2, <2>3
<1>4. ASSUME NEW q \in Place, NEW h \in Int, h < clock, ~UNCHANGED <<since, left>>
      PROVE  SettledAt(q, h)' \subseteq SettledAt(q, h) /\ PossibleAt(q, h) \subseteq PossibleAt(q, h)'
  <2>1. \A x \in Oid :
          /\ since'[q][x] \in {since[q][x], Never} \/ (since'[q][x] = clock /\ since[q][x] = Never)
          /\ left'[q][x] \in {left[q][x], clock}
          /\ since'[q][x] = Never /\ since[q][x] # Never => left'[q][x] = clock
    BY <1>3, <1>4
  <2>2. clock # Never /\ clock > h /\ ~(clock <= h)
    BY <1>1, <1>4
  <2>3. SettledAt(q, h)' \subseteq SettledAt(q, h)
    BY <2>1, <2>2 DEF SettledAt, Stored
  <2>4. PossibleAt(q, h) \subseteq PossibleAt(q, h)'
    BY <2>1, <2>2 DEF PossibleAt, Stored
  <2>5. QED BY <2>3, <2>4
<1>5. UNCHANGED <<since, left>> =>
        \A q \in Place, h \in Int : SettledAt(q, h)' = SettledAt(q, h) /\ PossibleAt(q, h)' = PossibleAt(q, h)
  BY DEF SettledAt, PossibleAt, Stored
<1>6. QED BY <1>4, <1>5

\* Counts that were right stay so.
LEMMA CountsStay ==
  ASSUME \A p \in Place, h \in Int : h < clock =>
           SettledAt(p, h)' \subseteq SettledAt(p, h) /\ PossibleAt(p, h) \subseteq PossibleAt(p, h)',
         NEW p \in Place, NEW h \in Int, h < clock, NEW seen \in SUBSET Oid, NEW n \in Nat, Counts(p, h, seen, n)
  PROVE  Counts(p, h, seen, n)'
<1> PICK A, B, C, D :
      A = SettledAt(p, h)' /\ B = SettledAt(p, h) /\ C = PossibleAt(p, h) /\ D = PossibleAt(p, h)'
  OBVIOUS
<1>1. A \subseteq B /\ B \subseteq Oid /\ C \subseteq D /\ D \subseteq Oid
  BY DEF SettledAt, PossibleAt
<1>2. Sum(Size, B \cap seen) <= n /\ n <= Sum(Size, C \cap seen)
  BY DEF Counts
<1>3. /\ Sum(Size, A \cap seen) \in Nat /\ Sum(Size, B \cap seen) \in Nat
      /\ Sum(Size, A \cap seen) <= Sum(Size, B \cap seen)
  <2>1. B \cap seen \in SUBSET Oid /\ A \cap seen \in SUBSET (B \cap seen)
    BY <1>1
  <2>2. QED BY <2>1, SizesMore
<1>4. /\ Sum(Size, C \cap seen) \in Nat /\ Sum(Size, D \cap seen) \in Nat
      /\ Sum(Size, C \cap seen) <= Sum(Size, D \cap seen)
  <2>1. D \cap seen \in SUBSET Oid /\ C \cap seen \in SUBSET (D \cap seen)
    BY <1>1
  <2>2. QED BY <2>1, SizesMore
<1>5. Sum(Size, A \cap seen) <= n /\ n <= Sum(Size, D \cap seen)
  BY <1>2, <1>3, <1>4
<1>6. QED BY <1>5 DEF Counts

\* What a batch long over keeps: it knows of nothing older than its horizon.
LEMMA FitsStay ==
  ASSUME \A p \in Place, h \in Int : h < clock =>
           SettledAt(p, h)' \subseteq SettledAt(p, h) /\ PossibleAt(p, h) \subseteq PossibleAt(p, h)',
         env \in Environment, ~Misconfigured(env), env' = env,
         NEW b \in Batch, b.plan \in Seq(Verdict), DOMAIN b.plan = DOMAIN b.objects,
         Horizon(b) \in Int, Horizon(b) < clock, Counted(b), Fits(b)
  PROVE  Fits(b)'
<1> PICK p \in Place : p = PlaceOf(b.repo)
  BY PlaceThere DEF Batch
<1> PICK h \in Int : h = Horizon(b)
  OBVIOUS
<1>1. PlaceOf(b.repo)' = p /\ Horizon(b)' = h
  BY DEF PlaceOf, Horizon
<1>2. Settled(b) = SettledAt(p, h) /\ Possible(b) = PossibleAt(p, h)
  BY DEF Settled, Possible, SettledAt, PossibleAt
<1>3. Settled(b)' = SettledAt(p, h)' /\ Possible(b)' = PossibleAt(p, h)'
  BY <1>1 DEF Settled, Possible, SettledAt, PossibleAt, Stored
<1> PICK A, B, C, D :
      A = SettledAt(p, h)' /\ B = SettledAt(p, h) /\ C = PossibleAt(p, h) /\ D = PossibleAt(p, h)'
  OBVIOUS
<1>4. A \subseteq B /\ B \subseteq Oid /\ C \subseteq D /\ D \subseteq Oid
  BY DEF SettledAt, PossibleAt
<1>5. /\ Sum(Size, A) \in Nat /\ Sum(Size, B) \in Nat /\ Sum(Size, A) <= Sum(Size, B)
      /\ Sum(Size, C) \in Nat /\ Sum(Size, D) \in Nat /\ Sum(Size, C) <= Sum(Size, D)
  BY <1>4, SizesMore
<1>6. Least(env.QUOTA_GB) \in Int /\ env.QUOTA_GB' = env.QUOTA_GB
  BY QuotaSet DEF Counted
<1>7. UploadsOf(b, {"action"}) \in Nat /\ UploadsOf(b, {"action", "over"}) \in Nat
  BY UploadsSum
<1>8. /\ SizeOf(Settled(b)) = Sum(Size, B) /\ SizeOf(Settled(b))' = Sum(Size, A)
      /\ SizeOf(Possible(b)) = Sum(Size, C) /\ SizeOf(Possible(b))' = Sum(Size, D)
  <2>1. SizeOf(Settled(b))' = SizeOf(A) /\ SizeOf(Possible(b))' = SizeOf(D)
    BY <1>3
  <2>2. QED BY <1>2, <2>1, SizesSum
<1> PICK granted \in Nat, all \in Nat, quota \in Int :
      granted = UploadsOf(b, {"action"}) /\ all = UploadsOf(b, {"action", "over"}) /\ quota = Least(env.QUOTA_GB)
  BY <1>6, <1>7
<1>9. /\ granted > 0 => granted + Sum(Size, B) <= quota
      /\ (\E k \in DOMAIN b.plan : b.plan[k] = "over") => all + Sum(Size, C) > quota
  BY <1>8 DEF Fits
<1>10. /\ granted > 0 => granted + Sum(Size, A) <= quota
       /\ (\E k \in DOMAIN b.plan : b.plan[k] = "over") => all + Sum(Size, D) > quota
  BY <1>5, <1>9
<1>11. UploadsOf(b, {"action"})' = granted /\ UploadsOf(b, {"action", "over"})' = all /\ Least(env.QUOTA_GB)' = quota
  <2>1. UploadsOf(b, {"action"})' = UploadsOf(b, {"action"})
    OBVIOUS
  <2>2. UploadsOf(b, {"action", "over"})' = UploadsOf(b, {"action", "over"})
    OBVIOUS
  <2>3. Least(env.QUOTA_GB)' = Least(env.QUOTA_GB)
    BY <1>6
  <2>4. QED BY <2>1, <2>2, <2>3
<1>12. QED BY <1>8, <1>10, <1>11 DEF Fits
-----------------------------------------------------------------------------
(* What fits. *)

\* The uploads that fit are looked for one after the other.
After(uploads, quota, before, i) ==
  LET size == IF uploads[i] = None THEN 0 ELSE Size[uploads[i]]
  IN  IF uploads[i] # None /\ before.used + size <= quota
      THEN [used |-> before.used + size, kept |-> before.kept \cup {i}]
      ELSE before

LEMMA FitsOneByOne ==
  ASSUME NEW uploads, Len(uploads) \in Nat, NEW used, NEW quota
  PROVE  \E f : /\ f = [i \in 0..Len(uploads) |-> IF i = 0 THEN [used |-> used, kept |-> {}]
                                                  ELSE After(uploads, quota, f[i - 1], i)]
                /\ ApplyQuota(uploads, used, quota) = f[Len(uploads)].kept
<1> DEFINE Fit(f, n) == f = [i \in 0..n |-> IF i = 0 THEN [used |-> used, kept |-> {}]
                                            ELSE After(uploads, quota, f[i - 1], i)]
<1> PICK T \in SUBSET Nat : T = {n \in Nat : \E f : Fit(f, n)}
  OBVIOUS
<1>1. 0 \in T
  <2> PICK f : f = [i \in 0..0 |-> [used |-> used, kept |-> {}]]
    OBVIOUS
  <2>1. Fit(f, 0)
    OBVIOUS
  <2>2. QED BY <2>1
<1>2. ASSUME NEW n \in T PROVE n + 1 \in T
  <2>1. PICK g : Fit(g, n)
    BY <1>2
  <2> PICK f : f = [i \in 0..n + 1 |-> IF i = 0 THEN [used |-> used, kept |-> {}]
                                       ELSE After(uploads, quota, g[i - 1], i)]
    OBVIOUS
  <2>2. \A i \in 0..n : f[i] = g[i]
    <3>1. \A i \in 0..n : g[i] = IF i = 0 THEN [used |-> used, kept |-> {}]
                                 ELSE After(uploads, quota, g[i - 1], i)
      BY <2>1
    <3>2. \A i \in 0..n : i \in 0..n + 1
      OBVIOUS
    <3>3. QED BY <3>1, <3>2
  <2>3. \A i \in 0..n + 1 : i # 0 => f[i - 1] = g[i - 1]
    <3>1. ASSUME NEW i \in 0..n + 1, i # 0 PROVE i - 1 \in 0..n
      BY <3>1
    <3>2. QED BY <2>2, <3>1
  <2>4. Fit(f, n + 1)
    BY <2>3
  <2>5. QED BY <2>4
<1>3. T = Nat
  BY <1>1, <1>2, AllNumbers
<1>4. PICK g : Fit(g, Len(uploads))
  BY <1>3
<1>5. ApplyQuota(uploads, used, quota) = (CHOOSE f : Fit(f, Len(uploads)))[Len(uploads)].kept
  BY DEF ApplyQuota, After
<1> HIDE DEF Fit
<1> PICK f : f = CHOOSE h : Fit(h, Len(uploads))
  OBVIOUS
<1>6. Fit(f, Len(uploads))
  BY <1>4
<1>7. ApplyQuota(uploads, used, quota) = f[Len(uploads)].kept
  BY <1>5
<1>8. f = [i \in 0..Len(uploads) |-> IF i = 0 THEN [used |-> used, kept |-> {}]
                                   ELSE After(uploads, quota, f[i - 1], i)]
  BY <1>6 DEF Fit
<1>9. QED BY ONLY <1>7, <1>8

\* Together with what is used, the uploads that fit are within the quota; none other fits
\* beside them.
LEMMA QuotaKeeps ==
  ASSUME NEW uploads \in Seq(Oid \cup {None}), NEW used \in Nat, NEW quota \in Int,
         NEW sizes,
         \A k \in DOMAIN uploads : sizes[k] \in Nat /\ (uploads[k] # None => sizes[k] = Size[uploads[k]]),
         NEW kept, kept = ApplyQuota(uploads, used, quota)
  PROVE  /\ kept \subseteq {k \in DOMAIN uploads : uploads[k] # None}
         /\ kept # {} => used + Sum(sizes, kept) <= quota
         /\ \A k \in DOMAIN uploads :
              uploads[k] # None /\ k \notin kept => used + Sum(sizes, kept) + sizes[k] > quota
<1>1. Len(uploads) \in Nat /\ DOMAIN uploads = 1..Len(uploads) /\ \A k \in DOMAIN uploads : uploads[k] \in Oid \cup {None}
  OBVIOUS
<1> PICK last \in Nat : last = Len(uploads)
  BY <1>1
<1>2. PICK f : /\ f = [i \in 0..last |-> IF i = 0 THEN [used |-> used, kept |-> {}]
                                         ELSE After(uploads, quota, f[i - 1], i)]
               /\ kept = f[last].kept
  BY FitsOneByOne
<1>3. IsFiniteSet(DOMAIN uploads) /\ \A k \in DOMAIN uploads : sizes[k] \in Nat
  <2>1. IsFiniteSet(1..Len(uploads))
    BY <1>1, FS_Interval
  <2>2. QED BY <1>1, <2>1
<1> DEFINE Room(i) ==
      /\ f[i].used \in Nat /\ f[i].kept \subseteq {k \in 1..i : uploads[k] # None}
      /\ f[i].used = used + Sum(sizes, f[i].kept)
      /\ f[i].kept # {} => f[i].used <= quota
      /\ \A k \in 1..i : uploads[k] # None /\ k \notin f[i].kept => f[i].used + sizes[k] > quota
<1> PICK T \in SUBSET Nat : T = {i \in Nat : i <= last => Room(i)}
  OBVIOUS
<1>4. 0 \in T
  <2>1. f[0] = [used |-> used, kept |-> {}]
    BY <1>2
  <2>2. Sum(sizes, {}) = 0
    <3>1. IsFiniteSet({})
      BY FS_EmptySet
    <3>2. QED BY <3>1, SumAny
  <2>3. Room(0)
    BY <2>1, <2>2
  <2> HIDE DEF Room
  <2>4. QED BY <2>3
<1>5. ASSUME NEW n \in T PROVE n + 1 \in T
  <2> HIDE DEF Room
  <2> SUFFICES ASSUME n + 1 <= last PROVE Room(n + 1)
    OBVIOUS
  <2>0. n \in Nat /\ n <= last /\ Room(n)
    OBVIOUS
  <2> USE DEF Room
  <2> PICK i \in Nat : i = n + 1
    OBVIOUS
  <2>1. Room(n) /\ n \in Nat /\ i \in 1..last
    <3> HIDE DEF Room
    <3>1. i \in 1..last
      BY <2>0
    <3>2. QED BY <2>0, <3>1
  <2> PICK before : before = f[n]
    OBVIOUS
  <2>2. f[i] = After(uploads, quota, before, i)
    <3>1. i \in 0..last /\ i # 0 /\ i - 1 = n
      BY <2>1
    <3>2. QED BY <1>2, <3>1
  <2>3. i \in DOMAIN uploads /\ (uploads[i] # None => sizes[i] = Size[uploads[i]])
    BY <1>1, <2>1
  <2>4. sizes[i] \in Nat /\ before.used \in Nat
    BY <1>3, <2>1, <2>3
  <2>5. CASE uploads[i] # None /\ before.used + sizes[i] <= quota
    <3>1. f[i] = [used |-> before.used + sizes[i], kept |-> before.kept \cup {i}]
      BY <2>2, <2>3, <2>5 DEF After
    <3> PICK more : more = before.kept \cup {i}
      OBVIOUS
    <3>2. f[i].used = before.used + sizes[i] /\ f[i].kept = more
      BY <3>1
    <3>3. more \in SUBSET DOMAIN uploads /\ i \in more /\ more \ {i} = before.kept
      BY <1>1, <2>1, <2>3
    <3>4. Sum(sizes, more) = sizes[i] + Sum(sizes, before.kept) /\ Sum(sizes, before.kept) \in Nat
      <4>1. \A S \in SUBSET DOMAIN uploads :
              Sum(sizes, S) \in Nat /\ \A x \in S : Sum(sizes, S) = sizes[x] + Sum(sizes, S \ {x})
        BY ONLY <1>3, SumOne
      <4>2. before.kept \in SUBSET DOMAIN uploads
        BY <3>3
      <4>3. QED BY ONLY <3>3, <4>1, <4>2
    <3>5. f[i].kept \subseteq {k \in 1..i : uploads[k] # None}
      BY <2>1, <2>5, <3>2
    <3>6. f[i].used = used + Sum(sizes, f[i].kept)
      BY <2>1, <2>4, <3>2, <3>4
    <3>7. ASSUME NEW k \in 1..i, uploads[k] # None, k \notin f[i].kept PROVE f[i].used + sizes[k] > quota
      <4>1. k \in 1..n /\ k \notin before.kept /\ k \in DOMAIN uploads
        BY <1>1, <2>1, <3>2, <3>7
      <4>2. before.used + sizes[k] > quota /\ sizes[k] \in Nat
        BY <1>3, <2>1, <3>7, <4>1
      <4>3. QED BY <2>4, <3>2, <4>2
    <3>8. f[i].used \in Nat /\ f[i].used <= quota
      BY <2>4, <2>5, <3>2
    <3>9. QED BY <3>5, <3>6, <3>7, <3>8
  <2>6. CASE ~(uploads[i] # None /\ before.used + sizes[i] <= quota)
    <3>1. f[i] = before
      BY <2>2, <2>3, <2>6 DEF After
    <3>2. f[i].kept \subseteq {k \in 1..i : uploads[k] # None}
      BY <2>1, <3>1
    <3>3. ASSUME NEW k \in 1..i, uploads[k] # None, k \notin f[i].kept PROVE f[i].used + sizes[k] > quota
      <4>1. CASE k = i
        BY <2>4, <2>6, <3>1, <3>3, <4>1
      <4>2. CASE k # i
        <5>1. k \in 1..n
          BY <4>2
        <5>2. QED BY <2>1, <3>1, <3>3, <5>1
      <4>3. QED BY <4>1, <4>2
    <3>4. QED BY <2>1, <3>1, <3>2, <3>3
  <2>7. QED BY <2>5, <2>6
<1>6. T = Nat
  BY <1>4, <1>5, AllNumbers
<1>7. Room(last)
  <2> HIDE DEF Room
  <2>1. last \in T /\ last <= last
    BY <1>6
  <2>2. QED BY <2>1
<1>8. QED BY <1>1, <1>2, <1>7

\* The answer of a batch that counted right.
LEMMA AnswerFits ==
  ASSUME env \in Environment, ~Misconfigured(env), env.QUOTA_GB # {},
         NEW b \in Batch, DOMAIN b.plan = DOMAIN b.objects, \A k \in DOMAIN b.plan : b.plan[k] # "over",
         NEW used \in Nat, Sum(Size, Settled(b)) <= used, used <= Sum(Size, Possible(b)),
         NEW answered, answered = [b EXCEPT !.step = "answered", !.plan = WithinQuota(b, used)]
  PROVE  Fits(answered)
<1> PICK quota \in Nat : quota = Least(env.QUOTA_GB)
  BY QuotaSet
<1> PICK uploads : uploads = [k \in DOMAIN b.plan |-> IF b.plan[k] = "action" THEN b.objects[k] ELSE None]
  OBVIOUS
<1> PICK kept : kept = ApplyQuota(uploads, used, quota)
  OBVIOUS
<1> PICK plan : plan = [k \in DOMAIN b.plan |-> IF uploads[k] # None /\ k \notin kept THEN "over" ELSE b.plan[k]]
  OBVIOUS
<1>1. b.plan \in Seq(Verdict) /\ b.objects \in Seq(Oid) /\ \A k \in DOMAIN b.plan : b.objects[k] \in Oid
  BY DEF Batch
<1>2. uploads \in Seq(Oid \cup {None}) /\ DOMAIN uploads = DOMAIN b.plan
      /\ \A k \in DOMAIN b.plan : /\ uploads[k] # None <=> b.plan[k] = "action"
                                  /\ uploads[k] # None => uploads[k] = b.objects[k]
  BY <1>1, NoneAssumption
<1> PICK f : f = [k \in DOMAIN b.plan |-> Size[b.objects[k]]]
  OBVIOUS
<1>3. /\ kept \subseteq {k \in DOMAIN uploads : uploads[k] # None}
      /\ kept # {} => used + Sum(f, kept) <= quota
      /\ \A k \in DOMAIN uploads : uploads[k] # None /\ k \notin kept => used + Sum(f, kept) + f[k] > quota
  <2>1. \A k \in DOMAIN uploads : f[k] \in Nat /\ (uploads[k] # None => f[k] = Size[uploads[k]])
    BY <1>1, <1>2, ObjectsFinite
  <2>2. used \in Nat /\ quota \in Int /\ kept = ApplyQuota(uploads, used, quota)
    OBVIOUS
  <2>3. uploads \in Seq(Oid \cup {None})
    BY <1>2
  <2>4. QED BY ONLY Zenon, <2>1, <2>2, <2>3, QuotaKeeps
<1>4. WithinQuota(b, used) = plan
  BY DEF WithinQuota
<1>5. /\ answered \in Batch /\ answered.plan = plan /\ answered.objects = b.objects
      /\ DOMAIN plan = DOMAIN b.plan
      /\ answered.started = b.started /\ answered.repo = b.repo
  <2>1. plan \in Seq(Verdict)
    <3>1. b \in Batch
      OBVIOUS
    <3>2. QED BY ONLY <1>4, <3>1, QuotaPlan
  <2>2. QED BY <1>4, <2>1 DEF Batch
<1> PICK S \in SUBSET DOMAIN b.plan : S = {k \in DOMAIN b.plan : plan[k] \in {"action", "over"}}
  OBVIOUS
<1>6. kept = {k \in DOMAIN b.plan : plan[k] \in {"action"}}
      /\ \A k \in DOMAIN b.plan : plan[k] = "over" => uploads[k] # None /\ k \notin kept
  BY <1>2, <1>3
<1>7. /\ UploadsOf(answered, {"action"}) = Sum(f, kept) /\ UploadsOf(answered, {"action", "over"}) = Sum(f, S)
      /\ IsFiniteSet(DOMAIN b.plan) /\ \A k \in DOMAIN b.plan : f[k] \in Nat
  <2>1. DOMAIN answered.plan = DOMAIN answered.objects /\ f = [k \in DOMAIN answered.plan |-> Size[answered.objects[k]]]
    BY <1>5
  <2>2. \A answers : /\ UploadsOf(answered, answers)
                           = Sum(f, {k \in DOMAIN answered.plan : answered.plan[k] \in answers})
                      /\ IsFiniteSet(DOMAIN answered.plan)
                      /\ \A k \in DOMAIN answered.plan : f[k] \in Nat
    BY ONLY <1>5, <2>1, UploadsSum
  <2>3. QED BY ONLY <1>5, <1>6, <2>2, S = {k \in DOMAIN b.plan : plan[k] \in {"action", "over"}}
<1>8. \A A \in SUBSET DOMAIN b.plan : Sum(f, A) \in Nat /\ \A x \in A : Sum(f, A) = f[x] + Sum(f, A \ {x})
  BY ONLY <1>7, SumOne
<1>9. Settled(answered) = Settled(b) /\ Possible(answered) = Possible(b)
  BY <1>5 DEF Settled, Possible, Horizon
<1>10. Sum(Size, Settled(b)) \in Nat /\ Sum(Size, Possible(b)) \in Nat
  <2>1. Settled(b) \in SUBSET Oid /\ Possible(b) \in SUBSET Oid
    BY DEF Settled, Possible
  <2>2. QED BY <2>1, SizesMore
<1>11. ASSUME Sum(f, kept) > 0 PROVE Sum(f, kept) + Sum(Size, Settled(b)) <= quota
  <2>1. kept # {}
    <3>1. IsFiniteSet({}) /\ Sum(f, {}) = 0
      BY FS_EmptySet, SumAny
    <3>2. QED BY <1>11, <3>1
  <2>2. Sum(f, kept) \in Nat
    BY <1>6, <1>8
  <2>3. QED BY <1>3, <1>10, <2>1, <2>2
<1>12. ASSUME NEW k \in DOMAIN plan, plan[k] = "over" PROVE Sum(f, S) + Sum(Size, Possible(b)) > quota
  <2>1. used + Sum(f, kept) + f[k] > quota /\ k \in S /\ f[k] \in Nat /\ k \notin kept
    BY <1>2, <1>3, <1>5, <1>6, <1>7, <1>12
  <2>2. kept \subseteq S \ {k} /\ S \ {k} \in SUBSET DOMAIN b.plan
    BY <1>6, <2>1
  <2>3. Sum(f, kept) \in Nat /\ Sum(f, S \ {k}) \in Nat /\ Sum(f, kept) <= Sum(f, S \ {k})
    BY ONLY <1>7, <2>2, SumMore
  <2>4. Sum(f, S) = f[k] + Sum(f, S \ {k})
    BY <1>8, <2>1
  <2>5. used \in Nat /\ quota \in Nat /\ used <= Sum(Size, Possible(b))
    OBVIOUS
  <2>6. QED BY ONLY <1>10, <2>1, <2>3, <2>4, <2>5
<1>13. QED BY <1>5, <1>7, <1>9, <1>11, <1>12, SizesSum DEF Fits
-----------------------------------------------------------------------------
(* The quota's invariant. *)

\* What is known stays true while the bucket changes and time passes.
LEMMA KnownStays ==
  ASSUME ServerTypes, env' = env, clock' \in Nat, clock <= clock',
         \A p \in Place, h \in Int : h < clock =>
           SettledAt(p, h)' \subseteq SettledAt(p, h) /\ PossibleAt(p, h) \subseteq PossibleAt(p, h)'
  PROVE  /\ \A p \in Place, u \in [bytes : Nat, expires : Nat] : UsageOK(p, u) => UsageOK(p, u)'
         /\ \A b \in Batch \cup {NoBatch} :
              BatchOK(b) /\ CountOK(b) /\ (b # NoBatch => clock' <= b.started + Longest) => CountOK(b)'
<1>1. clock \in Nat /\ TTL \in Nat \ {0} /\ Longest \in Nat /\ scene.end \in Nat /\ env \in Environment
  BY Deployed, TTLAssumption DEF ServerTypes, Moment
<1>2. ASSUME NEW p \in Place, NEW u \in [bytes : Nat, expires : Nat], UsageOK(p, u) PROVE UsageOK(p, u)'
  <2> SUFFICES ASSUME u.expires > 0
               PROVE  u.expires <= clock' + TTL /\ Counts(p, u.expires - TTL - Longest - 1, Oid, u.bytes)'
    BY DEF UsageOK
  <2> PICK h : h = u.expires - TTL - Longest - 1
    OBVIOUS
  <2>1. u.expires <= clock + TTL /\ Counts(p, h, Oid, u.bytes)
    BY <1>2 DEF UsageOK
  <2>2. u.expires \in Nat /\ u.bytes \in Nat
    OBVIOUS
  <2>3. h \in Int /\ h < clock /\ u.expires <= clock' + TTL
    BY <1>1, <2>1, <2>2
  <2>4. Counts(p, h, Oid, u.bytes)'
    BY <2>1, <2>2, <2>3, CountsStay
  <2>5. QED BY <2>3, <2>4
<1>3. ASSUME NEW b \in Batch \cup {NoBatch}, BatchOK(b), CountOK(b), b # NoBatch => clock' <= b.started + Longest
      PROVE  CountOK(b)'
  <2> SUFFICES ASSUME b # NoBatch
               PROVE  CountOK(b)'
    BY DEF CountOK
  <2>1. /\ b \in Batch /\ b.started \in Nat /\ b.used \in Nat /\ b.started <= clock /\ ~Misconfigured(env)
        /\ DOMAIN b.plan = DOMAIN b.objects /\ b.plan \in Seq(Verdict)
    <3>1. b \in Batch
      OBVIOUS
    <3>2. b.started \in Moment
      BY <3>1 DEF Batch
    <3>3. b.started \in Nat
      BY <1>1, <3>2 DEF Moment
    <3>4. QED BY <1>3, <3>1, <3>3 DEF Batch, BatchOK, CountOK
  <2>2. b.step = "list" => Counts(PlaceOf(b.repo), b.started - 1, Seen(b.page), b.used)'
    <3> PICK p \in Place : p = PlaceOf(b.repo)
      BY <2>1, PlaceThere DEF Batch
    <3> PICK h \in Int : h = b.started - 1
      BY <2>1
    <3> PICK seen : seen = Seen(b.page)
      OBVIOUS
    <3>1. seen \in SUBSET Oid /\ h < clock
      BY <1>1, <2>1, ListAssumption DEF Seen
    <3>2. b.step = "list" => Counts(p, h, seen, b.used)
      BY <1>3 DEF CountOK
    <3>3. Counts(p, h, seen, b.used) => Counts(p, h, seen, b.used)'
      BY <2>1, <3>1, CountsStay
    <3>4. PlaceOf(b.repo)' = p /\ Seen(b.page)' = seen
      BY DEF PlaceOf
    <3>5. QED BY <3>2, <3>3, <3>4
  <2>3. Counted(b)' = Counted(b)
    BY DEF Counted
  <2>4. b.step = "answered" /\ Counted(b) => Fits(b)'
    <3>1. Horizon(b) \in Int /\ Horizon(b) < clock
      BY <1>1, <2>1 DEF Horizon
    <3>2. b.step = "answered" /\ Counted(b) => Fits(b)
      BY <1>3 DEF CountOK
    <3>3. QED BY <1>1, <2>1, <3>1, <3>2, FitsStay
  <2>5. b.started <= clock' /\ clock' <= b.started + Longest
    BY <1>1, <1>3, <2>1
  <2>6. /\ b.step \in {"plan", "list"} => \A k \in DOMAIN b.plan : b.plan[k] # "over"
        /\ b.step = "plan" => b.page = 1 /\ b.used = 0
    BY <1>3 DEF CountOK
  <2>7. QED BY <2>2, <2>3, <2>4, <2>5, <2>6 DEF CountOK
<1>4. QED BY <1>2, <1>3

\* Neither a batch nor what is remembered changes.
LEMMA QuietStep ==
  ASSUME ServerInv, QuotaInv, UNCHANGED <<scene, usage, batches>>, clock' \in Nat, clock <= clock',
         \A c \in Slot : batches[c] # NoBatch => clock' <= batches[c].started + Longest,
         \A p \in Place, h \in Int : h < clock =>
           SettledAt(p, h)' \subseteq SettledAt(p, h) /\ PossibleAt(p, h) \subseteq PossibleAt(p, h)'
  PROVE  QuotaInv'
<1>1. ServerTypes /\ env' = env
  BY SceneStays DEF ServerInv
<1>2. ASSUME NEW i \in Isolates, NEW p \in Place PROVE UsageOK(p, usage[i][p])'
  <2> PICK u : u = usage[i][p]
    OBVIOUS
  <2>1. u \in [bytes : Nat, expires : Nat]
    BY <1>1 DEF ServerTypes
  <2>2. UsageOK(p, u)
    BY DEF QuotaInv
  <2>3. UsageOK(p, u)'
    BY <1>1, <2>1, <2>2, KnownStays
  <2>4. usage'[i][p] = u
    OBVIOUS
  <2>5. QED BY <2>3, <2>4 DEF UsageOK
<1>3. ASSUME NEW c \in Slot PROVE CountOK(batches[c])'
  <2> PICK b : b = batches[c]
    OBVIOUS
  <2>1. b \in Batch \cup {NoBatch} /\ BatchOK(b) /\ CountOK(b) /\ (b # NoBatch => clock' <= b.started + Longest)
    BY DEF ServerInv, ServerTypes, QuotaInv
  <2>2. CountOK(b)'
    BY <1>1, <2>1, KnownStays
  <2>3. batches'[c] = b
    OBVIOUS
  <2>4. QED BY <2>2, <2>3
<1>4. QED BY <1>2, <1>3 DEF QuotaInv

\* Batches go on, counts are remembered or forgotten.
LEMMA CountsGoOn ==
  ASSUME ServerInv, QuotaInv, UNCHANGED <<scene, clock, since, left>>,
         \A c \in Slot : /\ batches'[c] \in Batch \cup {NoBatch}
                         /\ BatchOK(batches'[c]) /\ CountOK(batches'[c]),
         \A i \in Isolates, p \in Place : usage'[i][p] \in [bytes : Nat, expires : Nat] /\ UsageOK(p, usage'[i][p])
  PROVE  QuotaInv'
<1>1. ServerTypes /\ env' = env /\ clock \in Nat
  BY SceneStays, Deployed DEF ServerInv, ServerTypes, Moment
<1>2. /\ \A p \in Place, u \in [bytes : Nat, expires : Nat] : UsageOK(p, u) => UsageOK(p, u)'
      /\ \A d \in Batch \cup {NoBatch} :
           BatchOK(d) /\ CountOK(d) /\ (d # NoBatch => clock' <= d.started + Longest) => CountOK(d)'
  <2>1. \A p \in Place, h \in Int : h < clock =>
           SettledAt(p, h)' \subseteq SettledAt(p, h) /\ PossibleAt(p, h) \subseteq PossibleAt(p, h)'
    BY <1>1, BucketTurns
  <2>2. clock' \in Nat /\ clock <= clock'
    BY <1>1
  <2>3. QED BY <1>1, <2>1, <2>2, KnownStays
<1>3. ASSUME NEW i \in Isolates, NEW p \in Place PROVE UsageOK(p, usage[i][p])'
  <2> PICK u : u = usage'[i][p]
    OBVIOUS
  <2>1. u \in [bytes : Nat, expires : Nat] /\ UsageOK(p, u)
    OBVIOUS
  <2>2. UsageOK(p, u)'
    BY <1>2, <2>1
  <2>3. QED BY <2>2 DEF UsageOK
<1>4. ASSUME NEW c \in Slot PROVE CountOK(batches[c])'
  <2> PICK b : b = batches'[c]
    OBVIOUS
  <2>1. b \in Batch \cup {NoBatch} /\ BatchOK(b) /\ CountOK(b)
    OBVIOUS
  <2>2. b # NoBatch => clock' <= b.started + Longest
    BY <2>1 DEF CountOK
  <2>3. CountOK(b)'
    BY <1>2, <2>1, <2>2
  <2>4. QED BY <2>3
<1>5. QED BY <1>3, <1>4 DEF QuotaInv

\* One batch goes on.
LEMMA CountGoesOn ==
  ASSUME ServerInv, QuotaInv, UNCHANGED <<scene, clock, since, left>>,
         NEW c \in Slot, NEW b \in Batch \cup {NoBatch}, Proceed(c, b), BatchOK(b), CountOK(b),
         \A i \in Isolates, p \in Place : usage'[i][p] \in [bytes : Nat, expires : Nat] /\ UsageOK(p, usage'[i][p])
  PROVE  QuotaInv'
<1>1. \A d \in Slot : batches'[d] = IF d = c THEN b ELSE batches[d]
  BY DEF ServerInv, ServerTypes, Proceed
<1>2. \A d \in Slot : batches[d] \in Batch \cup {NoBatch} /\ BatchOK(batches[d]) /\ CountOK(batches[d])
  BY DEF ServerInv, ServerTypes, QuotaInv
<1>3. QED BY <1>1, <1>2, CountsGoOn

\* Requests other than batches, tokens, links and the clock.
LEMMA WorldQuota ==
  ASSUME ServerInv, QuotaInv,
         \/ \E a \in scene.who, r \in Repo : \E shown \in Shown(a), q \in scene.asks :
              Handle(a, r, shown, q) \/ OpenSession(a, r, shown, q)
         \/ \E t \in held : FollowLink(t) \/ Expire(t)
         \/ Later \/ UNCHANGED serverVars
  PROVE  QuotaInv'
<1>1. ServerTypes /\ clock \in Nat /\ \A c \in Slot : batches[c] # NoBatch => clock <= batches[c].started + Longest
  BY Deployed DEF ServerInv, ServerTypes, Moment, QuotaInv, CountOK
<1>2. ASSUME UNCHANGED <<scene, clock, usage, batches>>,
             UNCHANGED <<since, left>> \/ \E p \in Place, o \in Oid : Put(p, o) \/ Drop(p, o)
      PROVE  QuotaInv'
  <2>1. \A p \in Place, h \in Int : h < clock =>
          SettledAt(p, h)' \subseteq SettledAt(p, h) /\ PossibleAt(p, h) \subseteq PossibleAt(p, h)'
    BY <1>1, <1>2, BucketTurns
  <2>2. clock' \in Nat /\ clock <= clock' /\ \A c \in Slot : batches[c] # NoBatch => clock' <= batches[c].started + Longest
    BY <1>1, <1>2
  <2>3. QED BY <1>2, <2>1, <2>2, QuietStep
<1>3. ASSUME NEW a \in scene.who, NEW r \in Repo, NEW shown \in Shown(a), NEW q \in scene.asks, Handle(a, r, shown, q)
      PROVE  QuotaInv'
  <2>1. UNCHANGED <<scene, clock, usage, batches>>
    BY <1>3 DEF Handle
  <2>2. CASE UNCHANGED <<since, left>>
    BY <1>2, <2>1, <2>2
  <2>3. CASE ~UNCHANGED <<since, left>>
    <3>1. q \in HttpRequest
      BY <1>1, Deployed
    <3>2. Put(PlaceOf(r), q.oid) \/ Drop(PlaceOf(r), q.oid)
      BY <1>3, <2>3 DEF Handle, bucket
    <3>3. q.endpoint \in {"object", "multipart_complete", "verify", "storage_change"}
      <4>1. \/ Stores(q) \/ Claims(q) \/ q.endpoint = "storage_change" \/ UNCHANGED bucket
        BY <1>3 DEF Handle
      <4>2. QED BY <2>3, <4>1 DEF Stores, Claims, bucket
    <3>4. q.oid \in Oid
      BY <3>1, <3>3 DEF HttpRequest, OfNoObject
    <3>5. QED BY <1>2, <2>1, <3>2, <3>4, PlaceThere
  <2>4. QED BY <2>2, <2>3
<1>4. ASSUME NEW t \in held, FollowLink(t) PROVE QuotaInv'
  <2>1. UNCHANGED <<scene, clock, usage, batches>> /\ Put(PlaceOf(t.repo), t.oid)
    BY <1>4 DEF FollowLink
  <2>2. t.oid \in Oid /\ t.repo \in Repo
    BY <1>1, <1>4 DEF FollowLink, ServerInv, ServerTypes, TokenOK, Signed
  <2>3. QED BY <1>2, <2>1, <2>2, PlaceThere
<1>5. CASE Later
  <2>1. clock' = clock + 1 /\ UNCHANGED <<scene, since, left, usage, batches>>
    BY <1>5 DEF Later, bucket
  <2>2. \A c \in Slot : batches[c] # NoBatch => clock < batches[c].started + Longest
    BY <1>5 DEF Later
  <2>3. \A c \in Slot : batches[c] # NoBatch => batches[c].started \in Nat
    <3>1. \A c \in Slot : batches[c] # NoBatch => batches[c] \in Batch
      BY <1>1 DEF ServerTypes
    <3>2. Moment \subseteq Nat
      BY <1>1, Deployed DEF Moment
    <3>3. QED BY <3>1, <3>2 DEF Batch
  <2>4. \A c \in Slot : batches[c] # NoBatch => clock' <= batches[c].started + Longest
    BY <1>1, <2>1, <2>2, <2>3, TTLAssumption
  <2>5. \A p \in Place, h \in Int : SettledAt(p, h)' = SettledAt(p, h) /\ PossibleAt(p, h)' = PossibleAt(p, h)
    BY <2>1 DEF SettledAt, PossibleAt, Stored
  <2>6. clock' \in Nat /\ clock <= clock'
    BY <1>1, <2>1
  <2>7. QED BY <2>1, <2>4, <2>5, <2>6, QuietStep
<1>6. (UNCHANGED serverVars \/ (\E a \in scene.who, r \in Repo : \E shown \in Shown(a), q \in scene.asks :
         OpenSession(a, r, shown, q)) \/ \E t \in held : Expire(t))
        => UNCHANGED <<scene, clock, since, left, usage, batches>>
  BY DEF serverVars, OpenSession, Expire, bucket
<1>7. QED BY <1>2, <1>3, <1>4, <1>5, <1>6

\* What isolates remember, when nothing is counted.
LEMMA Remembered ==
  ASSUME ServerInv, QuotaInv
  PROVE  \A i \in Isolates, p \in Place :
           usage[i][p] \in [bytes : Nat, expires : Nat] /\ UsageOK(p, usage[i][p])
BY DEF ServerInv, ServerTypes, QuotaInv

LEMMA ForgetQuota ==
  ASSUME ServerInv, QuotaInv, NEW i \in Isolates, Restart(i)
  PROVE  QuotaInv'
<1> PICK none : none = [bytes |-> 0, expires |-> 0]
  OBVIOUS
<1>1. ServerTypes /\ env' = env /\ clock \in Nat /\ UNCHANGED <<scene, clock, since, left, held, batches>>
  BY SceneStays, Deployed DEF ServerInv, ServerTypes, Moment, Restart, bucket
<1>2. \A j \in Isolates, p \in Place : usage'[j][p] = IF j = i THEN none ELSE usage[j][p]
  BY <1>1 DEF Restart, ServerTypes
<1>3. \A p \in Place : none \in [bytes : Nat, expires : Nat] /\ UsageOK(p, none)
  BY DEF UsageOK
<1>4. \A j \in Isolates, p \in Place :
        usage'[j][p] \in [bytes : Nat, expires : Nat] /\ UsageOK(p, usage'[j][p])
  BY <1>2, <1>3, Remembered
<1>5. \A c \in Slot : /\ batches'[c] \in Batch \cup {NoBatch}
                      /\ BatchOK(batches'[c]) /\ CountOK(batches'[c])
  BY <1>1 DEF ServerInv, ServerTypes, QuotaInv
<1>6. QED BY <1>1, <1>4, <1>5, CountsGoOn

\* A batch starts, and looks its objects up.
LEMMA PlanQuota ==
  ASSUME ServerInv, QuotaInv,
         \/ \E a \in scene.who, r \in Repo : \E shown \in Shown(a), q \in scene.asks :
              \E c \in scene.calls, i \in Isolates, objects \in scene.lists, offered \in BOOLEAN :
                StartBatch(c, a, r, i, shown, q, objects, offered)
         \/ \E c \in Busy : \E k \in DOMAIN batches[c].plan : LookUp(c, k) \/ AskMarker(c, k),
         ServerInv'
  PROVE  QuotaInv'
<1>1. ServerTypes /\ clock \in Nat /\ env' = env /\ Longest \in Nat /\ UNCHANGED <<scene, clock, since, left, usage>>
  <2>1. UNCHANGED <<scene, clock, since, left, usage>>
    <3>1. CASE \E c \in Busy : \E k \in DOMAIN batches[c].plan : LookUp(c, k) \/ AskMarker(c, k)
      BY <3>1 DEF LookUp, AskMarker, bucket
    <3>2. ASSUME NEW c, NEW a, NEW r, NEW i, NEW shown, NEW q, NEW objects, NEW offered,
                 StartBatch(c, a, r, i, shown, q, objects, offered)
          PROVE  UNCHANGED <<scene, clock, since, left, usage>>
      BY <3>2 DEF StartBatch, bucket
    <3>3. QED BY <3>1, <3>2
  <2>2. QED BY <2>1, TTLAssumption, SceneStays, Deployed DEF ServerInv, ServerTypes, Moment
<1>2. \A i \in Isolates, p \in Place :
        usage'[i][p] \in [bytes : Nat, expires : Nat] /\ UsageOK(p, usage'[i][p])
  BY <1>1, Remembered
<1>3. ASSUME NEW c \in Slot, NEW b, Proceed(c, b), CountOK(b) PROVE QuotaInv'
  <2>1. batches'[c] = b
    BY <1>1, <1>3 DEF ServerTypes, Proceed
  <2>2. batches'[c] \in Batch' \cup {NoBatch} /\ Batch' = Batch
    BY <1>1, SceneStays DEF ServerInv, ServerTypes
  <2>3. BatchOK(batches[c])'
    BY DEF ServerInv
  <2>4. BatchOK(b)
    BY <1>1, <2>1, <2>3 DEF BatchOK, Entitled, Offered
  <2>5. QED BY <1>1, <1>2, <1>3, <2>1, <2>2, <2>4, CountGoesOn
<1>4. ASSUME NEW a \in scene.who, NEW r \in Repo, NEW shown \in Shown(a), NEW q \in scene.asks,
             NEW c \in scene.calls, NEW i \in Isolates, NEW objects \in scene.lists, NEW offered \in BOOLEAN,
             StartBatch(c, a, r, i, shown, q, objects, offered)
      PROVE  QuotaInv'
  <2> PICK multipart : multipart = (q.do = "upload" /\ Multipart(env, offered, objects))
    OBVIOUS
  <2> PICK plan : plan = [k \in DOMAIN objects |-> "head"]
    OBVIOUS
  <2> PICK b : b = [step |-> "plan", by |-> a, repo |-> r, isolate |-> i, started |-> clock, do |-> q.do,
                    multipart |-> multipart, objects |-> objects, plan |-> plan, page |-> 1, used |-> 0]
    OBVIOUS
  <2>1. Proceed(c, b) /\ c \in Slot
    BY <1>1, <1>4, Deployed DEF StartBatch
  <2>2. b.step = "plan" /\ b.started = clock /\ b.page = 1 /\ b.used = 0
        /\ \A k \in DOMAIN b.plan : b.plan[k] # "over"
    OBVIOUS
  <2>3. b.started <= clock /\ clock <= b.started + Longest
    BY <1>1, <2>2
  <2>4. CountOK(b)
    BY <2>2, <2>3 DEF CountOK
  <2>5. QED BY <1>3, <2>1, <2>4
<1>5. ASSUME NEW c \in Busy, NEW k \in DOMAIN batches[c].plan, LookUp(c, k) \/ AskMarker(c, k)
      PROVE  QuotaInv'
  <2> PICK old : old = batches[c]
    OBVIOUS
  <2>1. c \in Slot /\ old # NoBatch /\ old \in Batch /\ CountOK(old) /\ old.step = "plan" /\ k \in DOMAIN old.plan
    BY <1>1, <1>5 DEF Busy, ServerTypes, QuotaInv, LookUp, AskMarker
  <2>2. PICK verdict : /\ Proceed(c, [old EXCEPT !.plan[k] = verdict]) /\ verdict # "over"
    <3>1. \A stored, member : Decision(old, old.objects[k], stored, member) # "over"
      BY DEF Decision, DecideUpload
    <3>2. ASSUME LookUp(c, k)
          PROVE  \E verdict : Proceed(c, [old EXCEPT !.plan[k] = verdict]) /\ verdict # "over"
      <4> PICK stored : stored = Stored(PlaceOf(old.repo), old.objects[k])
        OBVIOUS
      <4> PICK verdict : verdict = IF stored /\ IsShared(env) THEN "marker"
                                   ELSE Decision(old, old.objects[k], stored, stored)
        OBVIOUS
      <4>1. verdict # "over"
        BY <3>1
      <4>2. Proceed(c, [old EXCEPT !.plan[k] = verdict])
        BY <3>2 DEF LookUp
      <4>3. QED BY <4>1, <4>2
    <3>3. ASSUME AskMarker(c, k)
          PROVE  \E verdict : Proceed(c, [old EXCEPT !.plan[k] = verdict]) /\ verdict # "over"
      <4> PICK verdict : verdict = Decision(old, old.objects[k], TRUE, <<old.repo, old.objects[k]>> \in members)
        OBVIOUS
      <4>1. verdict # "over"
        BY <3>1
      <4>2. Proceed(c, [old EXCEPT !.plan[k] = verdict])
        BY <3>3 DEF AskMarker
      <4>3. QED BY <4>1, <4>2
    <3>4. QED BY <1>5, <3>2, <3>3
  <2> PICK plan : plan = [old.plan EXCEPT ![k] = verdict]
    OBVIOUS
  <2> PICK b : b = [old EXCEPT !.plan = plan]
    OBVIOUS
  <2>3. Proceed(c, b)
    BY <2>1, <2>2 DEF Batch
  <2>4. b.step = "plan" /\ b.started = old.started /\ b.page = old.page /\ b.used = old.used /\ b.plan = plan
    BY <2>1 DEF Batch
  <2>5. DOMAIN plan = DOMAIN old.plan /\ \A j \in DOMAIN plan : plan[j] \in {verdict, old.plan[j]}
    BY <2>1 DEF Batch
  <2>6. \A j \in DOMAIN plan : plan[j] # "over"
    BY <2>1, <2>2, <2>5 DEF CountOK
  <2>7. CountOK(b)
    BY <2>1, <2>4, <2>6 DEF CountOK
  <2>8. QED BY <1>3, <2>1, <2>3, <2>7
<1>6. QED BY <1>4, <1>5

\* Another page of a listing: what is on it has been there, or has not been long.
LEMMA PageCounts ==
  ASSUME NEW p \in Place, NEW h, NEW page \in Nat \ {0}, page <= Len(Order), NEW used \in Nat,
         Counts(p, h, Seen(page), used),
         NEW n, n = IF Stored(p, Order[page]) THEN used + Size[Order[page]] ELSE used
  PROVE  Counts(p, h, Seen(page + 1), n)
<1> PICK o \in Oid : o = Order[page]
  BY ListAssumption
<1> PICK A \in SUBSET Oid, B \in SUBSET Oid : A = SettledAt(p, h) /\ B = PossibleAt(p, h)
  BY DEF SettledAt, PossibleAt
<1> PICK old \in SUBSET Oid, new \in SUBSET Oid : old = Seen(page) /\ new = Seen(page + 1)
  BY ListAssumption DEF Seen
<1>1. new = old \cup {o} /\ o \notin old
  <2>1. page \in DOMAIN Order /\ DOMAIN Order = 1..Len(Order) /\ Len(Order) \in Nat
    BY ListAssumption
  <2>2. {j \in DOMAIN Order : j < page + 1} = {j \in DOMAIN Order : j < page} \cup {page}
    BY <2>1
  <2>3. \A j \in DOMAIN Order : j < page => Order[j] # Order[page]
    BY <2>1, ListAssumption
  <2>4. QED BY <2>2, <2>3 DEF Seen
<1>2. Sum(Size, A \cap old) <= used /\ used <= Sum(Size, B \cap old)
  BY DEF Counts
<1>3. Size[o] \in Nat /\ \A S \in SUBSET Oid : Sum(Size, S) \in Nat /\ \A x \in S : Sum(Size, S) = Size[x] + Sum(Size, S \ {x})
  <2>1. IsFiniteSet(Oid) /\ \A x \in Oid : Size[x] \in Nat
    BY ObjectsFinite
  <2>2. QED BY <2>1, SumOne
<1> PICK a \in Nat, b \in Nat, c \in Nat, d \in Nat :
      /\ a = Sum(Size, A \cap old) /\ b = Sum(Size, B \cap old)
      /\ c = Sum(Size, A \cap new) /\ d = Sum(Size, B \cap new)
  BY <1>3
<1>4. \A S \in SUBSET Oid : Sum(Size, S \cap new) = IF o \in S THEN Size[o] + Sum(Size, S \cap old) ELSE Sum(Size, S \cap old)
  <2>1. ASSUME NEW S \in SUBSET Oid, o \in S PROVE Sum(Size, S \cap new) = Size[o] + Sum(Size, S \cap old)
    <3> PICK T \in SUBSET Oid : T = S \cap new
      OBVIOUS
    <3>1. T \ {o} = S \cap old /\ o \in T
      BY <1>1, <2>1
    <3>2. Sum(Size, T) = Size[o] + Sum(Size, T \ {o})
      BY <1>3, <3>1
    <3>3. QED BY <3>1, <3>2
  <2>2. ASSUME NEW S \in SUBSET Oid, o \notin S PROVE S \cap new = S \cap old
    BY <1>1, <2>2
  <2>3. QED BY <2>1, <2>2
<1>5. /\ c = IF o \in A THEN Size[o] + a ELSE a
      /\ d = IF o \in B THEN Size[o] + b ELSE b
  BY <1>4
<1>6. CASE Stored(p, o)
  <2>1. o \in B
    BY <1>6 DEF PossibleAt
  <2>2. d = Size[o] + b /\ c <= Size[o] + a
    BY <1>3, <1>5, <2>1
  <2>3. n = used + Size[o]
    BY <1>6
  <2>4. c <= n /\ n <= d
    BY <1>2, <1>3, <2>2, <2>3
  <2>5. QED BY <2>4 DEF Counts
<1>7. CASE ~Stored(p, o)
  <2>1. o \notin A
    BY <1>7 DEF SettledAt
  <2>2. c = a /\ b <= d
    BY <1>3, <1>5, <2>1
  <2>3. n = used
    BY <1>7
  <2>4. c <= n /\ n <= d
    BY <1>2, <1>3, <2>2, <2>3
  <2>5. QED BY <2>4 DEF Counts
<1>8. QED BY <1>6, <1>7

\* A listing starts, goes on, and a batch ends.
LEMMA ListQuota ==
  ASSUME ServerInv, QuotaInv, NEW c \in Busy, StartListing(c) \/ ListPage(c) \/ Finish(c)
  PROVE  QuotaInv'
<1> PICK old : old = batches[c]
  OBVIOUS
<1>1. c \in Slot /\ old # NoBatch /\ UNCHANGED <<scene, clock, since, left, usage>>
  BY DEF Busy, StartListing, ListPage, Finish, bucket
<1>2. old \in Batch /\ BatchOK(old) /\ CountOK(old) /\ PlaceOf(old.repo) \in Place
  BY <1>1, BatchOf, PlaceThere DEF QuotaInv, Batch
<1>3. \A i \in Isolates, p \in Place :
        usage'[i][p] \in [bytes : Nat, expires : Nat] /\ UsageOK(p, usage'[i][p])
  BY <1>1, Remembered
<1>4. ASSUME NEW b \in Batch, Proceed(c, b), b.plan = old.plan, b.objects = old.objects, b.by = old.by,
             b.repo = old.repo, b.do = old.do, b.multipart = old.multipart, b.started = old.started,
             old.step \in {"plan", "list"}, b.step = "list",
             Counts(PlaceOf(b.repo), b.started - 1, Seen(b.page), b.used)
      PROVE  QuotaInv'
  <2>1. BatchOK(b)
    BY <1>1, <1>2, <1>4 DEF BatchOK
  <2>2. CountOK(b)
    BY <1>1, <1>2, <1>4 DEF CountOK
  <2>3. QED BY <1>1, <1>3, <1>4, <2>1, <2>2, CountGoesOn
<1>5. CASE StartListing(c)
  <2> PICK b : b = [old EXCEPT !.step = "list"]
    OBVIOUS
  <2>1. Proceed(c, b) /\ old.step = "plan"
    BY <1>5 DEF StartListing, Planned
  <2>2. /\ b \in Batch /\ b.plan = old.plan /\ b.objects = old.objects /\ b.by = old.by
        /\ b.repo = old.repo /\ b.do = old.do /\ b.multipart = old.multipart /\ b.started = old.started
        /\ b.step = "list" /\ b.page = 1 /\ b.used = 0
    BY <1>1, <1>2, <2>1 DEF Batch, CountOK
  <2>3. Seen(1) = {}
    BY ListAssumption DEF Seen
  <2>4. Sum(Size, {}) = 0
    <3>1. IsFiniteSet({})
      BY FS_EmptySet
    <3>2. QED BY <3>1, SumAny
  <2>5. \A S : S \cap {} = {}
    OBVIOUS
  <2>6. Counts(PlaceOf(b.repo), b.started - 1, Seen(b.page), b.used)
    BY <2>2, <2>3, <2>4, <2>5 DEF Counts
  <2>7. QED BY <1>4, <2>1, <2>2, <2>6
<1>6. CASE ListPage(c)
  <2>1. old.page \in Nat \ {0} /\ old.used \in Nat /\ old.page <= Len(Order) /\ old.step = "list"
    BY <1>2, <1>6 DEF ListPage, Batch
  <2>2. Order[old.page] \in Oid
    BY <2>1, ListAssumption
  <2> PICK used : used = IF Stored(PlaceOf(old.repo), Order[old.page]) THEN old.used + Size[Order[old.page]]
                         ELSE old.used
    OBVIOUS
  <2>3. used \in Nat /\ old.page + 1 \in Nat \ {0}
    BY <2>1, <2>2, SizeAssumption
  <2> PICK b : b = [old EXCEPT !.page = old.page + 1, !.used = used]
    OBVIOUS
  <2>4. Proceed(c, b)
    BY <1>6 DEF ListPage
  <2>5. /\ b \in Batch /\ b.plan = old.plan /\ b.objects = old.objects /\ b.by = old.by
        /\ b.repo = old.repo /\ b.do = old.do /\ b.multipart = old.multipart /\ b.started = old.started
        /\ b.step = "list" /\ b.page = old.page + 1 /\ b.used = used
    BY <1>2, <2>1, <2>3 DEF Batch
  <2>6. Counts(PlaceOf(old.repo), old.started - 1, Seen(old.page), old.used)
    BY <1>1, <1>2, <2>1 DEF CountOK
  <2>7. Counts(PlaceOf(old.repo), old.started - 1, Seen(old.page + 1), used)
    BY <1>2, <2>1, <2>6, PageCounts
  <2>8. Counts(PlaceOf(b.repo), b.started - 1, Seen(b.page), b.used)
    BY <2>5, <2>7
  <2>9. QED BY <1>4, <2>1, <2>4, <2>5, <2>8
<1>7. CASE Finish(c)
  <2>1. CountOK(NoBatch) /\ BatchOK(NoBatch)
    BY DEF CountOK, BatchOK
  <2>2. Proceed(c, NoBatch)
    BY <1>7 DEF Finish
  <2>3. QED BY <1>1, <1>3, <2>1, <2>2, CountGoesOn
<1>8. QED BY <1>5, <1>6, <1>7

\* A count that holds since some time holds since any time before.
LEMMA CountsSince ==
  ASSUME ServerTypes, NEW p \in Place, NEW h \in Int, NEW g \in Int, g <= h, NEW n \in Nat, Counts(p, h, Oid, n)
  PROVE  /\ Counts(p, g, Oid, n)
         /\ Sum(Size, SettledAt(p, g)) <= n /\ n <= Sum(Size, PossibleAt(p, g))
<1> PICK A \in SUBSET Oid, B \in SUBSET Oid, C \in SUBSET Oid, D \in SUBSET Oid :
      A = SettledAt(p, g) /\ B = SettledAt(p, h) /\ C = PossibleAt(p, h) /\ D = PossibleAt(p, g)
  BY DEF SettledAt, PossibleAt
<1>1. \A o \in Oid : since[p][o] \in Int /\ left[p][o] \in Int
  <2>1. Moment \subseteq Int /\ Never \in Int
    BY Deployed DEF Moment, Never
  <2>2. /\ since \in [Place -> [Oid -> Moment \cup {Never}]]
        /\ left \in [Place -> [Oid -> Moment \cup {Never}]]
    BY DEF ServerTypes
  <2>3. QED BY <2>1, <2>2
<1>2. A \subseteq B /\ C \subseteq D
  <2>1. A \subseteq B
    BY <1>1 DEF SettledAt
  <2>2. C \subseteq D
    BY <1>1 DEF PossibleAt
  <2>3. QED BY <2>1, <2>2
<1>3. /\ Sum(Size, A) \in Nat /\ Sum(Size, B) \in Nat /\ Sum(Size, A) <= Sum(Size, B)
      /\ Sum(Size, C) \in Nat /\ Sum(Size, D) \in Nat /\ Sum(Size, C) <= Sum(Size, D)
  BY <1>2, SizesMore
<1>4. A \cap Oid = A /\ B \cap Oid = B /\ C \cap Oid = C /\ D \cap Oid = D
  OBVIOUS
<1>5. Sum(Size, B) <= n /\ n <= Sum(Size, C)
  BY <1>4 DEF Counts
<1>6. Sum(Size, A) <= n /\ n <= Sum(Size, D)
  BY <1>3, <1>5
<1>7. QED BY <1>4, <1>6 DEF Counts

\* The answer: a count that was remembered or made is recent enough.
LEMMA AnswerQuota ==
  ASSUME ServerInv, QuotaInv, NEW c \in Busy, AnswerAll(c) \/ AnswerRemembered(c) \/ AnswerListed(c), ServerInv'
  PROVE  QuotaInv'
<1> PICK old : old = batches[c]
  OBVIOUS
<1>1. c \in Slot /\ old # NoBatch /\ UNCHANGED <<scene, clock, since, left>>
  BY DEF Busy, AnswerAll, AnswerRemembered, AnswerListed, bucket
<1>2. /\ old \in Batch /\ BatchOK(old) /\ CountOK(old) /\ env \in Environment /\ ServerTypes
      /\ DOMAIN old.plan = DOMAIN old.objects /\ ~Misconfigured(env)
  <2>1. old \in Batch /\ BatchOK(old) /\ CountOK(old) /\ env \in Environment /\ ServerTypes
    BY <1>1, BatchOf DEF QuotaInv, ServerInv
  <2>2. QED BY <1>1, <2>1 DEF BatchOK
<1> PICK p \in Place : p = PlaceOf(old.repo)
  BY <1>2, PlaceThere DEF Batch
<1>3. /\ clock \in Nat /\ old.started \in Nat /\ old.used \in Nat /\ old.isolate \in Isolates
      /\ old.started <= clock /\ clock <= old.started + Longest
      /\ TTL \in Nat \ {0} /\ Longest \in Nat
  <2>1. Moment \subseteq Nat /\ clock \in Moment
    BY <1>2, Deployed DEF Moment, ServerTypes
  <2>2. QED BY <1>1, <1>2, <2>1, TTLAssumption DEF Batch, CountOK
<1> PICK horizon \in Int : horizon = Horizon(old)
  BY <1>3 DEF Horizon
<1>4. horizon = old.started - TTL - Longest /\ Settled(old) = SettledAt(p, horizon) /\ Possible(old) = PossibleAt(p, horizon)
  BY DEF Settled, Possible, SettledAt, PossibleAt, Horizon
<1>5. old.step \in {"plan", "list"} /\ \A k \in DOMAIN old.plan : old.plan[k] # "over"
  <2>1. old.step \in {"plan", "list"}
    BY DEF AnswerAll, AnswerRemembered, AnswerListed, Planned
  <2>2. QED BY <1>1, <1>2, <2>1 DEF CountOK
<1>6. ASSUME NEW plan, AnswerWith(c, old, plan),
             NEW b, b = [old EXCEPT !.step = "answered", !.plan = plan],
             Counted(old) => Fits(b),
             \A i \in Isolates, q \in Place :
               usage'[i][q] \in [bytes : Nat, expires : Nat] /\ UsageOK(q, usage'[i][q])
      PROVE  QuotaInv'
  <2>1. Proceed(c, b)
    BY <1>6 DEF AnswerWith
  <2>2. b.step = "answered" /\ b.started = old.started /\ b.do = old.do
    BY <1>2, <1>6 DEF Batch
  <2>3. CountOK(b)
    BY <1>3, <1>6, <2>2 DEF CountOK, Counted
  <2>4. batches'[c] = b
    BY <1>1, <1>2, <2>1 DEF ServerTypes, Proceed
  <2>5. env' = env /\ Batch' = Batch
    BY <1>1, SceneStays
  <2>6. batches'[c] \in Batch' \cup {NoBatch}
    BY <1>1 DEF ServerInv, ServerTypes
  <2>7. BatchOK(batches[c])'
    BY <1>1 DEF ServerInv
  <2>8. BatchOK(b)
    BY <2>4, <2>5, <2>7 DEF BatchOK, Entitled, Offered
  <2>9. QED BY <1>1, <1>6, <2>1, <2>3, <2>4, <2>5, <2>6, <2>8, CountGoesOn
<1>7. ASSUME NEW used \in Nat, NEW h \in Int, horizon <= h, Counts(p, h, Oid, used), Counted(old),
             NEW b, b = [old EXCEPT !.step = "answered", !.plan = WithinQuota(old, used)]
      PROVE  Fits(b)
  <2>1. Sum(Size, Settled(old)) <= used /\ used <= Sum(Size, Possible(old))
    BY <1>2, <1>4, <1>7, CountsSince
  <2>2. env.QUOTA_GB # {}
    BY <1>7 DEF Counted
  <2>3. QED BY <1>2, <1>5, <1>7, <2>1, <2>2, AnswerFits
<1>8. CASE AnswerAll(c)
  <2> PICK plan : plan = old.plan
    OBVIOUS
  <2>1. AnswerWith(c, old, plan) /\ ~Counted(old) /\ usage' = usage
    BY <1>8 DEF AnswerAll
  <2>2. \A i \in Isolates, q \in Place :
          usage'[i][q] \in [bytes : Nat, expires : Nat] /\ UsageOK(q, usage'[i][q])
    BY <2>1, Remembered
  <2> PICK b : b = [old EXCEPT !.step = "answered", !.plan = plan]
    OBVIOUS
  <2>3. QED BY <1>6, <2>1, <2>2
<1>9. CASE AnswerRemembered(c)
  <2> PICK u : u = usage[old.isolate][p]
    OBVIOUS
  <2> PICK plan : plan = WithinQuota(old, u.bytes)
    OBVIOUS
  <2>1. AnswerWith(c, old, plan) /\ Counted(old) /\ u.expires > clock /\ usage' = usage
    BY <1>9 DEF AnswerRemembered, Fresh
  <2>2. \A i \in Isolates, q \in Place :
          usage'[i][q] \in [bytes : Nat, expires : Nat] /\ UsageOK(q, usage'[i][q])
    BY <2>1, Remembered
  <2>3. u.bytes \in Nat /\ u.expires \in Nat /\ UsageOK(p, u)
    <3>1. u \in [bytes : Nat, expires : Nat] /\ UsageOK(p, u)
      BY <1>1, <1>3, Remembered
    <3>2. QED BY <3>1
  <2> PICK h : h = u.expires - TTL - Longest - 1
    OBVIOUS
  <2>4. h \in Int /\ horizon <= h
    <3> PICK e \in Nat : e = u.expires
      BY <2>3
    <3>1. clock < e /\ h = e - TTL - Longest - 1
      BY <1>3, <2>1
    <3>2. QED BY <1>3, <1>4, <3>1
  <2>5. Counts(p, h, Oid, u.bytes)
    <3>1. u.expires > 0
      BY <1>3, <2>1, <2>3
    <3>2. QED BY <2>3, <3>1 DEF UsageOK
  <2> PICK b : b = [old EXCEPT !.step = "answered", !.plan = plan]
    OBVIOUS
  <2>6. Fits(b)
    BY <1>7, <2>1, <2>3, <2>4, <2>5
  <2>7. QED BY <1>6, <2>1, <2>2, <2>6
<1>10. CASE AnswerListed(c)
  <2> PICK used \in Nat : used = old.used
    BY <1>3
  <2> PICK plan : plan = WithinQuota(old, used)
    OBVIOUS
  <2> PICK remembered : remembered = [bytes |-> used, expires |-> clock + TTL]
    OBVIOUS
  <2>1. /\ AnswerWith(c, old, plan) /\ old.step = "list" /\ old.page > Len(Order)
        /\ usage' = [usage EXCEPT ![old.isolate][p] = remembered]
    BY <1>10 DEF AnswerListed
  <2>2. Seen(old.page) = Oid
    <3>1. DOMAIN Order = 1..Len(Order) /\ Len(Order) \in Nat /\ old.page \in Nat
      BY <1>2, ListAssumption DEF Batch
    <3>2. \A j \in DOMAIN Order : j < old.page
      BY <2>1, <3>1
    <3>3. QED BY <3>2, ListAssumption DEF Seen
  <2> PICK h \in Int : h = old.started - 1
    BY <1>3
  <2>3. Counts(p, h, Oid, used) /\ horizon <= h
    <3>1. Counts(p, h, Oid, used)
      BY <1>1, <1>2, <2>1, <2>2 DEF CountOK
    <3>2. QED BY <1>3, <1>4, <3>1
  <2> PICK g \in Int : g = clock - Longest - 1
    BY <1>3
  <2>4. Counts(p, g, Oid, used)
    <3>1. g <= h
      BY <1>3
    <3>2. QED BY <1>2, <2>3, <3>1, CountsSince
  <2>5. remembered \in [bytes : Nat, expires : Nat] /\ UsageOK(p, remembered)
    <3>1. clock + TTL \in Nat /\ clock + TTL - TTL - Longest - 1 = g /\ clock + TTL <= clock + TTL
      BY <1>3
    <3>2. remembered.bytes = used /\ remembered.expires = clock + TTL
      OBVIOUS
    <3>3. remembered.expires - TTL - Longest - 1 = g
      BY <1>3, <3>1, <3>2
    <3>4. Counts(p, remembered.expires - TTL - Longest - 1, Oid, remembered.bytes)
      BY <2>4, <3>2, <3>3
    <3>5. UsageOK(p, remembered)
      BY <3>1, <3>2, <3>4 DEF UsageOK
    <3>6. remembered \in [bytes : Nat, expires : Nat]
      BY <3>1
    <3>7. QED BY <3>5, <3>6
  <2>6. \A i \in Isolates, q \in Place :
          usage'[i][q] \in [bytes : Nat, expires : Nat] /\ UsageOK(q, usage'[i][q])
    <3>1. \A i \in Isolates, q \in Place :
            usage'[i][q] = IF i = old.isolate /\ q = p THEN remembered ELSE usage[i][q]
      BY <1>2, <1>3, <2>1 DEF ServerTypes
    <3>2. QED BY <2>5, <3>1, Remembered
  <2> PICK b : b = [old EXCEPT !.step = "answered", !.plan = plan]
    OBVIOUS
  <2>7. Counted(old) => Fits(b)
    BY <1>7, <2>3
  <2>8. QED BY <1>6, <2>1, <2>6, <2>7
<1>11. QED BY <1>8, <1>9, <1>10

LEMMA QuotaStep == ServerInv /\ QuotaInv /\ [ServerNext]_serverVars /\ ServerInv' => QuotaInv'
<1> SUFFICES ASSUME ServerInv, QuotaInv, [ServerNext]_serverVars, ServerInv' PROVE QuotaInv'
  OBVIOUS
<1>1. CASE \E a \in scene.who, r \in Repo : \E shown \in Shown(a), q \in scene.asks :
             Handle(a, r, shown, q) \/ OpenSession(a, r, shown, q)
  BY <1>1, WorldQuota
<1>2. CASE \E a \in scene.who, r \in Repo : \E shown \in Shown(a), q \in scene.asks :
             \E c \in scene.calls, i \in Isolates, objects \in scene.lists, offered \in BOOLEAN :
               StartBatch(c, a, r, i, shown, q, objects, offered)
  BY <1>2, PlanQuota
<1>3. CASE (\E t \in held : FollowLink(t) \/ Expire(t)) \/ Later \/ UNCHANGED serverVars
  BY <1>3, WorldQuota
<1>4. CASE \E c \in Busy : \E k \in DOMAIN batches[c].plan : LookUp(c, k) \/ AskMarker(c, k)
  BY <1>4, PlanQuota
<1>5. CASE \E c \in Busy : AnswerAll(c) \/ AnswerRemembered(c) \/ AnswerListed(c)
  BY <1>5, AnswerQuota
<1>6. CASE \E c \in Busy : StartListing(c) \/ ListPage(c) \/ Finish(c)
  BY <1>6, ListQuota
<1>7. CASE \E i \in Isolates : Restart(i)
  BY <1>7, ForgetQuota
<1>8. QED BY <1>1, <1>2, <1>3, <1>4, <1>5, <1>6, <1>7 DEF ServerNext

\* Whatever other isolates and batches do meanwhile, a batch's answer keeps to the quota as
\* far as it can know: what it grants fits beside what has long been there, and what it
\* refuses does not fit beside all that may be.
THEOREM QuotaIsKept == ServerSpec => []QuotaHolds
<1>1. ServerInit => QuotaInv
  BY QuotaInitInv
<1>2. ServerInv /\ QuotaInv /\ [ServerNext]_serverVars /\ ServerInv' => QuotaInv'
  BY QuotaStep
<1>3. ServerSpec => [](ServerInv /\ QuotaInv)
  BY <1>1, <1>2, ServerInductive, PTL DEF ServerSpec
<1>4. QED BY <1>3, QuotaInvHolds, PTL
=============================================================================
