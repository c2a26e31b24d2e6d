-------------------------- MODULE SessionKeyProofs --------------------------
(***************************************************************************)
(* A deleted key lives on for RotationRevokes' Bound, whatever the number  *)
(* of isolates, requests and keys.                                         *)
(*                                                                         *)
(* A key somebody holds is the one in the bucket, or was deleted not       *)
(* before some time: a request that read it holds it since it started, an  *)
(* isolate remembers it for KeyTTL from Patience after that at most.       *)
(***************************************************************************)
EXTENDS SessionKey, TLAPS

\* In the bucket, or deleted at t or later.
Live(k, t) == k \in Key /\ (k = secret \/ (retired[k] # Never /\ t <= retired[k]))

InTime(r) == r.started <= now /\ now <= r.started + Patience

Holds(r) ==
  /\ r.step = "import" => Live(r.raw, r.started)
  /\ r.step = "use" => Live(r.raw, r.started - KeyTTL - Patience + 1)
  /\ r.step = "taken" => Live(r.shown, r.started - KeyTTL - Patience + 1)
  /\ r.step = "unsigned" =>
       r.raw # r.shown /\ Live(r.raw, r.started - KeyTTL - Patience + 1)
  /\ r.op = "verify" => r.shown \in Key

CallOK(c) == call[c] # Idle => InTime(call[c]) /\ Holds(call[c])

CopyOK(i) ==
  /\ cached[i].expires <= now + KeyTTL
  /\ cached[i].key # None => Live(cached[i].key, cached[i].expires - KeyTTL - Patience)

Inv ==
  /\ TypeOK
  /\ \A c \in Call : CallOK(c)
  /\ \A i \in Isolate : CopyOK(i)
  /\ secret # None => retired[secret] = Never

Steps == {"key", "put", "reread", "import", "use", "taken", "unsigned", "delete", "clear"}

-----------------------------------------------------------------------------
(* Types. *)

\* A request that takes a step stays a request.
LEMMA Stepped ==
  ASSUME NEW r \in Request, NEW s \in Steps
  PROVE  /\ [r EXCEPT !.step = s] \in Request
         /\ [r EXCEPT !.step = s] # Idle
         /\ [r EXCEPT !.step = s].step = s
         /\ [r EXCEPT !.step = s].op = r.op
         /\ [r EXCEPT !.step = s].isolate = r.isolate
         /\ [r EXCEPT !.step = s].started = r.started
         /\ [r EXCEPT !.step = s].shown = r.shown
         /\ [r EXCEPT !.step = s].raw = r.raw
BY DEF Request, Idle, Steps

-----------------------------------------------------------------------------
(* A step of one request leaves what others hold. *)

\* How the bucket and what is known of deleted keys change.
Turn ==
  \/ secret' = secret /\ retired' = retired
  \/ secret = None /\ retired' = retired /\ retired[secret'] = Never
  \/ secret' = None /\ retired' = IF secret = None THEN retired ELSE [retired EXCEPT ![secret] = now]

\* Live after the step.
LiveNext(k, t) == k \in Key /\ (k = secret' \/ (retired'[k] # Never /\ t <= retired'[k]))

\* What is live stays so: only the key in the bucket is deleted, and not before now.
LEMMA LiveKept ==
  ASSUME TypeOK, Turn
  PROVE  \A k : \A t \in Int : t <= now /\ Live(k, t) => LiveNext(k, t)
BY KeyAssumption DEF TypeOK, Turn, Live, LiveNext, Time, Never

\* The clock is a number.
LEMMA Numbers ==
  ASSUME TypeOK
  PROVE  /\ now \in Nat
         /\ KeyTTL \in Nat /\ KeyTTL > 0 /\ Patience \in Nat
         /\ \A c \in Call : call[c] # Idle => call[c] \in Request /\ call[c].started \in Nat
         /\ \A i \in Isolate : cached[i].expires \in Nat
BY TimeAssumption DEF TypeOK, Time, Request, Copy

\* A request that does nothing holds what it held.
LEMMA CallKept ==
  ASSUME TypeOK, Turn, now' = now, NEW d \in Call, CallOK(d), call'[d] = call[d]
  PROVE  CallOK(d)'
<1>1. SUFFICES ASSUME call[d] # Idle PROVE (InTime(call[d]) /\ Holds(call[d]))'
  BY DEF CallOK, Idle
<1>2. InTime(call[d]) /\ Holds(call[d]) /\ call[d].started \in Nat
  BY <1>1, Numbers DEF CallOK
<1> DEFINE t == call[d].started - KeyTTL - Patience + 1
<1>3. t \in Int /\ call[d].started <= now /\ t <= now
  BY <1>2, Numbers DEF InTime
<1>4. /\ Live(call[d].raw, call[d].started) => LiveNext(call[d].raw, call[d].started)
      /\ Live(call[d].raw, t) => LiveNext(call[d].raw, t)
      /\ Live(call[d].shown, t) => LiveNext(call[d].shown, t)
  <2> HIDE DEF t
  <2> QED BY <1>2, <1>3, LiveKept
<1>5. InTime(call[d])'
  BY <1>2 DEF InTime
<1>6. Holds(call[d])'
  BY <1>2, <1>4 DEF Holds, Live, LiveNext
<1> QED BY <1>5, <1>6

\* And an isolate its copy.
LEMMA CopyKept ==
  ASSUME TypeOK, Turn, now' = now, NEW i \in Isolate, CopyOK(i), cached'[i] = cached[i]
  PROVE  CopyOK(i)'
<1> DEFINE t == cached[i].expires - KeyTTL - Patience
<1>1. t \in Int /\ t <= now
  BY Numbers DEF CopyOK
<1>2. Live(cached[i].key, t) => LiveNext(cached[i].key, t)
  <2> HIDE DEF t
  <2> QED BY <1>1, LiveKept
<1> QED BY <1>2 DEF CopyOK, Live, LiveNext

\* So a step of one request keeps the invariant if it and its isolate's copy are fine.
LEMMA Preserved ==
  ASSUME Inv, TypeOK', Turn, now' = now,
         NEW c \in Call, CallOK(c)', \A d \in Call \ {c} : call'[d] = call[d],
         \A i \in Isolate : cached'[i] = cached[i] \/ CopyOK(i)'
  PROVE  Inv'
<1>1. \A d \in Call : CallOK(d)'
  <2> SUFFICES ASSUME NEW d \in Call, d # c PROVE CallOK(d)'
    OBVIOUS
  <2> QED BY CallKept DEF Inv
<1>2. \A i \in Isolate : CopyOK(i)'
  BY CopyKept DEF Inv
<1>3. (secret # None => retired[secret] = Never)'
  BY DEF Turn, Inv
<1> QED BY <1>1, <1>2, <1>3 DEF Inv

-----------------------------------------------------------------------------
(* One lemma per step. *)

LEMMA BeginKeeps ==
  ASSUME Inv, NEW c \in Call, NEW i \in Isolate, Ask(c, i)
  PROVE  Inv'
<1>1. PICK op \in {"mint", "verify", "rotate"}, k \in Key \cup {None} :
        Begin(c, i, op, k) /\ (op = "verify" => k \in Key)
  BY DEF Ask, Inv, TypeOK
<1> DEFINE r == [op |-> op, isolate |-> i, started |-> now, shown |-> k, raw |-> None,
                 step |-> IF op = "rotate" THEN "delete" ELSE "key"]
<1>2. r \in Request /\ r # Idle /\ r.started = now /\ r.step \in {"delete", "key"}
      /\ (r.op = "verify" => r.shown \in Key)
  BY <1>1 DEF Request, Idle, Inv, TypeOK
<1>3. call' = [call EXCEPT ![c] = r] /\ UNCHANGED <<now, secret, retired, cached, signed>>
  BY <1>1 DEF Begin
<1> HIDE DEF r
<1>4. call'[c] = r /\ \A d \in Call \ {c} : call'[d] = call[d]
  BY <1>3 DEF Inv, TypeOK
<1>5. TypeOK'
  BY <1>2, <1>3 DEF Inv, TypeOK
<1>6. CallOK(c)'
  BY <1>2, <1>3, <1>4, Numbers DEF CallOK, InTime, Holds, Inv
<1> QED BY <1>3, <1>4, <1>5, <1>6, Preserved DEF Turn

LEMMA CachedKeyKeeps ==
  ASSUME Inv, NEW c \in Call, CachedKey(c)
  PROVE  Inv'
<1> DEFINE i == call[c].isolate
           k == cached[i].key
           r == [call[c] EXCEPT !.step = "use", !.raw = k]
<1>1. call[c] \in Request /\ i \in Isolate /\ k \in Key /\ k # None
      /\ cached[i].expires \in Nat /\ cached[i].expires > now
  BY Numbers, KeyAssumption DEF Inv, TypeOK, Copy, CachedKey, At, Fresh, Here, Request
<1>2. call' = [call EXCEPT ![c] = r] /\ UNCHANGED <<now, secret, retired, cached, signed>>
  BY DEF CachedKey, Here, Inv, TypeOK
<1>3. Live(k, cached[i].expires - KeyTTL - Patience)
  BY <1>1 DEF Inv, CopyOK
<1> HIDE DEF k, i
<1>4. /\ r \in Request /\ r # Idle /\ r.step = "use" /\ r.op = call[c].op
      /\ r.started = call[c].started /\ r.shown = call[c].shown /\ r.raw = k
  BY <1>1 DEF Request, Idle, Steps
<1> HIDE DEF r
<1>5. call'[c] = r /\ \A d \in Call \ {c} : call'[d] = call[d]
  BY <1>2 DEF Inv, TypeOK
<1>6. TypeOK'
  BY <1>2, <1>4 DEF Inv, TypeOK
<1>7. InTime(call[c]) /\ Holds(call[c]) /\ call[c].started \in Nat
  BY Numbers, <1>1 DEF Inv, CallOK, CachedKey, At
<1>8. LET t == call[c].started - KeyTTL - Patience + 1 IN Live(k, t)
  BY <1>1, <1>3, <1>7, Numbers DEF Inv, InTime, Live, TypeOK, Time, Never
<1>9. CallOK(c)'
  BY <1>2, <1>4, <1>5, <1>7, <1>8 DEF CallOK, InTime, Holds, Live
<1> QED BY <1>2, <1>5, <1>6, <1>9, Preserved DEF Turn

LEMMA ReadKeyKeeps ==
  ASSUME Inv, NEW c \in Call, ReadKey(c)
  PROVE  Inv'
<1> DEFINE next == IF secret = None THEN "put" ELSE "import"
           r == [call[c] EXCEPT !.step = next, !.raw = secret]
<1>1. call[c] \in Request /\ secret \in Key \cup {None} /\ next \in Steps
      /\ (next = "import" => secret \in Key) /\ next \in {"put", "import"}
  BY Numbers DEF Inv, TypeOK, ReadKey, At, Steps
<1>2. call' = [call EXCEPT ![c] = r] /\ UNCHANGED <<now, secret, retired, cached, signed>>
  BY DEF ReadKey, Inv, TypeOK
<1> HIDE DEF next
<1>4. /\ r \in Request /\ r # Idle /\ r.step = next /\ r.op = call[c].op
      /\ r.started = call[c].started /\ r.shown = call[c].shown /\ r.raw = secret
  BY <1>1 DEF Request, Idle, Steps
<1> HIDE DEF r
<1>5. call'[c] = r /\ \A d \in Call \ {c} : call'[d] = call[d]
  BY <1>2 DEF Inv, TypeOK
<1>6. TypeOK'
  BY <1>2, <1>4 DEF Inv, TypeOK
<1>7. InTime(call[c]) /\ Holds(call[c])
  BY DEF Inv, CallOK, ReadKey, At
<1>9. CallOK(c)'
  BY <1>1, <1>2, <1>4, <1>5, <1>7 DEF CallOK, InTime, Holds, Live
<1> QED BY <1>2, <1>5, <1>6, <1>9, Preserved DEF Turn

LEMMA CreateKeyKeeps ==
  ASSUME Inv, NEW c \in Call, CreateKey(c)
  PROVE  Inv'
<1>0. call[c] \in Request /\ InTime(call[c]) /\ Holds(call[c])
  BY Numbers DEF Inv, CallOK, CreateKey, At
<1>1. CASE ~MayCreate
  <2> DEFINE r == [call[c] EXCEPT !.step = "reread"]
  <2>1. call' = [call EXCEPT ![c] = r] /\ UNCHANGED <<now, secret, retired, cached, signed>>
    BY <1>1 DEF CreateKey, Go, Inv, TypeOK
  <2>2. /\ r \in Request /\ r # Idle /\ r.step = "reread" /\ r.op = call[c].op
        /\ r.started = call[c].started /\ r.shown = call[c].shown
    BY <1>0, Stepped DEF Steps
  <2> HIDE DEF r
  <2>3. call'[c] = r /\ \A d \in Call \ {c} : call'[d] = call[d]
    BY <2>1 DEF Inv, TypeOK
  <2>4. TypeOK'
    BY <2>1, <2>2 DEF Inv, TypeOK
  <2>5. CallOK(c)'
    BY <1>0, <2>1, <2>2, <2>3 DEF CallOK, InTime, Holds
  <2> QED BY <2>1, <2>3, <2>4, <2>5, Preserved DEF Turn
<1>2. CASE MayCreate
  <2>1. PICK k \in NewKey :
          secret' = k /\ call' = [call EXCEPT ![c].raw = k, ![c].step = "import"]
    BY <1>2 DEF CreateKey
  <2> DEFINE r == [call[c] EXCEPT !.step = "import", !.raw = k]
  <2>2. k \in Key /\ secret = None /\ retired[k] = Never /\ UNCHANGED <<now, retired, cached, signed>>
        /\ call' = [call EXCEPT ![c] = r]
    BY <1>2, <2>1 DEF NewKey, MayCreate, CreateKey, Inv, TypeOK
  <2>3. /\ r \in Request /\ r # Idle /\ r.step = "import" /\ r.op = call[c].op
        /\ r.started = call[c].started /\ r.shown = call[c].shown /\ r.raw = k
    BY <1>0, <2>2 DEF Request, Idle, Steps
  <2> HIDE DEF r
  <2>4. call'[c] = r /\ \A d \in Call \ {c} : call'[d] = call[d]
    BY <2>2 DEF Inv, TypeOK
  <2>5. TypeOK'
    BY <2>1, <2>2, <2>3 DEF Inv, TypeOK
  <2>6. CallOK(c)'
    BY <1>0, <2>1, <2>2, <2>3, <2>4 DEF CallOK, InTime, Holds, Live
  <2> QED BY <2>1, <2>2, <2>4, <2>5, <2>6, Preserved DEF Turn
<1> QED BY <1>1, <1>2

LEMMA RereadKeyKeeps ==
  ASSUME Inv, NEW c \in Call, RereadKey(c)
  PROVE  Inv'
<1>0. call[c] \in Request /\ InTime(call[c]) /\ Holds(call[c])
  BY Numbers DEF Inv, CallOK, RereadKey, At
<1>1. CASE secret = None
  <2>1. call' = [call EXCEPT ![c] = Idle] /\ UNCHANGED <<now, secret, retired, cached, signed>>
    BY <1>1 DEF RereadKey
  <2>2. call'[c] = Idle /\ TypeOK' /\ \A d \in Call \ {c} : call'[d] = call[d]
    BY <2>1 DEF Inv, TypeOK
  <2> QED BY <2>1, <2>2, Preserved DEF Turn, CallOK, Idle
<1>2. CASE secret # None
  <2> DEFINE r == [call[c] EXCEPT !.step = "import", !.raw = secret]
  <2>1. call' = [call EXCEPT ![c] = r] /\ UNCHANGED <<now, secret, retired, cached, signed>>
        /\ secret \in Key
    BY <1>2 DEF RereadKey, Inv, TypeOK
  <2>2. /\ r \in Request /\ r # Idle /\ r.step = "import" /\ r.op = call[c].op
        /\ r.started = call[c].started /\ r.shown = call[c].shown /\ r.raw = secret
    BY <1>0, <2>1 DEF Request, Idle, Steps
  <2> HIDE DEF r
  <2>3. call'[c] = r /\ \A d \in Call \ {c} : call'[d] = call[d]
    BY <2>1 DEF Inv, TypeOK
  <2>4. TypeOK'
    BY <2>1, <2>2 DEF Inv, TypeOK
  <2>5. CallOK(c)'
    BY <1>0, <2>1, <2>2, <2>3 DEF CallOK, InTime, Holds, Live
  <2> QED BY <2>1, <2>3, <2>4, <2>5, Preserved DEF Turn
<1> QED BY <1>1, <1>2

LEMMA ImportKeyKeeps ==
  ASSUME Inv, NEW c \in Call, ImportKey(c)
  PROVE  Inv'
<1> DEFINE i == call[c].isolate
           k == call[c].raw
           r == [call[c] EXCEPT !.step = "use"]
           copy == [key |-> k, expires |-> now + KeyTTL]
<1>1. call[c] \in Request /\ InTime(call[c]) /\ Holds(call[c])
  BY Numbers DEF Inv, CallOK, ImportKey, At
<1>2. Live(k, call[c].started) /\ k \in Key /\ i \in Isolate
  BY <1>1 DEF Holds, ImportKey, At, Live, Request
<1>3. /\ call' = [call EXCEPT ![c] = r] /\ cached' = [cached EXCEPT ![i] = copy]
      /\ UNCHANGED <<now, secret, retired, signed>>
  BY DEF ImportKey, Go, Inv, TypeOK
<1> HIDE DEF i, k
<1>4. copy \in Copy /\ copy.key = k /\ copy.expires = now + KeyTTL
  BY <1>2, Numbers, TimeAssumption DEF Inv, Copy, TypeOK, Time
<1>5. /\ r \in Request /\ r # Idle /\ r.step = "use" /\ r.op = call[c].op
      /\ r.started = call[c].started /\ r.shown = call[c].shown /\ r.raw = k
  BY <1>1, Stepped DEF Steps, k
<1> HIDE DEF r, copy
<1>6. /\ call'[c] = r /\ \A d \in Call \ {c} : call'[d] = call[d]
      /\ cached'[i] = copy /\ \A j \in Isolate : j # i => cached'[j] = cached[j]
  BY <1>2, <1>3 DEF Inv, TypeOK
<1>7. TypeOK'
  BY <1>2, <1>3, <1>4, <1>5 DEF Inv, TypeOK
<1>8. call[c].started \in Nat /\ now \in Nat /\ KeyTTL \in Nat /\ KeyTTL > 0 /\ Patience \in Nat
  BY Numbers DEF Inv, ImportKey, At
<1>9. CallOK(c)'
  BY <1>1, <1>2, <1>3, <1>5, <1>6, <1>8
     DEF CallOK, InTime, Holds, Live, Inv, TypeOK, Time, Never
<1>10. Live(k, now + KeyTTL - KeyTTL - Patience)
  BY <1>1, <1>2, <1>8 DEF InTime, Live, Inv, TypeOK, Time, Never
<1>11. ASSUME NEW j \in Isolate PROVE cached'[j] = cached[j] \/ CopyOK(j)'
  <2>1. CASE j # i
    BY <2>1, <1>6
  <2>2. CASE j = i
    BY <2>2, <1>3, <1>4, <1>6, <1>8, <1>10 DEF CopyOK, Live
  <2> QED BY <2>1, <2>2
<1> QED BY <1>3, <1>6, <1>7, <1>9, <1>11, Preserved DEF Turn

\* A request that is over leaves no trace but what it did to the bucket or a cache.
LEMMA OverKeeps ==
  ASSUME Inv, NEW c \in Call, call' = [call EXCEPT ![c] = Idle],
         UNCHANGED <<now, secret, retired>>, signed' \in SUBSET Key,
         cached' \in [Isolate -> Copy],
         \A i \in Isolate : cached'[i] = cached[i] \/ cached'[i] = Empty
  PROVE  Inv'
<1>1. call'[c] = Idle /\ TypeOK' /\ \A d \in Call \ {c} : call'[d] = call[d]
  BY DEF Inv, TypeOK
<1>2. CallOK(c)'
  BY <1>1 DEF CallOK
<1>3. \A i \in Isolate : cached'[i] = cached[i] \/ CopyOK(i)'
  BY Numbers DEF CopyOK, Empty, Inv
<1> QED BY <1>1, <1>2, <1>3, Preserved DEF Turn

LEMMA MintKeeps ==
  ASSUME Inv, NEW c \in Call, Mint(c)
  PROVE  Inv'
<1>1. call[c].raw \in Key
  BY DEF Inv, CallOK, Mint, At, Holds, Live
<1> QED BY <1>1, OverKeeps DEF Mint, Inv, TypeOK

LEMMA AnswerKeeps ==
  ASSUME Inv, NEW c \in Call, Answer(c)
  PROVE  Inv'
BY OverKeeps DEF Answer, Inv, TypeOK

LEMMA ClearCacheKeeps ==
  ASSUME Inv, NEW c \in Call, ClearCache(c)
  PROVE  Inv'
<1>1. Empty \in Copy
  BY TimeAssumption DEF Empty, Copy
<1> QED BY <1>1, OverKeeps DEF ClearCache, Inv, TypeOK

LEMMA VerifyKeeps ==
  ASSUME Inv, NEW c \in Call, Verify(c)
  PROVE  Inv'
<1> DEFINE next == IF call[c].shown = call[c].raw THEN "taken" ELSE "unsigned"
           r == [call[c] EXCEPT !.step = next]
<1>1. call[c] \in Request /\ InTime(call[c]) /\ Holds(call[c])
  BY Numbers DEF Inv, CallOK, Verify, At
<1>2. call' = [call EXCEPT ![c] = r] /\ UNCHANGED <<now, secret, retired, cached, signed>>
  BY DEF Verify, Go, Inv, TypeOK
<1>3. /\ next \in Steps /\ next \in {"taken", "unsigned"}
      /\ (next = "taken" => call[c].shown = call[c].raw)
      /\ (next = "unsigned" => call[c].shown # call[c].raw)
  BY DEF Steps
<1> HIDE DEF next
<1>4. /\ r \in Request /\ r # Idle /\ r.step = next /\ r.op = call[c].op
      /\ r.started = call[c].started /\ r.shown = call[c].shown /\ r.raw = call[c].raw
  BY <1>1, <1>3, Stepped
<1> HIDE DEF r
<1>5. call'[c] = r /\ \A d \in Call \ {c} : call'[d] = call[d]
  BY <1>2 DEF Inv, TypeOK
<1>6. TypeOK'
  BY <1>2, <1>4 DEF Inv, TypeOK
<1>7. CallOK(c)'
  BY <1>1, <1>2, <1>3, <1>4, <1>5 DEF CallOK, InTime, Holds, Live, Verify, At
<1> QED BY <1>2, <1>5, <1>6, <1>7, Preserved DEF Turn

LEMMA DeleteKeyKeeps ==
  ASSUME Inv, NEW c \in Call, DeleteKey(c)
  PROVE  Inv'
<1> DEFINE r == [call[c] EXCEPT !.step = "clear"]
<1>1. call[c] \in Request /\ InTime(call[c]) /\ Holds(call[c])
  BY Numbers DEF Inv, CallOK, DeleteKey, At
<1>2. call' = [call EXCEPT ![c] = r] /\ UNCHANGED <<now, cached, signed>> /\ secret' = None
      /\ retired' = IF secret = None THEN retired ELSE [retired EXCEPT ![secret] = now]
  BY DEF DeleteKey, Go, Inv, TypeOK
<1>4. /\ r \in Request /\ r # Idle /\ r.step = "clear" /\ r.op = call[c].op
      /\ r.started = call[c].started /\ r.shown = call[c].shown
  BY <1>1, Stepped DEF Steps
<1> HIDE DEF r
<1>5. call'[c] = r /\ \A d \in Call \ {c} : call'[d] = call[d]
  BY <1>2 DEF Inv, TypeOK
<1>6. TypeOK'
  BY <1>2, <1>4 DEF Inv, TypeOK
<1>7. CallOK(c)'
  BY <1>1, <1>2, <1>4, <1>5 DEF CallOK, InTime, Holds
<1> QED BY <1>2, <1>5, <1>6, <1>7, Preserved DEF Turn

LEMMA EvictKeeps ==
  ASSUME Inv, NEW i \in Isolate, Evict(i)
  PROVE  Inv'
<1>1. Empty \in Copy
  BY TimeAssumption DEF Empty, Copy
<1>2. TypeOK'
  BY <1>1 DEF Evict, Inv, TypeOK
<1>3. \A d \in Call : CallOK(d)'
  BY CallKept DEF Inv, Evict, Turn
<1>4. CopyOK(i)'
  BY Numbers DEF Evict, CopyOK, Empty, Inv, TypeOK
<1>5. \A j \in Isolate : j # i => CopyOK(j)'
  BY CopyKept DEF Inv, Evict, Turn, TypeOK
<1> QED BY <1>2, <1>3, <1>4, <1>5 DEF Inv, Evict

LEMMA TickKeeps ==
  ASSUME Inv, Tick
  PROVE  Inv'
<1>1. TypeOK'
  BY TimeAssumption DEF Tick, Inv, TypeOK, Time
<1>2. ASSUME NEW d \in Call PROVE CallOK(d)'
  <2> SUFFICES ASSUME call[d] # Idle PROVE (InTime(call[d]) /\ Holds(call[d]))'
    BY DEF CallOK, Idle, Tick
  <2>1. InTime(call[d]) /\ Holds(call[d]) /\ call[d].started \in Nat
    BY Numbers DEF CallOK, Inv
  <2>2. InTime(call[d])'
    BY <2>1, Numbers DEF InTime, Tick, Inv
  <2>3. Holds(call[d])'
    BY <2>1 DEF Holds, Live, Tick
  <2> QED BY <2>2, <2>3
<1>3. ASSUME NEW i \in Isolate PROVE CopyOK(i)'
  BY Numbers DEF Inv, CopyOK, Live, Tick
<1> QED BY <1>1, <1>2, <1>3 DEF Inv, Tick

-----------------------------------------------------------------------------
(* The theorems. *)

LEMMA InitInv ==
  ASSUME Init
  PROVE  Inv
<1>1. TypeOK
  BY TimeAssumption DEF Init, TypeOK, Time, Never, Empty, Copy, Idle
<1>2. (\A c \in Call : CallOK(c)) /\ \A i \in Isolate : CopyOK(i)
  BY TimeAssumption DEF Init, CallOK, CopyOK, Empty, Idle
<1> QED BY <1>1, <1>2 DEF Inv, Init

LEMMA NextInv ==
  ASSUME Inv, [Next]_vars
  PROVE  Inv'
<1>1. CASE \E c \in Call, i \in Isolate : Ask(c, i)
  BY <1>1, BeginKeeps
<1>2. CASE \E c \in Call : Step(c)
  BY <1>2, CachedKeyKeeps, ReadKeyKeeps, CreateKeyKeeps, RereadKeyKeeps, ImportKeyKeeps,
     MintKeeps, VerifyKeeps, AnswerKeeps, DeleteKeyKeeps, ClearCacheKeeps DEF Step
<1>3. CASE \E i \in Isolate : Evict(i)
  BY <1>3, EvictKeeps
<1>4. CASE Tick
  BY <1>4, TickKeeps
<1>5. CASE UNCHANGED vars
  <2>1. TypeOK' /\ (\A d \in Call : CallOK(d)') /\ \A i \in Isolate : CopyOK(i)'
    BY <1>5, CallKept, CopyKept DEF Inv, vars, Turn, TypeOK
  <2> QED BY <1>5, <2>1 DEF Inv, vars
<1> QED BY <1>1, <1>2, <1>3, <1>4, <1>5 DEF Next

\* Who holds a key holds the one in the bucket or one that was deleted a moment ago.
THEOREM KeyInvariant == Spec => []Inv
<1>1. Init => Inv
  BY InitInv
<1>2. Inv /\ [Next]_vars => Inv'
  BY NextInv
<1> QED BY <1>1, <1>2, PTL DEF Spec

\* The variables keep their types.
THEOREM KeyTyped == Spec => []TypeOK
<1>1. Inv => TypeOK
  BY DEF Inv
<1> QED BY <1>1, KeyInvariant, PTL

\* A deleted key has stopped opening anything after the time an isolate remembers it
\* and that of two requests.
THEOREM RotationIsComplete == Spec => []RotationRevokes
<1>1. ASSUME Inv PROVE RotationRevokes
  <2> SUFFICES ASSUME NEW c \in Call, At(c, "taken") PROVE ~Outlived(call[c].shown)
    BY DEF RotationRevokes
  <2> DEFINE t == call[c].started - KeyTTL - Patience + 1
  <2>1. InTime(call[c]) /\ Live(call[c].shown, t) /\ call[c].started \in Nat
    BY <1>1, Numbers DEF Inv, CallOK, Holds, At
  <2>2. call[c].shown \in Key
        /\ (retired[call[c].shown] = Never \/ t <= retired[call[c].shown])
    BY <2>1, <1>1, KeyAssumption DEF Live, Inv
  <2> QED BY <2>1, <2>2, <1>1, Numbers DEF Outlived, Bound, InTime, Inv, TypeOK, Time, Never
<1> QED BY <1>1, KeyInvariant, PTL

\* Whoever creates the key, everybody ends up with the same one.
THEOREM OneKey == Spec => []SameKeyEverywhere
<1>1. ASSUME Inv PROVE SameKeyEverywhere
  <2> SUFFICES ASSUME NEW c \in Call, At(c, "unsigned"), call[c].shown = secret
               PROVE  \E k \in Key : retired[k] # Never /\ ~Outlived(k)
    BY DEF SameKeyEverywhere
  <2> DEFINE t == call[c].started - KeyTTL - Patience + 1
             k == call[c].raw
  <2>1. InTime(call[c]) /\ Live(k, t) /\ k # secret /\ call[c].started \in Nat
    BY <1>1, Numbers DEF Inv, CallOK, Holds, At
  <2>2. k \in Key /\ retired[k] # Never /\ t <= retired[k]
    BY <2>1 DEF Live
  <2>3. ~Outlived(k)
    BY <2>1, <2>2, <1>1, Numbers DEF Outlived, Bound, InTime, Inv, TypeOK, Time, Never
  <2> QED BY <2>2, <2>3
<1> QED BY <1>1, KeyInvariant, PTL
=============================================================================
