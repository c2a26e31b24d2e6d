----------------------------- MODULE SessionKey -----------------------------
(***************************************************************************)
(* The key the Worker signs its short-lived tokens with: an object in the  *)
(* bucket, created by whoever needs it first and cached by every isolate   *)
(* of the Worker (src/infra/session-tokens.ts), until an administrator     *)
(* deletes it (src/infra/r2-session-key.ts), which revokes every token.    *)
(*                                                                         *)
(* A token is only the key it was signed with; when it expires is in       *)
(* Access.  Time passes in steps; no request takes longer than Patience.   *)
(***************************************************************************)
EXTENDS Integers

CONSTANTS
  Isolate, Call, Key,
  KeyTTL,       \* how long an isolate remembers the key
  Patience,     \* the longest a request takes
  MaxTime,      \* bound: the end of time
  None

ASSUME TimeAssumption == KeyTTL \in Nat \ {0} /\ Patience \in Nat /\ MaxTime \in Nat
ASSUME KeyAssumption == None \notin Key

VARIABLES
  now,
  secret,       \* the key object in the bucket
  retired,      \* when each key was deleted from the bucket
  cached,       \* each isolate's copy of the key
  signed,       \* the keys tokens were signed with
  call          \* what each request is doing

vars == <<now, secret, retired, cached, signed, call>>

Time == 0..MaxTime
Never == -1

Empty == [key |-> None, expires |-> 0]
Copy == [key : Key \cup {None}, expires : 0 .. MaxTime + KeyTTL]

Idle == [step |-> "idle"]
Request ==
  [op : {"mint", "verify", "rotate"}, isolate : Isolate, started : Time,
   shown : Key \cup {None}, raw : Key \cup {None},
   step : {"key", "put", "reread", "import", "use", "taken", "unsigned", "delete", "clear"}]

TypeOK ==
  /\ now \in Time
  /\ secret \in Key \cup {None}
  /\ retired \in [Key -> Time \cup {Never}]
  /\ cached \in [Isolate -> Copy]
  /\ signed \in SUBSET Key
  /\ call \in [Call -> Request \cup {Idle}]

Init ==
  /\ now = 0
  /\ secret = None
  /\ retired = [k \in Key |-> Never]
  /\ cached = [i \in Isolate |-> Empty]
  /\ signed = {}
  /\ call = [c \in Call |-> Idle]

-----------------------------------------------------------------------------
At(c, step) == call[c] # Idle /\ call[c].step = step
Go(c, step) == call' = [call EXCEPT ![c].step = step]
Here(c) == cached[call[c].isolate]

Begin(c, i, op, shown) ==
  /\ call[c] = Idle
  /\ call' = [call EXCEPT ![c] =
       [op |-> op, isolate |-> i, started |-> now, shown |-> shown, raw |-> None,
        step |-> IF op = "rotate" THEN "delete" ELSE "key"]]
  /\ UNCHANGED <<now, secret, retired, cached, signed>>

-----------------------------------------------------------------------------
(* The key, for a token to sign or to verify. *)

Fresh_Forever(copy) == copy.key # None
Fresh(copy) == copy.key # None /\ copy.expires > now

CachedKey(c) ==
  /\ At(c, "key")
  /\ Fresh(Here(c))
  /\ call' = [call EXCEPT ![c].step = "use", ![c].raw = Here(c).key]
  /\ UNCHANGED <<now, secret, retired, cached, signed>>

ReadKey(c) ==
  /\ At(c, "key")
  /\ ~Fresh(Here(c))
  /\ call' = [call EXCEPT ![c].raw = secret,
                          ![c].step = IF secret = None THEN "put" ELSE "import"]
  /\ UNCHANGED <<now, secret, retired, cached, signed>>

NewKey == {k \in Key : k # secret /\ retired[k] = Never}

\* Only a key that is not there yet is written; the loser of a race reads the winner's.
MayCreate_Anyway == TRUE
MayCreate == secret = None
CreateKey(c) ==
  /\ At(c, "put")
  /\ \/ /\ MayCreate
        /\ \E k \in NewKey :
             /\ secret' = k
             /\ call' = [call EXCEPT ![c].raw = k, ![c].step = "import"]
     \/ ~MayCreate /\ Go(c, "reread") /\ UNCHANGED secret
  /\ UNCHANGED <<now, retired, cached, signed>>

\* Without a key to read back the request fails.
RereadKey(c) ==
  /\ At(c, "reread")
  /\ call' = IF secret = None THEN [call EXCEPT ![c] = Idle]
             ELSE [call EXCEPT ![c].raw = secret, ![c].step = "import"]
  /\ UNCHANGED <<now, secret, retired, cached, signed>>

ImportKey(c) ==
  /\ At(c, "import")
  /\ cached' = [cached EXCEPT ![call[c].isolate] =
                  [key |-> call[c].raw, expires |-> now + KeyTTL]]
  /\ Go(c, "use")
  /\ UNCHANGED <<now, secret, retired, signed>>

-----------------------------------------------------------------------------
(* Tokens. *)

Mint(c) ==
  /\ At(c, "use") /\ call[c].op = "mint"
  /\ signed' = signed \cup {call[c].raw}
  /\ call' = [call EXCEPT ![c] = Idle]
  /\ UNCHANGED <<now, secret, retired, cached>>

Verify(c) ==
  /\ At(c, "use") /\ call[c].op = "verify"
  /\ Go(c, IF call[c].shown = call[c].raw THEN "taken" ELSE "unsigned")
  /\ UNCHANGED <<now, secret, retired, cached, signed>>

Answer(c) ==
  /\ At(c, "taken") \/ At(c, "unsigned")
  /\ call' = [call EXCEPT ![c] = Idle]
  /\ UNCHANGED <<now, secret, retired, cached, signed>>

-----------------------------------------------------------------------------
(* The administrator deletes the key; this isolate forgets it at once. *)

DeleteKey(c) ==
  /\ At(c, "delete")
  /\ secret' = None
  /\ retired' = IF secret = None THEN retired ELSE [retired EXCEPT ![secret] = now]
  /\ Go(c, "clear")
  /\ UNCHANGED <<now, cached, signed>>

ClearCache(c) ==
  /\ At(c, "clear")
  /\ cached' = [cached EXCEPT ![call[c].isolate] = Empty]
  /\ call' = [call EXCEPT ![c] = Idle]
  /\ UNCHANGED <<now, secret, retired, signed>>

-----------------------------------------------------------------------------
(* Around the Worker. *)

\* No request is older than Patience.
Tick ==
  /\ now < MaxTime
  /\ \A c \in Call : call[c] # Idle => now < call[c].started + Patience
  /\ now' = now + 1
  /\ UNCHANGED <<secret, retired, cached, signed, call>>

\* An isolate starts anew.
Evict(i) ==
  /\ cached' = [cached EXCEPT ![i] = Empty]
  /\ UNCHANGED <<now, secret, retired, signed, call>>

Step(c) ==
  \/ CachedKey(c) \/ ReadKey(c) \/ CreateKey(c) \/ RereadKey(c) \/ ImportKey(c)
  \/ Mint(c) \/ Verify(c) \/ Answer(c)
  \/ DeleteKey(c) \/ ClearCache(c)

Ask(c, i) ==
  \/ Begin(c, i, "mint", None)
  \/ \E k \in signed : Begin(c, i, "verify", k)
  \/ Begin(c, i, "rotate", None)

Next ==
  \/ \E c \in Call, i \in Isolate : Ask(c, i)
  \/ \E c \in Call : Step(c)
  \/ \E i \in Isolate : Evict(i)
  \/ Tick

Spec == Init /\ [][Next]_vars

-----------------------------------------------------------------------------
(* What should hold. *)

\* How long a deleted key lives on: a request that read it may cache it Patience
\* later, and one that then finds it in the cache takes Patience to answer.
Bound == KeyTTL + 2 * Patience - 1

Outlived(k) == retired[k] # Never /\ now > retired[k] + Bound

\* Deleting the key revokes every token signed with it: none is taken any more
\* once the isolates have dropped it (rotateSessionKey's "within the minutes other
\* isolates keep the old key").
RotationRevokes == \A c \in Call : At(c, "taken") => ~Outlived(call[c].shown)

\* A token signed with the key in the bucket is only refused while some isolate may
\* still hold a deleted one: whoever creates the key, all end up with the same one
\* (HmacSessionTokens.key).
SameKeyEverywhere ==
  \A c \in Call : At(c, "unsigned") /\ call[c].shown = secret =>
    \E k \in Key : retired[k] # Never /\ ~Outlived(k)
=============================================================================
