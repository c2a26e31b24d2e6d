----------------------------- MODULE SigningKeys -----------------------------
(***************************************************************************)
(* What decides who opens the admin UI (src/infra/access-verifier.ts) and  *)
(* which GitHub Actions run may push (src/infra/actions-oidc.ts): a JWT,   *)
(* checked against the signing keys its issuer publishes                   *)
(* (src/infra/jwt.ts), which an isolate remembers for a while and fetches  *)
(* again for a key id it does not know.                                    *)
(*                                                                         *)
(* The issuer publishes and withdraws keys.  Fetches fail, or answer late  *)
(* and out of order, none later than Wait.  One isolate and one URL of     *)
(* keys: each has a memory of its own.                                     *)
(***************************************************************************)
EXTENDS Integers, FiniteSets

CONSTANTS
  KeyId,
  Check,       \* the verifications that can be under way at once
  Ends,        \* when tokens end; one whose signature, issuer or audience does
               \* not fit is among those that ended before time began
  KeysTTL,     \* KEYS_TTL_MS
  Wait,        \* the longest a fetch takes, and the checks that follow it
  Skew,        \* SKEW_SECONDS
  EndOfKeys,   \* the last moment (a bound)
  NoAnswer

ASSUME SigningKeysAssumption ==
  /\ KeysTTL \in Nat /\ Wait \in Nat /\ Skew \in Nat /\ EndOfKeys \in Nat /\ Ends \subseteq Int
  /\ NoAnswer \notin KeyId

VARIABLES
  instant,     \* the time
  published,   \* the keys the issuer publishes
  withdrawn,   \* when it withdrew a key, NotYet when it has not
  known,       \* keysCache: the keys, and until when they count as fresh
  check        \* what each verification is doing

keyVars == <<instant, published, withdrawn, known, check>>

NotYet == -1
Instant == 0..EndOfKeys
Resting == [step |-> "resting"]
Verification ==
  [step : {"fetch", "answered", "decide", "let in", "no key", "unfit"}, kid : KeyId, ends : Ends,
   current : BOOLEAN,     \* the key was published when the verification began
   refresh : BOOLEAN,     \* this is the second look, past the memory
   from : Instant,        \* when the step began
   hit : SUBSET KeyId,    \* what was remembered when the fetch began
   answer : (SUBSET KeyId) \cup {NoAnswer}, failed : BOOLEAN]

KeysTypes ==
  /\ instant \in Instant
  /\ published \subseteq KeyId
  /\ withdrawn \in [KeyId -> Instant \cup {NotYet}]
  /\ known.keys \subseteq KeyId /\ known.expires \in 0..EndOfKeys + KeysTTL
  /\ \A c \in Check : check[c] = Resting \/ check[c] \in Verification

KeysInit ==
  /\ instant = 0
  /\ published \in SUBSET KeyId
  /\ withdrawn = [k \in KeyId |-> NotYet]
  /\ known = [keys |-> {}, expires |-> 0]
  /\ check = [c \in Check |-> Resting]

-----------------------------------------------------------------------------
Publish(k) ==
  /\ k \notin published /\ withdrawn[k] = NotYet
  /\ published' = published \cup {k}
  /\ UNCHANGED <<instant, withdrawn, known, check>>

Withdraw(k) ==
  /\ k \in published
  /\ published' = published \ {k}
  /\ withdrawn' = [withdrawn EXCEPT ![k] = instant]
  /\ UNCHANGED <<instant, known, check>>

InTime(c) == check[c].step \in {"fetch", "answered", "decide"} => instant < check[c].from + Wait

Pass ==
  /\ instant < EndOfKeys /\ \A c \in Check : InTime(c)
  /\ instant' = instant + 1
  /\ UNCHANGED <<published, withdrawn, known, check>>

-----------------------------------------------------------------------------
Fetching(v, refresh, hit) ==
  [v EXCEPT !.step = "fetch", !.refresh = refresh, !.from = instant, !.hit = hit, !.answer = NoAnswer]
Looked(v, step) ==
  [v EXCEPT !.step = step, !.from = instant, !.refresh = FALSE, !.hit = {}, !.answer = NoAnswer]

Unknown_IsFinal(v, hit) == Looked(v, "no key")

\* The key id is looked up again before the token is refused, once.
Unknown(v, hit) ==
  IF v.refresh THEN Looked(v, "no key") ELSE Fetching(v, TRUE, hit)

Found(v, keys, hit) == IF v.kid \in keys THEN Looked(v, "decide") ELSE Unknown(v, hit)

\* A token comes in; what is remembered and fresh answers without a fetch.
Verify(c, kid, ends) ==
  LET v == [step |-> "fetch", kid |-> kid, ends |-> ends, current |-> kid \in published,
            refresh |-> FALSE, from |-> instant, hit |-> known.keys, answer |-> NoAnswer, failed |-> FALSE]
  IN /\ check[c] = Resting
     /\ check' = [check EXCEPT ![c] = IF known.expires > instant THEN Found(v, known.keys, known.keys) ELSE v]
     /\ UNCHANGED <<instant, published, withdrawn, known>>

\* The issuer answers with what it publishes now, or with an error.
IssuerAnswers(c) ==
  /\ check[c].step = "fetch"
  /\ \E answer \in {published, NoAnswer} :
       check' = [check EXCEPT ![c].step = "answered", ![c].answer = answer]
  /\ UNCHANGED <<instant, published, withdrawn, known>>

Remembered_Failing(v) == [keys |-> IF v.answer = NoAnswer THEN v.hit ELSE v.answer, expires |-> instant + KeysTTL]

\* A failed fetch leaves the memory as it is, and is not remembered itself.
Remembered(v) ==
  IF v.answer = NoAnswer THEN known ELSE [keys |-> v.answer, expires |-> instant + KeysTTL]

\* The answer arrives: in place of one that failed, what was remembered before.
Fetched(c) ==
  LET v == [check[c] EXCEPT !.failed = @ \/ check[c].answer = NoAnswer]
  IN /\ check[c].step = "answered"
     /\ known' = Remembered(v)
     /\ check' = [check EXCEPT ![c] = Found(v, IF v.answer = NoAnswer THEN v.hit ELSE v.answer, known'.keys)]
     /\ UNCHANGED <<instant, published, withdrawn>>

Decide(c) ==
  /\ check[c].step = "decide"
  /\ check' = [check EXCEPT ![c].step = IF check[c].ends + Skew < instant THEN "unfit" ELSE "let in"]
  /\ UNCHANGED <<instant, published, withdrawn, known>>

Done(c) ==
  /\ check[c].step \in {"let in", "no key", "unfit"}
  /\ check' = [check EXCEPT ![c] = Resting]
  /\ UNCHANGED <<instant, published, withdrawn, known>>

KeysNext ==
  \/ Pass
  \/ \E k \in KeyId : Publish(k) \/ Withdraw(k)
  \/ \E c \in Check : \/ \E k \in KeyId, ends \in Ends : Verify(c, k, ends)
                      \/ IssuerAnswers(c) \/ Fetched(c) \/ Decide(c) \/ Done(c)

KeysSpec == KeysInit /\ [][KeysNext]_keyVars

-----------------------------------------------------------------------------
\* A rotation of the issuer's keys goes unnoticed and takes effect.  A token
\* whose key is published all along is not refused for want of the key, unless
\* a fetch made for it failed; and one whose key is withdrawn is let in no
\* longer than the memory lasts from the last answer that held it, unless the
\* issuer cannot be asked.
KeysServe ==
  \A c \in Check : check[c] # Resting =>
    LET v == check[c]
    IN /\ v.step = "no key" /\ v.current /\ v.kid \in published => v.failed
       /\ v.step = "let in" /\ withdrawn[v.kid] # NotYet /\ ~v.failed =>
            v.from <= withdrawn[v.kid] + Wait + KeysTTL
=============================================================================
