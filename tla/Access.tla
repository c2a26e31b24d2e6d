------------------------------- MODULE Access -------------------------------
(***************************************************************************)
(* How long one account gets at one repository's objects after the Git     *)
(* host stops letting it in.  Access is handed on:                         *)
(*                                                                         *)
(*   host credentials --(lookups: src/infra/host-permissions.ts)-->        *)
(*     session token --(src/app/session.ts)-->                             *)
(*       action token, one per object of a batch call --> transfer         *)
(*                                                                         *)
(* and every hop remembers the answer of the one before it.  What signs    *)
(* tokens is SessionKey: here every token verifies.  The repository is     *)
(* the one its name was recorded for (Identities).                         *)
(*                                                                         *)
(* Time passes in steps; no request takes longer than Patience.            *)
(***************************************************************************)
EXTENDS Integers

CONSTANTS
  Isolate, Call,
  HostTTL,      \* how long an isolate remembers what the host answered
  SessionTTL,   \* SESSION_TTL_SECONDS
  ActionTTL,    \* ACTION_TTL_SECONDS
  Patience,     \* the longest a request takes
  MaxTime       \* bound: the end of time

ASSUME TimeAssumption ==
  /\ HostTTL \in Nat \ {0} /\ SessionTTL \in Nat \ {0} /\ ActionTTL \in Nat \ {0}
  /\ Patience \in Nat /\ MaxTime \in Nat

VARIABLES
  now,
  allowed,      \* whether the host lets the account in
  lastAllowed,  \* when it last did
  lookup,       \* until when each isolate takes the account for let in
  tokens,       \* the tokens handed out
  call          \* what each request is doing

host == <<allowed, lastAllowed>>
vars == <<now, allowed, lastAllowed, lookup, tokens, call>>

Time == 0..MaxTime
Expiry == 0 .. MaxTime + HostTTL + SessionTTL + ActionTTL
Token == [kind : {"session", "action"}, expires : Expiry]
Host == [kind |-> "host", expires |-> 0]

Idle == [step |-> "idle"]
Request ==
  [op : {"session", "batch", "transfer"}, isolate : Isolate, started : Time,
   shown : Token \cup {Host}, expires : Expiry,
   step : {"credentials", "remember", "token", "let in", "sign", "granted", "refused"}]

TypeOK ==
  /\ now \in Time
  /\ allowed \in BOOLEAN /\ lastAllowed \in Time
  /\ lookup \in [Isolate -> Expiry]
  /\ tokens \in SUBSET Token
  /\ call \in [Call -> Request \cup {Idle}]

Init ==
  /\ now = 0
  /\ allowed = TRUE /\ lastAllowed = 0
  /\ lookup = [i \in Isolate |-> 0]
  /\ tokens = {}
  /\ call = [c \in Call |-> Idle]

-----------------------------------------------------------------------------
At(c, step) == call[c] # Idle /\ call[c].step = step
Go(c, step) == call' = [call EXCEPT ![c].step = step]

\* A request comes in with host credentials or with a token.
Ask(c, i, op, shown) ==
  /\ call[c] = Idle
  /\ call' = [call EXCEPT ![c] =
       [op |-> op, isolate |-> i, started |-> now, shown |-> shown, expires |-> 0,
        step |-> IF shown = Host THEN "credentials" ELSE "token"]]
  /\ UNCHANGED <<now, host, lookup, tokens>>

-----------------------------------------------------------------------------
(* Who is asking (authorize). *)

\* Host credentials: what the isolate remembers, or else what the host answers.
Credentials(c) ==
  /\ At(c, "credentials")
  /\ Go(c, IF lookup[call[c].isolate] > now THEN "let in"
           ELSE IF allowed THEN "remember"
           ELSE "refused")
  /\ UNCHANGED <<now, host, lookup, tokens>>

\* Only a yes is remembered.
Remember(c) ==
  /\ At(c, "remember")
  /\ lookup' = [lookup EXCEPT ![call[c].isolate] = now + HostTTL]
  /\ Go(c, "let in")
  /\ UNCHANGED <<now, host, tokens>>

\* A token is as good as on the day it was signed, until it expires.
Verify(c) ==
  /\ At(c, "token")
  /\ Go(c, IF call[c].shown.expires > now THEN "let in" ELSE "refused")
  /\ UNCHANGED <<now, host, lookup, tokens>>

-----------------------------------------------------------------------------
(* What for: a session token opens no session, an action token only its transfer. *)
Suits_Trading(op, shown) == op = "batch" => shown.kind # "action"
Suits(op, shown) ==
  CASE op = "session" -> shown = Host
    [] op = "batch" -> shown.kind # "action"
    [] OTHER -> TRUE

Lifetime(op) == IF op = "session" THEN SessionTTL ELSE ActionTTL

\* A token's lifetime starts now; it is signed once the key is there.
Serve(c) ==
  /\ At(c, "let in")
  /\ call' =
       IF ~Suits(call[c].op, call[c].shown) THEN [call EXCEPT ![c].step = "refused"]
       ELSE IF call[c].op = "transfer" THEN [call EXCEPT ![c].step = "granted"]
       ELSE [call EXCEPT ![c].step = "sign", ![c].expires = now + Lifetime(call[c].op)]
  /\ UNCHANGED <<now, host, lookup, tokens>>

Sign(c) ==
  /\ At(c, "sign")
  /\ tokens' = tokens \cup
       {[kind |-> IF call[c].op = "session" THEN "session" ELSE "action",
         expires |-> call[c].expires]}
  /\ Go(c, "granted")
  /\ UNCHANGED <<now, host, lookup>>

Answer(c) ==
  /\ At(c, "granted") \/ At(c, "refused")
  /\ call' = [call EXCEPT ![c] = Idle]
  /\ UNCHANGED <<now, host, lookup, tokens>>

-----------------------------------------------------------------------------
(* The world. *)

\* No request is older than Patience.
Tick ==
  /\ now < MaxTime
  /\ \A c \in Call : call[c] # Idle => now < call[c].started + Patience
  /\ now' = now + 1
  /\ lastAllowed' = IF allowed THEN now + 1 ELSE lastAllowed
  /\ UNCHANGED <<allowed, lookup, tokens, call>>

\* The host lets the account in, or no longer.
SetAllowed ==
  /\ allowed' = ~allowed
  /\ lastAllowed' = now
  /\ UNCHANGED <<now, lookup, tokens, call>>

\* An isolate starts anew, or clears a full cache.
Evict(i) ==
  /\ lookup' = [lookup EXCEPT ![i] = 0]
  /\ UNCHANGED <<now, host, tokens, call>>

Step(c) ==
  \/ Credentials(c) \/ Remember(c) \/ Verify(c)
  \/ Serve(c) \/ Sign(c) \/ Answer(c)

Next ==
  \/ \E c \in Call, i \in Isolate, op \in {"session", "batch", "transfer"},
        shown \in tokens \cup {Host} : Ask(c, i, op, shown)
  \/ \E c \in Call : Step(c)
  \/ \E i \in Isolate : Evict(i)
  \/ Tick \/ SetAllowed

Spec == Init /\ [][Next]_vars

-----------------------------------------------------------------------------
(* What should hold. *)

\* Access ends after the host takes it away: at the latest when the last action
\* token runs out, handed out under the last session, opened with what an isolate
\* remembered of the host's last yes (authorize, openSession, actionAuthorization).
Bound == HostTTL + SessionTTL + ActionTTL + 4 * Patience - 3
AccessEnds == \A c \in Call : At(c, "granted") => now <= lastAllowed + Bound

\* No token leads further than the host's last yes allows: sessions are not traded
\* for sessions, nor action tokens for action tokens (openSession, checkTransferScope).
SessionBound == HostTTL + SessionTTL + 2 * Patience - 1
TokensEnd ==
  \A t \in tokens :
    t.expires <= lastAllowed +
      (IF t.kind = "session" THEN SessionBound ELSE SessionBound + ActionTTL + Patience - 1)
=============================================================================
