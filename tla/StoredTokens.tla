---------------------------- MODULE StoredTokens ----------------------------
(***************************************************************************)
(* The tokens of AUTH_MODE=token: one JSON object in the bucket, edited by *)
(* the admin UI (src/app/admin-tokens.ts, src/infra/r2-tokens-file.ts) and *)
(* by `r2-lfs token` (cli/app/token.ts), each on condition that the file   *)
(* is still the one it read, and remembered for a while by every isolate   *)
(* that checks a token (src/infra/token-directory.ts).                     *)
(*                                                                         *)
(* A file is the set of its tokens.  R2's etag is a hash of the content,   *)
(* so the condition is that the content is the same.  Time passes in       *)
(* steps; no request takes longer than Patience.                           *)
(***************************************************************************)
EXTENDS Integers

CONSTANTS
  Isolate, Call, Token,
  TTL,          \* how long an isolate remembers the file
  Patience,     \* the longest a request takes
  MaxTime,      \* bound: the end of time
  Nothing

ASSUME TimeAssumption == TTL \in Nat \ {0} /\ Patience \in Nat /\ MaxTime \in Nat
ASSUME NothingAssumption == Nothing \notin Token \cup Isolate

VARIABLES
  now,
  file,         \* the object in the bucket
  minted,       \* tokens ever made
  created,      \* those whose maker was told that they are stored
  doomed,       \* those somebody has tried to revoke
  revokedAt,    \* when a token left the file
  cache,        \* what each isolate remembers
  call          \* what each request is doing

edits == <<minted, created, doomed, revokedAt>>
tokenVars == <<now, file, minted, created, doomed, revokedAt, cache, call>>

Time == 0..MaxTime
Never == -1

NoFile == [stored |-> FALSE, tokens |-> {}]
File == [stored : {TRUE}, tokens : SUBSET Token] \cup {NoFile}
Empty == [tokens |-> {}, expires |-> 0]

\* The admin UI edits on an isolate, the CLI on none.
Idle == [step |-> "idle"]
Edit ==
  [op : {"create", "revoke"}, isolate : Isolate \cup {Nothing}, started : Time,
   token : Token \cup {Nothing}, read : File, step : {"load", "write", "clear"}]
Check ==
  [op : {"check"}, isolate : Isolate, started : Time, token : Token,
   read : File, step : {"lookup", "fill", "granted"}]

TokenTypes ==
  /\ now \in Time
  /\ file \in File
  /\ minted \subseteq Token /\ created \subseteq Token /\ doomed \subseteq Token
  /\ revokedAt \in [Token -> Time \cup {Never}]
  /\ cache \in [Isolate -> [tokens : SUBSET Token, expires : 0 .. MaxTime + TTL]]
  /\ call \in [Call -> Edit \cup Check \cup {Idle}]

TokensInit ==
  /\ now = 0
  /\ file = NoFile
  /\ minted = {} /\ created = {} /\ doomed = {}
  /\ revokedAt = [t \in Token |-> Never]
  /\ cache = [i \in Isolate |-> Empty]
  /\ call = [c \in Call |-> Idle]

-----------------------------------------------------------------------------
At(c, op, step) == call[c] # Idle /\ call[c].op = op /\ call[c].step = step
AtEdit(c, step) == At(c, "create", step) \/ At(c, "revoke", step)

BeginEdit(c, op, i, t) ==
  /\ call[c] = Idle
  /\ (op = "create") <=> (t = Nothing)
  /\ call' = [call EXCEPT ![c] =
       [op |-> op, isolate |-> i, started |-> now, token |-> t, read |-> NoFile, step |-> "load"]]
  /\ UNCHANGED <<now, file, edits, cache>>

\* A client shows a token that was once made.
BeginCheck(c, i, t) ==
  /\ call[c] = Idle
  /\ t \in minted
  /\ call' = [call EXCEPT ![c] =
       [op |-> "check", isolate |-> i, started |-> now, token |-> t, read |-> NoFile,
        step |-> "lookup"]]
  /\ UNCHANGED <<now, file, edits, cache>>

-----------------------------------------------------------------------------
(* Edits. *)

\* A revocation of a token that is not there is refused; a new token is minted.
Load(c) ==
  /\ AtEdit(c, "load")
  /\ \/ /\ call[c].op = "revoke"
        /\ IF call[c].token \in file.tokens
             THEN /\ call' = [call EXCEPT ![c].read = file, ![c].step = "write"]
                  /\ doomed' = doomed \cup {call[c].token}
             ELSE call' = [call EXCEPT ![c] = Idle] /\ UNCHANGED doomed
        /\ UNCHANGED minted
     \/ /\ call[c].op = "create"
        /\ \E t \in Token \ minted :
             /\ minted' = minted \cup {t}
             /\ call' = [call EXCEPT ![c].read = file, ![c].token = t, ![c].step = "write"]
        /\ UNCHANGED doomed
  /\ UNCHANGED <<now, file, created, revokedAt, cache>>

Edited(c) ==
  [stored |-> TRUE,
   tokens |-> IF call[c].op = "create" THEN call[c].read.tokens \cup {call[c].token}
                                       ELSE call[c].read.tokens \ {call[c].token}]

Unchanged_First(c) == call[c].read = NoFile \/ file = call[c].read
Unchanged_Exists(c) == file.stored = call[c].read.stored
Unchanged(c) == file = call[c].read

\* The condition does not hold any more: whoever asked is told to try again.
Conflict(c) ==
  /\ AtEdit(c, "write")
  /\ ~Unchanged(c)
  /\ call' = [call EXCEPT ![c] = Idle]
  /\ UNCHANGED <<now, file, edits, cache>>

\* The file is written, and this isolate forgets the old one.
Write(c) ==
  /\ AtEdit(c, "write")
  /\ Unchanged(c)
  /\ file' = Edited(c)
  /\ revokedAt' = IF call[c].op = "revoke" THEN [revokedAt EXCEPT ![call[c].token] = now]
                                           ELSE revokedAt
  /\ call' = [call EXCEPT ![c].step = "clear"]
  /\ UNCHANGED <<now, minted, created, doomed, cache>>

Saved(c) ==
  /\ AtEdit(c, "clear")
  /\ created' = IF call[c].op = "create" THEN created \cup {call[c].token} ELSE created
  /\ cache' = [i \in Isolate |-> IF i = call[c].isolate THEN Empty ELSE cache[i]]
  /\ call' = [call EXCEPT ![c] = Idle]
  /\ UNCHANGED <<now, file, minted, doomed, revokedAt>>

\* The answer to a write is lost: its edit stands, but nobody is told.
Lost(c) ==
  /\ AtEdit(c, "clear")
  /\ call' = [call EXCEPT ![c] = Idle]
  /\ UNCHANGED <<now, file, edits, cache>>

-----------------------------------------------------------------------------
(* Checks. *)

Current_Forever(expires) == expires # 0
Current(expires) == expires > now

Verdict(c, tokens) == IF call[c].token \in tokens
                        THEN [call EXCEPT ![c].step = "granted"]
                        ELSE [call EXCEPT ![c] = Idle]

Known(c) ==
  /\ At(c, "check", "lookup")
  /\ Current(cache[call[c].isolate].expires)
  /\ call' = Verdict(c, cache[call[c].isolate].tokens)
  /\ UNCHANGED <<now, file, edits, cache>>

Read(c) ==
  /\ At(c, "check", "lookup")
  /\ ~Current(cache[call[c].isolate].expires)
  /\ call' = [call EXCEPT ![c].read = file, ![c].step = "fill"]
  /\ UNCHANGED <<now, file, edits, cache>>

Fill(c) ==
  /\ At(c, "check", "fill")
  /\ cache' = [cache EXCEPT ![call[c].isolate] =
                 [tokens |-> call[c].read.tokens, expires |-> now + TTL]]
  /\ call' = Verdict(c, call[c].read.tokens)
  /\ UNCHANGED <<now, file, edits>>

Answer(c) ==
  /\ At(c, "check", "granted")
  /\ call' = [call EXCEPT ![c] = Idle]
  /\ UNCHANGED <<now, file, edits, cache>>

-----------------------------------------------------------------------------
(* No request is older than Patience; an isolate may start anew. *)

Tick ==
  /\ now < MaxTime
  /\ \A c \in Call : call[c] # Idle => now < call[c].started + Patience
  /\ now' = now + 1
  /\ UNCHANGED <<file, edits, cache, call>>

Evict(i) ==
  /\ cache' = [cache EXCEPT ![i] = Empty]
  /\ UNCHANGED <<now, file, edits, call>>

Step(c) ==
  \/ Load(c) \/ Conflict(c) \/ Write(c) \/ Saved(c) \/ Lost(c)
  \/ Known(c) \/ Read(c) \/ Fill(c) \/ Answer(c)

TokensNext ==
  \/ \E c \in Call, i \in Isolate \cup {Nothing} :
       \/ BeginEdit(c, "create", i, Nothing)
       \/ \E t \in Token : BeginEdit(c, "revoke", i, t)
  \/ \E c \in Call, i \in Isolate, t \in Token : BeginCheck(c, i, t)
  \/ \E c \in Call : Step(c)
  \/ \E i \in Isolate : Evict(i)
  \/ Tick

TokensSpec == TokensInit /\ [][TokensNext]_tokenVars

-----------------------------------------------------------------------------
(* What should hold. *)

\* "Concurrent edits cannot drop each other's tokens" (cli/app/token.ts): a token whose
\* maker was told it is stored is in the file until somebody revokes it; nor can they
\* bring back one that was revoked.
NoEditUndone ==
  /\ created \ doomed \subseteq file.tokens
  /\ \A t \in Token : revokedAt[t] # Never => t \notin file.tokens

\* A revoked token opens nothing once isolates have dropped the file they remember,
\* and the requests that read or found it there are over.
Bound == TTL + 2 * Patience - 1
RevocationTakesEffect ==
  \A c \in Call : At(c, "check", "granted") =>
    revokedAt[call[c].token] = Never \/ now <= revokedAt[call[c].token] + Bound

Removed == {t \in Token : revokedAt[t] # Never}
List ==
  INSTANCE TokenList WITH listed <- file.tokens, told <- created, unwanted <- doomed, removed <- Removed

\* "Conditional on the version read, so concurrent edits cannot drop each other's tokens"
\* (cli/app/token.ts; src/infra/r2-tokens-file.ts write): however edits overlap and whichever
\* answers are lost, the file is a list that is edited by one at a time, and each write changes
\* the one token it was asked to, beside what is there at that moment.
EditsAreOneByOne == List!ListSpec
=============================================================================
