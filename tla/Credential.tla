----------------------------- MODULE Credential -----------------------------
(***************************************************************************)
(* git's credential helper (cli/app/credential.ts): the password for one   *)
(* repository of an r2-lfs server, which is a session the gh login was      *)
(* traded for, kept in a file between commands                              *)
(* (cli/infra/session-cache.ts).                                            *)
(*                                                                         *)
(* Several gits of one user run side by side, each asking the helper for a  *)
(* password, showing it to the server, and having it erased when the        *)
(* server rejects it.  Meanwhile the user switches the login, an            *)
(* administrator rotates the server's session key (SessionKey), and         *)
(* commands are interrupted.                                                *)
(***************************************************************************)
EXTENDS Integers

CONSTANTS
  Git,          \* the git commands of the user
  Login,        \* the user's accounts at the Git host
  SessionTTL,   \* how long a session lasts
  Margin,       \* a kept session is used while it has longer left
  Settle,       \* how long after a rotation isolates may go on with the old key
  Haste,        \* the longest a git command takes, from asking to showing
  End,          \* bound: the end of time
  Rotations     \* bound: how often the key is rotated

\* A kept session lasts longer than a git command takes, and isolates remember a key.
ASSUME LifetimeAssumption ==
  /\ SessionTTL \in Nat /\ Margin \in Nat /\ Margin < SessionTTL
  /\ Haste \in Nat /\ Haste <= Margin
  /\ Settle \in Nat \ {0}
  /\ End \in Nat /\ Rotations \in Nat

VARIABLES
  clock,
  login,        \* the account gh is logged in with, if any
  left,         \* when each account was last switched from
  secret,       \* how often the server's key has been rotated
  settled,      \* when every isolate has the key for sure
  entry,        \* the file with the repository's session, {} or {session}
  cleared,      \* the last rotation that had settled when a git erased an entry
  git           \* what each git command is doing

credentialVars == <<clock, login, left, secret, settled, entry, cleared, git>>

Instant == 0..End
Session == [login : Login, key : 0..Rotations, expires : 0 .. End + SessionTTL]
Kept == {{}} \cup {{s} : s \in Session}
\* A password is a session, or else R2_LFS_TOKEN, a token of GitHub Actions, the gh login's.
Sources == {"session", "env", "actions", "gh", "none"}
Logins == {{}} \cup {{l} : l \in Login}
Away == [step |-> "away"]
Asking ==
  [step : {"info", "lookup", "trade", "open", "write", "show", "erase"}, began : Instant, login : Logins,
   source : Sources, session : Kept, cleared : 0..Rotations]

CredentialTypes ==
  /\ clock \in Instant
  /\ login \in Logins
  /\ left \in [Login -> Instant \cup {-1}]
  /\ secret \in 0..Rotations
  /\ settled \in 0 .. End + Settle + Haste
  /\ entry \in Kept
  /\ cleared \in 0..Rotations
  /\ git \in [Git -> Asking \cup {Away}]

CredentialInit ==
  /\ clock = 0
  /\ login \in Logins \ {{}}
  /\ left = [l \in Login |-> -1]
  /\ secret = 0 /\ settled = 0
  /\ entry = {}
  /\ cleared = 0
  /\ git = [g \in Git |-> Away]

-----------------------------------------------------------------------------
Doing(g, step) == git[g] # Away /\ git[g].step = step
Proceed(g, step) == git' = [git EXCEPT ![g].step = step]
Hand(g, source) == git' = [git EXCEPT ![g].step = "show", ![g].source = source]
HandSession(g, step, s) ==
  git' = [git EXCEPT ![g].step = step, ![g].source = "session", ![g].session = {s}]
\* The helper has no password, and git asks somebody else.
Leave(g) == git' = [git EXCEPT ![g] = Away]

world == <<clock, login, left, secret, settled, cleared>>

\* git runs the helper.  Which way it goes depends on the variables the command
\* runs with, and on whether git says for which repository it asks.
Get(g) ==
  /\ git[g] = Away
  /\ LET ask(step, source) ==
           git' = [git EXCEPT ![g] = [step |-> step, began |-> clock, login |-> login,
                                      source |-> source, session |-> {}, cleared |-> cleared]]
     IN \/ ask("show", "env")
        \/ ask("info", "none")
        \/ login # {} /\ ask("show", "gh")
        \/ login # {} /\ ask("lookup", "none")
  /\ UNCHANGED <<world, entry>>

\* Inside GitHub Actions: a token for the audience that the server announces.
ActionsToken(g) ==
  /\ Doing(g, "info")
  /\ Hand(g, "actions") \/ Leave(g)
  /\ UNCHANGED <<world, entry>>

LongEnough(s) == s.expires - clock > Margin

Lookup(g) ==
  /\ Doing(g, "lookup")
  /\ \/ \E s \in entry : LongEnough(s) /\ HandSession(g, "show", s)
     \/ (\A s \in entry : ~LongEnough(s)) /\ Proceed(g, "trade")
  /\ UNCHANGED <<world, entry>>

\* The keys an isolate may work with: for a while after a rotation, the old one too.
KeysInUse == IF clock + Haste < settled THEN {secret, secret - 1} ELSE {secret}

\* The server opens a session for the login that gh named when the helper began;
\* without one, the gh token itself is the password.
Trade(g) ==
  /\ Doing(g, "trade")
  /\ \/ \E k \in KeysInUse, l \in git[g].login :
          HandSession(g, "open", [login |-> l, key |-> k, expires |-> clock + SessionTTL])
     \/ Hand(g, "gh")
  /\ UNCHANGED <<world, entry>>

\* The file is opened, which empties it, and written; a failure to write is no failure.
OpenEntry(g) ==
  /\ Doing(g, "open")
  /\ \/ entry' = {} /\ Proceed(g, "write")
     \/ UNCHANGED entry /\ Proceed(g, "show")
  /\ UNCHANGED world

WriteEntry(g) ==
  /\ Doing(g, "write")
  /\ entry' \in {git[g].session, {}}
  /\ Proceed(g, "show")
  /\ UNCHANGED world

-----------------------------------------------------------------------------
(* git shows the password. *)

Accepts(s, key) == s.key = key /\ clock < s.expires

\* The server takes the login's own token; any other password may be wrong.
Show(g) ==
  /\ Doing(g, "show")
  /\ \/ git[g].source # "session" /\ (Leave(g) \/ Proceed(g, "erase"))
     \/ \E k \in KeysInUse, s \in git[g].session :
          IF Accepts(s, k) THEN Leave(g) ELSE Proceed(g, "erase")
  /\ UNCHANGED <<world, entry>>

Forget_Kept(g) == entry
\* The entry goes, whichever password it was that the server rejected.
Forget(g) == {}

Erase(g) ==
  /\ Doing(g, "erase")
  /\ entry' = Forget(g)
  /\ cleared' = IF clock >= settled THEN secret ELSE cleared
  /\ Leave(g)
  /\ UNCHANGED <<clock, login, left, secret, settled>>

Interrupt(g) ==
  /\ git[g] # Away
  /\ Leave(g)
  /\ UNCHANGED <<world, entry>>

-----------------------------------------------------------------------------
(* The rest of the world. *)

\* gh auth switch, logout and login.
SwitchLogin(to) ==
  /\ login # to
  /\ login' = to
  /\ left' = [l \in Login |-> IF l \in login THEN clock ELSE left[l]]
  /\ UNCHANGED <<clock, secret, settled, entry, cleared, git>>

Rotate ==
  /\ secret < Rotations
  /\ clock >= settled       \* one rotation at a time
  /\ secret' = secret + 1
  /\ settled' = clock + Settle + Haste
  /\ UNCHANGED <<clock, login, left, entry, cleared, git>>

Elapse ==
  /\ clock < End
  /\ \A g \in Git : git[g] # Away => clock < git[g].began + Haste
  /\ clock' = clock + 1
  /\ UNCHANGED <<login, left, secret, settled, entry, cleared, git>>

CredentialNext ==
  \/ \E g \in Git :
       \/ Get(g) \/ ActionsToken(g) \/ Lookup(g) \/ Trade(g) \/ OpenEntry(g)
       \/ WriteEntry(g) \/ Show(g) \/ Erase(g) \/ Interrupt(g)
  \/ \E to \in Logins : SwitchLogin(to)
  \/ Rotate
  \/ Elapse

CredentialSpec == CredentialInit /\ [][CredentialNext]_credentialVars

-----------------------------------------------------------------------------
(* What should hold. *)

\* "git calls `erase` after the server rejected a password, so the next `get` trades for a
\* new token" (cli/app/credential.ts): once a rotation has settled and one git has erased
\* what it was refused with, no git that asks from then on is refused with a session, not
\* by an old key that a slower helper wrote back, nor because it expired on the way.
RejectedOnce ==
  \A g \in Git : Doing(g, "erase") /\ git[g].source = "session" => git[g].cleared # secret

\* A session is of the account gh is logged in with, or of one it was switched from so
\* lately that a session of it may still be kept.
LoginBound == SessionTTL - Margin + 2 * Haste - 1
FollowsLogin ==
  \A g \in Git : Doing(g, "show") =>
    \A s \in git[g].session : s.login \in login \/ clock <= left[s.login] + LoginBound

PasswordsServe == RejectedOnce /\ FollowsLogin
=============================================================================
