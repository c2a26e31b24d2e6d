---------------------------- MODULE LockService ----------------------------
(***************************************************************************)
(* What file locking promises to the people who share a repository: a      *)
(* file has at most one holder, it is taken only while nobody holds it,    *)
(* it is freed only by its holder or an admin who forces it, and whoever   *)
(* is told that a lock was created is its holder at that moment.           *)
(*                                                                         *)
(* An answer may be lost after the request took effect, which is why an    *)
(* effect and the answer to it need not be one step.                       *)
(***************************************************************************)
CONSTANTS
  User,
  Admin,      \* the users who may unlock what others hold
  Path,
  Call,       \* the requests in flight
  Nobody

VARIABLES
  holder,     \* who holds each file
  asked       \* the requests and what they were answered

vars == <<holder, asked>>

Nothing == [op |-> "none", answer |-> "none"]
LockRequest == [op : {"lock"}, user : User, path : Path,
                answer : {"none", "created", "taken", "error"}]
UnlockRequest == [op : {"unlock"}, user : User, force : BOOLEAN,
                  answer : {"none", "unlocked", "missing", "forbidden", "error"}]

TypeOK ==
  /\ holder \in [Path -> User \cup {Nobody}]
  /\ asked \in [Call -> {Nothing} \cup LockRequest \cup UnlockRequest]

Init ==
  /\ holder = [p \in Path |-> Nobody]
  /\ asked = [c \in Call |-> Nothing]

Pending(c, op) == asked[c].op = op /\ asked[c].answer = "none"
Answer(c, answer) == asked' = [asked EXCEPT ![c].answer = answer]

Ask(c) ==
  /\ asked[c] = Nothing
  /\ \/ \E u \in User, p \in Path :
          asked' = [asked EXCEPT ![c] =
            [op |-> "lock", user |-> u, path |-> p, answer |-> "none"]]
     \/ \E u \in User, force \in BOOLEAN :
          asked' = [asked EXCEPT ![c] =
            [op |-> "unlock", user |-> u, force |-> force, answer |-> "none"]]
  /\ holder' = holder

Take(c) ==
  /\ Pending(c, "lock")
  /\ holder[asked[c].path] = Nobody
  /\ holder' = [holder EXCEPT ![asked[c].path] = asked[c].user]
  /\ Answer(c, "none") \/ Answer(c, "created") \/ Answer(c, "error")

Confirm(c) ==
  /\ Pending(c, "lock")
  /\ holder[asked[c].path] = asked[c].user
  /\ Answer(c, "created")
  /\ holder' = holder

Refuse(c) ==
  /\ Pending(c, "lock")
  /\ holder[asked[c].path] # Nobody
  /\ Answer(c, "taken")
  /\ holder' = holder

Release(c, p) ==
  /\ Pending(c, "unlock")
  /\ holder[p] # Nobody
  /\ holder[p] = asked[c].user \/ (asked[c].force /\ asked[c].user \in Admin)
  /\ holder' = [holder EXCEPT ![p] = Nobody]
  /\ Answer(c, "none") \/ Answer(c, "unlocked") \/ Answer(c, "error")

\* Nothing to free, or not allowed to, or no answer.
Decline(c) ==
  /\ \/ Pending(c, "unlock") /\ \E a \in {"unlocked", "missing", "forbidden"} : Answer(c, a)
     \/ (Pending(c, "lock") \/ Pending(c, "unlock")) /\ Answer(c, "error")
  /\ holder' = holder

Forget(c) ==
  /\ asked[c].answer # "none"
  /\ asked' = [asked EXCEPT ![c] = Nothing]
  /\ holder' = holder

Next ==
  \E c \in Call :
    \/ Ask(c) \/ Take(c) \/ Confirm(c) \/ Refuse(c) \/ Decline(c) \/ Forget(c)
    \/ \E p \in Path : Release(c, p)

Spec == Init /\ [][Next]_vars
=============================================================================
