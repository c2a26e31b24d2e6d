----------------------------- MODULE Identities -----------------------------
(***************************************************************************)
(* Access follows the repository, not just its name: the first time a name *)
(* is used the Worker records the Git host's id of its repository, and     *)
(* turns away the requests of another one that got the name later          *)
(* (src/infra/r2-repository-identities.ts, claimed by src/app/authorize.ts *)
(* with the id of src/infra/host-permissions.ts).  An administrator who    *)
(* has replaced the repository deletes the record.                         *)
(*                                                                         *)
(* One name.  Isolates remember the host's answers and the record.  A      *)
(* GitHub Actions token names the id itself: to the claim it is an answer  *)
(* that was remembered for as long as the token lasts.                     *)
(*                                                                         *)
(* Time passes in steps; no request takes longer than Patience.            *)
(***************************************************************************)
EXTENDS Integers

CONSTANTS
  Isolate, Call, Id,
  HostTTL,      \* how long an isolate remembers what the host answered
  RecordTTL,    \* how long it remembers the record
  Patience,     \* the longest a request takes
  MaxTime,      \* bound: the end of time
  None

ASSUME TimeAssumption ==
  /\ HostTTL \in Nat \ {0} /\ RecordTTL \in Nat \ {0}
  /\ Patience \in Nat /\ MaxTime \in Nat
ASSUME IdAssumption == None \notin Id

VARIABLES
  now,
  owner,        \* the repository that has the name at the host
  owned,        \* when each repository last had it
  record,       \* the object _repos/<owner>/<repo>
  deleted,      \* when the administrator last deleted it
  lookups,      \* until when each isolate remembers an answer with each id
  recorded,     \* each isolate's copy of the record
  call          \* what each request is doing

atHost == <<owner, owned>>
vars == <<now, owner, owned, record, deleted, lookups, recorded, call>>

Time == 0..MaxTime
Never == -1

Empty == [id |-> None, expires |-> 0]
Copy == [id : Id, expires : 0 .. MaxTime + RecordTTL] \cup {Empty}

Idle == [step |-> "idle"]
Request ==
  [isolate : Isolate, started : Time, id : Id \cup {None}, current : Id \cup {None},
   step : {"lookup", "remember", "claim", "put", "reread", "set", "granted", "refused"}]

TypeOK ==
  /\ now \in Time
  /\ owner \in Id
  /\ owned \in [Id -> Time \cup {Never}]
  /\ record \in Id \cup {None}
  /\ deleted \in Time \cup {Never}
  /\ lookups \in [Isolate -> [Id -> 0 .. MaxTime + HostTTL]]
  /\ recorded \in [Isolate -> Copy]
  /\ call \in [Call -> Request \cup {Idle}]

Init ==
  /\ now = 0
  /\ owner \in Id
  /\ owned = [id \in Id |-> IF id = owner THEN 0 ELSE Never]
  /\ record = None
  /\ deleted = Never
  /\ lookups = [i \in Isolate |-> [id \in Id |-> 0]]
  /\ recorded = [i \in Isolate |-> Empty]
  /\ call = [c \in Call |-> Idle]

-----------------------------------------------------------------------------
At(c, step) == call[c] # Idle /\ call[c].step = step
Go(c, step) == call' = [call EXCEPT ![c].step = step]
Isol(c) == call[c].isolate

Current_Forever(expires) == expires # 0
Current(expires) == expires > now

Begin(c, i) ==
  /\ call[c] = Idle
  /\ call' = [call EXCEPT ![c] =
       [isolate |-> i, started |-> now, id |-> None, current |-> None, step |-> "lookup"]]
  /\ UNCHANGED <<now, atHost, record, deleted, lookups, recorded>>

Answer(c) ==
  /\ At(c, "granted") \/ At(c, "refused")
  /\ call' = [call EXCEPT ![c] = Idle]
  /\ UNCHANGED <<now, atHost, record, deleted, lookups, recorded>>

-----------------------------------------------------------------------------
(* The id of the repository the request's account sees under the name. *)

Remembered(c) ==
  /\ At(c, "lookup")
  /\ \E id \in Id :
       /\ Current(lookups[Isol(c)][id])
       /\ call' = [call EXCEPT ![c].id = id, ![c].step = "claim"]
  /\ UNCHANGED <<now, atHost, record, deleted, lookups, recorded>>

AskHost(c) ==
  /\ At(c, "lookup")
  /\ call' = [call EXCEPT ![c].id = owner, ![c].step = "remember"]
  /\ UNCHANGED <<now, atHost, record, deleted, lookups, recorded>>

Remember(c) ==
  /\ At(c, "remember")
  /\ lookups' = [lookups EXCEPT ![Isol(c)][call[c].id] = now + HostTTL]
  /\ Go(c, "claim")
  /\ UNCHANGED <<now, atHost, record, deleted, recorded>>

-----------------------------------------------------------------------------
(* The claim. *)

Fresh(copy) == copy.id # None /\ Current(copy.expires)

Verdict(id, current) == IF id = current THEN "granted" ELSE "refused"

KnownRecord(c) ==
  /\ At(c, "claim")
  /\ Fresh(recorded[Isol(c)])
  /\ Go(c, Verdict(call[c].id, recorded[Isol(c)].id))
  /\ UNCHANGED <<now, atHost, record, deleted, lookups, recorded>>

ReadRecord(c) ==
  /\ At(c, "claim")
  /\ ~Fresh(recorded[Isol(c)])
  /\ call' = [call EXCEPT ![c].current = record,
                          ![c].step = IF record = None THEN "put" ELSE "set"]
  /\ UNCHANGED <<now, atHost, record, deleted, lookups, recorded>>

\* Only a name without a record is claimed.
MayClaim_Anyway == TRUE
MayClaim == record = None
WriteRecord(c) ==
  /\ At(c, "put")
  /\ \/ /\ MayClaim
        /\ record' = call[c].id
        /\ call' = [call EXCEPT ![c].current = call[c].id, ![c].step = "set"]
     \/ ~MayClaim /\ Go(c, "reread") /\ UNCHANGED record
  /\ UNCHANGED <<now, atHost, deleted, lookups, recorded>>

RereadRecord(c) ==
  /\ At(c, "reread")
  /\ call' = [call EXCEPT ![c].current = record,
                          ![c].step = IF record = None THEN "refused" ELSE "set"]
  /\ UNCHANGED <<now, atHost, record, deleted, lookups, recorded>>

SetRecorded_Own(c) ==
  /\ At(c, "set")
  /\ recorded' = [recorded EXCEPT ![Isol(c)] =
                    [id |-> call[c].id, expires |-> now + RecordTTL]]
  /\ Go(c, Verdict(call[c].id, call[c].current))
  /\ UNCHANGED <<now, atHost, record, deleted, lookups>>
SetRecorded(c) ==
  /\ At(c, "set")
  /\ recorded' = [recorded EXCEPT ![Isol(c)] =
                    [id |-> call[c].current, expires |-> now + RecordTTL]]
  /\ Go(c, Verdict(call[c].id, call[c].current))
  /\ UNCHANGED <<now, atHost, record, deleted, lookups>>

-----------------------------------------------------------------------------
(* The world. *)

\* The repository is deleted, renamed or transferred, and another one gets its name.
Handover(id) ==
  /\ id # owner
  /\ owner' = id
  /\ owned' = [owned EXCEPT ![id] = now]
  /\ UNCHANGED <<now, record, deleted, lookups, recorded, call>>

DeleteRecord ==
  /\ record # None
  /\ record' = None
  /\ deleted' = now
  /\ UNCHANGED <<now, atHost, lookups, recorded, call>>

\* No request is older than Patience.
Tick ==
  /\ now < MaxTime
  /\ \A c \in Call : call[c] # Idle => now < call[c].started + Patience
  /\ now' = now + 1
  /\ owned' = [owned EXCEPT ![owner] = now + 1]
  /\ UNCHANGED <<owner, record, deleted, lookups, recorded, call>>

\* An isolate starts anew, or clears full caches.
Evict(i) ==
  /\ lookups' = [lookups EXCEPT ![i] = [id \in Id |-> 0]]
  /\ recorded' = [recorded EXCEPT ![i] = Empty]
  /\ UNCHANGED <<now, atHost, record, deleted, call>>

Step(c) ==
  \/ Remembered(c) \/ AskHost(c) \/ Remember(c)
  \/ KnownRecord(c) \/ ReadRecord(c) \/ WriteRecord(c) \/ RereadRecord(c) \/ SetRecorded(c)
  \/ Answer(c)

Next ==
  \/ \E c \in Call : Step(c) \/ \E i \in Isolate : Begin(c, i)
  \/ \E id \in Id : Handover(id)
  \/ \E i \in Isolate : Evict(i)
  \/ DeleteRecord \/ Tick

Spec == Init /\ [][Next]_vars

-----------------------------------------------------------------------------
(* What should hold. *)

\* How long a deleted record lives on: read by a request that remembers it Patience
\* later, and found there by one that takes Patience to answer.
Settled == deleted = Never \/ now > deleted + RecordTTL + 2 * Patience - 1

\* Whoever gets the name, only requests of the recorded repository are let in, but
\* for the minute in which isolates may hold a record that was deleted
\* (RemoteHostPermissions.lookup, R2RepositoryIdentities.claim).
AccessFollowsRepository ==
  Settled => \A c \in Call : At(c, "granted") => call[c].id = record

\* And those are not turned away: whichever of two requests records the id first,
\* the other one finds the same.
OwnerIsLetIn ==
  Settled => \A c \in Call : At(c, "refused") => call[c].id # record

\* How long after it lost the name a repository may still claim it: an answer is
\* remembered Patience after the host gave it, and used Patience after it was found.
ClaimBound == HostTTL + 2 * Patience - 1

\* After a handover the old repository does not take the name back: an administrator
\* who deletes the record later than that leaves the name to its new owner.
OnlyOwnersClaim ==
  [][record' \notin {record, None} =>
       owned[record'] # Never /\ now <= owned[record'] + ClaimBound]_vars
=============================================================================
