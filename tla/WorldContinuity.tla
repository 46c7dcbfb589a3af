--------------------------- MODULE WorldContinuity ---------------------------
(***************************************************************************)
(* Staff carry a member's farm from a historical world into the active one *)
(* when both are the same physical save, while members request farms there *)
(* themselves.  Both are transactions: each reads a snapshot of the data   *)
(* and runs again when a document it writes was written since.             *)
(*   farm_lifecycle.py (migrate_same_physical_world, request_farm),        *)
(*   authorization.py (review), database.py (unique indexes).              *)
(***************************************************************************)
EXTENDS Naturals, FiniteSets

CONSTANTS
  Members,   \* approved members with a linked identity
  Sources,   \* historical worlds of the same save slot and map
  Evidence,  \* Evidence[s]: members whose farm and land have receipts in s
  Calls,     \* transactions that may be open at once
  None

ContinuityAssumption ==
  Evidence \in [Sources -> SUBSET Members] /\ None \notin Members \cup Sources

VARIABLES
  own,         \* own[m]: state of the farm request m made in the active world
  carried,     \* carried[m]: sources of m's continuity requests, each with a mapping
  audit,       \* audit[s]: whose migration the audit row of s records
  standing,    \* members seen on the farm and land they had, there in the game
  call,        \* call[c]: an open transaction and the snapshot it reads
  overlapped   \* members with a request and a migration open at once

vars == <<own, carried, audit, standing, call, overlapped>>

Idle == [member |-> None]
Live == {"pending", "active"}

\* What a transaction for m reads.
View(m, s) == [own |-> own[m], carried |-> carried[m],
               standing |-> s # None /\ m \in standing]

Open == {c \in Calls : call[c] # Idle}
OpenFor(m) == {c \in Open : call[c].member = m}

Init ==
  /\ own = [m \in Members |-> "none"]
  /\ carried = [m \in Members |-> {}]
  /\ audit = [s \in Sources |-> None]
  /\ standing = Members
  /\ call = [c \in Calls |-> Idle]
  /\ overlapped = {}

TypeOK ==
  /\ own \in [Members -> {"none", "pending", "rejected", "active"}]
  /\ carried \in [Members -> SUBSET Sources]
  /\ audit \in [Sources -> Members \cup {None}]
  /\ standing \subseteq Members /\ overlapped \subseteq Members
  /\ \A c \in Open : call[c].member \in Members /\ call[c].source \in Sources \cup {None}
-------------------------------------------------------------------------------
\* A transaction opens: a farm request (no source) or a migration.
Begin(c, m, s) ==
  /\ call[c] = Idle
  /\ call' = [call EXCEPT ![c] = [member |-> m, source |-> s, view |-> View(m, s)]]
  /\ overlapped' = IF \E d \in OpenFor(m) : (call[d].source = None) # (s = None)
                   THEN overlapped \cup {m} ELSE overlapped
  /\ UNCHANGED <<own, carried, audit, standing>>

End(c) == call' = [call EXCEPT ![c] = Idle]

\* Another transaction wrote what this one writes: the member's own request,
\* or the observation row and the continuity request.
Conflict(c) ==
  LET now == View(call[c].member, call[c].source)
      old == call[c].view
  IN IF call[c].source = None THEN now.own # old.own ELSE now.carried # old.carried

Rerun(c) ==
  /\ call[c] # Idle
  /\ Conflict(c)
  /\ call' = [call EXCEPT ![c].view = View(call[c].member, call[c].source)]
  /\ UNCHANGED <<own, carried, audit, standing, overlapped>>

\* assert_personal_farm_request_allowed: no live request, however it came.
MayRequest(c) == call[c].view.own \notin Live /\ call[c].view.carried = {}

RequestFarm(c) ==
  LET m == call[c].member IN
  /\ call[c] # Idle /\ call[c].source = None
  /\ ~Conflict(c)
  /\ IF MayRequest(c) THEN own' = [own EXCEPT ![m] = "pending"] ELSE UNCHANGED own
  /\ End(c)
  /\ UNCHANGED <<carried, audit, standing, overlapped>>

\* The evidence _continuity_plan requires.
Plan(c) == call[c].member \in Evidence[call[c].source] /\ call[c].view.standing

\* No other request of the member is there; the rejected count as well.
NoConflictingRequest(c) == call[c].view.own = "none" /\ call[c].view.carried = {}

\* Mapping, observation, request and audit row are written as one.  One audit
\* row per source is the unique index's; the same migration has been applied.
Migrate(c) ==
  LET m == call[c].member
      s == call[c].source
      applies == Plan(c) /\ NoConflictingRequest(c) /\ audit[s] = None
  IN
  /\ call[c] # Idle /\ s # None
  /\ ~Conflict(c)
  /\ IF applies
     THEN carried' = [carried EXCEPT ![m] = @ \cup {s}] /\ audit' = [audit EXCEPT ![s] = m]
     ELSE UNCHANGED <<carried, audit>>
  /\ End(c)
  /\ UNCHANGED <<own, standing, overlapped>>

\* Staff review the member's own request, and it leads to a farm or nowhere.
Review(m) ==
  /\ own[m] = "pending"
  /\ \E s \in {"rejected", "active"} : own' = [own EXCEPT ![m] = s]
  /\ UNCHANGED <<carried, audit, standing, call, overlapped>>

\* A snapshot or an activity report changes what the game shows of the farm;
\* neither writes the row a migration writes.
Observe(m) ==
  /\ standing' = IF m \in standing THEN standing \ {m} ELSE standing \cup {m}
  /\ UNCHANGED <<own, carried, audit, call, overlapped>>

Next ==
  \/ \E c \in Calls, m \in Members, s \in Sources \cup {None} : Begin(c, m, s)
  \/ \E c \in Calls : Rerun(c) \/ RequestFarm(c) \/ Migrate(c)
  \/ \E m \in Members : Review(m) \/ Observe(m)

Spec == Init /\ [][Next]_vars
-------------------------------------------------------------------------------
RequestsOf(m) == Cardinality(carried[m]) + (IF own[m] \in Live THEN 1 ELSE 0)

\* A member has one live farm request, whether made or carried over, unless a
\* request and a migration of the member overlapped; two migrations may: they
\* write one observation.  And the audit rows tell exactly what was carried.
ContinuityHolds ==
  \A m \in Members :
    /\ m \notin overlapped => RequestsOf(m) <= 1
    /\ Cardinality(carried[m]) <= 1
    /\ carried[m] = {s \in Sources : audit[s] = m}

\* Not so: the two kinds of transaction write nothing in common.
OneLiveRequest == \A m \in Members : RequestsOf(m) <= 1
===============================================================================
