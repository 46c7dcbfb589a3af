----------------------------- MODULE VehicleCodes ------------------------------
(***************************************************************************)
(* VehicleCodeRegistry (vehicle_inventory.py): each vehicle identity gets  *)
(* one permanent short code.  Handlers of the Agent's code poll, Discord   *)
(* commands and the retrieval of a manager's inventory allocate codes at   *)
(* the same time, in separate threads and processes, without transaction;  *)
(* Mongo's unique indexes on the identity and on the code decide.  A       *)
(* candidate is a prefix of the identity's digest and grows on collision.  *)
(***************************************************************************)
EXTENDS Naturals, FiniteSets

CONSTANTS
  Threads,
  Identities,   \* server, save, world and native ID of a vehicle
  Codes,
  Lengths,      \* number of candidate lengths (5..12 in the code)
  Candidate,    \* Candidate[v][n]: prefix of the n-th length
  Nothing

CodeAssumption ==
  /\ Lengths \in Nat \ {0}
  /\ Candidate \in [Identities -> [1..Lengths -> Codes]]
  /\ Nothing \notin Codes \union Identities

VARIABLES
  rows,     \* the vehicle_codes collection: <<identity, code>>
  task,     \* task[h]: identity thread h allocates for, or Nothing
  step,     \* step[h]: "find", "insert", "reread" or "idle"
  length,   \* length[h]: candidate length reached
  answer    \* answer[h][v]: last code thread h was given for v

vars == <<rows, task, step, length, answer>>

Steps == {"idle", "find", "insert", "reread", "exhausted"}
Init ==
  /\ rows = {} /\ task = [h \in Threads |-> Nothing] /\ step = [h \in Threads |-> "idle"]
  /\ length = [h \in Threads |-> 1]
  /\ answer = [h \in Threads |-> [v \in Identities |-> Nothing]]

Registered(v) == {row \in rows : row[1] = v}
Answer(h, code) ==
  /\ answer' = [answer EXCEPT ![h][task[h]] = code]
  /\ step' = [step EXCEPT ![h] = "idle"]
  /\ UNCHANGED <<task, length>>

Call(h, v) ==
  /\ step[h] = "idle"
  /\ task' = [task EXCEPT ![h] = v] /\ step' = [step EXCEPT ![h] = "find"]
  /\ length' = [length EXCEPT ![h] = 1]
  /\ UNCHANGED <<rows, answer>>

Find(h) ==
  /\ step[h] = "find"
  /\ \/ \E row \in Registered(task[h]) : Answer(h, row[2])
     \/ /\ Registered(task[h]) = {} /\ step' = [step EXCEPT ![h] = "insert"]
        /\ UNCHANGED <<task, length, answer>>
  /\ UNCHANGED rows

(* WRONG: only the identity is unique, not the code *)
UniqueIdentity(v, code) == Registered(v) = {}
Insertable(v, code) == \A row \in rows : row[1] # v /\ row[2] # code

Insert(h) ==
  LET code == Candidate[task[h]][length[h]] IN
  /\ step[h] = "insert"
  /\ \/ Insertable(task[h], code) /\ rows' = rows \union {<<task[h], code>>} /\ Answer(h, code)
     \/ /\ ~Insertable(task[h], code)
        /\ step' = [step EXCEPT ![h] = "reread"]
        /\ UNCHANGED <<rows, task, length, answer>>

TryLonger(h) ==
  /\ length' = [length EXCEPT ![h] = @ + 1]
  /\ step' = [step EXCEPT ![h] = IF length[h] = Lengths THEN "exhausted" ELSE "insert"]
  /\ UNCHANGED <<task, answer>>
(* Was it this identity that another thread registered, or its code? *)
AfterDuplicate(h) ==
  \/ \E row \in Registered(task[h]) : Answer(h, row[2])
  \/ Registered(task[h]) = {} /\ TryLonger(h)

Reread(h) == step[h] = "reread" /\ AfterDuplicate(h) /\ UNCHANGED rows

Next == \E h \in Threads : (\E v \in Identities : Call(h, v)) \/ Find(h) \/ Insert(h) \/ Reread(h)
Spec == Init /\ [][Next]_vars

-----------------------------------------------------------------------------
TypeOK ==
  /\ rows \subseteq Identities \X Codes
  /\ task \in [Threads -> Identities \union {Nothing}] /\ step \in [Threads -> Steps]
  /\ length \in [Threads -> 1..Lengths + 1]
  /\ answer \in [Threads -> [Identities -> Codes \union {Nothing}]]

(* Codes are unambiguous: a code a player types names at most one vehicle, *)
(* and two threads never leave a vehicle with two codes.                   *)
OneToOne == \A a, b \in rows : a[1] = b[1] \/ a[2] = b[2] => a = b

(* "Never-reused": whoever was told a code of a vehicle was told the one   *)
(* that stays registered for it, in whatever order the threads ran.        *)
AnswersAgree ==
  \A h \in Threads, v \in Identities : answer[h][v] # Nothing => <<v, answer[h][v]>> \in rows

(* An allocation fails only when every prefix of the identity is a code of *)
(* another vehicle, not because another thread was faster.                 *)
FailsOnlyWhenFull ==
  \A h \in Threads : step[h] = "exhausted" =>
    \A n \in 1..Lengths : \E row \in rows : row[1] # task[h] /\ row[2] = Candidate[task[h]][n]

CodesAgree == OneToOne /\ AnswersAgree /\ FailsOnlyWhenFull
=============================================================================
