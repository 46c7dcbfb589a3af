------------------------------ MODULE SystemFarm ------------------------------
(***************************************************************************)
(* The server's own farm, SiN Harvest, in one world.  Central queues one   *)
(* command that creates it, learns its native ID from the receipt or, when *)
(* a receipt went astray, from a game snapshot, and keeps it in a mapping  *)
(* row; receipt and snapshot write rows of different IDs.  Handlers read   *)
(* and write one document after the other and may overlap or be stopped.   *)
(*   farm_lifecycle.py (ensure_system_farm, accept_receipt),               *)
(*   NetworkLocal.lua (processFarmProvisionCommand).                       *)
(***************************************************************************)
EXTENDS Naturals, FiniteSets

CONSTANTS
  Ids,        \* native farm IDs the game may give it
  Calls,      \* handler threads of Central
  MaxFaults,  \* bound on stops of Central, crashes of the game and namesakes together
  None

VARIABLES
  here,        \* here: the farms of that name in the running game
  saved,       \* those in its last save
  lost,        \* the game has lost an unsaved one
  command,     \* its command file is in the mailbox
  receipt,     \* the receipt file: a farm ID, "failed", or None
  stored,      \* those the newest snapshot names
  op,          \* state of the ensure_farm row
  row,         \* row[k]: the farm of the mapping row written by k
  call,        \* call[c]: the handler running in thread c
  overlapped,  \* two handlers have run at once
  faults

vars == <<here, saved, lost, command, receipt, stored, op, row, call, overlapped, faults>>
game == <<here, saved, lost>>
mailbox == <<command, receipt>>

Writers == {"adoption", "receipt"}
SystemAssumption == None \notin Ids \cup Writers \cup {"failed"} /\ MaxFaults \in Nat
Rows == {k \in Writers : row[k] # None}
Idle == [step |-> "idle", answer |-> None, target |-> None]

Init ==
  /\ here = {} /\ saved = {} /\ lost = FALSE
  /\ command = FALSE /\ receipt = None
  /\ stored = {}
  /\ op = "none"
  /\ row = [k \in Writers |-> None]
  /\ call = [c \in Calls |-> Idle]
  /\ overlapped = FALSE
  /\ faults = 0

TypeOK ==
  /\ here \subseteq Ids /\ saved \subseteq Ids /\ stored \subseteq Ids
  /\ lost \in BOOLEAN /\ command \in BOOLEAN /\ overlapped \in BOOLEAN
  /\ receipt \in Ids \cup {"failed", None}
  /\ op \in {"none", "pending", "succeeded", "reconciliation_required"}
  /\ row \in [Writers -> Ids \cup {None}]
  /\ call \in [Calls -> [step: {"idle", "snapshot", "adopt", "note", "queue",
                                "existing", "map", "succeed", "fail", "answered"},
                         answer: Ids \cup {"failed", None},
                         target: Writers \cup {None}]]
  /\ faults \in 0..MaxFaults
-------------------------------------------------------------------------------
(* Handlers of Central                                                     *)

At(c, step) == call[c].step = step
Goto(c, step) == call' = [call EXCEPT ![c].step = step]
End(c) == call' = [call EXCEPT ![c] = Idle]

Begin(c, step, answer) ==
  /\ At(c, "idle")
  /\ call' = [call EXCEPT ![c] = [step |-> step, answer |-> answer, target |-> None]]
  /\ overlapped' = (overlapped \/ \E d \in Calls \ {c} : ~At(d, "idle"))

\* ensure_system_farm reads the mappings: with one, or several, it is done.
EnsureFinds(c) ==
  IF Rows = {} THEN Begin(c, "snapshot", None) ELSE UNCHANGED <<call, overlapped>>

\* record_snapshot stores the snapshot and then ensures the farm.
RecordSnapshot(c) ==
  /\ At(c, "idle")
  /\ stored' = here
  /\ EnsureFinds(c)
  /\ UNCHANGED <<game, mailbox, op, row, faults>>

\* So do a start of the runtime, an event, staff, and the Agent's poll as long
\* as no single mapping is there.
Ensure(c) ==
  /\ Rows = {}
  /\ Begin(c, "snapshot", None)
  /\ UNCHANGED <<game, mailbox, stored, op, row, faults>>

ReadSnapshot(c) ==
  /\ At(c, "snapshot")
  /\ \/ stored = {} /\ Goto(c, "queue")
     \/ Cardinality(stored) > 1 /\ End(c)
     \/ \E f \in stored :
          stored = {f} /\ call' = [call EXCEPT ![c].step = "adopt", ![c].answer = f]
  /\ UNCHANGED <<game, mailbox, stored, op, row, overlapped, faults>>

Adopt(c) ==
  /\ At(c, "adopt")
  /\ row' = [row EXCEPT !["adoption"] = call[c].answer]
  /\ Goto(c, "note")
  /\ UNCHANGED <<game, mailbox, stored, op, overlapped, faults>>

NoteAdoption(c) ==
  /\ At(c, "note")
  /\ op' = IF op = "none" THEN op ELSE "succeeded"
  /\ End(c)
  /\ UNCHANGED <<game, mailbox, stored, row, overlapped, faults>>

\* The row is inserted once; its ID belongs to the world.
QueueOperation(c) ==
  /\ At(c, "queue")
  /\ op' = IF op = "none" THEN "pending" ELSE op
  /\ End(c)
  /\ UNCHANGED <<game, mailbox, stored, row, overlapped, faults>>

\* accept_receipt reads the operation and, for a farm, the mappings.
AcceptReceipt(c) ==
  /\ receipt # None
  /\ Begin(c, IF op = "succeeded" THEN "answered"
              ELSE IF receipt = "failed" THEN "fail" ELSE "existing", receipt)
  /\ UNCHANGED <<game, mailbox, stored, op, row, faults>>

\* The wrong lookup for the mutant: the receipt writes the row of its own ID.
OwnRow(f) == "receipt"

\* The row for the answer f: the one there is, if it names f, or a new one.
Existing(f) ==
  IF Rows = {} THEN "receipt"
  ELSE IF Cardinality(Rows) = 1 /\ \A k \in Rows : row[k] = f THEN CHOOSE k \in Rows : TRUE
  ELSE None

ReadExisting(c) ==
  /\ At(c, "existing")
  /\ LET k == Existing(call[c].answer) IN
     call' = [call EXCEPT ![c].target = k, ![c].step = IF k = None THEN "fail" ELSE "map"]
  /\ UNCHANGED <<game, mailbox, stored, op, row, overlapped, faults>>

Map(c) ==
  /\ At(c, "map")
  /\ row' = [row EXCEPT ![call[c].target] = call[c].answer]
  /\ Goto(c, "succeed")
  /\ UNCHANGED <<game, mailbox, stored, op, overlapped, faults>>

\* The last write, and the answer that lets the Agent remove the receipt.
Answer(c) ==
  /\ \/ At(c, "succeed") /\ op' = "succeeded"
     \/ At(c, "fail") /\ op' = "reconciliation_required"
     \/ At(c, "answered") /\ UNCHANGED op
  /\ receipt' = None
  /\ End(c)
  /\ UNCHANGED <<game, command, stored, row, overlapped, faults>>
-------------------------------------------------------------------------------
(* The mailbox and the game                                                *)

Dispatch ==
  /\ op = "pending" /\ receipt = None /\ ~command
  /\ command' = TRUE
  /\ UNCHANGED <<game, receipt, stored, op, row, call, overlapped, faults>>

\* The game looks the farm up by name, fails if there are two, creates it if
\* there is none, and validates it.  A receipt that could not be saved leaves
\* the command to be executed again.
ProcessCommand ==
  /\ command /\ receipt = None
  /\ \E found \in {here} \cup (IF here = {} THEN {{f} : f \in Ids} ELSE {}) :
       /\ here' = found
       /\ \/ /\ receipt' \in {"failed"} \cup {f \in found : found = {f}}
             /\ command' = FALSE
          \/ UNCHANGED mailbox
  /\ UNCHANGED <<saved, lost, stored, op, row, call, overlapped, faults>>

\* A player gives a farm that name.
Namesake ==
  /\ faults < MaxFaults
  /\ \E f \in Ids \ here : here' = here \cup {f}
  /\ faults' = faults + 1
  /\ UNCHANGED <<saved, lost, mailbox, stored, op, row, call, overlapped>>

Save ==
  /\ saved' = here
  /\ UNCHANGED <<here, lost, mailbox, stored, op, row, call, overlapped, faults>>

Crash ==
  /\ faults < MaxFaults
  /\ here' = saved
  /\ lost' = (lost \/ here # saved)
  /\ faults' = faults + 1
  /\ UNCHANGED <<saved, mailbox, stored, op, row, call, overlapped>>

Stop ==
  /\ faults < MaxFaults
  /\ \E c \in Calls : ~At(c, "idle")
  /\ call' = [c \in Calls |-> Idle]
  /\ faults' = faults + 1
  /\ UNCHANGED <<game, mailbox, stored, op, row, overlapped>>

Next ==
  \/ \E c \in Calls :
       \/ RecordSnapshot(c) \/ Ensure(c) \/ ReadSnapshot(c) \/ Adopt(c) \/ NoteAdoption(c)
       \/ QueueOperation(c) \/ AcceptReceipt(c) \/ ReadExisting(c) \/ Map(c) \/ Answer(c)
  \/ Dispatch \/ ProcessCommand \/ Namesake \/ Save \/ Crash \/ Stop

Spec == Init /\ [][Next]_vars
-------------------------------------------------------------------------------
\* Receipt and snapshot each write a row of their own, yet only handlers that
\* overlap leave two; until the game loses an unsaved farm, every row names one
\* it has; and an operation is closed as succeeded only once its farm is mapped.
MappingHolds ==
  /\ ~overlapped => Cardinality(Rows) <= 1
  /\ ~lost => \A k \in Rows : row[k] \in here
  /\ op = "succeeded" => Rows # {}

\* Not so: a receipt and an adoption at once leave two rows for good, and
\* without a single one nobody is authorised as a contractor.
OneMapping == Cardinality(Rows) <= 1

\* Nor so: the mapping of a farm that was lost unsaved stays in force.
MappedIsThere == \A k \in Rows : row[k] \in here
===============================================================================
