----------------------------- MODULE VehicleGarage -----------------------------
(***************************************************************************)
(* Custody of one vehicle: staff stores it in its owner's virtual garage   *)
(* and restores it, while farm managers may transfer it between farms.     *)
(*                                                                         *)
(*   Central  VehicleGarageService (vehicle_garage.py), TransferService    *)
(*            (business_workflows.py), the code's garage_lock_id.          *)
(*   Agent    agent.py: uploads the archive, posts receipts, downloads the *)
(*            archive back before it delivers a deletion, and compares the *)
(*            journal with the native save to prove a checkpoint.          *)
(*   Game     VehicleGarage.lua and processVehicleTransferCommand: native  *)
(*            deletion and loading are deferred; a journal file outlives   *)
(*            the process, the vehicles only as of the last native save.   *)
(*                                                                         *)
(* Vehicles are independent (every row, file and operation names its own), *)
(* so one is modelled, in one world; a replaced world rejects every step   *)
(* (require_active) as MoneyBridge shows.  Archive bytes are abstracted:   *)
(* "calm" stands for an unchanged, unoccupied, detached vehicle and for    *)
(* free slots and shop space, which the game decides at each command.      *)
(***************************************************************************)
EXTENDS Naturals, Sequences, FiniteSets

CONSTANTS
  Farms,         \* native farms
  Account,       \* Account[f]: canonical owner of a farm
  Garages,       \* store requests; each is the ID of one custody cycle
  Retrieves,     \* retrieve requests
  Transfers,     \* transfer requests
  Destination,   \* Destination[x]: farm a retrieval or transfer names
  Home,          \* farm that owns the vehicle at first
  Hazards,       \* which of HazardNames this instance lets happen
  MaxFaults,     \* bound on faults of all kinds together
  Nothing        \* no garage, request, operation or farm

(***************************************************************************)
(*   crash         the game stops and reloads its last native save         *)
(*   save_failure  receipt:save() leaves no file (NetworkLocal.lua 3162)   *)
(*   lost_answer   Central handles a receipt, the Agent never learns it    *)
(*   half_write    Central stops between the writes of one handler         *)
(*   queue_race    custody or a receipt changes between the checks and the *)
(*                 write of queue_game_operation                           *)
(*   sale          a player sells the vehicle natively                     *)
(*   recreate      the game answers a command between the Agent's receipt  *)
(*                 test and its command test (agent.py 626-656)            *)
(***************************************************************************)
HazardNames == {"crash", "save_failure", "lost_answer", "half_write", "queue_race", "sale", "recreate"}

ASSUME GarageAssumption ==
  /\ Home \in Farms
  /\ Destination \in [Retrieves \union Transfers -> Farms]
  /\ Account \in [Farms -> {Account[f] : f \in Farms}]
  /\ Nothing \notin Farms \union Garages \union Retrieves \union Transfers
  /\ (Garages \union Retrieves) \intersect Transfers = {}   \* rows of different tables
  /\ Hazards \subseteq HazardNames /\ MaxFaults \in Nat

Prepare(g)  == <<"prepare", g>>
Store(g)    == <<"store", g>>
Retrieve(r) == <<"retrieve", r>>
Transfer(t) == <<"transfer", t>>
GarageOps   == {"prepare", "store"} \X Garages \union {"retrieve"} \X Retrieves
Ops         == GarageOps \union {"transfer"} \X Transfers

ItemStates == {"absent", "preparing", "removing", "awaiting_store_save", "stored", "retrieving",
               "awaiting_retrieve_save", "retrieved", "failed", "review_required"}
OpStates   == {"absent", "pending", "awaiting_save", "succeeded", "failed", "reconciliation_required"}
TransferStates == {"absent", "requested", "pending_game", "completed", "failed",
                   "reconciliation_required"}
Phases     == {"none", "prepared", "removing", "removed", "loading", "restored"}
(* "kept": definitively_not_applied with a readback that proves the vehicle *)
(* is where it was; "unproven": every other negative or uncertain receipt.  *)
Statuses   == {"prepared", "applied", "kept", "unproven"}

VARIABLES
  (* Central *)
  item,        \* item[g]: state of the vehicle_garage row
  lock,        \* garage_lock_id of the vehicle's code
  source,      \* source[x]: source farm of a garage row or transfer
  archived,    \* rows of vehicle_garage_archives
  retrieval,   \* retrieval[g]: request of the row's retrieve_operation_id
  leased,      \* leased[r]: garage row named in the payload of r's operation
  op,          \* op[o]: state of the farm_operations row; dispatched is pending
  transfer,    \* transfer[t]: status of the transfers row
  queueing,    \* transfers between the checks and the write of the queueing
  seen,        \* owners of the live copies in the newest accepted snapshot
  (* Agent and mailbox *)
  current,     \* the operation between the receipt test and the command test
  commands,    \* command files the manifest names
  receipt,     \* receipt[o]: unposted receipt file
  quarantined, \* operations with a .failed receipt
  journal,     \* journal[g]: phase in the journal file
  newer,       \* newer[g]: the native save is newer than the journal
  (* Game *)
  live,        \* owners of the live copies of the vehicle
  saved,       \* live as of the last native save
  deleting,    \* a native deletion is under way
  pending,     \* operations whose deferred removal or load is under way
  (* History *)
  loads,       \* loads[g]: native loads started from the archive of g
  moved,       \* moved[t]: the game gave the vehicle to the destination of t
  sold,        \* a player was paid for the vehicle
  soldSaved,   \* sold as of the last native save
  faults

custodyVars == <<item, lock, archived, retrieval, leased>>
requestVars == <<source, transfer, queueing, seen>>
mailboxVars == <<current, commands, receipt, quarantined>>
diskVars    == <<journal, newer, saved, soldSaved>>
gameVars    == <<live, deleting, pending, loads, moved, sold>>
vars == <<custodyVars, requestVars, op, mailboxVars, diskVars, gameVars, faults>>

Init ==
  /\ item = [g \in Garages |-> "absent"] /\ lock = Nothing
  /\ source = [x \in Garages \union Transfers |-> Nothing]
  /\ archived = {} /\ retrieval = [g \in Garages |-> Nothing]
  /\ leased = [r \in Retrieves |-> Nothing]
  /\ op = [o \in Ops |-> "absent"] /\ transfer = [t \in Transfers |-> "absent"]
  /\ queueing = {} /\ seen = <<Home>>
  /\ current = Nothing /\ commands = {} /\ receipt = [o \in Ops |-> "none"] /\ quarantined = {}
  /\ journal = [g \in Garages |-> "none"] /\ newer = [g \in Garages |-> TRUE]
  /\ live = <<Home>> /\ saved = <<Home>> /\ deleting = FALSE /\ pending = {}
  /\ loads = [g \in Garages |-> 0] /\ moved = [t \in Transfers |-> FALSE]
  /\ sold = FALSE /\ soldSaved = FALSE /\ faults = 0

Fault(h) == h \in Hazards /\ faults < MaxFaults /\ faults' = faults + 1
OpGarage(o) == IF o[1] = "retrieve" THEN leased[o[2]] ELSE o[2]
Awaited(o) == IF o[1] = "store" THEN "awaiting_store_save" ELSE "awaiting_retrieve_save"

-----------------------------------------------------------------------------
(* Central: requests of staff and managers. *)

(* The newest snapshot's inventory is complete and names a vehicle once. *)
InInventory == Len(seen) = 1
NotLive     == seen = <<>>
(* The one member account that canonically owns a farm. *)
FarmOwner(f)    == Account[f]

(* A transfer of the vehicle that is neither over nor superseded. *)
TransferOpen == \E t \in Transfers : op[Transfer(t)] \notin {"absent", "succeeded", "failed"}

StoreRequest(g) ==
  /\ item[g] = "absent" /\ lock = Nothing /\ ~TransferOpen
  /\ InInventory
  /\ "queue_race" \in Hazards \/ queueing = {}
  /\ lock' = g
  /\ item' = [item EXCEPT ![g] = "preparing"]
  /\ source' = [source EXCEPT ![g] = seen[1]]
  /\ op' = [op EXCEPT ![Prepare(g)] = "pending"]
  /\ UNCHANGED <<archived, retrieval, leased, transfer, queueing, seen, mailboxVars, diskVars,
                 gameVars, faults>>

RetrieveRequest(r) ==
  /\ leased[r] = Nothing /\ lock # Nothing /\ item[lock] = "stored"
  /\ NotLive /\ FarmOwner(Destination[r]) = FarmOwner(source[lock])
  /\ item' = [item EXCEPT ![lock] = "retrieving"]
  /\ retrieval' = [retrieval EXCEPT ![lock] = r]
  /\ leased' = [leased EXCEPT ![r] = lock]
  /\ op' = [op EXCEPT ![Retrieve(r)] = "pending"]
  /\ UNCHANGED <<lock, archived, requestVars, mailboxVars, diskVars, gameVars, faults>>

TransferRequest(t) ==
  /\ transfer[t] = "absent" /\ lock = Nothing
  /\ InInventory /\ seen[1] # Destination[t]
  /\ transfer' = [transfer EXCEPT ![t] = "requested"]
  /\ source' = [source EXCEPT ![t] = seen[1]]
  /\ UNCHANGED <<custodyVars, queueing, seen, op, mailboxVars, diskVars, gameVars, faults>>

(* queue_game_operation, also called by staff to retry: it reads everything *)
(* it needs, then writes the operation, then the transfer row.              *)
CheckQueue(t) ==
  /\ transfer[t] \in {"requested", "pending_game"} /\ t \notin queueing
  /\ lock = Nothing /\ seen = <<source[t]>>
  /\ queueing' = queueing \union {t}
  /\ UNCHANGED <<custodyVars, source, transfer, seen, op, mailboxVars, diskVars, gameVars, faults>>

QueueTransfer(t) ==
  /\ t \in queueing
  /\ queueing' = queueing \ {t}
  /\ op' = [op EXCEPT ![Transfer(t)] = IF @ = "absent" THEN "pending" ELSE @]
  /\ \/ /\ transfer' = [transfer EXCEPT ![t] = "pending_game"]
        /\ UNCHANGED faults
     \/ Fault("half_write") /\ UNCHANGED transfer
  /\ UNCHANGED <<custodyVars, source, seen, mailboxVars, diskVars, gameVars>>

SnapshotAccepted ==
  /\ seen # live /\ seen' = live
  /\ UNCHANGED <<custodyVars, source, transfer, queueing, op, mailboxVars, diskVars, gameVars, faults>>

-----------------------------------------------------------------------------
(* Central: what it makes of a receipt the Agent posts.  Each handler has  *)
(* the rows it accepts and what it writes; any other row answers 400.      *)

(* Upload of the archive (one transaction), which precedes the receipt. *)
CanCapture(o) ==
  o[1] = "prepare" /\ receipt[o] = "prepared" /\ (o[2] \in archived \/ item[o[2]] = "preparing")
Capture(o) ==
  LET g == o[2] IN
  /\ archived' = archived \union {g}
  /\ IF g \in archived THEN UNCHANGED <<item, op>>
     ELSE /\ item' = [item EXCEPT ![g] = "removing"]
          /\ op' = [op EXCEPT ![o] = "succeeded", ![Store(g)] = "pending"]
  /\ UNCHANGED <<lock, transfer>>

CanApply(o) ==
  /\ o[1] \in {"store", "retrieve"} /\ receipt[o] = "applied"
  /\ o[1] = "retrieve" => Destination[o[2]] = Destination[retrieval[OpGarage(o)]]
  /\ \/ op[o] = "succeeded"
     \/ item[OpGarage(o)] \in {IF o[1] = "store" THEN "removing" ELSE "retrieving", Awaited(o)}
Apply(o) ==
  /\ IF op[o] = "succeeded" THEN UNCHANGED <<item, op>>
     ELSE /\ item' = [item EXCEPT ![OpGarage(o)] = Awaited(o)]
          /\ op' = [op EXCEPT ![o] = "awaiting_save"]
  /\ UNCHANGED <<lock, archived, transfer>>

(* The game is known to have done nothing: the cycle ends, or the archive  *)
(* can be asked for again.                                                 *)
(* WRONG: an uncertain receipt releases custody too *)
RefusesDoubt(o) ==
  o \in GarageOps /\ receipt[o] \in {"kept", "unproven"} /\ op[o] \notin {"succeeded", "awaiting_save"}
CanRefuse(o) ==
  o \in GarageOps /\ receipt[o] = "kept" /\ op[o] \notin {"succeeded", "awaiting_save"}
Refuse(o) ==
  LET g == OpGarage(o)
      target == IF o[1] = "retrieve" THEN "stored" ELSE "failed" IN
  /\ item' = [item EXCEPT ![g] = target]
  /\ op' = [op EXCEPT ![o] = "failed"]
  /\ lock' = IF target = "failed" /\ lock = g THEN Nothing ELSE lock
  /\ UNCHANGED <<archived, transfer>>

(* Custody stays locked until an operator reconciles it. *)
CanReview(o) ==
  o \in GarageOps /\ receipt[o] = "unproven" /\ op[o] \notin {"succeeded", "awaiting_save"}
(* WRONG: only the operation is put under review *)
ReviewOperation(o) ==
  /\ op' = [op EXCEPT ![o] = "reconciliation_required"]
  /\ UNCHANGED <<item, lock, archived, transfer>>
Review(o) ==
  /\ item' = [item EXCEPT ![OpGarage(o)] = "review_required"]
  /\ op' = [op EXCEPT ![o] = "reconciliation_required"]
  /\ UNCHANGED <<lock, archived, transfer>>

TransferOutcome(s) ==
  CASE s = "applied" -> "completed" [] s = "kept" -> "failed" [] OTHER -> "reconciliation_required"
CanSettle(o) ==
  o[1] = "transfer" /\ \/ transfer[o[2]] \in {"pending_game", "reconciliation_required"}
                       \/ transfer[o[2]] = "completed" /\ receipt[o] = "applied"
Settle(o) ==
  LET t == o[2]
      outcome == TransferOutcome(receipt[o]) IN
  /\ IF transfer[t] = outcome THEN UNCHANGED <<transfer, op>>
     ELSE /\ transfer' = [transfer EXCEPT ![t] = outcome]
          /\ op' = [op EXCEPT ![o] = IF outcome = "completed" THEN "succeeded" ELSE outcome]
  /\ UNCHANGED <<item, lock, archived>>

Acceptable(o) == CanCapture(o) \/ CanApply(o) \/ CanRefuse(o) \/ CanReview(o) \/ CanSettle(o)
Handle(o) ==
  \/ CanCapture(o) /\ Capture(o)
  \/ CanApply(o) /\ Apply(o)
  \/ CanRefuse(o) /\ Refuse(o)
  \/ CanReview(o) /\ Review(o)
  \/ CanSettle(o) /\ Settle(o)

-----------------------------------------------------------------------------
(* Agent: one thread *)

PostReceipt(o) ==
  /\ receipt[o] # "none" /\ current = Nothing
  /\ "queue_race" \in Hazards \/ queueing = {}
  /\ \/ /\ Handle(o)
        /\ \/ receipt' = [receipt EXCEPT ![o] = "none"] /\ UNCHANGED faults
           \/ Fault("lost_answer") /\ UNCHANGED receipt
        /\ UNCHANGED quarantined
     \/ /\ ~Acceptable(o)
        /\ receipt' = [receipt EXCEPT ![o] = "none"]
        /\ quarantined' = quarantined \union {o}
        /\ UNCHANGED <<item, lock, archived, op, transfer, faults>>
  /\ UNCHANGED <<retrieval, leased, source, queueing, seen, current, commands, diskVars, gameVars>>

(* Central stops after the first write of a handler without a transaction. *)
HandlerStops(o) ==
  /\ receipt[o] # "none" /\ current = Nothing
  /\ Fault("half_write")
  /\ \/ CanApply(o) /\ op[o] # "succeeded" /\ item' = [item EXCEPT ![OpGarage(o)] = Awaited(o)]
     \/ CanReview(o) /\ item' = [item EXCEPT ![OpGarage(o)] = "review_required"]
  /\ UNCHANGED <<lock, archived, retrieval, leased, requestVars, op, mailboxVars, diskVars, gameVars>>

(* The operation pass: a receipt or .failed file means the game was there. *)
TestReceipt(o) ==
  /\ current = Nothing /\ op[o] = "pending"
  /\ receipt[o] = "none" /\ o \notin quarantined
  /\ current' = o
  /\ UNCHANGED <<custodyVars, requestVars, op, commands, receipt, quarantined, diskVars, gameVars,
                 faults>>

Available(g) ==
  g \in archived /\ item[g] \in {"removing", "retrieving",
                                "awaiting_store_save", "awaiting_retrieve_save"}
(* A deletion or load is delivered after an archive came back from Central. *)
Downloadable(o) == o[1] \in {"store", "retrieve"} => Available(OpGarage(o))

WriteCommand ==
  /\ current # Nothing /\ current' = Nothing
  /\ commands' = IF Downloadable(current) /\ ("recreate" \in Hazards \/ receipt[current] = "none")
                 THEN commands \union {current} ELSE commands
  /\ UNCHANGED <<custodyVars, requestVars, op, receipt, quarantined, diskVars, gameVars, faults>>

Gone(g)     == item[g] = "awaiting_store_save"
Expected(g) == IF Gone(g) THEN <<>> ELSE <<Destination[retrieval[g]]>>

(* WRONG: Central's snapshot alone is proof *)
ProvenLive(g) == seen = Expected(g)
(* process_garage_checkpoints_once: the journal, a native save that is not *)
(* older, and Central's snapshot agree.                                    *)
Proven(g) ==
  /\ journal[g] = (IF Gone(g) THEN "removed" ELSE "restored") /\ newer[g]
  /\ saved = Expected(g) /\ seen = Expected(g)

Checkpoint(g) ==
  LET gone == Gone(g) IN
  /\ current = Nothing
  /\ item[g] \in {"awaiting_store_save", "awaiting_retrieve_save"} /\ Proven(g)
  /\ item' = [item EXCEPT ![g] = IF gone THEN "stored" ELSE "retrieved"]
  /\ op' = [op EXCEPT ![IF gone THEN Store(g) ELSE Retrieve(retrieval[g])] = "succeeded"]
  /\ lock' = IF ~gone /\ lock = g THEN Nothing ELSE lock
  /\ UNCHANGED <<archived, retrieval, leased, requestVars, mailboxVars, diskVars, gameVars, faults>>

-----------------------------------------------------------------------------
(* Game *)

Ready(o) == o \in commands /\ receipt[o] = "none" /\ o \notin pending

(* saveReceiptAndConsume: without a receipt file the command stays. *)
Answer(o, s) ==
  \/ /\ receipt' = [receipt EXCEPT ![o] = s] /\ commands' = commands \ {o}
     /\ UNCHANGED faults
  \/ Fault("save_failure") /\ UNCHANGED <<receipt, commands>>

(* A step of the game that changes neither disk journal nor vehicle. *)
Declines(o, s) ==
  Answer(o, s) /\ UNCHANGED <<journal, newer, live, deleting, pending, loads, moved>>
(* The readback of a preflight failure proves the vehicle where it belongs. *)
Readback(o) ==
  IF live = (IF o[1] = "retrieve" THEN <<>> ELSE <<source[o[2]]>>) THEN "kept" ELSE "unproven"

WritePhase(g, phase) ==
  journal' = [journal EXCEPT ![g] = phase] /\ newer' = [newer EXCEPT ![g] = FALSE]

ProcessPrepare(o) ==
  LET g == o[2] IN
  \/ /\ live = <<source[g]>> /\ journal[g] \in {"none", "prepared"}
     /\ IF journal[g] = "none" THEN WritePhase(g, "prepared") ELSE UNCHANGED <<journal, newer>>
     /\ Answer(o, "prepared")
     /\ UNCHANGED <<live, deleting, pending, loads, moved>>
  \/ Declines(o, Readback(o))

ProcessStore(o) ==
  LET g == o[2] IN
  \/ /\ live = <<>> /\ journal[g] = "removed"
     /\ Declines(o, "applied")
  \/ /\ live = <<source[g]>> /\ journal[g] = "prepared"
     /\ WritePhase(g, "removing")
     /\ pending' = pending \union {o} /\ deleting' = TRUE
     /\ UNCHANGED <<receipt, commands, live, loads, moved, faults>>
  \/ journal[g] = "prepared" /\ Declines(o, Readback(o))
  \/ ~(live = <<>> /\ journal[g] = "removed") /\ journal[g] # "prepared" /\ Declines(o, "unproven")

(* The journal knows of no earlier load. *)
NeverLoaded(g) == journal[g] \in {"none", "removed"}

ProcessRetrieve(o) ==
  LET g == OpGarage(o) IN
  \/ /\ live = <<>> /\ NeverLoaded(g)
     /\ WritePhase(g, "loading")
     /\ pending' = pending \union {o} /\ loads' = [loads EXCEPT ![g] = @ + 1]
     /\ UNCHANGED <<receipt, commands, live, deleting, moved, faults>>
  \/ live = <<>> /\ NeverLoaded(g) /\ Declines(o, "kept")
  \/ (live # <<>> \/ ~NeverLoaded(g)) /\ Declines(o, "unproven")

(* WRONG: whoever owns it now, the vehicle goes to the destination *)
AnyOwner(t) == Len(live) = 1
OwnedBySource(t) == live = <<source[t]>>

ProcessTransfer(o) ==
  LET t == o[2] IN
  \/ /\ OwnedBySource(t)
     /\ live' = <<Destination[t]>> /\ moved' = [moved EXCEPT ![t] = TRUE]
     /\ Answer(o, "applied") /\ UNCHANGED <<journal, newer, deleting, pending, loads>>
  \/ OwnedBySource(t) /\ Declines(o, "kept")
  \/ Declines(o, "unproven")

Process(o) ==
  /\ Ready(o)
  /\ \/ o[1] = "prepare" /\ ProcessPrepare(o)
     \/ o[1] = "store" /\ ProcessStore(o)
     \/ o[1] = "retrieve" /\ ProcessRetrieve(o)
     \/ o[1] = "transfer" /\ ProcessTransfer(o)
  /\ UNCHANGED <<custodyVars, requestVars, op, current, quarantined, saved, soldSaved, sold>>

NativeDelete ==
  /\ deleting /\ deleting' = FALSE /\ live' = <<>>
  /\ UNCHANGED <<custodyVars, requestVars, op, mailboxVars, diskVars, pending, loads, moved, sold,
                 faults>>

(* updateGaragePending: the removal is seen, or 60 seconds have passed. *)
FinishRemoval(o) ==
  /\ o \in pending /\ o[1] = "store" /\ pending' = pending \ {o}
  /\ \/ live = <<>> /\ WritePhase(o[2], "removed") /\ Answer(o, "applied")
     \/ live # <<>> /\ UNCHANGED <<journal, newer>> /\ Answer(o, "unproven")
  /\ UNCHANGED <<custodyVars, requestVars, op, current, quarantined, saved, soldSaved, live, deleting, loads,
                 moved, sold>>

(* The load callback; a load that fails may leave the vehicle or not. *)
FinishLoad(o) ==
  LET loaded == Append(live, Destination[o[2]]) IN
  /\ o \in pending /\ o[1] = "retrieve" /\ pending' = pending \ {o}
  /\ \/ /\ live = <<>> /\ live' = loaded
        /\ WritePhase(OpGarage(o), "restored") /\ Answer(o, "applied")
     \/ /\ live' \in {live, loaded}
        /\ UNCHANGED <<journal, newer>> /\ Answer(o, "unproven")
  /\ UNCHANGED <<custodyVars, requestVars, op, current, quarantined, saved, soldSaved, deleting, loads, moved,
                 sold>>

NativeSave ==
  /\ saved # live \/ \E g \in Garages : ~newer[g]
  /\ saved' = live /\ soldSaved' = sold /\ newer' = [g \in Garages |-> TRUE]
  /\ UNCHANGED <<custodyVars, requestVars, op, mailboxVars, journal, gameVars, faults>>

Crash ==
  /\ Fault("crash")
  /\ live' = saved /\ sold' = soldSaved /\ deleting' = FALSE /\ pending' = {}
  /\ UNCHANGED <<custodyVars, requestVars, op, mailboxVars, diskVars, loads, moved>>

PlayerSells ==
  /\ Fault("sale") /\ Len(live) = 1 /\ ~deleting
  /\ live' = <<>> /\ sold' = TRUE
  /\ UNCHANGED <<custodyVars, requestVars, op, mailboxVars, diskVars, deleting, pending, loads, moved>>

-----------------------------------------------------------------------------
CentralStep ==
  \/ \E g \in Garages : StoreRequest(g)
  \/ \E r \in Retrieves : RetrieveRequest(r)
  \/ \E t \in Transfers : TransferRequest(t) \/ CheckQueue(t) \/ QueueTransfer(t)
AgentStep ==
  \/ \E o \in Ops : PostReceipt(o) \/ TestReceipt(o) \/ HandlerStops(o)
  \/ \E g \in Garages : Checkpoint(g)
  \/ WriteCommand \/ SnapshotAccepted
GameStep ==
  \/ \E o \in Ops : Process(o) \/ FinishRemoval(o) \/ FinishLoad(o)
  \/ NativeDelete \/ NativeSave \/ Crash \/ PlayerSells

Next == CentralStep \/ AgentStep \/ GameStep
Spec == Init /\ [][Next]_vars

(* Every pass of the Agent visits every receipt, operation and checkpoint, *)
(* so none is passed over for ever (strong); the server keeps polling,     *)
(* deleting, loading and saving (weak).  Nobody has to ask for anything.   *)
Fairness ==
  /\ \A o \in Ops : SF_vars(PostReceipt(o)) /\ SF_vars(TestReceipt(o))
  /\ \A g \in Garages : SF_vars(Checkpoint(g))
  /\ \A t \in Transfers : WF_vars(QueueTransfer(t))
  /\ WF_vars(WriteCommand) /\ WF_vars(SnapshotAccepted)
  /\ \A o \in Ops : WF_vars(Process(o)) /\ WF_vars(FinishRemoval(o)) /\ WF_vars(FinishLoad(o))
  /\ WF_vars(NativeDelete) /\ WF_vars(NativeSave)
FairSpec == Spec /\ Fairness

-----------------------------------------------------------------------------
(* Properties *)

TypeOK ==
  /\ item \in [Garages -> ItemStates] /\ lock \in Garages \union {Nothing}
  /\ source \in [Garages \union Transfers -> Farms \union {Nothing}]
  /\ archived \subseteq Garages
  /\ retrieval \in [Garages -> Retrieves \union {Nothing}]
  /\ leased \in [Retrieves -> Garages \union {Nothing}]
  /\ op \in [Ops -> OpStates] /\ transfer \in [Transfers -> TransferStates]
  /\ queueing \subseteq Transfers /\ seen \in Seq(Farms)
  /\ current \in Ops \union {Nothing} /\ commands \subseteq Ops
  /\ receipt \in [Ops -> Statuses \union {"none"}] /\ quarantined \subseteq Ops
  /\ journal \in [Garages -> Phases] /\ newer \in [Garages -> BOOLEAN]
  /\ live \in Seq(Farms) /\ saved \in Seq(Farms) /\ deleting \in BOOLEAN /\ pending \subseteq Ops
  /\ loads \in [Garages -> Nat] /\ moved \in [Transfers -> BOOLEAN]
  /\ sold \in BOOLEAN /\ soldSaved \in BOOLEAN /\ faults \in 0..MaxFaults

(* The archive, the vehicle or a load of it is never lost, whatever stops   *)
(* and whichever requests overlap: what is not in the world is in custody   *)
(* and has an archive at Central (capture before garage_store, agent.py     *)
(* 657-662, and the lock that only a proof releases).  A vehicle a player   *)
(* sold is neither.                                                         *)
NeverLost == live = <<>> /\ ~sold => lock # Nothing /\ lock \in archived

(* No archive is ever loaded a second time, so no vehicle is doubled: not   *)
(* after a crash inside the load, a receipt that was not written, or a      *)
(* second request (VehicleGarage.lua 237-240).                              *)
LoadedOnce == Len(live) <= 1 /\ \A g \in Garages : loads[g] <= 1

(* Whatever stops and whichever requests overlap, the vehicle is somewhere  *)
(* and its archive is used at most once.                                    *)
GarageHolds == NeverLost /\ LoadedOnce

(* Custody of the code, and the copies the running game has of its vehicle, *)
(* keep the promise of VehicleCustody: the vehicle is in the world, or the  *)
(* garage has it, never both; what is doubtful stays under review.          *)
Custody ==
  IF lock = Nothing THEN "world"
  ELSE CASE item[lock] \in {"preparing", "removing", "awaiting_store_save"} -> "leaving"
         [] item[lock] = "stored" -> "garage"
         [] item[lock] \in {"retrieving", "awaiting_retrieve_save"} -> "returning"
         [] OTHER -> "review"
Promise == INSTANCE VehicleCustody WITH custody <- Custody, copies <- Len(live)
PromiseKept == Promise!Spec

(* A vehicle code's garage_lock_id "prevents concurrent custody and         *)
(* transfers" (docs/database-structure.md): no transfer of a held vehicle   *)
(* is on its way to the game.                                               *)
NoConcurrentCustody == lock # Nothing => \A t \in Transfers : op[Transfer(t)] # "pending"

(* A request "atomically leases that garage item for one retrieval"         *)
(* (docs/vehicle-garage.md): while the operation of a retrieval is on its   *)
(* way the item is not open to another one.                                 *)
LeaseHeld == \A r \in Retrieves : op[Retrieve(r)] = "pending" => item[leased[r]] # "stored"

(* "live plus garage custody never produces a second usable copy or sale    *)
(* credit" (docs/vehicle-garage.md): a vehicle a player sold is not also    *)
(* kept as a stored asset.                                                  *)
NoSaleCredit == sold => \A g \in Garages : item[g] # "stored"

(* A store or retrieval does not hang: it is given up, completed, or ends   *)
(* in review ("A crash, partial load, conflicting receipt or unproven       *)
(* removal produces review_required", docs/vehicle-garage.md).              *)
Unsettled(g) == item[g] \notin {"absent", "stored", "retrieved", "failed", "review_required"}
CustodySettles == \A g \in Garages : Unsettled(g) ~> ~Unsettled(g)

(* Nobody is told a transfer failed that the game has made, or completed    *)
(* that it has not, although commands are repeated when a receipt was not   *)
(* written (the redelivered command finds the new owner and must not guess, *)
(* NetworkLocal.lua 3468).  As long as the game does not lose its memory.   *)
TransferTruth ==
  \A t \in Transfers : /\ transfer[t] = "completed" => moved[t]
                       /\ transfer[t] = "failed" => ~moved[t]

(* A transfer the game was asked for ends with an answer to the players.    *)
TransfersSettle ==
  \A t \in Transfers : op[Transfer(t)] = "pending" ~> op[Transfer(t)] # "pending"

(* Neither a store or retrieval nor a transfer hangs.                       *)
GarageSettles == CustodySettles /\ TransfersSettle
=============================================================================
