-------------------------- MODULE VehicleGarageProofs --------------------------
(***************************************************************************)
(* Theorems about VehicleGarage for every set of farms, store requests,    *)
(* retrievals and transfers: types, archives loaded at most once, leases,  *)
(* transfers reported as they were made, the vehicle never lost, and that  *)
(* the garage implements VehicleCustody.                                   *)
(*                                                                         *)
(* LoadInv ties loads to the journal; TransferInv, OnceInv, RepeatInv and  *)
(* LockInv concern transfers.  CycleInv follows an item to the end of its  *)
(* store, with StoreDelivery on what the game may still execute, and       *)
(* WorldInv says what row and journal leave open about the vehicle: both   *)
(* hold also when a refusal of a retrieval meets another retrieval.        *)
(* RowInv with DeliveryInv, and StoredInv on top, say of every operation   *)
(* what leases and the refinement need, when that does not happen.         *)
(***************************************************************************)
EXTENDS VehicleGarage, TLAPS

-------------------------------------------------------------------------------
(* Invariants                                                              *)

(* A refused retrieval is not posted again after its item has been leased  *)
(* to another one (see LeaseHeld).                                         *)
OneAnswer == "lost_answer" \notin Hazards \/ \A r, s \in Retrieves : r = s

(* What the game is asked for was asked for by staff, of a leased archive. *)
RequestInv ==
  /\ \A o \in Ops : o \in commands \union pending \/ receipt[o] # "none" => op[o] # "absent"
  /\ current # Nothing => op[current] # "absent"
  /\ \A r \in Retrieves : op[Retrieve(r)] # "absent" => leased[r] \in Garages
  /\ \A g \in Garages : retrieval[g] # Nothing => leased[retrieval[g]] \in Garages

(* The archive of a store is loaded once, and the journal remembers it.    *)
LoadInv ==
  /\ \A g \in Garages :
       /\ loads[g] <= 1
       /\ journal[g] \in {"none", "prepared", "removing", "removed"} => loads[g] = 0
  /\ \A g \in Garages : Store(g) \in pending => journal[g] = "removing"
  /\ \A r \in Retrieves : Retrieve(r) \in pending => journal[leased[r]] = "loading"
  /\ \A r, s \in Retrieves :
       Retrieve(r) \in pending /\ Retrieve(s) \in pending /\ leased[r] = leased[s] => r = s

(* Only an operation that has no answer yet can be with the game.          *)
Unanswered(o) ==
  /\ o \in commands => op[o] = "pending" /\ receipt[o] = "none" /\ o \notin quarantined
  /\ current # Nothing /\ o = current => op[o] = "pending" /\ o \notin quarantined
DeliveryInv == (\A o \in Ops : Unanswered(o)) /\ pending \subseteq commands

(* What a receipt that was not posted says of its transfer.                *)
TransferInv ==
  \A t \in Transfers :
    /\ receipt[Transfer(t)] = "applied" \/ transfer[t] = "completed" => moved[t]
    /\ receipt[Transfer(t)] = "kept" \/ transfer[t] = "failed" => ~moved[t]
    /\ transfer[t] \in {"completed", "failed", "reconciliation_required"}
         => op[Transfer(t)] \notin {"absent", "pending"}
    /\ moved[t] => op[Transfer(t)] # "absent"
    /\ Unanswered(Transfer(t))

(* Where no receipt goes unwritten a transfer is never commanded twice.    *)
OnceInv ==
  \A t \in Transfers : moved[t] => \/ op[Transfer(t)] # "pending" \/ receipt[Transfer(t)] = "applied"
                                   \/ Transfer(t) \in quarantined

(* A transfer the game made and may be asked for again has not been        *)
(* undone: the command finds another owner than the source.                *)
RepeatInv ==
  \A t \in Transfers :
    /\ transfer[t] # "absent" => source[t] # Destination[t]
    /\ op[Transfer(t)] # "absent" \/ t \in queueing => transfer[t] # "absent"
    /\ moved[t] /\ op[Transfer(t)] = "pending" => live # <<source[t]>>

(* No transfer is on its way while custody is held.                        *)
LockInv == lock # Nothing => queueing = {} /\ \A t \in Transfers : op[Transfer(t)] # "pending"

Working(o) == CASE o[1] = "prepare" -> "preparing"
                [] o[1] = "store" -> "removing"
                [] OTHER -> "retrieving"
Refused(o) == IF o[1] = "retrieve" THEN "stored" ELSE "failed"

(* The operation is the newest of its item.                                *)
Mine(o) == OpGarage(o) \in Garages /\ (o[1] = "retrieve" => retrieval[OpGarage(o)] = o[2])

(* What operation, receipt and item have in common.                        *)
OpInv(o) ==
  LET state == item[OpGarage(o)] IN
  /\ o[1] = "retrieve" /\ op[o] # "absent" => OpGarage(o) \in Garages
  /\ op[o] = "pending" =>
       /\ Mine(o)
       /\ \/ state = Working(o)
          \/ receipt[o] = "applied" /\ state = Awaited(o)
          \/ receipt[o] = "unproven" /\ state = "review_required"
  /\ op[o] = "awaiting_save" => Mine(o) /\ o[1] # "prepare" /\ state = Awaited(o)
  /\ op[o] = "succeeded" /\ o[1] = "store" =>
       state \in {"stored", "retrieving", "awaiting_retrieve_save", "retrieved", "review_required"}
  /\ op[o] = "succeeded" /\ o[1] = "retrieve" => Mine(o) /\ state = "retrieved"
  /\ receipt[o] # "none" => Mine(o)
  /\ receipt[o] = "kept" => \/ op[o] = "pending"
                            \/ op[o] = "failed" /\ state = Refused(o) /\ "lost_answer" \in Hazards
  /\ receipt[o] = "unproven" =>
       op[o] = "pending" \/ (op[o] = "reconciliation_required" /\ state = "review_required")
  /\ receipt[o] = "applied" => o[1] # "prepare" /\ op[o] \in {"pending", "awaiting_save", "succeeded"}
  /\ receipt[o] = "prepared" => o[1] = "prepare"

Held == ItemStates \ {"absent", "failed", "retrieved"}

ItemInv(g) ==
  /\ lock = g <=> item[g] \in Held
  /\ item[g] \in {"retrieving", "awaiting_retrieve_save"} =>
       retrieval[g] \in Retrieves /\ leased[retrieval[g]] = g
  /\ item[g] = "awaiting_store_save" =>
       op[Store(g)] = "awaiting_save" \/ receipt[Store(g)] = "applied"
  /\ item[g] = "awaiting_retrieve_save" =>
       op[Retrieve(retrieval[g])] = "awaiting_save" \/ receipt[Retrieve(retrieval[g])] = "applied"
  /\ item[g] \in Held \ {"preparing", "review_required"} => g \in archived

RowInv == (\A o \in GarageOps : OpInv(o)) /\ (\A g \in Garages : ItemInv(g))

(* The store of g was completed: its archive may be asked for.             *)
Stored(g) == op[Store(g)] = "succeeded"

(* The states of an item that was stored once.                             *)
After == {"stored", "retrieving", "awaiting_retrieve_save", "retrieved", "review_required"}

(* What a preparation and its receipt say of the item, and a store.        *)
Preparing(g) ==
  LET o == Prepare(g) IN
  /\ op[o] # "awaiting_save" /\ receipt[o] # "applied"
  /\ op[o] = "pending" =>
       item[g] = "preparing" \/ (receipt[o] = "unproven" /\ item[g] = "review_required")
  /\ receipt[o] = "kept" => op[o] = "pending" \/ (op[o] = "failed" /\ item[g] = "failed")
  /\ receipt[o] = "unproven" =>
       op[o] = "pending" \/ (op[o] = "reconciliation_required" /\ item[g] = "review_required")
Removing(g) ==
  LET o == Store(g) IN
  /\ op[o] # "absent" => /\ op[Prepare(g)] = "succeeded" /\ g \in archived
                         /\ item[g] \notin {"absent", "preparing"}
  /\ op[o] = "pending" => \/ item[g] = "removing"
                          \/ receipt[o] = "applied" /\ item[g] = "awaiting_store_save"
                          \/ receipt[o] = "unproven" /\ item[g] = "review_required"
  /\ op[o] = "awaiting_save" => item[g] = "awaiting_store_save"
  /\ op[o] = "succeeded" => item[g] \in After
  /\ receipt[o] = "kept" => op[o] = "pending" \/ (op[o] = "failed" /\ item[g] = "failed")
  /\ receipt[o] = "unproven" =>
       op[o] = "pending" \/ (op[o] = "reconciliation_required" /\ item[g] = "review_required")
  /\ receipt[o] = "applied" => op[o] \in {"pending", "awaiting_save", "succeeded"}
  /\ receipt[o] # "prepared"

(* Until its store is complete an item does what preparation and store     *)
(* say.  Then any of its retrievals may move it, in any order, also one    *)
(* that was refused long ago and whose answer was lost; so nothing is said *)
(* of it any more, and the journal decides what happens to the vehicle.    *)
Cycle(g) ==
  /\ Preparing(g) /\ Removing(g)
  /\ item[g] \in {"removing", "awaiting_store_save"} => op[Store(g)] # "absent"
  /\ item[g] = "awaiting_store_save" =>
       op[Store(g)] = "awaiting_save" \/ receipt[Store(g)] = "applied"
  /\ item[g] \in After \ {"review_required"} => Stored(g)
  /\ ~Stored(g) => (lock = g <=> item[g] \in Held)
CycleInv ==
  /\ \A g \in Garages : Cycle(g)
  /\ \A r \in Retrieves : leased[r] # Nothing => Stored(leased[r])

(* A preparation or store that has an answer is not with the game.         *)
StoreDelivery ==
  /\ \A g \in Garages : Unanswered(Prepare(g)) /\ Unanswered(Store(g))
  /\ pending \subseteq commands

Leaving(g) == item[g] \in {"preparing", "removing", "awaiting_store_save"}

(* The vehicle is in the world, unless it was sold; it is nowhere.         *)
Untouched == /\ ~deleting /\ (saved = <<>> => live = <<>>)
             /\ Len(live) = 1 \/ sold
             /\ Len(saved) = 1 \/ soldSaved
Absent == live = <<>> /\ saved = <<>> /\ ~deleting

(* Once it is stored the vehicle is nowhere until its load is journalled.  *)
Restorable(g) ==
  /\ journal[g] \in {"removed", "loading", "restored"}
  /\ journal[g] = "removed" => Absent
  /\ live = <<>> => saved = <<>> \/ sold
  /\ ~deleting

(* What is known of the vehicle and its saved copy while g is locked.      *)
HeldInv(g) ==
  /\ Leaving(g) =>
       /\ journal[g] \in {"none", "prepared", "removing", "removed"}
       /\ journal[g] \in {"none", "prepared"} => Untouched
       /\ saved = <<>> => live = <<>>
  /\ item[g] = "preparing" => journal[g] \in {"none", "prepared"}
  /\ item[g] = "review_required" /\ g \notin archived => Untouched
  /\ Stored(g) => Restorable(g)

(* A store the game has refused was not begun.                             *)
Undone(o) ==
  o[1] # "retrieve" /\ receipt[o] = "kept" /\ op[o] = "pending"
    => journal[o[2]] \in {"none", "prepared"}

CopiesInv ==
  /\ Len(live) <= 1 /\ Len(saved) <= 1
  /\ deleting => live # <<>>
  /\ "sale" \notin Hazards => ~sold /\ ~soldSaved

WorldInv ==
  /\ CopiesInv
  /\ lock = Nothing => Untouched
  /\ \A g \in Garages : /\ item[g] = "absent" => journal[g] = "none"
                        /\ lock = g => HeldInv(g)
                        /\ lock # g /\ Stored(g) => journal[g] = "restored"
  /\ \A o \in GarageOps : Undone(o)
  /\ \A r \in Retrieves : Retrieve(r) \in pending => Absent

(* Where no refusal is posted again the item says what the journal says.   *)
StoredInv ==
  /\ \A g \in Garages : item[g] = "stored" => journal[g] = "removed"
  /\ \A r \in Retrieves : receipt[Retrieve(r)] = "kept" /\ op[Retrieve(r)] = "pending"
                            => journal[leased[r]] \in {"none", "removed"}

-------------------------------------------------------------------------------
(* Operations and sequences of owners                                      *)

LEMMA OpNames ==
  /\ \A g \in Garages : /\ Prepare(g) \in GarageOps /\ Prepare(g)[1] = "prepare" /\ Prepare(g)[2] = g
                        /\ Store(g) \in GarageOps /\ Store(g)[1] = "store" /\ Store(g)[2] = g
  /\ \A r \in Retrieves :
       Retrieve(r) \in GarageOps /\ Retrieve(r)[1] = "retrieve" /\ Retrieve(r)[2] = r
  /\ \A t \in Transfers : Transfer(t) \in Ops /\ Transfer(t)[1] = "transfer" /\ Transfer(t)[2] = t
BY DEF Prepare, Store, Retrieve, Transfer, Ops, GarageOps

LEMMA OpKinds ==
  ASSUME NEW o \in Ops
  PROVE  /\ o[1] \in {"prepare", "store", "retrieve", "transfer"}
         /\ o[1] = "prepare" => o[2] \in Garages /\ o = Prepare(o[2])
         /\ o[1] = "store" => o[2] \in Garages /\ o = Store(o[2])
         /\ o[1] = "retrieve" => o[2] \in Retrieves /\ o = Retrieve(o[2])
         /\ o[1] = "transfer" => o[2] \in Transfers /\ o = Transfer(o[2])
         /\ o \in GarageOps <=> o[1] # "transfer"
BY DEF Prepare, Store, Retrieve, Transfer, Ops, GarageOps

LEMMA GarageOpsAreOps == GarageOps \subseteq Ops
BY DEF Ops

(* The owners of at most one copy.                                         *)
LEMMA Copies ==
  ASSUME NEW s \in Seq(Farms)
  PROVE  /\ Len(s) \in Nat
         /\ s = <<>> <=> Len(s) = 0
         /\ Len(s) = 1 => s # <<>> /\ s[1] \in Farms
         /\ \A f \in Farms : <<f>> \in Seq(Farms) /\ Len(<<f>>) = 1
         /\ \A f \in Farms : Append(s, f) \in Seq(Farms) /\ Len(Append(s, f)) = Len(s) + 1
OBVIOUS

LEMMA AtMostOne ==
  ASSUME NEW s \in Seq(Farms), Len(s) <= 1
  PROVE  Len(s) = 1 \/ s = <<>>
<1>1. Len(s) \in Nat /\ (s = <<>> <=> Len(s) = 0) BY Copies
<1>2. ASSUME NEW n \in Nat, n <= 1 PROVE n = 1 \/ n = 0 BY <1>2
<1>3. Len(s) = 1 \/ Len(s) = 0 BY <1>1, <1>2
<1> QED BY <1>1, <1>3

LEMMA NotMany ==
  ASSUME NEW s, s = <<>> \/ Len(s) = 1
  PROVE  Len(s) <= 1
<1>1. CASE s = <<>>
  <2>1. Len(s) = 0 BY <1>1
  <2> QED BY <2>1
<1>2. CASE Len(s) = 1 BY <1>2
<1> QED BY <1>1, <1>2

LEMMA OneCopy == \A f : <<f>> # <<>> /\ Len(<<f>>) = 1 /\ Append(<<>>, f) = <<f>>
OBVIOUS

-------------------------------------------------------------------------------
(* What the game does with a command                                       *)

AnswersTo(o) == IF o[1] = "prepare" THEN {"prepared", "kept", "unproven"}
                ELSE {"applied", "kept", "unproven"}

(* It answers, and the command is gone, or it does not.                    *)
Answered(o) ==
  \/ receipt' = receipt /\ commands' = commands /\ pending' \subseteq pending \union {o}
  \/ /\ \E s \in AnswersTo(o) : receipt' = [receipt EXCEPT ![o] = s]
     /\ commands' = commands \ {o} /\ pending' \subseteq pending \ {o}

LEMMA DeclinesAnswers ==
  ASSUME NEW o, o \notin pending, NEW s \in AnswersTo(o), Declines(o, s)
  PROVE  Answered(o)
BY DEF Declines, Answer, Answered

LEMMA ReadbackAnswers == \A o : Readback(o) \in {"kept", "unproven"} /\ Readback(o) \in AnswersTo(o)
BY DEF Readback, AnswersTo

LEMMA ProcessAnswers ==
  ASSUME NEW o \in Ops, Process(o)
  PROVE  Answered(o) /\ o \in commands /\ receipt[o] = "none" /\ o \notin pending
<1>1. o \in commands /\ receipt[o] = "none" /\ o \notin pending
  BY DEF Process, Ready
<1>2. CASE o[1] = "prepare" /\ ProcessPrepare(o)
  <2>1. "prepared" \in AnswersTo(o)
    BY <1>2 DEF AnswersTo
  <2>2. CASE Declines(o, Readback(o))
    BY <2>2, <1>1, DeclinesAnswers, ReadbackAnswers
  <2> QED BY <1>1, <1>2, <2>1, <2>2 DEF ProcessPrepare, Answer, Answered
<1>3. CASE o[1] = "store" /\ ProcessStore(o)
  <2>1. "applied" \in AnswersTo(o) /\ "unproven" \in AnswersTo(o)
    BY <1>3 DEF AnswersTo
  <2>2. ASSUME NEW s \in AnswersTo(o), Declines(o, s) PROVE Answered(o)
    BY <2>2, <1>1, DeclinesAnswers
  <2> QED BY <1>1, <1>3, <2>1, <2>2, ReadbackAnswers DEF ProcessStore, Answered
<1>4. CASE o[1] = "retrieve" /\ ProcessRetrieve(o)
  <2>1. "kept" \in AnswersTo(o) /\ "unproven" \in AnswersTo(o)
    BY <1>4 DEF AnswersTo
  <2>2. ASSUME NEW s \in AnswersTo(o), Declines(o, s) PROVE Answered(o)
    BY <2>2, <1>1, DeclinesAnswers
  <2> QED BY <1>1, <1>4, <2>1, <2>2 DEF ProcessRetrieve, Answered
<1>5. CASE o[1] = "transfer" /\ ProcessTransfer(o)
  <2>1. "applied" \in AnswersTo(o) /\ "kept" \in AnswersTo(o) /\ "unproven" \in AnswersTo(o)
    BY <1>5 DEF AnswersTo
  <2>2. ASSUME NEW s \in AnswersTo(o), Declines(o, s) PROVE Answered(o)
    BY <2>2, <1>1, DeclinesAnswers
  <2> QED BY <1>1, <1>5, <2>1, <2>2 DEF ProcessTransfer, Answer, Answered
<1> QED BY <1>1, <1>2, <1>3, <1>4, <1>5 DEF Process

LEMMA FinishAnswers ==
  ASSUME NEW o \in Ops, FinishRemoval(o) \/ FinishLoad(o)
  PROVE  Answered(o) /\ o \in pending /\ pending' = pending \ {o}
<1>1. "applied" \in AnswersTo(o) /\ "unproven" \in AnswersTo(o)
  BY DEF AnswersTo, FinishRemoval, FinishLoad
<1> QED BY <1>1 DEF FinishRemoval, FinishLoad, Answer, Answered

LEMMA GameFrame ==
  ASSUME NEW o, Process(o) \/ FinishRemoval(o) \/ FinishLoad(o)
  PROVE  UNCHANGED <<custodyVars, requestVars, op, current, quarantined, saved, soldSaved, sold>>
BY DEF Process, FinishRemoval, FinishLoad, custodyVars, requestVars

LEMMA AnswerKinds ==
  ASSUME NEW o, NEW s \in AnswersTo(o)
  PROVE  /\ s \in Statuses \ {"none"}
         /\ s = "prepared" => o[1] = "prepare"
         /\ s = "applied" => o[1] # "prepare"
BY DEF AnswersTo, Statuses

-------------------------------------------------------------------------------
(* Type correctness                                                        *)

CustodyType ==
  /\ item \in [Garages -> ItemStates] /\ lock \in Garages \union {Nothing}
  /\ archived \subseteq Garages
  /\ retrieval \in [Garages -> Retrieves \union {Nothing}]
  /\ leased \in [Retrieves -> Garages \union {Nothing}]
RequestType ==
  /\ source \in [Garages \union Transfers -> Farms \union {Nothing}]
  /\ op \in [Ops -> OpStates] /\ transfer \in [Transfers -> TransferStates]
  /\ queueing \subseteq Transfers /\ seen \in Seq(Farms)
MailboxType ==
  /\ current \in Ops \union {Nothing} /\ commands \subseteq Ops
  /\ receipt \in [Ops -> Statuses \union {"none"}] /\ quarantined \subseteq Ops
GameType ==
  /\ journal \in [Garages -> Phases] /\ newer \in [Garages -> BOOLEAN]
  /\ live \in Seq(Farms) /\ saved \in Seq(Farms) /\ deleting \in BOOLEAN /\ pending \subseteq Ops
  /\ loads \in [Garages -> Nat] /\ moved \in [Transfers -> BOOLEAN]
  /\ sold \in BOOLEAN /\ soldSaved \in BOOLEAN
FaultType == faults \in 0..MaxFaults

LEMMA TypeParts ==
  TypeOK <=> CustodyType /\ RequestType /\ MailboxType /\ GameType /\ FaultType
BY DEF TypeOK, CustodyType, RequestType, MailboxType, GameType, FaultType

LEMMA TypePartsNext ==
  TypeOK' <=> CustodyType' /\ RequestType' /\ MailboxType' /\ GameType' /\ FaultType'
BY DEF TypeOK, CustodyType, RequestType, MailboxType, GameType, FaultType

LEMMA FaultIsCounted ==
  ASSUME TypeOK, NEW h, Fault(h) \/ UNCHANGED faults
  PROVE  FaultType'
<1>1. MaxFaults \in Nat /\ faults \in 0..MaxFaults
  BY GarageAssumption DEF TypeOK
<1> QED BY <1>1 DEF Fault, FaultType

LEMMA PhaseType ==
  ASSUME TypeOK, NEW g, NEW phase \in Phases, WritePhase(g, phase)
  PROVE  journal' \in [Garages -> Phases] /\ newer' \in [Garages -> BOOLEAN]
BY DEF TypeOK, WritePhase

LEMMA StoreRequestType ==
  ASSUME TypeOK, NEW g \in Garages, StoreRequest(g)
  PROVE  TypeOK'
<1>1. CustodyType'
  BY DEF TypeOK, CustodyType, StoreRequest, ItemStates
<1>2. seen \in Seq(Farms) /\ Len(seen) = 1
  BY DEF TypeOK, StoreRequest, InInventory
<1>3. seen[1] \in Farms
  BY <1>2, Copies
<1>4. RequestType'
  BY <1>2, <1>3 DEF TypeOK, RequestType, StoreRequest, OpStates
<1>5. MailboxType' /\ GameType' /\ FaultType'
  BY DEF TypeOK, MailboxType, GameType, FaultType, StoreRequest, mailboxVars, diskVars, gameVars
<1> QED BY <1>1, <1>4, <1>5, TypePartsNext

LEMMA RetrieveRequestType ==
  ASSUME TypeOK, NEW r \in Retrieves, RetrieveRequest(r)
  PROVE  TypeOK'
<1>1. CustodyType'
  BY DEF TypeOK, CustodyType, RetrieveRequest, ItemStates
<1>2. RequestType'
  BY DEF TypeOK, RequestType, RetrieveRequest, requestVars, OpStates
<1>3. MailboxType' /\ GameType' /\ FaultType'
  BY DEF TypeOK, MailboxType, GameType, FaultType, RetrieveRequest, mailboxVars, diskVars, gameVars
<1> QED BY <1>1, <1>2, <1>3, TypePartsNext

LEMMA TransferRequestType ==
  ASSUME TypeOK, NEW t \in Transfers, TransferRequest(t)
  PROVE  TypeOK'
<1>1. seen \in Seq(Farms) /\ Len(seen) = 1
  BY DEF TypeOK, TransferRequest, InInventory
<1>2. seen[1] \in Farms
  BY <1>1, Copies
<1>3. RequestType'
  BY <1>1, <1>2 DEF TypeOK, RequestType, TransferRequest, TransferStates
<1>4. CustodyType' /\ MailboxType' /\ GameType' /\ FaultType'
  BY DEF TypeOK, CustodyType, MailboxType, GameType, FaultType, TransferRequest, custodyVars,
         mailboxVars, diskVars, gameVars
<1> QED BY <1>3, <1>4, TypePartsNext

LEMMA QueueType ==
  ASSUME TypeOK, NEW t \in Transfers, CheckQueue(t) \/ QueueTransfer(t)
  PROVE  TypeOK'
<1>1. RequestType'
  BY DEF TypeOK, RequestType, CheckQueue, QueueTransfer, TransferStates, OpStates
<1>2. FaultType'
  BY FaultIsCounted DEF CheckQueue, QueueTransfer
<1>3. CustodyType' /\ MailboxType' /\ GameType'
  BY DEF TypeOK, CustodyType, MailboxType, GameType, CheckQueue, QueueTransfer, custodyVars,
         mailboxVars, diskVars, gameVars
<1> QED BY <1>1, <1>2, <1>3, TypePartsNext

LEMMA AwaitedType == \A o : Awaited(o) \in ItemStates
BY DEF Awaited, ItemStates

LEMMA HandleType ==
  ASSUME TypeOK, NEW o \in Ops, Handle(o)
  PROVE  /\ item' \in [Garages -> ItemStates] /\ lock' \in Garages \union {Nothing}
         /\ archived' \subseteq Garages
         /\ op' \in [Ops -> OpStates] /\ transfer' \in [Transfers -> TransferStates]
<1>1. CASE CanCapture(o) /\ Capture(o)
  <2>1. o[2] \in Garages BY <1>1, OpKinds DEF CanCapture
  <2>2. item' \in [Garages -> ItemStates] /\ archived' \subseteq Garages
    BY <1>1, <2>1 DEF TypeOK, Capture, ItemStates
  <2>3. op' \in [Ops -> OpStates] BY <1>1 DEF TypeOK, Capture, OpStates
  <2> QED BY <1>1, <2>2, <2>3 DEF TypeOK, Capture
<1>2. CASE CanApply(o) /\ Apply(o)
  <2>1. item' \in [Garages -> ItemStates]
    <3>1. Awaited(o) \in ItemStates BY AwaitedType
    <3> QED BY <1>2, <3>1 DEF TypeOK, Apply
  <2>2. op' \in [Ops -> OpStates] BY <1>2 DEF TypeOK, Apply, OpStates
  <2> QED BY <1>2, <2>1, <2>2 DEF TypeOK, Apply
<1>3. CASE CanRefuse(o) /\ Refuse(o)
  <2>1. item' \in [Garages -> ItemStates]
    BY <1>3 DEF TypeOK, Refuse, ItemStates
  <2> QED BY <1>3, <2>1 DEF TypeOK, Refuse, OpStates
<1>4. CASE CanReview(o) /\ Review(o)
  BY <1>4 DEF TypeOK, Review, ItemStates, OpStates
<1>5. CASE CanSettle(o) /\ Settle(o)
  <2>1. TransferOutcome(receipt[o]) \in {"completed", "failed", "reconciliation_required"}
    BY DEF TransferOutcome
  <2>2. transfer' \in [Transfers -> TransferStates]
    BY <1>5, <2>1 DEF TypeOK, Settle, TransferStates
  <2>3. op' \in [Ops -> OpStates]
    BY <1>5, <2>1 DEF TypeOK, Settle, OpStates
  <2> QED BY <1>5, <2>2, <2>3 DEF TypeOK, Settle
<1> QED BY <1>1, <1>2, <1>3, <1>4, <1>5 DEF Handle

LEMMA PostType ==
  ASSUME TypeOK, NEW o \in Ops, PostReceipt(o)
  PROVE  TypeOK'
<1>1. CustodyType'
  BY HandleType DEF TypeOK, CustodyType, PostReceipt
<1>2. RequestType'
  BY HandleType DEF TypeOK, RequestType, PostReceipt
<1>3. MailboxType'
  BY DEF TypeOK, MailboxType, PostReceipt
<1>4. GameType' /\ FaultType'
  <2>1. FaultType' BY FaultIsCounted DEF PostReceipt
  <2> QED BY <2>1 DEF TypeOK, GameType, PostReceipt, diskVars, gameVars
<1> QED BY <1>1, <1>2, <1>3, <1>4, TypePartsNext

LEMMA AgentType ==
  ASSUME TypeOK,
         \/ \E o \in Ops : HandlerStops(o) \/ TestReceipt(o)
         \/ WriteCommand \/ SnapshotAccepted
         \/ \E g \in Garages : Checkpoint(g)
  PROVE  TypeOK'
<1>1. CASE \E o \in Ops : HandlerStops(o)
  <2>1. PICK o \in Ops : HandlerStops(o) BY <1>1
  <2>2. item' \in [Garages -> ItemStates]
    <3>1. "review_required" \in ItemStates BY DEF ItemStates
    <3>2. Awaited(o) \in ItemStates BY AwaitedType
    <3>3. \E state \in ItemStates : item' = [item EXCEPT ![OpGarage(o)] = state]
      BY <2>1, <3>1, <3>2 DEF HandlerStops
    <3> QED BY <3>3 DEF TypeOK
  <2>3. FaultType' BY <2>1, FaultIsCounted DEF HandlerStops
  <2> QED BY <2>1, <2>2, <2>3, TypePartsNext
          DEF TypeOK, CustodyType, RequestType, MailboxType, GameType, HandlerStops, requestVars,
              mailboxVars, diskVars, gameVars
<1>2. CASE \E o \in Ops : TestReceipt(o)
  BY <1>2, TypePartsNext DEF TypeOK, CustodyType, RequestType, MailboxType, GameType, FaultType,
     TestReceipt, custodyVars, requestVars, diskVars, gameVars
<1>3. CASE WriteCommand
  BY <1>3, TypePartsNext DEF TypeOK, CustodyType, RequestType, MailboxType, GameType, FaultType,
     WriteCommand, custodyVars, requestVars, diskVars, gameVars
<1>4. CASE SnapshotAccepted
  BY <1>4, TypePartsNext DEF TypeOK, CustodyType, RequestType, MailboxType, GameType, FaultType,
     SnapshotAccepted, custodyVars, mailboxVars, diskVars, gameVars
<1>5. CASE \E g \in Garages : Checkpoint(g)
  <2>1. PICK g \in Garages : Checkpoint(g) BY <1>5
  <2>2. CustodyType' BY <2>1 DEF TypeOK, CustodyType, Checkpoint, ItemStates
  <2>3. RequestType' BY <2>1 DEF TypeOK, RequestType, Checkpoint, requestVars, OpStates
  <2> QED BY <2>1, <2>2, <2>3, TypePartsNext
          DEF TypeOK, MailboxType, GameType, FaultType, Checkpoint, mailboxVars, diskVars, gameVars
<1> QED BY <1>1, <1>2, <1>3, <1>4, <1>5

LEMMA AnsweredType ==
  ASSUME TypeOK, NEW o \in Ops, Answered(o)
  PROVE  /\ receipt' \in [Ops -> Statuses \union {"none"}]
         /\ commands' \subseteq Ops /\ pending' \subseteq Ops
<1>1. AnswersTo(o) \subseteq Statuses BY DEF AnswersTo, Statuses
<1>2. commands' \subseteq Ops /\ pending' \subseteq Ops BY DEF TypeOK, Answered
<1>3. receipt' \in [Ops -> Statuses \union {"none"}] BY <1>1 DEF TypeOK, Answered
<1> QED BY <1>2, <1>3

LEMMA ProcessType ==
  ASSUME TypeOK, NEW o \in Ops, Process(o)
  PROVE  TypeOK'
<1>1. CustodyType' /\ RequestType'
  BY GameFrame DEF TypeOK, CustodyType, RequestType, custodyVars, requestVars
<1>2. MailboxType' /\ pending' \subseteq Ops
  BY AnsweredType, ProcessAnswers, GameFrame DEF TypeOK, MailboxType
<1>3. FaultType'
  <2>1. \A s : Answer(o, s) => FaultType' BY FaultIsCounted DEF Answer
  <2> QED BY <2>1, FaultIsCounted
          DEF Process, ProcessPrepare, ProcessStore, ProcessRetrieve, ProcessTransfer, Declines
<1>4. journal' \in [Garages -> Phases] /\ newer' \in [Garages -> BOOLEAN]
  <2>1. {"prepared", "removing", "loading"} \subseteq Phases BY DEF Phases
  <2>2. UNCHANGED <<journal, newer>> \/ \E phase \in {"prepared", "removing", "loading"} :
          \E g : WritePhase(g, phase)
    BY DEF Process, ProcessPrepare, ProcessStore, ProcessRetrieve, ProcessTransfer, Declines
  <2> QED BY <2>1, <2>2, PhaseType DEF TypeOK
<1>5. live' \in Seq(Farms) /\ deleting' \in BOOLEAN
  <2>1. CASE o[1] = "transfer" /\ ProcessTransfer(o)
    <3>1. Destination[o[2]] \in Farms BY <2>1, OpKinds, GarageAssumption
    <3>2. <<Destination[o[2]]>> \in Seq(Farms) BY <3>1
    <3> QED BY <2>1, <3>2 DEF TypeOK, ProcessTransfer, Declines
  <2> QED BY <2>1 DEF TypeOK, Process, ProcessPrepare, ProcessStore, ProcessRetrieve, Declines
<1>6. loads' \in [Garages -> Nat]
  <2>1. loads' = loads \/ \E g : loads' = [loads EXCEPT ![g] = @ + 1]
    BY DEF Process, ProcessPrepare, ProcessStore, ProcessRetrieve, ProcessTransfer, Declines
  <2>2. loads \in [Garages -> Nat] BY DEF TypeOK
  <2> QED BY <2>1, <2>2
<1>7. moved' \in [Transfers -> BOOLEAN]
  BY DEF TypeOK, Process, ProcessPrepare, ProcessStore, ProcessRetrieve, ProcessTransfer, Declines
<1>8. GameType'
  BY <1>2, <1>4, <1>5, <1>6, <1>7, GameFrame DEF TypeOK, GameType
<1> QED BY <1>1, <1>2, <1>3, <1>8, TypePartsNext

LEMMA FinishType ==
  ASSUME TypeOK, NEW o \in Ops, FinishRemoval(o) \/ FinishLoad(o)
  PROVE  TypeOK'
<1>1. CustodyType' /\ RequestType'
  BY GameFrame DEF TypeOK, CustodyType, RequestType, custodyVars, requestVars
<1>2. MailboxType' /\ pending' \subseteq Ops
  BY AnsweredType, FinishAnswers, GameFrame DEF TypeOK, MailboxType
<1>3. FaultType'
  <2>1. \A s : Answer(o, s) => FaultType' BY FaultIsCounted DEF Answer
  <2> QED BY <2>1 DEF FinishRemoval, FinishLoad
<1>4. journal' \in [Garages -> Phases] /\ newer' \in [Garages -> BOOLEAN]
  <2>1. {"removed", "restored"} \subseteq Phases BY DEF Phases
  <2>2. UNCHANGED <<journal, newer>> \/ \E phase \in {"removed", "restored"} :
          \E g : WritePhase(g, phase)
    BY DEF FinishRemoval, FinishLoad
  <2> QED BY <2>1, <2>2, PhaseType DEF TypeOK
<1>5. live' \in Seq(Farms)
  <2>1. CASE FinishLoad(o)
    <3>1. Destination[o[2]] \in Farms BY <2>1, OpKinds, GarageAssumption DEF FinishLoad
    <3>2. Append(live, Destination[o[2]]) \in Seq(Farms) BY <3>1 DEF TypeOK
    <3> QED BY <2>1, <3>2 DEF TypeOK, FinishLoad
  <2> QED BY <2>1 DEF TypeOK, FinishRemoval
<1>6. UNCHANGED <<deleting, loads, moved>>
  BY DEF FinishRemoval, FinishLoad
<1>8. GameType'
  BY <1>2, <1>4, <1>5, <1>6, GameFrame DEF TypeOK, GameType
<1> QED BY <1>1, <1>2, <1>3, <1>8, TypePartsNext

LEMMA WorldType ==
  ASSUME TypeOK, NativeDelete \/ NativeSave \/ Crash \/ PlayerSells
  PROVE  TypeOK'
<1>1. CustodyType' /\ RequestType' /\ MailboxType'
  BY DEF TypeOK, CustodyType, RequestType, MailboxType, NativeDelete, NativeSave, Crash,
         PlayerSells, custodyVars, requestVars, mailboxVars
<1>2. GameType'
  <2>1. <<>> \in Seq(Farms) OBVIOUS
  <2> QED BY <2>1 DEF TypeOK, GameType, NativeDelete, NativeSave, Crash, PlayerSells, diskVars, gameVars
<1>3. FaultType'
  BY FaultIsCounted DEF NativeDelete, NativeSave, Crash, PlayerSells
<1> QED BY <1>1, <1>2, <1>3, TypePartsNext

LEMMA TypeInit == Init => TypeOK
<1> SUFFICES ASSUME Init PROVE TypeOK OBVIOUS
<1>1. Home \in Farms /\ MaxFaults \in Nat BY GarageAssumption
<1>2. <<Home>> \in Seq(Farms) BY <1>1
<1>3. CustodyType /\ RequestType
  BY <1>2 DEF Init, CustodyType, RequestType, ItemStates, OpStates, TransferStates
<1>4. MailboxType /\ FaultType
  BY <1>1 DEF Init, MailboxType, FaultType
<1>5. GameType
  BY <1>2 DEF Init, GameType, Phases
<1> QED BY <1>3, <1>4, <1>5, TypeParts

LEMMA TypeStep == TypeOK /\ [Next]_vars => TypeOK'
<1> SUFFICES ASSUME TypeOK, [Next]_vars PROVE TypeOK' OBVIOUS
<1>1. CASE CentralStep
  BY <1>1, StoreRequestType, RetrieveRequestType, TransferRequestType, QueueType DEF CentralStep
<1>2. CASE AgentStep
  BY <1>2, PostType, AgentType DEF AgentStep
<1>3. CASE GameStep
  BY <1>3, ProcessType, FinishType, WorldType DEF GameStep
<1>4. CASE UNCHANGED vars
  BY <1>4 DEF vars, TypeOK, custodyVars, requestVars, mailboxVars, diskVars, gameVars
<1> QED BY <1>1, <1>2, <1>3, <1>4 DEF Next

(* Every variable keeps its type, whatever hazards are let happen.         *)
THEOREM TypeCorrect == Spec => []TypeOK
BY TypeInit, TypeStep, PTL DEF Spec

-------------------------------------------------------------------------------
(* No archive is loaded twice                                              *)

LEMMA NothingIsNone ==
  /\ Nothing \notin Garages /\ Nothing \notin Retrieves /\ Nothing \notin Transfers
  /\ Nothing \notin Farms
BY GarageAssumption

(* Operations that the handlers, the checkpoints and staff write.          *)
LEMMA HandleOps ==
  ASSUME TypeOK, NEW o \in Ops, Handle(o)
  PROVE  \A p \in Ops : /\ op[p] # "absent" => op'[p] # "absent"
                        /\ \/ op'[p] = op[p] \/ p = o
                           \/ p = Store(o[2]) /\ o[1] = "prepare" /\ op'[p] = "pending"
<1>1. CASE CanCapture(o) /\ Capture(o)
  BY <1>1 DEF TypeOK, CanCapture, Capture
<1>2. CASE CanApply(o) /\ Apply(o)
  BY <1>2 DEF TypeOK, Apply
<1>3. CASE CanRefuse(o) /\ Refuse(o)
  BY <1>3 DEF TypeOK, Refuse
<1>4. CASE CanReview(o) /\ Review(o)
  BY <1>4 DEF TypeOK, Review
<1>5. CASE CanSettle(o) /\ Settle(o)
  <2>1. TransferOutcome(receipt[o]) \in {"completed", "failed", "reconciliation_required"}
    BY DEF TransferOutcome
  <2> QED BY <1>5, <2>1 DEF TypeOK, Settle
<1> QED BY <1>1, <1>2, <1>3, <1>4, <1>5 DEF Handle

(* Only the archive of a preparation asks the game for something new.      *)
LEMMA HandleAsks ==
  ASSUME TypeOK, NEW o \in Ops, Handle(o), NEW r \in Retrieves, op'[Retrieve(r)] = "pending"
  PROVE  op[Retrieve(r)] = "pending"
<1>1. Retrieve(r) \in Ops /\ Retrieve(r) # Store(o[2])
  BY OpNames, GarageOpsAreOps DEF Retrieve, Store
<1>2. CASE o = Retrieve(r)
  BY <1>1, <1>2 DEF Handle, Capture, Apply, Refuse, Review, Settle, TransferOutcome, TypeOK
<1> QED BY <1>1, <1>2, HandleOps

LEMMA RequestInit == Init => RequestInv
BY OpNames, GarageOpsAreOps, NothingIsNone DEF Init, RequestInv, GarageOps, Ops

LEMMA RequestStep ==
  ASSUME TypeOK, RequestInv, Next
  PROVE  RequestInv'
<1>1. ASSUME NEW g \in Garages, StoreRequest(g) PROVE RequestInv'
  <2>1. \A p \in Ops : op[p] # "absent" => op'[p] # "absent"
    BY <1>1 DEF TypeOK, StoreRequest
  <2>2. \A r \in Retrieves : Retrieve(r) \in Ops /\ Retrieve(r) # Prepare(g)
    BY OpNames, GarageOpsAreOps
  <2>3. \A r \in Retrieves : op'[Retrieve(r)] = op[Retrieve(r)]
    BY <1>1, <2>2 DEF TypeOK, StoreRequest
  <2> QED BY <1>1, <2>1, <2>3 DEF RequestInv, StoreRequest, mailboxVars, gameVars
<1>2. ASSUME NEW r \in Retrieves, RetrieveRequest(r) PROVE RequestInv'
  <2>1. \A p \in Ops : op[p] # "absent" => op'[p] # "absent"
    BY <1>2 DEF TypeOK, RetrieveRequest
  <2>2. lock \in Garages /\ leased' = [leased EXCEPT ![r] = lock]
    BY <1>2 DEF TypeOK, RetrieveRequest
  <2>3. \A s \in Retrieves : s # r => op'[Retrieve(s)] = op[Retrieve(s)] /\ leased'[s] = leased[s]
    <3>1. \A s \in Retrieves : s # r => Retrieve(s) # Retrieve(r) /\ Retrieve(s) \in Ops
      BY OpNames, GarageOpsAreOps
    <3> QED BY <1>2, <3>1 DEF TypeOK, RetrieveRequest
  <2>4. leased'[r] = lock
    BY <2>2 DEF TypeOK
  <2>5. \A s \in Retrieves : op'[Retrieve(s)] # "absent" => leased'[s] \in Garages
    BY <2>2, <2>3, <2>4 DEF RequestInv
  <2>6. \A g \in Garages : retrieval'[g] = IF g = lock THEN r ELSE retrieval[g]
    BY <1>2 DEF TypeOK, RetrieveRequest
  <2>7. \A g \in Garages : retrieval'[g] # Nothing => leased'[retrieval'[g]] \in Garages
    <3> SUFFICES ASSUME NEW g \in Garages, retrieval'[g] # Nothing
                 PROVE leased'[retrieval'[g]] \in Garages
      OBVIOUS
    <3>1. CASE retrieval'[g] = r BY <3>1, <2>2, <2>4
    <3>2. CASE retrieval'[g] # r
      <4>1. retrieval'[g] = retrieval[g] BY <3>2, <2>6
      <4>2. retrieval[g] \in Retrieves BY <4>1 DEF TypeOK
      <4> QED BY <4>1, <4>2, <3>2, <2>3 DEF RequestInv
    <3> QED BY <3>1, <3>2
  <2> QED BY <1>2, <2>1, <2>5, <2>7 DEF RequestInv, RetrieveRequest, mailboxVars, gameVars
<1>3. ASSUME NEW t \in Transfers, TransferRequest(t) \/ CheckQueue(t) PROVE RequestInv'
  BY <1>3 DEF RequestInv, TransferRequest, CheckQueue, custodyVars, mailboxVars, gameVars
<1>4. ASSUME NEW t \in Transfers, QueueTransfer(t) PROVE RequestInv'
  <2>1. \A p \in Ops : op[p] # "absent" => op'[p] # "absent"
    BY <1>4 DEF TypeOK, QueueTransfer
  <2>2. \A r \in Retrieves : Retrieve(r) \in Ops /\ Retrieve(r) # Transfer(t)
    BY OpNames, GarageOpsAreOps
  <2>3. \A r \in Retrieves : op'[Retrieve(r)] = op[Retrieve(r)]
    BY <1>4, <2>2 DEF TypeOK, QueueTransfer
  <2> QED BY <1>4, <2>1, <2>3 DEF RequestInv, QueueTransfer, mailboxVars, gameVars, custodyVars
<1>5. ASSUME NEW o \in Ops, PostReceipt(o) PROVE RequestInv'
  <2>1. \A p \in Ops : op[p] # "absent" => op'[p] # "absent"
    BY <1>5, HandleOps DEF PostReceipt
  <2>2. op[o] # "absent"
    BY <1>5 DEF RequestInv, PostReceipt
  <2>3. \A r \in Retrieves : op'[Retrieve(r)] # "absent" => op[Retrieve(r)] # "absent"
    <3>1. \A r \in Retrieves : Retrieve(r) \in Ops /\ Retrieve(r)[1] = "retrieve"
      BY OpNames, GarageOpsAreOps
    <3>2. o[1] = "prepare" => Store(o[2])[1] = "store"
      BY OpKinds, OpNames
    <3> QED BY <1>5, <2>2, <3>1, <3>2, HandleOps DEF PostReceipt
  <2>4. \A p \in Ops : receipt'[p] # "none" => receipt[p] # "none"
    BY <1>5 DEF TypeOK, PostReceipt
  <2> QED BY <1>5, <2>1, <2>3, <2>4 DEF RequestInv, PostReceipt, gameVars
<1>6. ASSUME NEW o \in Ops, TestReceipt(o) PROVE RequestInv'
  BY <1>6 DEF RequestInv, TestReceipt, custodyVars, gameVars
<1>7. ASSUME NEW o \in Ops, HandlerStops(o) PROVE RequestInv'
  BY <1>7 DEF RequestInv, HandlerStops, mailboxVars, gameVars
<1>8. ASSUME NEW g \in Garages, Checkpoint(g) PROVE RequestInv'
  <2>1. \A p \in Ops : op[p] # "absent" => op'[p] # "absent"
    BY <1>8 DEF TypeOK, Checkpoint
  <2>2. ASSUME NEW r \in Retrieves, op'[Retrieve(r)] # "absent" PROVE leased[r] \in Garages
    <3>1. Retrieve(r) \in Ops /\ Retrieve(r) # Store(g)
      BY OpNames, GarageOpsAreOps
    <3>2. op'[Retrieve(r)] = op[Retrieve(r)] \/ Retrieve(r) = Retrieve(retrieval[g])
      BY <1>8, <3>1 DEF TypeOK, Checkpoint
    <3>3. Retrieve(r) = Retrieve(retrieval[g]) => r = retrieval[g]
      BY DEF Retrieve
    <3>4. r # Nothing BY NothingIsNone
    <3> QED BY <2>2, <3>2, <3>3, <3>4 DEF RequestInv
  <2> QED BY <1>8, <2>1, <2>2 DEF RequestInv, Checkpoint, mailboxVars, gameVars
<1>9. CASE WriteCommand
  BY <1>9 DEF RequestInv, TypeOK, WriteCommand, custodyVars, gameVars
<1>10. CASE SnapshotAccepted
  BY <1>10 DEF RequestInv, SnapshotAccepted, custodyVars, mailboxVars, gameVars
<1>11. ASSUME NEW o \in Ops, Process(o) \/ FinishRemoval(o) \/ FinishLoad(o) PROVE RequestInv'
  <2>1. Answered(o) /\ o \in commands \union pending
    BY <1>11, ProcessAnswers, FinishAnswers
  <2>2. op[o] # "absent" BY <2>1 DEF RequestInv
  <2>3. \A p \in Ops : p # o => receipt'[p] = receipt[p]
    BY <2>1 DEF TypeOK, Answered
  <2>4. commands' \union pending' \subseteq commands \union pending \union {o}
    BY <2>1 DEF Answered
  <2> QED BY <1>11, <2>2, <2>3, <2>4, GameFrame DEF RequestInv, custodyVars
<1>12. CASE NativeDelete \/ NativeSave \/ Crash \/ PlayerSells
  BY <1>12 DEF RequestInv, NativeDelete, NativeSave, Crash, PlayerSells, custodyVars, mailboxVars,
     gameVars
<1> QED BY <1>1, <1>2, <1>3, <1>4, <1>5, <1>6, <1>7, <1>8, <1>9, <1>10, <1>11, <1>12
        DEF Next, CentralStep, AgentStep, GameStep

LEMMA LoadInit == Init => LoadInv
BY OpNames DEF Init, LoadInv

(* An operation on its way to the game is of one archive.                  *)
LEMMA GarageOfPending ==
  ASSUME TypeOK, RequestInv, NEW r \in Retrieves,
         Retrieve(r) \in commands \union pending
  PROVE  leased[r] \in Garages /\ OpGarage(Retrieve(r)) = leased[r]
<1>1. Retrieve(r) \in Ops /\ Retrieve(r)[1] = "retrieve" /\ Retrieve(r)[2] = r
  BY OpNames, GarageOpsAreOps
<1> QED BY <1>1 DEF RequestInv, OpGarage

LEMMA LoadProcess ==
  ASSUME TypeOK, RequestInv, LoadInv, NEW o \in Ops, Process(o)
  PROVE  LoadInv'
<1>1. UNCHANGED leased /\ o \in commands
  BY GameFrame, ProcessAnswers DEF custodyVars
<1>2. ASSUME UNCHANGED <<journal, pending, loads>> PROVE LoadInv'
  BY <1>1, <1>2 DEF LoadInv
<1>3. CASE o[1] = "prepare" /\ ProcessPrepare(o)
  <2>1. UNCHANGED <<pending, loads>> /\ o[2] \in Garages
    BY <1>3, OpKinds DEF ProcessPrepare, Declines
  <2>2. CASE UNCHANGED journal BY <2>1, <2>2, <1>2
  <2>3. CASE journal[o[2]] = "none" /\ WritePhase(o[2], "prepared")
    BY <1>1, <2>1, <2>3 DEF LoadInv, TypeOK, WritePhase
  <2> QED BY <1>3, <2>2, <2>3 DEF ProcessPrepare, Declines
<1>4. CASE o[1] = "store" /\ ProcessStore(o)
  <2>1. UNCHANGED loads /\ o[2] \in Garages /\ o = Store(o[2])
    BY <1>4, OpKinds DEF ProcessStore, Declines
  <2>2. CASE UNCHANGED <<journal, pending>> BY <2>1, <2>2, <1>2
  <2>3. CASE journal[o[2]] = "prepared" /\ WritePhase(o[2], "removing")
             /\ pending' = pending \union {o}
    <3>1. \A r \in Retrieves : Retrieve(r) # o BY <1>4, OpNames
    <3>2. \A g \in Garages : Store(g) = o => g = o[2] BY OpNames
    <3>3. \A g \in Garages : journal'[g] = IF g = o[2] THEN "removing" ELSE journal[g]
      BY <2>3 DEF TypeOK, WritePhase
    <3>4. \A r \in Retrieves : Retrieve(r) \in pending => leased[r] \in Garages
      BY GarageOfPending
    <3> QED BY <1>1, <2>1, <2>3, <3>1, <3>2, <3>3, <3>4 DEF LoadInv
  <2> QED BY <1>4, <2>2, <2>3 DEF ProcessStore, Declines
<1>5. CASE o[1] = "retrieve" /\ ProcessRetrieve(o)
  <2> DEFINE r == o[2]  g == leased[r]
  <2>1. r \in Retrieves /\ o = Retrieve(r)
    BY <1>5, OpKinds
  <2>2. g \in Garages /\ OpGarage(o) = g
    BY <1>1, <2>1, GarageOfPending
  <2>3. CASE UNCHANGED <<journal, pending, loads>> BY <2>3, <1>2
  <2>4. CASE /\ NeverLoaded(g) /\ WritePhase(g, "loading") /\ pending' = pending \union {o}
             /\ loads' = [loads EXCEPT ![g] = @ + 1]
    <3>1. journal[g] \in {"none", "removed"} /\ loads[g] = 0
      BY <2>2, <2>4 DEF NeverLoaded, LoadInv
    <3>2. \A h \in Garages : Store(h) # o BY <1>5, OpNames
    <3>3. \A s \in Retrieves : Retrieve(s) = o => s = r BY OpNames
    <3>4. \A h \in Garages : journal'[h] = IF h = g THEN "loading" ELSE journal[h]
      BY <2>4 DEF TypeOK, WritePhase
    <3>5. \A h \in Garages : loads'[h] = IF h = g THEN 1 ELSE loads[h]
      BY <2>4, <3>1 DEF TypeOK
    <3>6. \A s \in Retrieves : Retrieve(s) \in pending => leased[s] \in Garages /\ leased[s] # g
      BY <3>1, GarageOfPending DEF LoadInv
    <3>7. \A h \in Garages : Store(h) \in pending => h # g
      BY <3>1 DEF LoadInv
    <3> HIDE DEF r, g
    <3>8. \A h \in Garages :
            /\ loads'[h] <= 1
            /\ journal'[h] \in {"none", "prepared", "removing", "removed"} => loads'[h] = 0
      BY <3>4, <3>5 DEF LoadInv
    <3>9. \A h \in Garages : Store(h) \in pending' => journal'[h] = "removing"
      BY <2>4, <3>2, <3>4, <3>7 DEF LoadInv
    <3>10. \A s \in Retrieves : Retrieve(s) \in pending' => leased[s] = g \/ Retrieve(s) \in pending
      BY <2>4, <3>3 DEF g
    <3>11. \A s \in Retrieves : Retrieve(s) \in pending' => journal'[leased[s]] = "loading"
      BY <2>2, <3>4, <3>6, <3>10 DEF LoadInv
    <3>12. \A s, q \in Retrieves :
            Retrieve(s) \in pending' /\ Retrieve(q) \in pending' /\ leased[s] = leased[q] => s = q
      <4>1. \A s \in Retrieves : Retrieve(s) \in pending' => s = r \/ Retrieve(s) \in pending
        BY <2>4, <3>3
      <4>2. leased[r] = g BY DEF g
      <4> QED BY <4>1, <4>2, <3>6 DEF LoadInv
    <3> QED BY <1>1, <3>8, <3>9, <3>11, <3>12 DEF LoadInv
  <2> QED BY <1>5, <2>2, <2>3, <2>4 DEF ProcessRetrieve, Declines
<1>6. CASE o[1] = "transfer" /\ ProcessTransfer(o)
  BY <1>2, <1>6 DEF ProcessTransfer, Declines
<1> QED BY <1>3, <1>4, <1>5, <1>6 DEF Process

LEMMA LoadFinish ==
  ASSUME TypeOK, RequestInv, LoadInv, NEW o \in Ops, FinishRemoval(o) \/ FinishLoad(o)
  PROVE  LoadInv'
<1>1. UNCHANGED <<leased, loads>> /\ o \in pending /\ pending' = pending \ {o}
  BY GameFrame, FinishAnswers DEF custodyVars, FinishRemoval, FinishLoad
<1>2. ASSUME UNCHANGED journal PROVE LoadInv'
  BY <1>1, <1>2 DEF LoadInv
<1>3. CASE FinishRemoval(o)
  <2>1. o[2] \in Garages /\ o = Store(o[2]) BY <1>3, OpKinds DEF FinishRemoval
  <2>2. CASE UNCHANGED journal BY <1>2, <2>2
  <2>3. CASE WritePhase(o[2], "removed")
    <3>1. journal[o[2]] = "removing" /\ loads[o[2]] = 0 BY <1>1, <2>1 DEF LoadInv
    <3>2. \A g \in Garages : journal'[g] = IF g = o[2] THEN "removed" ELSE journal[g]
      BY <2>3 DEF TypeOK, WritePhase
    <3>3. \A r \in Retrieves : Retrieve(r) \in pending => leased[r] \in Garages /\ leased[r] # o[2]
      BY <3>1, GarageOfPending DEF LoadInv
    <3> QED BY <1>1, <2>1, <3>1, <3>2, <3>3 DEF LoadInv
  <2> QED BY <1>3, <2>2, <2>3 DEF FinishRemoval
<1>4. CASE FinishLoad(o)
  <2> DEFINE r == o[2]  g == leased[r]
  <2>1. r \in Retrieves /\ o = Retrieve(r) BY <1>4, OpKinds DEF FinishLoad
  <2>2. g \in Garages /\ OpGarage(o) = g BY <1>1, <2>1, GarageOfPending
  <2>3. CASE UNCHANGED journal BY <1>2, <2>3
  <2>4. CASE WritePhase(g, "restored")
    <3>1. journal[g] = "loading" BY <1>1, <2>1 DEF LoadInv
    <3>2. \A h \in Garages : journal'[h] = IF h = g THEN "restored" ELSE journal[h]
      BY <2>4 DEF TypeOK, WritePhase
    <3>3. \A s \in Retrieves : Retrieve(s) \in pending' => leased[s] \in Garages /\ leased[s] # g
      BY <1>1, <2>1, GarageOfPending DEF LoadInv
    <3>4. \A h \in Garages : Store(h) \in pending => h # g BY <3>1 DEF LoadInv
    <3> HIDE DEF r, g
    <3> QED BY <1>1, <2>1, <2>2, <3>1, <3>2, <3>3, <3>4 DEF LoadInv
  <2> QED BY <1>4, <2>2, <2>3, <2>4 DEF FinishLoad
<1> QED BY <1>3, <1>4

LEMMA LoadStep ==
  ASSUME TypeOK, RequestInv, LoadInv, Next
  PROVE  LoadInv'
<1>1. ASSUME NEW r \in Retrieves, RetrieveRequest(r) PROVE LoadInv'
  <2>1. Retrieve(r) \notin pending
    <3>1. Retrieve(r) \in pending => leased[r] \in Garages BY GarageOfPending
    <3> QED BY <1>1, <3>1, NothingIsNone DEF RetrieveRequest
  <2>2. \A s \in Retrieves : s # r => leased'[s] = leased[s]
    BY <1>1 DEF TypeOK, RetrieveRequest
  <2> QED BY <1>1, <2>1, <2>2 DEF LoadInv, RetrieveRequest, diskVars, gameVars
<1>2. ASSUME NEW o \in Ops, Process(o) \/ FinishRemoval(o) \/ FinishLoad(o) PROVE LoadInv'
  BY <1>2, LoadProcess, LoadFinish
<1>3. CASE Crash
  BY <1>3 DEF LoadInv, Crash, diskVars, custodyVars
<1>4. ASSUME UNCHANGED <<leased, journal, loads, pending>> PROVE LoadInv'
  BY <1>4 DEF LoadInv
<1>5. CASE CentralStep /\ ~\E r \in Retrieves : RetrieveRequest(r)
  <2>1. UNCHANGED <<leased, journal, loads, pending>>
    BY <1>5 DEF CentralStep, StoreRequest, TransferRequest, CheckQueue, QueueTransfer, custodyVars,
       diskVars, gameVars
  <2> QED BY <1>4, <2>1
<1>6. CASE AgentStep
  <2>1. UNCHANGED <<leased, journal, loads, pending>>
    BY <1>6 DEF AgentStep, PostReceipt, HandlerStops, TestReceipt, WriteCommand, SnapshotAccepted,
       Checkpoint, custodyVars, diskVars, gameVars
  <2> QED BY <1>4, <2>1
<1>7. CASE NativeDelete \/ NativeSave \/ PlayerSells
  <2>1. UNCHANGED <<leased, journal, loads, pending>>
    BY <1>7 DEF NativeDelete, NativeSave, PlayerSells, custodyVars, diskVars, gameVars
  <2> QED BY <1>4, <2>1
<1> QED BY <1>1, <1>2, <1>3, <1>5, <1>6, <1>7 DEF Next, GameStep

LEMMA LoadsHold == Spec => [](TypeOK /\ RequestInv /\ LoadInv)
<1> DEFINE I == TypeOK /\ RequestInv /\ LoadInv
<1>1. Init => I BY TypeInit, RequestInit, LoadInit
<1>2. I /\ [Next]_vars => I'
  <2> SUFFICES ASSUME I, [Next]_vars PROVE I' OBVIOUS
  <2>1. CASE Next BY <2>1, TypeStep, RequestStep, LoadStep
  <2>2. CASE UNCHANGED vars
    <3>1. TypeOK' BY <2>2, TypeStep
    <3>2. RequestInv' /\ LoadInv'
      BY <2>2 DEF vars, custodyVars, requestVars, mailboxVars, diskVars, gameVars, RequestInv, LoadInv
    <3> QED BY <3>1, <3>2
  <2> QED BY <2>1, <2>2
<1> QED BY <1>1, <1>2, PTL DEF Spec

(* No archive is loaded a second time, so no vehicle is doubled: with any  *)
(* number of requests, crashes inside a load, receipts that were not       *)
(* written, lost answers, sales and commands answered between the two      *)
(* tests of the Agent.                                                     *)
THEOREM ArchivesLoadedAtMostOnce == Spec => [](\A g \in Garages : loads[g] <= 1)
<1>1. LoadInv => \A g \in Garages : loads[g] <= 1 BY DEF LoadInv
<1> QED BY <1>1, LoadsHold, PTL

-------------------------------------------------------------------------------
(* Custody excludes transfers                                              *)

LEMMA TransferOps ==
  ASSUME NEW t \in Transfers
  PROVE  /\ Transfer(t) \in Ops /\ Transfer(t) \notin GarageOps
         /\ \A u \in Transfers : Transfer(t) = Transfer(u) => t = u
         /\ \A x : Transfer(t) # Prepare(x) /\ Transfer(t) # Store(x) /\ Transfer(t) # Retrieve(x)
BY DEF Transfer, Prepare, Store, Retrieve, Ops, GarageOps

LEMMA CheckpointOps ==
  ASSUME TypeOK, NEW g \in Garages, Checkpoint(g)
  PROVE  \A t \in Transfers : op'[Transfer(t)] = op[Transfer(t)]
BY TransferOps DEF TypeOK, Checkpoint

LEMMA HandleTransfer ==
  ASSUME TypeOK, NEW o \in Ops, Handle(o), NEW t \in Transfers
  PROVE  /\ o # Transfer(t) => op'[Transfer(t)] = op[Transfer(t)] /\ transfer'[t] = transfer[t]
         /\ o = Transfer(t) => CanSettle(o) /\ Settle(o)
<1>1. ASSUME o # Transfer(t) PROVE op'[Transfer(t)] = op[Transfer(t)]
  BY <1>1, HandleOps, TransferOps
<1>2. ASSUME o # Transfer(t) PROVE transfer'[t] = transfer[t]
  <2>1. CASE CanSettle(o) /\ Settle(o)
    <3>1. o[2] # t BY <1>2, <2>1, OpKinds DEF CanSettle
    <3> QED BY <2>1, <3>1 DEF TypeOK, Settle
  <2> QED BY <2>1 DEF Handle, Capture, Apply, Refuse, Review
<1>3. ASSUME o = Transfer(t) PROVE CanSettle(o) /\ Settle(o)
  <2>1. o[1] = "transfer" /\ o \notin GarageOps BY <1>3, OpNames, TransferOps
  <2> QED BY <2>1 DEF Handle, CanCapture, CanApply, CanRefuse, CanReview
<1> QED BY <1>1, <1>2, <1>3

LEMMA SettleOutcome ==
  ASSUME TypeOK, NEW t \in Transfers, CanSettle(Transfer(t)), Settle(Transfer(t))
  PROVE  /\ transfer'[t] = TransferOutcome(receipt[Transfer(t)])
         /\ transfer'[t] \in {"completed", "failed", "reconciliation_required"}
         /\ transfer[t] = transfer'[t] => op' = op
         /\ transfer[t] # transfer'[t] =>
              op'[Transfer(t)] \in {"succeeded", "failed", "reconciliation_required"}
<1>1. Transfer(t)[2] = t /\ Transfer(t) \in Ops BY OpNames
<1>2. TransferOutcome(receipt[Transfer(t)]) \in {"completed", "failed", "reconciliation_required"}
  BY DEF TransferOutcome
<1> QED BY <1>1, <1>2 DEF TypeOK, Settle

LEMMA LockStep ==
  ASSUME TypeOK, LockInv, "queue_race" \notin Hazards, Next
  PROVE  LockInv'
<1>1. ASSUME NEW g \in Garages, StoreRequest(g) PROVE LockInv'
  <2>1. queueing' = {} BY <1>1 DEF StoreRequest
  <2>2. \A t \in Transfers : op'[Transfer(t)] # "pending"
    BY <1>1, TransferOps DEF TypeOK, StoreRequest, TransferOpen
  <2> QED BY <2>1, <2>2 DEF LockInv
<1>2. ASSUME NEW r \in Retrieves, RetrieveRequest(r) PROVE LockInv'
  <2>1. \A t \in Transfers : op'[Transfer(t)] = op[Transfer(t)]
    BY <1>2, TransferOps DEF TypeOK, RetrieveRequest
  <2> QED BY <1>2, <2>1 DEF LockInv, RetrieveRequest, requestVars
<1>3. ASSUME NEW t \in Transfers, TransferRequest(t) PROVE LockInv'
  BY <1>3 DEF LockInv, TransferRequest, custodyVars
<1>4. ASSUME NEW t \in Transfers, CheckQueue(t) \/ QueueTransfer(t) PROVE LockInv'
  BY <1>4 DEF LockInv, CheckQueue, QueueTransfer, custodyVars
<1>5. ASSUME NEW o \in Ops, PostReceipt(o) PROVE LockInv'
  <2>1. lock' \in {lock, Nothing} /\ queueing' = queueing
    BY <1>5 DEF PostReceipt, Handle, Capture, Apply, Refuse, Review, Settle
  <2>2. \A t \in Transfers : op'[Transfer(t)] = "pending" => op[Transfer(t)] = "pending"
    <3> SUFFICES ASSUME NEW t \in Transfers, op'[Transfer(t)] = "pending"
                 PROVE op[Transfer(t)] = "pending"
      OBVIOUS
    <3>1. CASE Handle(o) /\ o = Transfer(t)
      BY <3>1, HandleTransfer, SettleOutcome
    <3> QED BY <1>5, <3>1, HandleTransfer DEF PostReceipt
  <2> QED BY <2>1, <2>2 DEF LockInv
<1>6. ASSUME NEW g \in Garages, Checkpoint(g) PROVE LockInv'
  <2>1. lock' \in {lock, Nothing} /\ queueing' = queueing
    BY <1>6 DEF Checkpoint, requestVars
  <2> QED BY <1>6, <2>1, CheckpointOps DEF LockInv
<1>7. ASSUME UNCHANGED <<lock, queueing, op>> PROVE LockInv'
  BY <1>7 DEF LockInv
<1>8. CASE (\E o \in Ops : TestReceipt(o) \/ HandlerStops(o)) \/ WriteCommand \/ SnapshotAccepted
  BY <1>7, <1>8 DEF TestReceipt, HandlerStops, WriteCommand, SnapshotAccepted, custodyVars, requestVars
<1>9. CASE GameStep
  <2>1. UNCHANGED <<lock, queueing, op>>
    BY <1>9, GameFrame DEF GameStep, NativeDelete, NativeSave, Crash, PlayerSells, custodyVars,
       requestVars
  <2> QED BY <1>7, <2>1
<1> QED BY <1>1, <1>2, <1>3, <1>4, <1>5, <1>6, <1>8, <1>9 DEF Next, CentralStep, AgentStep

(* While a vehicle's code is locked by a custody request no transfer of it *)
(* is on its way to the game, unless custody begins between the checks and *)
(* the write of queue_game_operation.                                      *)
THEOREM CustodyExcludesTransfers ==
  ASSUME "queue_race" \notin Hazards
  PROVE  Spec => []NoConcurrentCustody
<1>1. Init => LockInv BY DEF Init, LockInv
<1>2. TypeOK /\ LockInv /\ [Next]_vars => LockInv'
  <2> SUFFICES ASSUME TypeOK, LockInv, [Next]_vars PROVE LockInv' OBVIOUS
  <2>1. CASE Next BY <2>1, LockStep
  <2>2. CASE UNCHANGED vars BY <2>2 DEF vars, custodyVars, requestVars, LockInv
  <2> QED BY <2>1, <2>2
<1>3. LockInv => NoConcurrentCustody BY DEF LockInv, NoConcurrentCustody
<1> QED BY <1>1, <1>2, <1>3, TypeCorrect, PTL DEF Spec

-------------------------------------------------------------------------------
(* Commands are executed once                                              *)

LEMMA PendingStep ==
  ASSUME pending \subseteq commands, Next
  PROVE  pending' \subseteq commands'
<1>1. ASSUME NEW o \in Ops, Process(o) PROVE pending' \subseteq commands'
  BY <1>1, ProcessAnswers DEF Answered
<1>2. ASSUME NEW o \in Ops, FinishRemoval(o) \/ FinishLoad(o) PROVE pending' \subseteq commands'
  BY <1>2, FinishAnswers DEF Answered
<1>3. CASE CentralStep
  BY <1>3 DEF CentralStep, StoreRequest, RetrieveRequest, TransferRequest, CheckQueue,
     QueueTransfer, mailboxVars, gameVars
<1>4. CASE AgentStep
  BY <1>4 DEF AgentStep, PostReceipt, HandlerStops, TestReceipt, WriteCommand, SnapshotAccepted,
     Checkpoint, mailboxVars, gameVars
<1>5. CASE NativeDelete \/ NativeSave \/ Crash \/ PlayerSells
  BY <1>5 DEF NativeDelete, NativeSave, Crash, PlayerSells, mailboxVars, gameVars
<1> QED BY <1>1, <1>2, <1>3, <1>4, <1>5 DEF Next, GameStep

LEMMA UnansweredStep ==
  ASSUME TypeOK, "recreate" \notin Hazards, NEW o \in Ops, Unanswered(o), Next,
         \A g \in Garages : Checkpoint(g) /\ op'[o] # op[o] => o \notin commands
  PROVE  Unanswered(o)'
<1>1. ASSUME UNCHANGED mailboxVars, op'[o] = op[o] \/ op'[o] = "pending" PROVE Unanswered(o)'
  BY <1>1 DEF Unanswered, mailboxVars
<1>2. CASE CentralStep
  <2>1. UNCHANGED mailboxVars
    BY <1>2 DEF CentralStep, StoreRequest, RetrieveRequest, TransferRequest, CheckQueue, QueueTransfer
  <2>2. op'[o] = op[o] \/ op'[o] = "pending"
    BY <1>2 DEF TypeOK, CentralStep, StoreRequest, RetrieveRequest, TransferRequest, CheckQueue,
       QueueTransfer
  <2> QED BY <1>1, <2>1, <2>2
<1>3. ASSUME NEW p \in Ops, PostReceipt(p) PROVE Unanswered(o)'
  <2>1. current = Nothing /\ UNCHANGED <<current, commands>> BY <1>3 DEF PostReceipt
  <2>2. CASE p = o BY <1>3, <2>1, <2>2 DEF Unanswered, PostReceipt
  <2>3. CASE p # o
    <3>1. op'[o] = op[o] \/ op'[o] = "pending"
      BY <1>3, <2>3, HandleOps DEF PostReceipt
    <3>2. receipt'[o] = receipt[o] /\ (o \in quarantined' => o \in quarantined)
      BY <1>3, <2>3 DEF TypeOK, PostReceipt
    <3> QED BY <2>1, <3>1, <3>2 DEF Unanswered
  <2> QED BY <2>2, <2>3
<1>4. ASSUME NEW p \in Ops, TestReceipt(p) PROVE Unanswered(o)'
  BY <1>4 DEF Unanswered, TestReceipt
<1>5. ASSUME NEW p \in Ops, HandlerStops(p) PROVE Unanswered(o)'
  BY <1>1, <1>5 DEF HandlerStops
<1>6. ASSUME NEW g \in Garages, Checkpoint(g) PROVE Unanswered(o)'
  <2>1. current = Nothing /\ UNCHANGED mailboxVars BY <1>6 DEF Checkpoint
  <2> QED BY <1>1, <1>6, <2>1 DEF Unanswered, mailboxVars
<1>7. CASE WriteCommand
  BY <1>7 DEF Unanswered, WriteCommand
<1>8. CASE SnapshotAccepted
  BY <1>1, <1>8 DEF SnapshotAccepted
<1>9. ASSUME NEW p \in Ops, Process(p) \/ FinishRemoval(p) \/ FinishLoad(p) PROVE Unanswered(o)'
  <2>1. Answered(p) /\ UNCHANGED <<op, current, quarantined>>
    BY <1>9, ProcessAnswers, FinishAnswers, GameFrame
  <2> QED BY <2>1 DEF Unanswered, Answered, TypeOK
<1>10. CASE NativeDelete \/ NativeSave \/ Crash \/ PlayerSells
  BY <1>1, <1>10 DEF NativeDelete, NativeSave, Crash, PlayerSells
<1> QED BY <1>2, <1>3, <1>4, <1>5, <1>6, <1>7, <1>8, <1>9, <1>10
        DEF Next, AgentStep, GameStep

-------------------------------------------------------------------------------
(* Transfers are reported as they were made                                *)

LEMMA TransferProcess ==
  ASSUME TypeOK, TransferInv, NEW t \in Transfers, Process(Transfer(t)),
         moved[t] => ~OwnedBySource(t)
  PROVE  /\ receipt'[Transfer(t)] = "applied" => moved'[t]
         /\ receipt'[Transfer(t)] = "kept" => ~moved'[t]
         /\ moved'[t] => op[Transfer(t)] # "absent"
         /\ transfer[t] # "failed"
         /\ moved[t] => moved'[t]
<1> DEFINE o == Transfer(t)
<1>1. o \in Ops /\ o[1] = "transfer" /\ o[2] = t
  BY OpNames
<1>2. o \in commands /\ receipt[o] = "none" /\ op[o] = "pending" /\ ProcessTransfer(o)
  BY <1>1 DEF Process, Ready, TransferInv, Unanswered
<1>3. transfer[t] # "failed"
  BY <1>2 DEF TransferInv
<1>4. moved \in [Transfers -> BOOLEAN] /\ receipt \in [Ops -> Statuses \union {"none"}]
  BY DEF TypeOK
<1> HIDE DEF o
<1>5. CASE OwnedBySource(t) /\ moved' = [moved EXCEPT ![t] = TRUE] /\ Answer(o, "applied")
  <2>1. moved'[t] BY <1>4, <1>5
  <2>2. receipt'[o] \in {"applied", "none"} BY <1>1, <1>2, <1>4, <1>5 DEF Answer
  <2> QED BY <1>2, <1>3, <2>1, <2>2 DEF o
<1>6. CASE OwnedBySource(t) /\ Declines(o, "kept")
  <2>1. ~moved[t] /\ moved' = moved BY <1>6 DEF Declines
  <2>2. receipt'[o] \in {"kept", "none"} BY <1>1, <1>2, <1>4, <1>6 DEF Answer, Declines
  <2> QED BY <1>2, <1>3, <2>1, <2>2 DEF o
<1>7. CASE Declines(o, "unproven")
  <2>1. moved' = moved BY <1>7 DEF Declines
  <2>2. receipt'[o] \in {"unproven", "none"} BY <1>1, <1>2, <1>4, <1>7 DEF Answer, Declines
  <2> QED BY <1>2, <1>3, <2>1, <2>2 DEF o
<1> QED BY <1>1, <1>2, <1>5, <1>6, <1>7 DEF ProcessTransfer

(* Other operations leave a transfer alone.                                *)
LEMMA OtherAnswers ==
  ASSUME TypeOK, NEW t \in Transfers, NEW p \in Ops, p # Transfer(t),
         Process(p) \/ FinishRemoval(p) \/ FinishLoad(p)
  PROVE  /\ moved'[t] = moved[t] /\ UNCHANGED <<op, transfer>>
         /\ receipt'[Transfer(t)] = receipt[Transfer(t)]
<1>1. Answered(p) BY ProcessAnswers, FinishAnswers
<1>2. receipt'[Transfer(t)] = receipt[Transfer(t)]
  BY <1>1, TransferOps DEF Answered, TypeOK
<1>3. p[1] = "transfer" => p[2] # t BY OpKinds
<1>4. moved'[t] = moved[t]
  BY <1>3 DEF TypeOK, Process, ProcessPrepare, ProcessStore, ProcessRetrieve, ProcessTransfer,
     Declines, FinishRemoval, FinishLoad
<1> QED BY <1>2, <1>4, GameFrame DEF requestVars

LEMMA TransferStep ==
  ASSUME TypeOK, TransferInv, "recreate" \notin Hazards, Next,
         \A t \in Transfers : Transfer(t) \in commands /\ moved[t] => ~OwnedBySource(t)
  PROVE  TransferInv'
<1> SUFFICES ASSUME NEW t \in Transfers
             PROVE  /\ receipt'[Transfer(t)] = "applied" \/ transfer'[t] = "completed" => moved'[t]
                    /\ receipt'[Transfer(t)] = "kept" \/ transfer'[t] = "failed" => ~moved'[t]
                    /\ transfer'[t] \in {"completed", "failed", "reconciliation_required"}
                         => op'[Transfer(t)] \notin {"absent", "pending"}
                    /\ moved'[t] => op'[Transfer(t)] # "absent"
                    /\ Unanswered(Transfer(t))'
  BY DEF TransferInv
<1> DEFINE o == Transfer(t)
           Fine == /\ receipt'[o] = "applied" \/ transfer'[t] = "completed" => moved'[t]
                   /\ receipt'[o] = "kept" \/ transfer'[t] = "failed" => ~moved'[t]
                   /\ transfer'[t] \in {"completed", "failed", "reconciliation_required"}
                        => op'[o] \notin {"absent", "pending"}
                   /\ moved'[t] => op'[o] # "absent"
<1>1. o \in Ops /\ o[1] = "transfer" /\ o[2] = t
  BY OpNames
<1>2. Unanswered(o)'
  BY <1>1, UnansweredStep, CheckpointOps DEF TransferInv
<1>3. /\ receipt[o] = "applied" \/ transfer[t] = "completed" => moved[t]
      /\ receipt[o] = "kept" \/ transfer[t] = "failed" => ~moved[t]
      /\ transfer[t] \in {"completed", "failed", "reconciliation_required"}
           => op[o] \notin {"absent", "pending"}
      /\ moved[t] => op[o] # "absent"
      /\ Unanswered(o)
  BY DEF TransferInv
<1>4. \A u \in Transfers : u # t => Transfer(u) # o
  BY OpNames
<1>5. \A x : Prepare(x) # o /\ Store(x) # o /\ Retrieve(x) # o
  BY TransferOps
<1>6. /\ receipt \in [Ops -> Statuses \union {"none"}] /\ op \in [Ops -> OpStates]
      /\ moved \in [Transfers -> BOOLEAN] /\ transfer \in [Transfers -> TransferStates]
  BY DEF TypeOK
<1> HIDE DEF o
<1>7. ASSUME moved'[t] = moved[t], transfer'[t] = transfer[t], receipt'[o] \in {receipt[o], "none"},
             op'[o] = op[o] \/ (op[o] = "absent" /\ op'[o] = "pending")
      PROVE  Fine
  BY <1>3, <1>7
<1>8. ASSUME NEW u \in Transfers, QueueTransfer(u) PROVE Fine
  <2>1. UNCHANGED <<moved, receipt>> BY <1>8 DEF QueueTransfer, gameVars, mailboxVars
  <2>2. op'[o] = op[o] \/ (op[o] = "absent" /\ op'[o] = "pending")
    BY <1>1, <1>4, <1>6, <1>8 DEF QueueTransfer
  <2>3. transfer'[t] = transfer[t] \/ transfer'[t] = "pending_game"
    BY <1>6, <1>8 DEF QueueTransfer
  <2> QED BY <1>3, <2>1, <2>2, <2>3
<1>9. ASSUME NEW u \in Transfers, TransferRequest(u) PROVE Fine
  <2>1. UNCHANGED <<moved, receipt, op>> BY <1>9 DEF TransferRequest, gameVars, mailboxVars
  <2>2. transfer'[t] = transfer[t] \/ transfer'[t] = "requested"
    BY <1>6, <1>9 DEF TransferRequest
  <2> QED BY <1>3, <2>1, <2>2
<1>10. ASSUME NEW u \in Transfers, CheckQueue(u) PROVE Fine
  <2>1. UNCHANGED <<moved, receipt, op, transfer>> BY <1>10 DEF CheckQueue, gameVars, mailboxVars
  <2> QED BY <1>7, <2>1
<1>11. ASSUME NEW g \in Garages, StoreRequest(g) PROVE Fine
  <2>1. UNCHANGED <<moved, receipt, transfer>> BY <1>11 DEF StoreRequest, gameVars, mailboxVars
  <2>2. op'[o] = op[o] BY <1>5, <1>6, <1>11 DEF StoreRequest
  <2> QED BY <1>7, <2>1, <2>2
<1>12. ASSUME NEW r \in Retrieves, RetrieveRequest(r) PROVE Fine
  <2>1. UNCHANGED <<moved, receipt, transfer>>
    BY <1>12 DEF RetrieveRequest, gameVars, mailboxVars, requestVars
  <2>2. op'[o] = op[o] BY <1>5, <1>6, <1>12 DEF RetrieveRequest
  <2> QED BY <1>7, <2>1, <2>2
<1>13. ASSUME NEW p \in Ops, PostReceipt(p) PROVE Fine
  <2>1. moved' = moved /\ receipt'[o] \in {receipt[o], "none"}
    BY <1>1, <1>6, <1>13 DEF PostReceipt, gameVars
  <2>2. CASE ~Handle(p)
    <3>1. UNCHANGED <<op, transfer>> BY <1>13, <2>2 DEF PostReceipt
    <3> QED BY <1>7, <2>1, <3>1
  <2>3. CASE Handle(p) /\ p # o
    <3>1. op'[o] = op[o] /\ transfer'[t] = transfer[t]
      BY <2>3, HandleTransfer DEF o
    <3> QED BY <1>7, <2>1, <3>1
  <2>4. CASE Handle(p) /\ p = o
    <3>1. /\ transfer'[t] = TransferOutcome(receipt[o])
          /\ transfer'[t] \in {"completed", "failed", "reconciliation_required"}
          /\ transfer[t] = transfer'[t] => op' = op
          /\ transfer[t] # transfer'[t] => op'[o] \in {"succeeded", "failed", "reconciliation_required"}
      BY <2>4, HandleTransfer, SettleOutcome DEF o
    <3>2. /\ transfer'[t] = "completed" => receipt[o] = "applied"
          /\ transfer'[t] = "failed" => receipt[o] = "kept"
      BY <3>1 DEF TransferOutcome
    <3>3. op'[o] \notin {"absent", "pending"} BY <1>3, <3>1
    <3> QED BY <1>3, <2>1, <3>2, <3>3
  <2> QED BY <2>2, <2>3, <2>4
<1>14. ASSUME NEW g \in Garages, Checkpoint(g) PROVE Fine
  <2>1. UNCHANGED <<moved, receipt, transfer>>
    BY <1>14 DEF Checkpoint, gameVars, mailboxVars, requestVars
  <2>2. op'[o] = op[o] BY <1>14, CheckpointOps DEF o
  <2> QED BY <1>7, <2>1, <2>2
<1>15. ASSUME NEW p \in Ops, Process(p) \/ FinishRemoval(p) \/ FinishLoad(p), p # o PROVE Fine
  BY <1>7, <1>15, OtherAnswers DEF o
<1>16. ASSUME Process(o) PROVE Fine
  <2>1. o \in commands BY <1>1, <1>16, ProcessAnswers
  <2>2. /\ receipt'[o] = "applied" => moved'[t]
        /\ receipt'[o] = "kept" => ~moved'[t]
        /\ moved'[t] => op[o] # "absent"
        /\ transfer[t] # "failed"
        /\ moved[t] => moved'[t]
    BY <1>16, <2>1, TransferProcess DEF o
  <2>3. UNCHANGED <<op, transfer>> BY <1>16, GameFrame DEF requestVars
  <2> QED BY <1>3, <2>2, <2>3
<1>17. ~FinishRemoval(o) /\ ~FinishLoad(o)
  BY <1>1 DEF FinishRemoval, FinishLoad
<1>18. ASSUME UNCHANGED <<moved, receipt, op, transfer>> PROVE Fine
  BY <1>7, <1>18
<1>19. ASSUME \/ \E p \in Ops : TestReceipt(p) \/ HandlerStops(p)
              \/ WriteCommand \/ SnapshotAccepted
       PROVE  Fine
  <2>1. UNCHANGED <<moved, receipt, op, transfer>>
    BY <1>19 DEF TestReceipt, HandlerStops, WriteCommand, SnapshotAccepted, gameVars, mailboxVars,
       requestVars
  <2> QED BY <1>18, <2>1
<1>20. ASSUME NativeDelete \/ NativeSave \/ Crash \/ PlayerSells PROVE Fine
  <2>1. UNCHANGED <<moved, receipt, op, transfer>>
    BY <1>20 DEF NativeDelete, NativeSave, Crash, PlayerSells, gameVars, mailboxVars, requestVars
  <2> QED BY <1>18, <2>1
<1>21. Fine
  <2>1. CASE CentralStep BY <2>1, <1>8, <1>9, <1>10, <1>11, <1>12 DEF CentralStep
  <2>2. CASE AgentStep BY <2>2, <1>13, <1>14, <1>19 DEF AgentStep
  <2>3. CASE GameStep BY <2>3, <1>15, <1>16, <1>17, <1>20 DEF GameStep
  <2> QED BY <2>1, <2>2, <2>3 DEF Next
<1> QED BY <1>2, <1>21 DEF o

LEMMA TransferInit == Init => TransferInv /\ OnceInv
BY TransferOps DEF Init, TransferInv, OnceInv, Unanswered

LEMMA OnceStep ==
  ASSUME TypeOK, TransferInv, OnceInv, "save_failure" \notin Hazards, Next
  PROVE  OnceInv'
<1> SUFFICES ASSUME NEW t \in Transfers, moved'[t], op'[Transfer(t)] = "pending"
             PROVE  receipt'[Transfer(t)] = "applied" \/ Transfer(t) \in quarantined'
  BY DEF OnceInv
<1> DEFINE o == Transfer(t)
<1>1. o \in Ops /\ o[1] = "transfer" /\ o[2] = t
  BY OpNames
<1>2. moved[t] => op[o] # "absent"
  BY DEF TransferInv
<1>3. ASSUME moved[t], op[o] = "pending" PROVE receipt[o] = "applied" \/ o \in quarantined
  BY <1>3 DEF OnceInv
<1>4. \A x : Prepare(x) # o /\ Store(x) # o /\ Retrieve(x) # o
  BY TransferOps
<1>5. /\ receipt \in [Ops -> Statuses \union {"none"}] /\ op \in [Ops -> OpStates]
      /\ moved \in [Transfers -> BOOLEAN] /\ moved'[t] /\ op'[o] = "pending"
  BY DEF TypeOK
<1>6. \A u \in Transfers : u # t => Transfer(u) # o
  BY OpNames
<1> SUFFICES receipt'[o] = "applied" \/ o \in quarantined'
  OBVIOUS
<1> HIDE DEF o
<1>7. ASSUME moved'[t] = moved[t], op'[o] = op[o] \/ op[o] = "absent", receipt'[o] = receipt[o],
             quarantined' = quarantined
      PROVE  receipt'[o] = "applied" \/ o \in quarantined'
  BY <1>2, <1>3, <1>5, <1>7
<1>8. CASE CentralStep
  <2>1. UNCHANGED <<moved, receipt, quarantined>>
    BY <1>8 DEF CentralStep, StoreRequest, RetrieveRequest, TransferRequest, CheckQueue,
       QueueTransfer, mailboxVars, gameVars
  <2>2. op'[o] = op[o] \/ op[o] = "absent"
    BY <1>1, <1>4, <1>5, <1>6, <1>8 DEF CentralStep, StoreRequest, RetrieveRequest, TransferRequest, CheckQueue,
       QueueTransfer, requestVars
  <2> QED BY <1>7, <2>1, <2>2
<1>9. ASSUME NEW p \in Ops, PostReceipt(p) PROVE receipt'[o] = "applied" \/ o \in quarantined'
  <2>1. moved' = moved BY <1>9 DEF PostReceipt, gameVars
  <2>2. CASE p # o
    <3>1. op'[o] = op[o] BY <1>9, <2>2, HandleTransfer DEF PostReceipt, o
    <3>2. receipt'[o] = receipt[o] /\ (o \in quarantined => o \in quarantined')
      BY <1>1, <1>5, <1>9, <2>2 DEF PostReceipt
    <3> QED BY <1>3, <1>5, <2>1, <3>1, <3>2
  <2>3. CASE p = o /\ Handle(o)
    <3>1. \/ op'[o] \in {"succeeded", "failed", "reconciliation_required"}
          \/ op' = op /\ transfer[t] \in {"completed", "failed", "reconciliation_required"}
      BY <2>3, HandleTransfer, SettleOutcome DEF o
    <3> QED BY <1>5, <3>1 DEF TransferInv, o
  <2>4. CASE p = o /\ ~Handle(o)
    BY <1>9, <2>4 DEF PostReceipt
  <2> QED BY <2>2, <2>3, <2>4
<1>10. ASSUME NEW g \in Garages, Checkpoint(g) PROVE receipt'[o] = "applied" \/ o \in quarantined'
  <2>1. UNCHANGED <<moved, receipt, quarantined>> BY <1>10 DEF Checkpoint, mailboxVars, gameVars
  <2> QED BY <1>7, <1>10, <2>1, CheckpointOps DEF o
<1>11. ASSUME NEW p \in Ops, Process(p) \/ FinishRemoval(p) \/ FinishLoad(p), p # o
       PROVE  receipt'[o] = "applied" \/ o \in quarantined'
  BY <1>7, <1>11, OtherAnswers, GameFrame DEF o
<1>12. CASE Process(o)
  <2>1. o \in commands /\ receipt[o] = "none" /\ ProcessTransfer(o) BY <1>1, <1>12 DEF Process, Ready
  <2>2. op[o] = "pending" /\ o \notin quarantined
    BY <2>1 DEF TransferInv, Unanswered, o
  <2>3. ~moved[t] BY <1>3, <2>1, <2>2
  <2>4. Answer(o, "applied")
    BY <1>1, <1>5, <2>1, <2>3 DEF ProcessTransfer, Declines
  <2> QED BY <1>1, <1>5, <2>4 DEF Answer, Fault
<1>13. ~FinishRemoval(o) /\ ~FinishLoad(o)
  BY <1>1 DEF FinishRemoval, FinishLoad
<1>14. CASE \/ \E p \in Ops : TestReceipt(p) \/ HandlerStops(p)
            \/ WriteCommand \/ SnapshotAccepted
  <2>1. UNCHANGED <<moved, receipt, op, quarantined>>
    BY <1>14 DEF TestReceipt, HandlerStops, WriteCommand, SnapshotAccepted, gameVars, mailboxVars
  <2> QED BY <1>7, <2>1
<1>15. CASE NativeDelete \/ NativeSave \/ Crash \/ PlayerSells
  <2>1. UNCHANGED <<moved, receipt, op, quarantined>>
    BY <1>15 DEF NativeDelete, NativeSave, Crash, PlayerSells, gameVars, mailboxVars
  <2> QED BY <1>7, <2>1
<1> QED BY <1>8, <1>9, <1>10, <1>11, <1>12, <1>13, <1>14, <1>15 DEF Next, AgentStep, GameStep

(* Nobody is told that a transfer failed that the game has made, or that   *)
(* it was completed when it was not: whatever else goes wrong, if every    *)
(* receipt reaches the disk.                                               *)
THEOREM TransfersAreTrue ==
  ASSUME "recreate" \notin Hazards, "save_failure" \notin Hazards
  PROVE  Spec => []TransferTruth
<1> DEFINE I == TransferInv /\ OnceInv
<1>1. Init => I BY TransferInit
<1>2. TypeOK /\ I /\ [Next]_vars => I'
  <2> SUFFICES ASSUME TypeOK, I, [Next]_vars PROVE I' OBVIOUS
  <2>1. CASE Next
    <3>1. \A t \in Transfers : Transfer(t) \in commands => ~moved[t]
      BY DEF TransferInv, OnceInv, Unanswered
    <3> QED BY <2>1, <3>1, TransferStep, OnceStep
  <2>2. CASE UNCHANGED vars
    BY <2>2 DEF vars, custodyVars, requestVars, mailboxVars, gameVars, TransferInv, OnceInv, Unanswered
  <2> QED BY <2>1, <2>2
<1>3. I => TransferTruth BY DEF TransferInv, TransferTruth
<1> QED BY <1>1, <1>2, <1>3, TypeCorrect, PTL DEF Spec

-------------------------------------------------------------------------------
(* Rows, operations and receipts                                           *)

(* An operation the item does not wait for.                                *)
Idle(o) == /\ op[o] \notin {"pending", "awaiting_save"} /\ receipt[o] \notin {"kept", "unproven"}
           /\ ~(op[o] = "succeeded" /\ o[1] = "retrieve")

LEMMA GarageOpKinds ==
  ASSUME NEW o \in GarageOps
  PROVE  /\ o \in Ops /\ o[1] \in {"prepare", "store", "retrieve"}
         /\ o[1] = "prepare" => o[2] \in Garages /\ o = Prepare(o[2]) /\ OpGarage(o) = o[2]
         /\ o[1] = "store" => o[2] \in Garages /\ o = Store(o[2]) /\ OpGarage(o) = o[2]
         /\ o[1] = "retrieve" => o[2] \in Retrieves /\ o = Retrieve(o[2]) /\ OpGarage(o) = leased[o[2]]
BY OpKinds, GarageOpsAreOps DEF OpGarage

LEMMA GarageOpNames ==
  /\ \A g \in Garages : /\ Prepare(g) \in GarageOps /\ OpGarage(Prepare(g)) = g
                        /\ Store(g) \in GarageOps /\ OpGarage(Store(g)) = g
  /\ \A r \in Retrieves : Retrieve(r) \in GarageOps /\ OpGarage(Retrieve(r)) = leased[r]
BY OpNames DEF OpGarage

LEMMA GarageOpDiffer ==
  ASSUME NEW o \in GarageOps, NEW p \in GarageOps
  PROVE  o[1] = p[1] /\ o[2] = p[2] => o = p
BY GarageOpKinds

LEMMA Alone ==
  ASSUME NEW o \in GarageOps, NEW p \in GarageOps, p # o, OpInv(p),
         OpGarage(p) = OpGarage(o), Mine(o),
         item[OpGarage(o)] = Working(o) \/ (item[OpGarage(o)] = Awaited(o) /\ o[1] # "prepare")
  PROVE  Idle(p) /\ (op[p] = "succeeded" /\ p[1] = "store" => item[OpGarage(o)] \in After)
<1> DEFINE state == item[OpGarage(o)]
<1>1. o[1] \in {"prepare", "store", "retrieve"} /\ p[1] \in {"prepare", "store", "retrieve"}
  BY GarageOpKinds
<1>2. o[1] = p[1] => o[1] = "retrieve" /\ ~Mine(p)
  <2>1. o[1] = p[1] /\ o[1] # "retrieve" => o[2] = p[2] BY <1>1, GarageOpKinds
  <2>2. o[1] = p[1] /\ o[1] = "retrieve" /\ Mine(p) => o[2] = p[2] BY DEF Mine
  <2> QED BY <1>1, <2>1, <2>2, GarageOpDiffer
<1>3. state = Working(o) \/ (state = Awaited(o) /\ o[1] # "prepare")
  OBVIOUS
<1>4. OpInv(p) /\ item[OpGarage(p)] = state
  OBVIOUS
<1>5. /\ o[1] = "prepare" => state = "preparing"
      /\ o[1] = "store" => state \in {"removing", "awaiting_store_save"}
      /\ o[1] = "retrieve" => state \in {"retrieving", "awaiting_retrieve_save"}
  BY <1>1, <1>3 DEF Working, Awaited
<1>6. /\ p[1] = "prepare" => Working(p) = "preparing"
      /\ p[1] = "store" => Working(p) = "removing" /\ Awaited(p) = "awaiting_store_save"
      /\ p[1] = "retrieve" => Working(p) = "retrieving" /\ Awaited(p) = "awaiting_retrieve_save"
      /\ Refused(p) \in {"stored", "failed"}
  BY <1>1 DEF Working, Awaited, Refused
<1> HIDE DEF state
<1>7. op[p] = "pending" =>
        Mine(p) /\ (state = Working(p) \/ (p[1] # "prepare" /\ state = Awaited(p)) \/ state = "review_required")
  BY <1>4 DEF OpInv
<1>8. op[p] = "awaiting_save" => Mine(p) /\ p[1] # "prepare" /\ state = Awaited(p)
  BY <1>4 DEF OpInv
<1>9. op[p] # "pending"
  BY <1>1, <1>2, <1>5, <1>6, <1>7
<1>10. op[p] # "awaiting_save"
  BY <1>1, <1>2, <1>5, <1>6, <1>8
<1>11. receipt[p] # "kept"
  <2>1. receipt[p] = "kept" => state = Refused(p) BY <1>4, <1>9 DEF OpInv
  <2> QED BY <1>1, <1>5, <1>6, <2>1
<1>12. receipt[p] # "unproven"
  <2>1. receipt[p] = "unproven" => state = "review_required" BY <1>4, <1>9 DEF OpInv
  <2> QED BY <1>1, <1>5, <2>1
<1>13. ~(op[p] = "succeeded" /\ p[1] = "retrieve")
  <2>1. op[p] = "succeeded" /\ p[1] = "retrieve" => state = "retrieved" BY <1>4 DEF OpInv
  <2> QED BY <1>1, <1>5, <2>1
<1>14. op[p] = "succeeded" /\ p[1] = "store" => state \in After
  BY <1>4 DEF OpInv, After
<1> QED BY <1>9, <1>10, <1>11, <1>12, <1>13, <1>14 DEF Idle, state

LEMMA IdleStays ==
  ASSUME NEW p \in GarageOps, OpInv(p), Idle(p), op'[p] = op[p], receipt'[p] = receipt[p],
         UNCHANGED <<retrieval, leased>>,
         op[p] = "succeeded" /\ p[1] = "store" => item'[OpGarage(p)] \in After
  PROVE  OpInv(p)'
<1>1. OpGarage(p)' = OpGarage(p) /\ (Mine(p) <=> Mine(p)')
  BY DEF OpGarage, Mine
<1> QED BY <1>1 DEF OpInv, Idle, After

(* Operations of no item have not begun.                                   *)
LEMMA Unleased ==
  ASSUME NEW p \in GarageOps, OpInv(p), OpGarage(p) \notin Garages
  PROVE  op[p] = "absent" /\ receipt[p] = "none" /\ p[1] = "retrieve"
BY GarageOpKinds DEF OpInv, Mine

LEMMA OpElsewhere ==
  ASSUME NEW p \in GarageOps, OpInv(p), op'[p] = op[p], receipt'[p] = receipt[p],
         OpGarage(p)' = OpGarage(p),
         OpGarage(p) \in Garages => /\ item'[OpGarage(p)] = item[OpGarage(p)]
                                    /\ retrieval'[OpGarage(p)] = retrieval[OpGarage(p)]
  PROVE  OpInv(p)'
<1>1. CASE OpGarage(p) \in Garages
  <2>1. Mine(p) <=> Mine(p)' BY <1>1 DEF Mine
  <2>2. Working(p) = Working(p)' /\ Awaited(p) = Awaited(p)' /\ Refused(p) = Refused(p)' OBVIOUS
  <2> QED BY <1>1, <2>1 DEF OpInv
<1>2. CASE OpGarage(p) \notin Garages
  BY <1>2, Unleased DEF OpInv
<1> QED BY <1>1, <1>2

LEMMA ItemElsewhere ==
  ASSUME TypeOK, NEW h \in Garages, ItemInv(h), item'[h] = item[h], retrieval'[h] = retrieval[h],
         retrieval[h] \in Retrieves /\ leased[retrieval[h]] = h => leased'[retrieval[h]] = h,
         lock' = h <=> lock = h, archived \subseteq archived',
         \A p \in GarageOps : OpGarage(p) = h => op'[p] = op[p] /\ receipt'[p] = receipt[p]
  PROVE  ItemInv(h)'
<1>1. op'[Store(h)] = op[Store(h)] /\ receipt'[Store(h)] = receipt[Store(h)]
  BY GarageOpNames
<1>2. retrieval[h] \in Retrieves /\ leased[retrieval[h]] = h =>
        LET o == Retrieve(retrieval[h]) IN op'[o] = op[o] /\ receipt'[o] = receipt[o]
  BY GarageOpNames
<1> QED BY <1>1, <1>2 DEF ItemInv

(* A step that concerns one item only.                                     *)
LEMMA Elsewhere ==
  ASSUME TypeOK, RowInv, NEW g \in Garages, NEW s, item' = [item EXCEPT ![g] = s] \/ item' = item,
         UNCHANGED <<retrieval, leased>>, archived \subseteq archived',
         lock' = lock \/ (lock = g /\ lock' = Nothing),
         \A p \in GarageOps : OpGarage(p) # g => op'[p] = op[p] /\ receipt'[p] = receipt[p]
  PROVE  /\ \A p \in GarageOps : OpGarage(p) # g => OpInv(p)'
         /\ \A h \in Garages : h # g => ItemInv(h)'
<1>1. \A h \in Garages : h # g => item'[h] = item[h]
  BY DEF TypeOK
<1>2. ASSUME NEW p \in GarageOps, OpGarage(p) # g PROVE OpInv(p)'
  <2>1. OpGarage(p)' = OpGarage(p) BY DEF OpGarage
  <2> QED BY <1>1, <1>2, <2>1, OpElsewhere DEF RowInv
<1>3. ASSUME NEW h \in Garages, h # g PROVE ItemInv(h)'
  <2>1. lock' = h <=> lock = h BY <1>3, NothingIsNone
  <2> QED BY <1>1, <1>3, <2>1, ItemElsewhere DEF RowInv
<1> QED BY <1>2, <1>3

(* The other operations of an item when one of them changes its state.     *)
LEMMA Beside ==
  ASSUME TypeOK, NEW o \in GarageOps, NEW p \in GarageOps, p # o, OpInv(p),
         OpGarage(p) = OpGarage(o), Mine(o),
         item[OpGarage(o)] = Working(o) \/ (item[OpGarage(o)] = Awaited(o) /\ o[1] # "prepare"),
         NEW s, item' = [item EXCEPT ![OpGarage(o)] = s],
         item[OpGarage(o)] \in After => s \in After,
         op'[p] = op[p], receipt'[p] = receipt[p], UNCHANGED <<retrieval, leased>>
  PROVE  OpInv(p)'
<1>1. Idle(p) /\ (op[p] = "succeeded" /\ p[1] = "store" => item[OpGarage(o)] \in After)
  BY Alone
<1>2. OpGarage(o) \in Garages BY DEF Mine
<1>3. item'[OpGarage(p)] = s BY <1>2 DEF TypeOK
<1> QED BY <1>1, <1>3, IdleStays

(* What is known of an operation whose receipt is being posted.            *)
LEMMA Posted ==
  ASSUME TypeOK, RowInv, NEW o \in GarageOps, receipt[o] # "none"
  PROVE  /\ OpInv(o) /\ Mine(o) /\ OpGarage(o) \in Garages /\ ItemInv(OpGarage(o))
         /\ receipt[o] \in {"prepared", "applied", "kept", "unproven"}
         /\ o \in Ops
<1>1. OpInv(o) /\ Mine(o) BY DEF RowInv, OpInv
<1>2. receipt \in [Ops -> Statuses \union {"none"}] /\ o \in Ops BY GarageOpsAreOps DEF TypeOK
<1> QED BY <1>1, <1>2 DEF RowInv, Mine, Statuses

LEMMA PostFrame ==
  ASSUME TypeOK, NEW o \in Ops, PostReceipt(o)
  PROVE  /\ \A p \in Ops : p # o => receipt'[p] = receipt[p]
         /\ receipt'[o] \in {receipt[o], "none"}
         /\ receipt'[o] # "none" => "lost_answer" \in Hazards
         /\ receipt[o] # "none" /\ current = Nothing
         /\ UNCHANGED <<retrieval, leased, source, queueing, seen, current, commands, diskVars, gameVars>>
<1>1. receipt' = [receipt EXCEPT ![o] = "none"] \/ (receipt' = receipt /\ "lost_answer" \in Hazards)
  BY DEF PostReceipt, Fault
<1> QED BY <1>1 DEF TypeOK, PostReceipt

(* The archive arrives.                                                    *)
LEMMA CaptureRow ==
  ASSUME TypeOK, RowInv, NEW o \in GarageOps, PostReceipt(o), CanCapture(o), Capture(o)
  PROVE  RowInv'
<1> DEFINE g == o[2]
<1>1. o[1] = "prepare" /\ g \in Garages /\ o = Prepare(g) /\ OpGarage(o) = g /\ o \in Ops
  BY GarageOpKinds DEF CanCapture
<1>2. OpInv(o) /\ Mine(o) /\ receipt[o] = "prepared" /\ ItemInv(g) /\ OpInv(Store(g))
  BY <1>1, Posted, GarageOpNames DEF CanCapture, RowInv
<1>3. /\ \A p \in Ops : p # o => receipt'[p] = receipt[p]
      /\ receipt'[o] \in {"prepared", "none"} /\ UNCHANGED <<retrieval, leased>>
  BY <1>1, <1>2, PostFrame
<1>4. Store(g) \in GarageOps /\ Store(g) \in Ops /\ Store(g) # o /\ OpGarage(Store(g)) = g
      /\ Store(g)[1] = "store" /\ Store(g)[2] = g
  BY <1>1, GarageOpNames, GarageOpsAreOps, OpNames
<1>5. op \in [Ops -> OpStates] /\ item \in [Garages -> ItemStates] /\ lock' = lock
      /\ archived' = archived \union {g}
  BY DEF TypeOK, Capture
<1>6. GarageOps \subseteq Ops BY GarageOpsAreOps
<1> HIDE DEF g
<1>7. CASE g \in archived
  <2>1. UNCHANGED <<item, op>> BY <1>7 DEF Capture, g
  <2>2. \A p \in GarageOps : p # o => op'[p] = op[p] /\ receipt'[p] = receipt[p]
    BY <1>3, <1>6, <2>1
  <2>3. /\ \A p \in GarageOps : OpGarage(p) # g => OpInv(p)'
        /\ \A h \in Garages : h # g => ItemInv(h)'
    BY <1>1, <1>3, <1>5, <2>1, <2>2, Elsewhere
  <2>4. OpInv(o)'
    <3>1. OpGarage(o)' = OpGarage(o) /\ Mine(o)' BY <1>1, <1>2, <1>3 DEF OpGarage, Mine
    <3>2. op[o] = "pending" => item[g] = Working(o)
      BY <1>1, <1>2 DEF OpInv
    <3>3. op[o] # "awaiting_save" BY <1>1, <1>2 DEF OpInv
    <3> QED BY <1>1, <1>3, <2>1, <3>1, <3>2, <3>3 DEF OpInv, Working
  <2>5. ASSUME NEW p \in GarageOps, p # o, OpGarage(p) = g PROVE OpInv(p)'
    <3>1. OpGarage(p)' = OpGarage(p) BY <1>3 DEF OpGarage
    <3> QED BY <1>1, <1>3, <2>1, <2>2, <2>5, <3>1, OpElsewhere DEF RowInv
  <2>6. ItemInv(g)'
    <3>1. receipt'[Store(g)] = receipt[Store(g)] BY <1>3, <1>4
    <3>2. g \in archived' BY <1>5
    <3>3. retrieval[g] \in Retrieves => receipt'[Retrieve(retrieval[g])] = receipt[Retrieve(retrieval[g])]
      <4>1. \A r \in Retrieves : Retrieve(r) \in Ops /\ Retrieve(r) # o BY <1>1, OpNames, GarageOpsAreOps
      <4> QED BY <1>3, <4>1
    <3> QED BY <1>2, <1>3, <1>5, <2>1, <3>1, <3>2, <3>3 DEF ItemInv
  <2> QED BY <2>3, <2>4, <2>5, <2>6 DEF RowInv
<1>8. CASE g \notin archived
  <2>1. /\ item[g] = "preparing" /\ item' = [item EXCEPT ![g] = "removing"]
        /\ op' = [op EXCEPT ![o] = "succeeded", ![Store(g)] = "pending"]
    BY <1>8 DEF CanCapture, Capture, g
  <2>2. \A p \in Ops : p # o /\ p # Store(g) => op'[p] = op[p]
    BY <1>5, <2>1
  <2>3. op'[o] = "succeeded" /\ op'[Store(g)] = "pending" /\ item'[g] = "removing"
    BY <1>1, <1>4, <1>5, <2>1
  <2>4. /\ \A p \in GarageOps : OpGarage(p) # g => OpInv(p)'
        /\ \A h \in Garages : h # g => ItemInv(h)'
    BY <1>1, <1>3, <1>4, <1>5, <1>6, <2>1, <2>2, Elsewhere
  <2>5. OpInv(o)'
    <3>1. OpGarage(o)' = OpGarage(o) /\ Mine(o)' BY <1>1, <1>2, <1>3 DEF OpGarage, Mine
    <3> QED BY <1>1, <1>3, <2>3, <3>1 DEF OpInv
  <2>6. item[g] = Working(o) BY <1>1, <2>1 DEF Working
  <2>7. OpInv(Store(g))'
    <3>1. Idle(Store(g)) BY <1>1, <1>2, <1>4, <2>6, Alone
    <3>2. OpGarage(Store(g))' = g /\ Mine(Store(g))' BY <1>1, <1>4 DEF OpGarage, Mine
    <3>3. receipt'[Store(g)] \notin {"kept", "unproven", "prepared"}
      BY <1>2, <1>3, <1>4, <3>1 DEF OpInv, Idle
    <3> QED BY <1>4, <2>3, <3>2, <3>3 DEF OpInv, Working
  <2>8. ASSUME NEW p \in GarageOps, p # o, p # Store(g), OpGarage(p) = g PROVE OpInv(p)'
    <3>1. op'[p] = op[p] /\ receipt'[p] = receipt[p] BY <1>3, <1>6, <2>2, <2>8
    <3>2. item[g] \notin After BY <2>1 DEF After
    <3> QED BY <1>1, <1>2, <1>3, <2>1, <2>6, <2>8, <3>1, <3>2, Beside DEF RowInv
  <2>9. ItemInv(g)'
    BY <1>2, <1>5, <2>1, <2>3 DEF ItemInv, Held, ItemStates
  <2> QED BY <2>4, <2>5, <2>7, <2>8, <2>9 DEF RowInv
<1> QED BY <1>7, <1>8

(* A handler gives the item of its own operation another state.            *)
LEMMA RowMoves ==
  ASSUME TypeOK, RowInv, NEW o \in GarageOps, Mine(o),
         item[OpGarage(o)] = Working(o) \/ (item[OpGarage(o)] = Awaited(o) /\ o[1] # "prepare"),
         NEW s, item' = [item EXCEPT ![OpGarage(o)] = s],
         item[OpGarage(o)] \in After => s \in After,
         \A p \in GarageOps : p # o => op'[p] = op[p] /\ receipt'[p] = receipt[p],
         UNCHANGED <<retrieval, leased>>, archived \subseteq archived',
         lock' = lock \/ (lock = OpGarage(o) /\ lock' = Nothing),
         OpInv(o)', ItemInv(OpGarage(o))'
  PROVE  RowInv'
<1>1. OpGarage(o) \in Garages BY DEF Mine
<1>2. \A p \in GarageOps : OpGarage(p) # OpGarage(o) => op'[p] = op[p] /\ receipt'[p] = receipt[p]
  OBVIOUS
<1>3. PICK g \in Garages : g = OpGarage(o) BY <1>1
<1>4. /\ \A p \in GarageOps : OpGarage(p) # g => OpInv(p)'
      /\ \A h \in Garages : h # g => ItemInv(h)'
  BY <1>2, <1>3, Elsewhere
<1>5. ASSUME NEW p \in GarageOps, p # o, OpGarage(p) = g PROVE OpInv(p)'
  BY <1>3, <1>5, Beside DEF RowInv
<1>6. ItemInv(g)'
  <2>1. OpGarage(o)' = OpGarage(o) BY DEF OpGarage
  <2> QED BY <1>3, <2>1 DEF ItemInv
<1> QED BY <1>4, <1>5, <1>6 DEF RowInv

(* Operation and receipt of o may change while the item stays.             *)
LEMMA RowStays ==
  ASSUME TypeOK, RowInv, NEW o \in GarageOps, OpGarage(o) \in Garages,
         UNCHANGED <<item, retrieval, leased, lock>>, archived \subseteq archived',
         \A p \in GarageOps : p # o => op'[p] = op[p] /\ receipt'[p] = receipt[p],
         OpInv(o)', ItemInv(OpGarage(o))'
  PROVE  RowInv'
<1>1. PICK g \in Garages : g = OpGarage(o) OBVIOUS
<1>2. /\ \A p \in GarageOps : OpGarage(p) # g => OpInv(p)'
      /\ \A h \in Garages : h # g => ItemInv(h)'
  BY <1>1, Elsewhere
<1>3. ASSUME NEW p \in GarageOps, p # o PROVE OpInv(p)'
  <2>1. OpGarage(p)' = OpGarage(p) BY DEF OpGarage
  <2> QED BY <1>3, <2>1, OpElsewhere DEF RowInv
<1>4. ItemInv(g)'
  <2>1. OpGarage(o)' = OpGarage(o) BY DEF OpGarage
  <2> QED BY <1>1, <2>1 DEF ItemInv
<1> QED BY <1>2, <1>3, <1>4 DEF RowInv

(* Facts of the item of an operation that concern its own row.             *)
LEMMA OwnItem ==
  ASSUME TypeOK, NEW o \in GarageOps, Mine(o), ItemInv(OpGarage(o))
  PROVE  /\ OpGarage(o) \in Garages
         /\ o[1] = "store" => o = Store(OpGarage(o))
         /\ o[1] = "retrieve" => /\ retrieval[OpGarage(o)] = o[2] /\ o[2] \in Retrieves
                                 /\ leased[retrieval[OpGarage(o)]] = OpGarage(o)
                                 /\ o = Retrieve(retrieval[OpGarage(o)])
         /\ lock = OpGarage(o) <=> item[OpGarage(o)] \in Held
         /\ item[OpGarage(o)] \in Held \ {"preparing", "review_required"} => OpGarage(o) \in archived
BY GarageOpKinds DEF Mine, ItemInv

LEMMA Words ==
  ASSUME NEW o \in GarageOps
  PROVE  /\ Working(o) \in Held /\ Awaited(o) \in Held /\ Working(o) \in ItemStates
         /\ o[1] = "prepare" => Working(o) = "preparing" /\ Refused(o) = "failed"
         /\ o[1] = "store" =>
              Working(o) = "removing" /\ Awaited(o) = "awaiting_store_save" /\ Refused(o) = "failed"
         /\ o[1] = "retrieve" =>
              Working(o) = "retrieving" /\ Awaited(o) = "awaiting_retrieve_save" /\ Refused(o) = "stored"
BY GarageOpKinds DEF Working, Awaited, Refused, Held, ItemStates

LEMMA SameGarage ==
  ASSUME NEW o \in GarageOps, UNCHANGED <<retrieval, leased>>
  PROVE  OpGarage(o)' = OpGarage(o) /\ (Mine(o)' <=> Mine(o))
BY DEF OpGarage, Mine

(* A deletion or load was reported, perhaps already written to the row.    *)
LEMMA ApplyRow ==
  ASSUME TypeOK, RowInv, NEW o \in GarageOps, CanApply(o), op[o] # "succeeded",
         \/ PostReceipt(o) /\ Apply(o)
         \/ /\ item' = [item EXCEPT ![OpGarage(o)] = Awaited(o)] /\ current = Nothing
            /\ UNCHANGED <<op, receipt, retrieval, leased, lock, archived>>
  PROVE  RowInv'
<1>0. PICK g \in Garages : g = OpGarage(o)
  BY Posted DEF CanApply
<1> USE <1>0
<1>1. /\ OpInv(o) /\ Mine(o) /\ ItemInv(g) /\ receipt[o] = "applied" /\ o \in Ops
      /\ o[1] \in {"store", "retrieve"}
  BY Posted DEF CanApply
<1>2. item[g] = Working(o) \/ item[g] = Awaited(o)
  BY <1>1, Words DEF CanApply
<1>3. /\ item' = [item EXCEPT ![g] = Awaited(o)] /\ UNCHANGED <<retrieval, leased, lock, archived>>
      /\ \A p \in Ops : p # o => op'[p] = op[p] /\ receipt'[p] = receipt[p]
      /\ \/ op'[o] = "awaiting_save" /\ receipt'[o] \in {"applied", "none"}
         \/ op'[o] = op[o] /\ receipt'[o] = "applied"
  <2>1. CASE PostReceipt(o) /\ Apply(o)
    <3>1. op' = [op EXCEPT ![o] = "awaiting_save"] /\ UNCHANGED <<lock, archived>>
      BY <2>1 DEF Apply
    <3>2. op \in [Ops -> OpStates] BY DEF TypeOK
    <3> QED BY <1>1, <2>1, <3>1, <3>2, PostFrame DEF Apply
  <2>2. CASE /\ item' = [item EXCEPT ![OpGarage(o)] = Awaited(o)] /\ current = Nothing
             /\ UNCHANGED <<op, receipt, retrieval, leased, lock, archived>>
    BY <1>1, <2>2
  <2> QED BY <2>1, <2>2
<1>4. g \in Garages OBVIOUS
<1>5. item'[g] = Awaited(o) BY <1>3, <1>4 DEF TypeOK
<1>6. OpGarage(o)' = g /\ Mine(o)' BY <1>1, <1>3, SameGarage
<1>7. OpInv(o)'
  <2>1. op[o] \in {"pending", "awaiting_save"} BY <1>1 DEF OpInv
  <2>2. Awaited(o)' = Awaited(o) OBVIOUS
  <2> QED BY <1>1, <1>3, <1>5, <1>6, <2>1, <2>2 DEF OpInv
<1>8. item[g] \in Held \ {"preparing", "review_required"}
      /\ Awaited(o) \in Held \ {"preparing", "review_required"}
  BY <1>1, <1>2, Words DEF Held, ItemStates
<1>9. lock = g /\ g \in archived BY <1>1, <1>8 DEF ItemInv
<1>10. ItemInv(g)'
  <2>1. op'[o] = "awaiting_save" \/ receipt'[o] = "applied" BY <1>3
  <2>2. o[1] = "store" => o = Store(g) /\ Awaited(o) = "awaiting_store_save"
    BY <1>1, OwnItem, Words
  <2>3. o[1] = "retrieve" => /\ retrieval[g] \in Retrieves /\ leased[retrieval[g]] = g
                             /\ o = Retrieve(retrieval[g]) /\ Awaited(o) = "awaiting_retrieve_save"
    BY <1>1, OwnItem, Words
  <2> QED BY <1>1, <1>3, <1>5, <1>8, <1>9, <2>1, <2>2, <2>3 DEF ItemInv
<1>11. item[g] \in After => Awaited(o) \in After
  <2>1. CASE o[1] = "store"
    BY <1>2, <2>1, Words DEF After
  <2>2. CASE o[1] = "retrieve"
    BY <2>2, Words DEF After
  <2> QED BY <1>1, <2>1, <2>2
<1>12. \A p \in GarageOps : p # o => op'[p] = op[p] /\ receipt'[p] = receipt[p]
  BY <1>3, GarageOpsAreOps
<1>13. ItemInv(OpGarage(o))'
  BY <1>6, <1>10 DEF ItemInv
<1> QED BY <1>1, <1>2, <1>3, <1>7, <1>11, <1>12, <1>13, RowMoves

(* The game answered that it did nothing.                                  *)
LEMMA RefuseRow ==
  ASSUME TypeOK, RowInv, NEW o \in GarageOps, PostReceipt(o), CanRefuse(o), Refuse(o)
  PROVE  RowInv'
<1>0. PICK g \in Garages : g = OpGarage(o)
  BY Posted DEF CanRefuse
<1> USE <1>0
<1>1. OpInv(o) /\ Mine(o) /\ ItemInv(g) /\ receipt[o] = "kept" /\ o \in Ops /\ g \in Garages
  BY Posted DEF CanRefuse
<1>2. /\ \A p \in Ops : p # o => receipt'[p] = receipt[p]
      /\ receipt'[o] \in {"kept", "none"} /\ UNCHANGED <<retrieval, leased>>
      /\ receipt'[o] = "kept" => "lost_answer" \in Hazards
  BY <1>1, PostFrame
<1>3. /\ item' = [item EXCEPT ![g] = Refused(o)] /\ op' = [op EXCEPT ![o] = "failed"]
      /\ lock' = IF Refused(o) = "failed" /\ lock = g THEN Nothing ELSE lock
      /\ archived' = archived
  BY DEF Refuse, Refused
<1>4. \A p \in Ops : p # o => op'[p] = op[p]
  BY <1>3 DEF TypeOK
<1>5. op'[o] = "failed" /\ item'[g] = Refused(o)
  BY <1>1, <1>3 DEF TypeOK
<1>6. OpGarage(o)' = g /\ Mine(o)' BY <1>1, <1>2, SameGarage
<1>7. o[1] \in {"prepare", "store", "retrieve"} /\ GarageOps \subseteq Ops
  BY GarageOpKinds, GarageOpsAreOps
<1>8. OpInv(o)'
  <2>1. Refused(o)' = Refused(o) OBVIOUS
  <2> QED BY <1>2, <1>5, <1>6, <2>1 DEF OpInv
<1>9. ItemInv(g)'
  <2>1. lock' = g <=> item'[g] \in Held
    <3>1. CASE Refused(o) = "failed"
      BY <1>3, <1>5, <3>1, <1>1, NothingIsNone DEF Held
    <3>2. CASE Refused(o) # "failed"
      <4>1. o[1] = "retrieve" /\ Refused(o) = "stored" BY <3>2, <1>7, Words
      <4>2. item[g] \in {"retrieving", "stored"}
        BY <1>1, <4>1, Words DEF OpInv
      <4>3. lock = g BY <1>1, <4>2 DEF ItemInv, Held, ItemStates
      <4> QED BY <1>3, <1>5, <4>1, <4>3 DEF Held, ItemStates
    <3> QED BY <3>1, <3>2
  <2>2. item'[g] \in {"failed", "stored"} BY <1>5, <1>7, Words
  <2>3. item'[g] = "stored" => g \in archived
    <3>1. item'[g] = "stored" => o[1] = "retrieve" BY <1>5, <1>7, Words
    <3>2. o[1] = "retrieve" => item[g] \in {"retrieving", "stored"}
      BY <1>1, Words DEF OpInv
    <3> QED BY <1>1, <3>1, <3>2 DEF ItemInv, Held, ItemStates
  <2> QED BY <1>3, <2>1, <2>2, <2>3 DEF ItemInv, Held, ItemStates
<1>10. \A p \in GarageOps : p # o => op'[p] = op[p] /\ receipt'[p] = receipt[p]
  BY <1>2, <1>4, <1>7
<1>11. ItemInv(OpGarage(o))' BY <1>6, <1>9 DEF ItemInv
<1>12. CASE op[o] = "pending"
  <2>1. item[g] = Working(o) BY <1>1, <1>12 DEF OpInv
  <2>2. item[g] \in After => Refused(o) \in After
    BY <1>7, <2>1, Words DEF After
  <2>3. lock' = lock \/ (lock = g /\ lock' = Nothing) BY <1>3
  <2> QED BY <1>1, <1>2, <1>3, <1>8, <1>10, <1>11, <2>1, <2>2, <2>3, RowMoves
<1>13. CASE op[o] # "pending"
  <2>1. item[g] = Refused(o) BY <1>1, <1>13 DEF OpInv
  <2>2. item' = item BY <1>1, <1>3, <2>1 DEF TypeOK
  <2>3. lock' = lock
    BY <1>1, <1>3, <2>1 DEF ItemInv, Held
  <2> QED BY <1>1, <1>2, <1>3, <1>8, <1>10, <1>11, <2>2, <2>3, RowStays
<1> QED BY <1>12, <1>13

(* The answer is doubtful, or Central stopped half-way in reviewing it.    *)
LEMMA ReviewRow ==
  ASSUME TypeOK, RowInv, NEW o \in GarageOps, CanReview(o),
         \/ PostReceipt(o) /\ Review(o)
         \/ /\ item' = [item EXCEPT ![OpGarage(o)] = "review_required"]
            /\ UNCHANGED <<op, receipt, retrieval, leased, lock, archived>>
  PROVE  RowInv'
<1>0. PICK g \in Garages : g = OpGarage(o)
  BY Posted DEF CanReview
<1> USE <1>0
<1>1. OpInv(o) /\ Mine(o) /\ ItemInv(g) /\ receipt[o] = "unproven" /\ o \in Ops /\ g \in Garages
  BY Posted DEF CanReview
<1>2. /\ item' = [item EXCEPT ![g] = "review_required"]
      /\ UNCHANGED <<retrieval, leased, lock, archived>>
      /\ \A p \in Ops : p # o => op'[p] = op[p] /\ receipt'[p] = receipt[p]
      /\ \/ op'[o] = "reconciliation_required" /\ receipt'[o] \in {"unproven", "none"}
         \/ op'[o] = op[o] /\ receipt'[o] = "unproven"
  <2>1. CASE PostReceipt(o) /\ Review(o)
    <3>1. op' = [op EXCEPT ![o] = "reconciliation_required"] /\ UNCHANGED <<lock, archived>>
      BY <2>1 DEF Review
    <3>2. op \in [Ops -> OpStates] BY DEF TypeOK
    <3> QED BY <1>1, <2>1, <3>1, <3>2, PostFrame DEF Review
  <2>2. CASE /\ item' = [item EXCEPT ![OpGarage(o)] = "review_required"]
             /\ UNCHANGED <<op, receipt, retrieval, leased, lock, archived>>
    BY <1>1, <2>2
  <2> QED BY <2>1, <2>2
<1>3. item'[g] = "review_required" BY <1>1, <1>2 DEF TypeOK
<1>4. OpGarage(o)' = g /\ Mine(o)' BY <1>1, <1>2, SameGarage
<1>5. op[o] \in {"pending", "reconciliation_required"} BY <1>1 DEF OpInv
<1>6. OpInv(o)'
  <2> QED BY <1>1, <1>2, <1>3, <1>4, <1>5 DEF OpInv
<1>7. item[g] = Working(o) \/ item[g] = "review_required"
  BY <1>1, <1>5 DEF OpInv
<1>8. lock = g
  BY <1>1, <1>7, Words DEF ItemInv, Held, ItemStates
<1>9. ItemInv(g)'
  <2> QED BY <1>2, <1>3, <1>8 DEF ItemInv, Held, ItemStates
<1>10. ItemInv(OpGarage(o))' BY <1>4, <1>9 DEF ItemInv
<1>11. \A p \in GarageOps : p # o => op'[p] = op[p] /\ receipt'[p] = receipt[p]
  BY <1>2, GarageOpsAreOps
<1>12. CASE item[g] = Working(o)
  BY <1>1, <1>2, <1>6, <1>10, <1>11, <1>12, RowMoves DEF After
<1>13. CASE item[g] = "review_required"
  <2>1. item' = item BY <1>1, <1>2, <1>13 DEF TypeOK
  <2> QED BY <1>1, <1>2, <1>6, <1>10, <1>11, <2>1, RowStays
<1> QED BY <1>7, <1>12, <1>13

(* Central accepts every receipt of the garage but that of an archive that *)
(* the item no longer asks for.                                            *)
LEMMA RejectedRow ==
  ASSUME TypeOK, RowInv, NEW o \in GarageOps, PostReceipt(o), ~Acceptable(o)
  PROVE  RowInv'
<1> DEFINE g == OpGarage(o)
<1>1. OpInv(o) /\ Mine(o) /\ ItemInv(g) /\ receipt[o] \in {"prepared", "applied", "kept", "unproven"}
      /\ o \in Ops /\ g \in Garages
  BY Posted, PostFrame, GarageOpsAreOps
<1>2. ~CanCapture(o) /\ ~CanApply(o) /\ ~CanRefuse(o) /\ ~CanReview(o) BY DEF Acceptable
<1>3. receipt[o] # "kept" /\ receipt[o] # "unproven"
  BY <1>1, <1>2 DEF OpInv, CanRefuse, CanReview
<1>4. receipt[o] # "applied"
  <2> SUFFICES ASSUME receipt[o] = "applied" PROVE FALSE OBVIOUS
  <2>1. o[1] \in {"store", "retrieve"} /\ op[o] \in {"pending", "awaiting_save", "succeeded"}
    BY <1>1, GarageOpKinds DEF OpInv
  <2>2. o[1] = "retrieve" => Destination[o[2]] = Destination[retrieval[g]]
    BY <1>1 DEF Mine
  <2>3. op[o] = "succeeded" \/ item[g] \in {Working(o), Awaited(o)}
    BY <1>1, <2>1 DEF OpInv
  <2>4. Working(o) = IF o[1] = "store" THEN "removing" ELSE "retrieving"
    BY <2>1, Words
  <2> QED BY <1>2, <2>1, <2>2, <2>3, <2>4 DEF CanApply
<1>5. receipt[o] = "prepared" BY <1>1, <1>3, <1>4
<1>6. o[1] = "prepare" /\ g = o[2] BY <1>1, <1>5, GarageOpKinds DEF OpInv
<1>7. op[o] # "pending" /\ op[o] # "awaiting_save"
  BY <1>1, <1>2, <1>5, <1>6, Words DEF OpInv, CanCapture
<1>8. /\ UNCHANGED <<item, lock, archived, op, retrieval, leased>>
      /\ \A p \in Ops : p # o => receipt'[p] = receipt[p]
      /\ receipt'[o] \in {"prepared", "none"}
  <2>1. ~Handle(o) BY <1>2 DEF Handle, Acceptable
  <2> QED BY <1>1, <1>5, <2>1, PostFrame DEF PostReceipt
<1>9. OpInv(o)'
  <2>1. OpGarage(o)' = g /\ Mine(o)' BY <1>1, <1>8, SameGarage
  <2> HIDE DEF g
  <2> QED BY <1>1, <1>6, <1>7, <1>8, <2>1 DEF OpInv
<1>10. ItemInv(OpGarage(o))'
  <2>1. OpGarage(o)' = g BY <1>8, SameGarage
  <2>2. receipt'[Store(g)] = receipt[Store(g)]
    BY <1>1, <1>6, <1>8, OpNames, GarageOpsAreOps
  <2>3. \A r \in Retrieves : receipt'[Retrieve(r)] = receipt[Retrieve(r)]
    BY <1>6, <1>8, OpNames, GarageOpsAreOps
  <2> HIDE DEF g
  <2> QED BY <1>1, <1>8, <2>1, <2>2, <2>3 DEF ItemInv
<1>11. \A p \in GarageOps : p # o => op'[p] = op[p] /\ receipt'[p] = receipt[p]
  BY <1>8, GarageOpsAreOps
<1> QED BY <1>1, <1>8, <1>9, <1>10, <1>11, RowStays

LEMMA RowFrame ==
  ASSUME RowInv, UNCHANGED <<item, lock, archived, retrieval, leased>>,
         \A p \in GarageOps : op'[p] = op[p] /\ receipt'[p] = receipt[p], TypeOK
  PROVE  RowInv'
<1>1. ASSUME NEW p \in GarageOps PROVE OpInv(p)'
  <2>1. OpGarage(p)' = OpGarage(p) BY SameGarage
  <2> QED BY <2>1, OpElsewhere DEF RowInv
<1>2. ASSUME NEW h \in Garages PROVE ItemInv(h)'
  BY ItemElsewhere DEF RowInv
<1> QED BY <1>1, <1>2 DEF RowInv

LEMMA TransferPostRow ==
  ASSUME TypeOK, RowInv, NEW o \in Ops, o \notin GarageOps, PostReceipt(o)
  PROVE  RowInv'
<1>1. o[1] = "transfer" BY OpKinds
<1>2. /\ Handle(o) => Settle(o)
      /\ UNCHANGED <<item, lock, archived>>
  BY <1>1 DEF PostReceipt, Handle, CanCapture, CanApply, CanRefuse, CanReview, Settle
<1>3. o[1] = "transfer" => \A p \in Ops : p # o => op'[p] = op[p]
  BY <1>2 DEF TypeOK, PostReceipt, Settle
<1>4. \A p \in GarageOps : op'[p] = op[p] /\ receipt'[p] = receipt[p]
  BY <1>1, <1>3, PostFrame, GarageOpsAreOps
<1> QED BY <1>2, <1>4, PostFrame, RowFrame

LEMMA PostRow ==
  ASSUME TypeOK, RowInv, NEW o \in Ops, PostReceipt(o)
  PROVE  RowInv'
<1>1. CASE o \notin GarageOps BY <1>1, TransferPostRow
<1>2. CASE o \in GarageOps
  <2>1. CASE CanCapture(o) /\ Capture(o) BY <1>2, <2>1, CaptureRow
  <2>2. CASE CanApply(o) /\ Apply(o)
    <3>1. CASE op[o] # "succeeded" BY <1>2, <2>2, <3>1, ApplyRow
    <3>2. CASE op[o] = "succeeded"
      <4>1. PICK g \in Garages : g = OpGarage(o)
        BY <1>2, <2>2, Posted DEF CanApply
      <4>2. OpInv(o) /\ Mine(o) /\ ItemInv(g) /\ receipt[o] = "applied" /\ o[1] \in {"store", "retrieve"}
        BY <1>2, <2>2, <4>1, Posted DEF CanApply
      <4>3. UNCHANGED <<item, op, lock, archived, retrieval, leased>>
        BY <2>2, <3>2, PostFrame DEF Apply
      <4>4. OpGarage(o)' = g /\ Mine(o)' BY <1>2, <4>1, <4>2, <4>3, SameGarage
      <4>5. receipt'[o] \in {"applied", "none"} /\ \A p \in Ops : p # o => receipt'[p] = receipt[p]
        BY <4>2, PostFrame
      <4>6. OpInv(o)' BY <3>2, <4>1, <4>2, <4>3, <4>4, <4>5 DEF OpInv
      <4>7. item[g] \notin {"awaiting_store_save", "awaiting_retrieve_save"} \/ o[1] = "store"
        BY <3>2, <4>1, <4>2 DEF OpInv
      <4>8. o[1] = "store" => /\ item[g] # "awaiting_store_save"
                              /\ \A r \in Retrieves : Retrieve(r) # o
        BY <3>2, <4>1, <4>2, OpNames DEF OpInv
      <4>9. ItemInv(g)'
        <5>1. \A r \in Retrieves : Retrieve(r) \in Ops BY OpNames, GarageOpsAreOps
        <5>2. o[1] = "store" => \A r \in Retrieves : receipt'[Retrieve(r)] = receipt[Retrieve(r)]
          BY <4>5, <4>8, <5>1
        <5> QED BY <4>2, <4>3, <4>7, <4>8, <5>2 DEF ItemInv
      <4>10. ItemInv(OpGarage(o))' BY <4>4, <4>9 DEF ItemInv
      <4>11. \A p \in GarageOps : p # o => op'[p] = op[p] /\ receipt'[p] = receipt[p]
        BY <4>3, <4>5, GarageOpsAreOps
      <4> QED BY <1>2, <4>1, <4>3, <4>6, <4>10, <4>11, RowStays
    <3> QED BY <3>1, <3>2
  <2>3. CASE CanRefuse(o) /\ Refuse(o) BY <1>2, <2>3, RefuseRow
  <2>4. CASE CanReview(o) /\ Review(o) BY <1>2, <2>4, ReviewRow
  <2>5. CASE ~Handle(o) BY <1>2, <2>5, RejectedRow DEF PostReceipt
  <2>6. ~CanSettle(o) BY <1>2, GarageOpKinds DEF CanSettle
  <2> QED BY <2>1, <2>2, <2>3, <2>4, <2>5, <2>6 DEF Handle
<1> QED BY <1>1, <1>2

LEMMA StopsRow ==
  ASSUME TypeOK, RowInv, NEW o \in Ops, HandlerStops(o)
  PROVE  RowInv'
<1>1. UNCHANGED <<op, receipt, retrieval, leased, lock, archived>> /\ current = Nothing
  BY DEF HandlerStops, mailboxVars
<1>2. CASE CanApply(o) /\ op[o] # "succeeded" /\ item' = [item EXCEPT ![OpGarage(o)] = Awaited(o)]
  <2>1. o \in GarageOps BY <1>2, OpKinds DEF CanApply
  <2> QED BY <1>1, <1>2, <2>1, ApplyRow
<1>3. CASE CanReview(o) /\ item' = [item EXCEPT ![OpGarage(o)] = "review_required"]
  BY <1>1, <1>3, ReviewRow DEF CanReview
<1> QED BY <1>2, <1>3 DEF HandlerStops

(* The checkpoint completes the operation the item waits for.              *)
LEMMA CheckpointFacts ==
  ASSUME TypeOK, RowInv, NEW g \in Garages, Checkpoint(g)
  PROVE  \E o \in GarageOps :
           /\ o[1] \in {"store", "retrieve"} /\ OpGarage(o) = g /\ Mine(o) /\ item[g] = Awaited(o)
           /\ item' = [item EXCEPT ![g] = IF o[1] = "store" THEN "stored" ELSE "retrieved"]
           /\ op' = [op EXCEPT ![o] = "succeeded"]
           /\ lock' = IF o[1] = "retrieve" /\ lock = g THEN Nothing ELSE lock
           /\ op[o] = "awaiting_save" \/ receipt[o] = "applied"
<1>1. ItemInv(g) BY DEF RowInv
<1>2. CASE item[g] = "awaiting_store_save"
  <2>1. Gone(g) BY <1>2 DEF Gone
  <2>2. PICK o \in GarageOps : o = Store(g) BY GarageOpNames
  <2>3. o[1] = "store" /\ OpGarage(o) = g /\ Mine(o) BY <2>2, OpNames, GarageOpNames DEF Mine
  <2>4. item[g] = Awaited(o) BY <1>2, <2>3 DEF Awaited
  <2>5. op[o] = "awaiting_save" \/ receipt[o] = "applied" BY <1>1, <1>2, <2>2 DEF ItemInv
  <2> QED BY <2>1, <2>2, <2>3, <2>4, <2>5 DEF Checkpoint
<1>3. CASE item[g] = "awaiting_retrieve_save"
  <2>1. ~Gone(g) BY <1>3 DEF Gone
  <2>2. retrieval[g] \in Retrieves /\ leased[retrieval[g]] = g BY <1>1, <1>3 DEF ItemInv
  <2>3. PICK o \in GarageOps : o = Retrieve(retrieval[g]) BY <2>2, GarageOpNames
  <2>4. o[1] = "retrieve" /\ o[2] = retrieval[g] /\ OpGarage(o) = g
    BY <2>2, <2>3, OpNames, GarageOpNames
  <2>5. Mine(o) BY <2>4 DEF Mine
  <2>6. item[g] = Awaited(o) BY <1>3, <2>4 DEF Awaited
  <2>7. op[o] = "awaiting_save" \/ receipt[o] = "applied" BY <1>1, <1>3, <2>3 DEF ItemInv
  <2> QED BY <2>1, <2>3, <2>4, <2>5, <2>6, <2>7 DEF Checkpoint
<1> QED BY <1>2, <1>3 DEF Checkpoint

LEMMA CheckpointRow ==
  ASSUME TypeOK, RowInv, NEW g \in Garages, Checkpoint(g)
  PROVE  RowInv'
<1>1. PICK o \in GarageOps :
        /\ o[1] \in {"store", "retrieve"} /\ OpGarage(o) = g /\ Mine(o) /\ item[g] = Awaited(o)
        /\ item' = [item EXCEPT ![g] = IF o[1] = "store" THEN "stored" ELSE "retrieved"]
        /\ op' = [op EXCEPT ![o] = "succeeded"]
        /\ lock' = IF o[1] = "retrieve" /\ lock = g THEN Nothing ELSE lock
        /\ op[o] = "awaiting_save" \/ receipt[o] = "applied"
  BY CheckpointFacts
<1>2. UNCHANGED <<receipt, retrieval, leased, archived>> BY DEF Checkpoint, mailboxVars
<1>3. ItemInv(g) /\ OpInv(o) /\ o \in Ops BY <1>1, GarageOpsAreOps DEF RowInv
<1>4. op'[o] = "succeeded" /\ \A p \in GarageOps : p # o => op'[p] = op[p]
  BY <1>1, <1>3, GarageOpsAreOps DEF TypeOK
<1>5. item'[g] = IF o[1] = "store" THEN "stored" ELSE "retrieved"
  BY <1>1 DEF TypeOK
<1>6. OpGarage(o)' = g /\ Mine(o)' BY <1>1, <1>2, SameGarage
<1>7. receipt[o] \notin {"kept", "unproven"}
  BY <1>1, <1>3 DEF OpInv
<1>8. OpInv(o)'
  BY <1>1, <1>2, <1>3, <1>4, <1>5, <1>6, <1>7 DEF OpInv
<1>9. item[g] \in Held \ {"preparing", "review_required"}
  BY <1>1, Words DEF Held, ItemStates
<1>10. lock = g /\ g \in archived BY <1>3, <1>9 DEF ItemInv
<1>11. ItemInv(g)'
  BY <1>1, <1>2, <1>5, <1>10, NothingIsNone DEF ItemInv, Held, ItemStates
<1>12. ItemInv(OpGarage(o))' BY <1>6, <1>11 DEF ItemInv
<1>13. item[g] \in After => (IF o[1] = "store" THEN "stored" ELSE "retrieved") \in After
  BY DEF After
<1>14. lock' = lock \/ (lock = g /\ lock' = Nothing) BY <1>1
<1> QED BY <1>1, <1>2, <1>4, <1>8, <1>12, <1>13, <1>14, RowMoves

LEMMA StoreRow ==
  ASSUME TypeOK, RowInv, NEW g \in Garages, StoreRequest(g)
  PROVE  RowInv'
<1>1. /\ item[g] = "absent" /\ lock = Nothing /\ lock' = g
      /\ item' = [item EXCEPT ![g] = "preparing"] /\ op' = [op EXCEPT ![Prepare(g)] = "pending"]
      /\ UNCHANGED <<archived, retrieval, leased, receipt>>
  BY DEF StoreRequest, mailboxVars
<1>2. /\ Prepare(g) \in GarageOps /\ OpGarage(Prepare(g)) = g /\ Prepare(g)[1] = "prepare"
      /\ Prepare(g) \in Ops /\ Prepare(g)[2] = g
  BY GarageOpNames, OpNames, GarageOpsAreOps
<1>3. \A p \in GarageOps : p # Prepare(g) => op'[p] = op[p]
  BY <1>1, GarageOpsAreOps DEF TypeOK
<1>4. op'[Prepare(g)] = "pending" /\ item'[g] = "preparing"
  BY <1>1, <1>2 DEF TypeOK
<1>5. \A h \in Garages : h # g => item'[h] = item[h]
  BY <1>1 DEF TypeOK
<1>6. ASSUME NEW p \in GarageOps, OpGarage(p) = g
      PROVE  Idle(p) /\ ~(op[p] = "succeeded" /\ p[1] = "store")
  <2>1. OpInv(p) BY DEF RowInv
  <2>2. Working(p) # "absent" /\ Awaited(p) # "absent" /\ Refused(p) # "absent"
    BY DEF Working, Awaited, Refused
  <2> QED BY <1>1, <1>6, <2>1, <2>2 DEF OpInv, Idle
<1>7. OpInv(Prepare(g))'
  <2>1. OpGarage(Prepare(g))' = g /\ Mine(Prepare(g))' BY <1>2 DEF OpGarage, Mine
  <2>2. Idle(Prepare(g)) /\ OpInv(Prepare(g)) BY <1>2, <1>6 DEF RowInv
  <2> QED BY <1>1, <1>2, <1>4, <2>1, <2>2 DEF OpInv, Idle, Working
<1>8. ASSUME NEW p \in GarageOps, p # Prepare(g) PROVE OpInv(p)'
  <2>1. op'[p] = op[p] /\ receipt'[p] = receipt[p] /\ OpInv(p) BY <1>1, <1>3, <1>8 DEF RowInv
  <2>2. CASE OpGarage(p) = g BY <1>1, <1>6, <2>1, <2>2, IdleStays
  <2>3. CASE OpGarage(p) # g
    <3>1. OpGarage(p)' = OpGarage(p) BY <1>1, SameGarage
    <3> QED BY <1>1, <1>5, <2>1, <2>3, <3>1, OpElsewhere
  <2> QED BY <2>2, <2>3
<1>9. ItemInv(g)'
  BY <1>1, <1>4 DEF ItemInv, Held, ItemStates
<1>10. ASSUME NEW h \in Garages, h # g PROVE ItemInv(h)'
  <2>1. lock' = h <=> lock = h BY <1>1, <1>10, NothingIsNone
  <2>2. \A p \in GarageOps : OpGarage(p) = h => op'[p] = op[p] /\ receipt'[p] = receipt[p]
    BY <1>1, <1>2, <1>3, <1>10
  <2> QED BY <1>1, <1>5, <1>10, <2>1, <2>2, ItemElsewhere DEF RowInv
<1> QED BY <1>7, <1>8, <1>9, <1>10 DEF RowInv

LEMMA RetrieveRow ==
  ASSUME TypeOK, RowInv, OneAnswer, NEW r \in Retrieves, RetrieveRequest(r)
  PROVE  RowInv'
<1>1. PICK g \in Garages : g = lock
  BY DEF TypeOK, RetrieveRequest
<1>2. /\ item[g] = "stored" /\ leased[r] = Nothing
      /\ item' = [item EXCEPT ![g] = "retrieving"] /\ retrieval' = [retrieval EXCEPT ![g] = r]
      /\ leased' = [leased EXCEPT ![r] = g] /\ op' = [op EXCEPT ![Retrieve(r)] = "pending"]
      /\ UNCHANGED <<lock, archived, receipt>>
  BY <1>1 DEF RetrieveRequest, mailboxVars
<1>3. /\ Retrieve(r) \in GarageOps /\ OpGarage(Retrieve(r)) = Nothing
      /\ Retrieve(r)[1] = "retrieve" /\ Retrieve(r)[2] = r
  BY <1>2, GarageOpNames, OpNames
<1>4. op[Retrieve(r)] = "absent" /\ receipt[Retrieve(r)] = "none"
  BY <1>3, NothingIsNone, Unleased DEF RowInv
<1>5. \A p \in GarageOps : p # Retrieve(r) => op'[p] = op[p]
  BY <1>2, GarageOpsAreOps DEF TypeOK
<1>6. op'[Retrieve(r)] = "pending" /\ item'[g] = "retrieving" /\ retrieval'[g] = r /\ leased'[r] = g
  BY <1>2, <1>3, GarageOpsAreOps DEF TypeOK
<1>7. \A h \in Garages : h # g => item'[h] = item[h] /\ retrieval'[h] = retrieval[h]
  BY <1>2 DEF TypeOK
<1>8. \A s \in Retrieves : s # r => leased'[s] = leased[s]
  BY <1>2 DEF TypeOK
<1>9. OpInv(Retrieve(r))'
  <2>1. OpGarage(Retrieve(r))' = g /\ Mine(Retrieve(r))' BY <1>3, <1>6 DEF OpGarage, Mine
  <2> QED BY <1>2, <1>3, <1>4, <1>6, <2>1 DEF OpInv, Working
<1>10. ASSUME NEW p \in GarageOps, p # Retrieve(r) PROVE OpInv(p)'
  <2>1. op'[p] = op[p] /\ receipt'[p] = receipt[p] /\ OpInv(p) BY <1>2, <1>5, <1>10 DEF RowInv
  <2>2. OpGarage(p)' = OpGarage(p)
    <3>1. p[1] = "retrieve" => p[2] \in Retrieves /\ p[2] # r BY <1>10, GarageOpKinds
    <3> QED BY <1>8, <3>1 DEF OpGarage
  <2>3. CASE OpGarage(p) # g BY <1>7, <2>1, <2>2, <2>3, OpElsewhere
  <2>4. CASE OpGarage(p) = g
    <3>1. p[1] \in {"prepare", "store", "retrieve"} BY GarageOpKinds
    <3>2. item[OpGarage(p)] = "stored" BY <1>2, <2>4
    <3>3. op[p] # "pending" /\ op[p] # "awaiting_save"
      BY <2>1, <3>1, <3>2, Words DEF OpInv
    <3>4. receipt[p] # "unproven" /\ ~(op[p] = "succeeded" /\ p[1] = "retrieve")
      BY <2>1, <3>2, <3>3 DEF OpInv
    <3>5. CASE p[1] # "retrieve"
      <4>1. receipt[p] # "kept" BY <2>1, <3>1, <3>2, <3>3, <3>5, Words DEF OpInv
      <4>2. Mine(p)' BY <2>2, <2>4, <3>5 DEF Mine
      <4>3. item'[OpGarage(p)'] = "retrieving" BY <1>6, <2>2, <2>4
      <4> QED BY <2>1, <2>2, <3>3, <3>4, <3>5, <4>1, <4>2, <4>3 DEF OpInv
    <3>6. CASE p[1] = "retrieve"
      <4>1. receipt[p] # "kept"
        <5> SUFFICES ASSUME receipt[p] = "kept" PROVE FALSE OBVIOUS
        <5>1. "lost_answer" \in Hazards BY <2>1, <3>3 DEF OpInv
        <5>2. p[2] \in Retrieves /\ p = Retrieve(p[2]) BY <3>6, GarageOpKinds
        <5>3. p[2] = r BY <5>1, <5>2 DEF OneAnswer
        <5> QED BY <1>10, <5>2, <5>3
      <4>2. receipt[p] = "none"
        <5>1. receipt[p] \in Statuses \union {"none"} BY GarageOpsAreOps DEF TypeOK
        <5> QED BY <2>1, <3>3, <3>4, <3>6, <4>1, <5>1 DEF OpInv, Statuses
      <4>3. OpGarage(p)' \in Garages BY <2>2, <2>4
      <4> QED BY <2>1, <3>3, <3>4, <3>6, <4>2, <4>3 DEF OpInv
    <3> QED BY <3>5, <3>6
  <2> QED BY <2>3, <2>4
<1>11. ItemInv(g)'
  <2>1. g \in archived
    BY <1>2 DEF RowInv, ItemInv, Held, ItemStates
  <2> QED BY <1>1, <1>2, <1>6, <2>1 DEF ItemInv, Held, ItemStates
<1>12. ASSUME NEW h \in Garages, h # g PROVE ItemInv(h)'
  <2>1. retrieval[h] \in Retrieves /\ leased[retrieval[h]] = h => leased'[retrieval[h]] = h
    BY <1>2, <1>8, NothingIsNone
  <2>2. \A p \in GarageOps : OpGarage(p) = h => op'[p] = op[p] /\ receipt'[p] = receipt[p]
    BY <1>2, <1>3, <1>5, NothingIsNone
  <2> QED BY <1>2, <1>7, <1>12, <2>1, <2>2, ItemElsewhere DEF RowInv
<1> QED BY <1>9, <1>10, <1>11, <1>12 DEF RowInv

(* The game answers a command that no receipt was posted for.              *)
LEMMA AnswerRow ==
  ASSUME TypeOK, RowInv, DeliveryInv, NEW o \in Ops, Process(o) \/ FinishRemoval(o) \/ FinishLoad(o)
  PROVE  RowInv'
<1>1. Answered(o) /\ o \in commands
  BY ProcessAnswers, FinishAnswers DEF DeliveryInv
<1>2. op[o] = "pending" /\ receipt[o] = "none"
  BY <1>1 DEF DeliveryInv, Unanswered
<1>3. UNCHANGED <<item, lock, archived, retrieval, leased, op>>
  BY GameFrame DEF custodyVars
<1>4. \A p \in Ops : p # o => receipt'[p] = receipt[p]
  BY <1>1 DEF TypeOK, Answered
<1>5. CASE o \notin GarageOps \/ receipt' = receipt
  <2>1. \A p \in GarageOps : op'[p] = op[p] /\ receipt'[p] = receipt[p]
    BY <1>3, <1>4, <1>5, GarageOpsAreOps
  <2> QED BY <1>3, <2>1, RowFrame
<1>6. CASE o \in GarageOps /\ receipt' # receipt
  <2>1. PICK s \in AnswersTo(o) : receipt' = [receipt EXCEPT ![o] = s]
    BY <1>1, <1>6 DEF Answered
  <2>2. receipt'[o] = s BY <2>1 DEF TypeOK
  <2>3. s # "none" /\ (s = "prepared" => o[1] = "prepare") /\ (s = "applied" => o[1] # "prepare")
    BY AnswerKinds
  <2>4. OpInv(o) /\ Mine(o) /\ item[OpGarage(o)] = Working(o)
    BY <1>2, <1>6 DEF RowInv, OpInv
  <2>5. PICK g \in Garages : g = OpGarage(o) BY <2>4 DEF Mine
  <2>6. OpGarage(o)' = g /\ Mine(o)' BY <1>3, <1>6, <2>4, <2>5, SameGarage
  <2>7. OpInv(o)'
    BY <1>2, <1>3, <2>2, <2>3, <2>4, <2>5, <2>6 DEF OpInv
  <2>8. ItemInv(g)'
    <3>1. \A p \in GarageOps : receipt[p] = "applied" => receipt'[p] = "applied"
      BY <1>2, <1>4, GarageOpsAreOps
    <3>2. ItemInv(g) BY DEF RowInv
    <3>3. Store(g) \in GarageOps /\ \A q \in Retrieves : Retrieve(q) \in GarageOps
      BY GarageOpNames
    <3> QED BY <1>3, <3>1, <3>2, <3>3 DEF ItemInv
  <2>9. ItemInv(OpGarage(o))' BY <2>6, <2>8 DEF ItemInv
  <2>10. \A p \in GarageOps : p # o => op'[p] = op[p] /\ receipt'[p] = receipt[p]
    BY <1>3, <1>4, GarageOpsAreOps
  <2> QED BY <1>3, <1>6, <2>5, <2>7, <2>9, <2>10, RowStays
<1> QED BY <1>5, <1>6

LEMMA RowStep ==
  ASSUME TypeOK, RowInv, DeliveryInv, OneAnswer, Next
  PROVE  RowInv'
<1>1. ASSUME UNCHANGED <<item, lock, archived, retrieval, leased, op, receipt>> PROVE RowInv'
  BY <1>1, RowFrame
<1>2. CASE CentralStep
  <2>1. ASSUME NEW t \in Transfers, TransferRequest(t) \/ CheckQueue(t) PROVE RowInv'
    BY <1>1, <2>1 DEF TransferRequest, CheckQueue, custodyVars, mailboxVars
  <2>2. ASSUME NEW t \in Transfers, QueueTransfer(t) PROVE RowInv'
    <3>1. \A p \in GarageOps : op'[p] = op[p]
      BY <2>2, TransferOps, GarageOpsAreOps DEF TypeOK, QueueTransfer
    <3> QED BY <2>2, <3>1, RowFrame DEF QueueTransfer, custodyVars, mailboxVars
  <2> QED BY <1>2, <2>1, <2>2, StoreRow, RetrieveRow DEF CentralStep
<1>3. CASE AgentStep
  <2>1. CASE (\E o \in Ops : TestReceipt(o)) \/ WriteCommand \/ SnapshotAccepted
    BY <1>1, <2>1 DEF TestReceipt, WriteCommand, SnapshotAccepted, custodyVars, mailboxVars
  <2> QED BY <1>3, <2>1, PostRow, StopsRow, CheckpointRow DEF AgentStep
<1>4. CASE GameStep
  <2>1. CASE NativeDelete \/ NativeSave \/ Crash \/ PlayerSells
    BY <1>1, <2>1 DEF NativeDelete, NativeSave, Crash, PlayerSells, custodyVars, mailboxVars
  <2> QED BY <1>4, <2>1, AnswerRow DEF GameStep
<1> QED BY <1>2, <1>3, <1>4 DEF Next

LEMMA DeliveryStep ==
  ASSUME TypeOK, RowInv, DeliveryInv, "recreate" \notin Hazards, Next
  PROVE  DeliveryInv'
<1>1. ASSUME NEW o \in Ops, NEW g \in Garages, Checkpoint(g), op'[o] # op[o] PROVE o \notin commands
  <2>1. PICK p \in GarageOps : /\ op' = [op EXCEPT ![p] = "succeeded"]
                               /\ op[p] = "awaiting_save" \/ receipt[p] = "applied"
    BY <1>1, CheckpointFacts
  <2>2. p = o BY <1>1, <2>1 DEF TypeOK
  <2> QED BY <2>1, <2>2 DEF DeliveryInv, Unanswered
<1>2. \A o \in Ops : Unanswered(o)'
  BY <1>1, UnansweredStep DEF DeliveryInv
<1> QED BY <1>2, PendingStep DEF DeliveryInv

LEMMA RowInit == Init => DeliveryInv /\ RowInv
<1> SUFFICES ASSUME Init PROVE DeliveryInv /\ RowInv OBVIOUS
<1>1. \A o \in GarageOps : op[o] = "absent" /\ receipt[o] = "none"
  BY GarageOpsAreOps DEF Init
<1>2. \A o \in GarageOps : OpInv(o) BY <1>1 DEF OpInv
<1>3. \A g \in Garages : ItemInv(g) BY NothingIsNone DEF Init, ItemInv, Held
<1>4. DeliveryInv BY DEF Init, DeliveryInv, Unanswered
<1> QED BY <1>2, <1>3, <1>4 DEF RowInv

LEMMA RowsHold ==
  ASSUME "recreate" \notin Hazards, OneAnswer
  PROVE  Spec => [](TypeOK /\ DeliveryInv /\ RowInv)
<1> DEFINE I == DeliveryInv /\ RowInv
<1>1. Init => I BY RowInit
<1>2. TypeOK /\ I /\ [Next]_vars => I'
  <2> SUFFICES ASSUME TypeOK, I, [Next]_vars PROVE I' OBVIOUS
  <2>1. CASE Next BY <2>1, RowStep, DeliveryStep
  <2>2. CASE UNCHANGED vars
    <3>1. RowInv' BY <2>2, RowFrame DEF vars, custodyVars, mailboxVars
    <3>2. DeliveryInv' BY <2>2 DEF vars, mailboxVars, gameVars, DeliveryInv, Unanswered
    <3> QED BY <3>1, <3>2
  <2> QED BY <2>1, <2>2
<1> QED BY <1>1, <1>2, TypeCorrect, PTL DEF Spec

(* A stored item is leased to one retrieval at a time: while one is on its *)
(* way the item is not open to another, whatever stops or fails.           *)
THEOREM LeasesAreHeld ==
  ASSUME "recreate" \notin Hazards, OneAnswer
  PROVE  Spec => []LeaseHeld
<1>1. TypeOK /\ RowInv => LeaseHeld
  <2> SUFFICES ASSUME TypeOK, RowInv, NEW r \in Retrieves, op[Retrieve(r)] = "pending"
               PROVE  item[leased[r]] # "stored"
    BY DEF LeaseHeld
  <2>1. Retrieve(r) \in GarageOps /\ OpGarage(Retrieve(r)) = leased[r] BY GarageOpNames
  <2>2. Working(Retrieve(r)) # "stored" /\ Awaited(Retrieve(r)) # "stored" BY DEF Working, Awaited
  <2> QED BY <2>1, <2>2 DEF RowInv, OpInv
<1> QED BY <1>1, RowsHold, PTL

-------------------------------------------------------------------------------
(* The cycle of a store                                                    *)

(* Preparation and store of one cycle and those of another one.            *)
LEMMA StoreOps ==
  /\ \A g \in Garages :
       /\ Prepare(g) \in Ops /\ Store(g) \in Ops /\ Prepare(g) # Store(g)
       /\ \A r : Retrieve(r) # Prepare(g) /\ Retrieve(r) # Store(g)
       /\ \A t : Transfer(t) # Prepare(g) /\ Transfer(t) # Store(g)
  /\ \A g, h \in Garages : /\ g # h => Prepare(g) # Prepare(h) /\ Store(g) # Store(h)
                           /\ Prepare(g) # Store(h)
BY OpNames, GarageOpsAreOps DEF Prepare, Store, Retrieve, Transfer

LEMMA CycleFrame ==
  ASSUME NEW g \in Garages, Cycle(g), item'[g] = item[g], lock' = g <=> lock = g,
         g \in archived => g \in archived',
         op'[Prepare(g)] = op[Prepare(g)], receipt'[Prepare(g)] = receipt[Prepare(g)],
         op'[Store(g)] = op[Store(g)], receipt'[Store(g)] = receipt[Store(g)]
  PROVE  Cycle(g)'
<1>1. Preparing(g)' BY DEF Cycle, Preparing
<1>2. Removing(g)' BY DEF Cycle, Removing, After
<1>3. Stored(g)' <=> Stored(g) BY DEF Stored
<1> QED BY <1>1, <1>2, <1>3 DEF Cycle, Held, ItemStates, After

(* A stored item moves, and receipts of its preparation and store go.      *)
LEMMA CycleMoves ==
  ASSUME NEW g \in Garages, Cycle(g), Stored(g), item'[g] \in After, archived' = archived,
         op'[Prepare(g)] = op[Prepare(g)], op'[Store(g)] = op[Store(g)],
         receipt'[Prepare(g)] \in {receipt[Prepare(g)], "none"},
         receipt'[Store(g)] \in {receipt[Store(g)], "none"}
  PROVE  Cycle(g)'
<1>1. /\ op[Prepare(g)] = "succeeded" /\ op[Store(g)] = "succeeded" /\ g \in archived
  BY DEF Cycle, Removing, Stored
<1>2. Preparing(g)' BY <1>1 DEF Cycle, Preparing
<1>3. Removing(g)' BY <1>1 DEF Cycle, Removing, After
<1>4. Stored(g)' BY <1>1 DEF Stored
<1>5. item'[g] \notin {"removing", "awaiting_store_save"} BY DEF After
<1> QED BY <1>2, <1>3, <1>4, <1>5 DEF Cycle

(* A step of one cycle leaves the others alone.                            *)
LEMMA OtherCycles ==
  ASSUME TypeOK, CycleInv, NEW g \in Garages, NEW s,
         item' = [item EXCEPT ![g] = s] \/ item' = item, archived \subseteq archived',
         lock' = lock \/ (lock \in {g, Nothing} /\ lock' \in {g, Nothing}),
         \A h \in Garages : h # g => /\ op'[Prepare(h)] = op[Prepare(h)] /\ op'[Store(h)] = op[Store(h)]
                                     /\ receipt'[Prepare(h)] = receipt[Prepare(h)]
                                     /\ receipt'[Store(h)] = receipt[Store(h)],
         UNCHANGED leased, op[Store(g)] = "succeeded" => op'[Store(g)] = "succeeded",
         Cycle(g)'
  PROVE  CycleInv'
<1>1. ASSUME NEW h \in Garages, h # g PROVE Cycle(h)'
  <2>1. item'[h] = item[h] BY <1>1 DEF TypeOK
  <2>2. lock' = h <=> lock = h BY <1>1, NothingIsNone
  <2> QED BY <1>1, <2>1, <2>2, CycleFrame DEF CycleInv
<1>2. ASSUME NEW r \in Retrieves, leased'[r] # Nothing PROVE Stored(leased[r])'
  <2>1. leased'[r] = leased[r] /\ leased[r] \in Garages /\ Stored(leased[r])
    BY <1>2 DEF CycleInv, TypeOK
  <2>2. op'[Store(leased[r])] = "succeeded" BY <2>1 DEF Stored
  <2> QED BY <2>1, <2>2 DEF Stored
<1> QED BY <1>1, <1>2 DEF CycleInv

LEMMA CyclesStay ==
  ASSUME TypeOK, CycleInv, UNCHANGED <<item, lock, archived, leased>>,
         \A g \in Garages : /\ op'[Prepare(g)] = op[Prepare(g)] /\ op'[Store(g)] = op[Store(g)]
                            /\ receipt'[Prepare(g)] = receipt[Prepare(g)]
                            /\ receipt'[Store(g)] = receipt[Store(g)]
  PROVE  CycleInv'
<1>1. \A g \in Garages : Cycle(g)' BY CycleFrame DEF CycleInv
<1>2. ASSUME NEW r \in Retrieves, leased'[r] # Nothing PROVE Stored(leased[r])'
  <2>1. leased'[r] = leased[r] /\ leased[r] \in Garages /\ Stored(leased[r])
    BY <1>2 DEF CycleInv, TypeOK
  <2>2. op'[Store(leased[r])] = "succeeded" BY <2>1 DEF Stored
  <2> QED BY <2>1, <2>2 DEF Stored
<1> QED BY <1>1, <1>2 DEF CycleInv

LEMMA CycleBegins ==
  ASSUME TypeOK, CycleInv, NEW g \in Garages, StoreRequest(g)
  PROVE  CycleInv'
<1>1. /\ item[g] = "absent" /\ lock = Nothing /\ lock' = g
      /\ item' = [item EXCEPT ![g] = "preparing"] /\ op' = [op EXCEPT ![Prepare(g)] = "pending"]
      /\ UNCHANGED <<archived, leased, receipt>>
  BY DEF StoreRequest, mailboxVars
<1>2. item'[g] = "preparing" BY <1>1 DEF TypeOK
<1>3. op'[Prepare(g)] = "pending" /\ op'[Store(g)] = op[Store(g)]
  BY <1>1, StoreOps DEF TypeOK
<1>4. Cycle(g) BY DEF CycleInv
<1>5. op[Store(g)] = "absent" BY <1>1, <1>4 DEF Cycle, Removing
<1>6. receipt[Prepare(g)] \notin {"kept", "applied"}
      /\ receipt[Store(g)] \notin {"kept", "unproven", "applied", "prepared"}
  <2>1. receipt[Prepare(g)] = "kept" => op[Prepare(g)] = "pending"
    BY <1>1, <1>4 DEF Cycle, Preparing
  <2>2. op[Prepare(g)] # "pending" BY <1>1, <1>4 DEF Cycle, Preparing
  <2> QED BY <1>1, <1>4, <1>5, <2>1, <2>2 DEF Cycle, Preparing, Removing
<1>7. Preparing(g)' BY <1>2, <1>1, <1>3, <1>6 DEF Preparing
<1>8. Removing(g)' BY <1>1, <1>3, <1>5, <1>6 DEF Removing
<1>9. Cycle(g)'
  BY <1>1, <1>2, <1>3, <1>5, <1>7, <1>8 DEF Cycle, Stored, Held, ItemStates, After
<1>10. \A h \in Garages : h # g => op'[Prepare(h)] = op[Prepare(h)] /\ op'[Store(h)] = op[Store(h)]
  BY <1>1, StoreOps DEF TypeOK
<1> QED BY <1>1, <1>3, <1>5, <1>9, <1>10, OtherCycles

LEMMA CycleLeases ==
  ASSUME TypeOK, CycleInv, NEW r \in Retrieves, RetrieveRequest(r)
  PROVE  CycleInv'
<1>1. PICK g \in Garages : g = lock BY DEF TypeOK, RetrieveRequest
<1>2. /\ item[g] = "stored" /\ item' = [item EXCEPT ![g] = "retrieving"]
      /\ leased' = [leased EXCEPT ![r] = g] /\ op' = [op EXCEPT ![Retrieve(r)] = "pending"]
      /\ UNCHANGED <<lock, archived, receipt>>
  BY <1>1 DEF RetrieveRequest, mailboxVars
<1>3. \A h \in Garages : op'[Prepare(h)] = op[Prepare(h)] /\ op'[Store(h)] = op[Store(h)]
  BY <1>2, StoreOps DEF TypeOK
<1>4. Cycle(g) /\ Stored(g) BY <1>2 DEF CycleInv, Cycle, After
<1>5. item'[g] = "retrieving" /\ \A h \in Garages : h # g => item'[h] = item[h]
  BY <1>2 DEF TypeOK
<1>6. Cycle(g)' BY <1>2, <1>3, <1>4, <1>5, CycleMoves DEF After
<1>7. \A h \in Garages : h # g => Cycle(h)'
  BY <1>2, <1>3, <1>5, CycleFrame DEF CycleInv
<1>8. ASSUME NEW s \in Retrieves, leased'[s] # Nothing PROVE Stored(leased[s])'
  <2>1. leased'[s] = IF s = r THEN g ELSE leased[s] BY <1>2 DEF TypeOK
  <2>2. leased'[s] \in Garages /\ Stored(leased'[s])
    BY <1>4, <1>8, <2>1 DEF TypeOK, CycleInv
  <2>3. op'[Store(leased'[s])] = op[Store(leased'[s])] BY <1>3, <2>2
  <2> QED BY <2>2, <2>3 DEF Stored
<1> QED BY <1>6, <1>7, <1>8 DEF CycleInv

(* What a receipt is turned into: the archive of a preparation, ...        *)
LEMMA CyclePrepared ==
  ASSUME TypeOK, CycleInv, NEW g \in Garages, PostReceipt(Prepare(g)) \/ HandlerStops(Prepare(g))
  PROVE  CycleInv'
<1> DEFINE o == Prepare(g)
<1>1. /\ o \in Ops /\ o \in GarageOps /\ o[1] = "prepare" /\ o[2] = g /\ OpGarage(o) = g
      /\ Store(g) \in Ops /\ Store(g) # o
  BY OpNames, GarageOpNames, StoreOps
<1>2. /\ receipt'[o] \in {receipt[o], "none"} /\ UNCHANGED leased
      /\ \A p \in Ops : p # o => receipt'[p] = receipt[p]
  BY <1>1, PostFrame DEF HandlerStops, mailboxVars
<1>3. Cycle(g) BY DEF CycleInv
<1>4. \A h \in Garages : h # g => /\ receipt'[Prepare(h)] = receipt[Prepare(h)]
                                  /\ receipt'[Store(h)] = receipt[Store(h)]
  BY <1>2, StoreOps
<1>5. receipt'[Store(g)] = receipt[Store(g)] BY <1>1, <1>2
<1> HIDE DEF o
<1>6. CASE UNCHANGED <<item, lock, archived, op>> /\ (receipt[o] = "unproven" => op[o] # "pending")
  <2>1. Preparing(g)' BY <1>2, <1>3, <1>6 DEF Cycle, Preparing, o
  <2>2. Removing(g)' BY <1>3, <1>5, <1>6 DEF Cycle, Removing, After
  <2>3. Cycle(g)' BY <1>3, <1>5, <1>6, <2>1, <2>2 DEF Cycle, Stored
  <2> QED BY <1>2, <1>4, <1>6, <2>3, OtherCycles
<1>7. CASE CanCapture(o) /\ Capture(o) /\ g \notin archived
  <2>1. /\ item[g] = "preparing" /\ item' = [item EXCEPT ![g] = "removing"] /\ lock' = lock
        /\ op' = [op EXCEPT ![o] = "succeeded", ![Store(g)] = "pending"]
        /\ archived' = archived \union {g} /\ receipt[o] = "prepared"
    BY <1>1, <1>7 DEF CanCapture, Capture
  <2>2. item'[g] = "removing" /\ op'[o] = "succeeded" /\ op'[Store(g)] = "pending"
    BY <1>1, <2>1 DEF TypeOK
  <2>3. op[Store(g)] = "absent" BY <1>3, <1>7 DEF Cycle, Removing
  <2>4. receipt[Store(g)] \notin {"kept", "unproven", "applied", "prepared"}
    BY <1>3, <2>3 DEF Cycle, Removing
  <2>5. Preparing(g)' BY <1>2, <2>1, <2>2 DEF Preparing, o
  <2>6. Removing(g)' BY <1>5, <2>1, <2>2, <2>4 DEF Removing, o
  <2>7. lock = g BY <1>3, <2>1, <2>3 DEF Cycle, Stored, Held, ItemStates
  <2>8. Cycle(g)'
    BY <2>1, <2>2, <2>5, <2>6, <2>7 DEF Cycle, Stored, Held, ItemStates, After
  <2>9. \A h \in Garages : h # g => op'[Prepare(h)] = op[Prepare(h)] /\ op'[Store(h)] = op[Store(h)]
    BY <1>1, <2>1, StoreOps DEF TypeOK, o
  <2> QED BY <1>2, <1>4, <2>1, <2>3, <2>8, <2>9, OtherCycles
<1>8. CASE CanRefuse(o) /\ Refuse(o)
  <2>1. /\ receipt[o] = "kept" /\ op[o] # "succeeded"
        /\ item' = [item EXCEPT ![g] = "failed"] /\ op' = [op EXCEPT ![o] = "failed"]
        /\ lock' = IF lock = g THEN Nothing ELSE lock
        /\ archived' = archived
    BY <1>1, <1>8 DEF CanRefuse, Refuse
  <2>2. item'[g] = "failed" /\ op'[o] = "failed" /\ op'[Store(g)] = op[Store(g)]
    BY <1>1, <2>1 DEF TypeOK
  <2>3. op[Store(g)] = "absent" BY <1>3, <2>1 DEF Cycle, Removing, o
  <2>4. receipt[Store(g)] \notin {"kept", "unproven", "applied", "prepared"}
    BY <1>3, <2>3 DEF Cycle, Removing
  <2>5. Preparing(g)' BY <1>2, <2>1, <2>2 DEF Preparing, o
  <2>6. Removing(g)' BY <1>5, <2>2, <2>3, <2>4 DEF Removing
  <2>7. lock' # g BY <2>1, NothingIsNone
  <2>8. Cycle(g)'
    BY <2>2, <2>3, <2>5, <2>6, <2>7 DEF Cycle, Stored, Held, ItemStates, After
  <2>9. \A h \in Garages : h # g => op'[Prepare(h)] = op[Prepare(h)] /\ op'[Store(h)] = op[Store(h)]
    BY <1>1, <2>1, StoreOps DEF TypeOK, o
  <2> QED BY <1>2, <1>4, <2>1, <2>3, <2>8, <2>9, OtherCycles
<1>9. CASE /\ CanReview(o) /\ UNCHANGED <<lock, archived>>
           /\ item' = [item EXCEPT ![g] = "review_required"]
           /\ op' = [op EXCEPT ![o] = "reconciliation_required"] \/ (op' = op /\ receipt' = receipt)
  <2>1. receipt[o] = "unproven" /\ op[o] # "succeeded" BY <1>9 DEF CanReview
  <2>2. item'[g] = "review_required" /\ op'[Store(g)] = op[Store(g)]
        /\ \/ op'[o] = "reconciliation_required"
           \/ op'[o] = op[o] /\ receipt'[o] = "unproven"
    BY <1>1, <1>9, <2>1 DEF TypeOK
  <2>3. op[Store(g)] = "absent" BY <1>3, <2>1 DEF Cycle, Removing, o
  <2>4. receipt[Store(g)] \notin {"kept", "unproven", "applied", "prepared"}
    BY <1>3, <2>3 DEF Cycle, Removing
  <2>5. item[g] \in {"preparing", "review_required"} BY <1>3, <2>1 DEF Cycle, Preparing, o
  <2>6. lock = g BY <1>3, <2>3, <2>5 DEF Cycle, Stored, Held, ItemStates
  <2>7. Preparing(g)' BY <1>2, <1>3, <1>9, <2>1, <2>2 DEF Cycle, Preparing, o
  <2>8. Removing(g)' BY <1>5, <2>2, <2>3, <2>4 DEF Removing
  <2>9. Cycle(g)'
    BY <1>9, <2>2, <2>3, <2>6, <2>7, <2>8 DEF Cycle, Stored, Held, ItemStates, After
  <2>10. \A h \in Garages : h # g => op'[Prepare(h)] = op[Prepare(h)] /\ op'[Store(h)] = op[Store(h)]
    BY <1>1, <1>9, StoreOps DEF TypeOK, o
  <2> QED BY <1>2, <1>4, <1>9, <2>3, <2>9, <2>10, OtherCycles
<1>10. CASE CanCapture(o) /\ Capture(o) /\ g \in archived
  <2>1. UNCHANGED <<item, lock, op>> /\ archived' = archived /\ receipt[o] = "prepared"
    BY <1>1, <1>10 DEF CanCapture, Capture
  <2> QED BY <1>6, <2>1
<1>11. Handle(o) => \/ CanCapture(o) /\ Capture(o)
                    \/ CanRefuse(o) /\ Refuse(o)
                    \/ CanReview(o) /\ Review(o)
  BY <1>1 DEF Handle, CanApply, CanSettle
<1>12. CASE PostReceipt(o) /\ ~Handle(o)
  <2>1. UNCHANGED <<item, lock, archived, op>> /\ ~CanReview(o)
    BY <1>12 DEF PostReceipt, Acceptable, o
  <2> QED BY <1>1, <1>6, <2>1 DEF CanReview
<1>13. CASE HandlerStops(o)
  <2>1. UNCHANGED <<lock, archived, op, receipt>> /\ ~CanApply(o)
    BY <1>1, <1>13 DEF HandlerStops, mailboxVars, CanApply
  <2> QED BY <1>1, <1>9, <1>13, <2>1 DEF HandlerStops
<1> QED BY <1>1, <1>7, <1>8, <1>9, <1>10, <1>11, <1>12, <1>13 DEF Review, o

(* ... the outcome of a deletion, ...                                      *)
LEMMA CycleRemoved ==
  ASSUME TypeOK, CycleInv, NEW g \in Garages, PostReceipt(Store(g)) \/ HandlerStops(Store(g))
  PROVE  CycleInv'
<1> DEFINE o == Store(g)
<1>1. /\ o \in Ops /\ o \in GarageOps /\ o[1] = "store" /\ o[2] = g /\ OpGarage(o) = g
      /\ Prepare(g) \in Ops /\ Prepare(g) # o /\ Awaited(o) = "awaiting_store_save"
  BY OpNames, GarageOpNames, StoreOps DEF Awaited
<1>2. /\ receipt'[o] \in {receipt[o], "none"} /\ UNCHANGED leased
      /\ \A p \in Ops : p # o => receipt'[p] = receipt[p]
  BY <1>1, PostFrame DEF HandlerStops, mailboxVars
<1>3. Cycle(g) BY DEF CycleInv
<1>4. \A h \in Garages : h # g => /\ receipt'[Prepare(h)] = receipt[Prepare(h)]
                                  /\ receipt'[Store(h)] = receipt[Store(h)]
  BY <1>2, StoreOps
<1>5. receipt'[Prepare(g)] = receipt[Prepare(g)] BY <1>1, <1>2
<1> HIDE DEF o
<1>6. CASE /\ UNCHANGED <<item, lock, archived, op>> /\ item[g] # "awaiting_store_save"
           /\ receipt[o] = "unproven" => op[o] # "pending"
  <2>1. Preparing(g)' BY <1>3, <1>5, <1>6 DEF Cycle, Preparing
  <2>2. Removing(g)' BY <1>2, <1>3, <1>6 DEF Cycle, Removing, After, o
  <2>3. Cycle(g)' BY <1>3, <1>6, <2>1, <2>2 DEF Cycle, Stored
  <2> QED BY <1>2, <1>4, <1>6, <2>3, OtherCycles
<1>7. CASE /\ CanApply(o) /\ op[o] # "succeeded" /\ UNCHANGED <<lock, archived>>
           /\ item' = [item EXCEPT ![g] = "awaiting_store_save"]
           /\ op' = [op EXCEPT ![o] = "awaiting_save"] \/ (op' = op /\ receipt' = receipt)
  <2>1. receipt[o] = "applied" /\ item[g] \in {"removing", "awaiting_store_save"}
    BY <1>1, <1>7 DEF CanApply
  <2>2. item'[g] = "awaiting_store_save" /\ op'[Prepare(g)] = op[Prepare(g)]
        /\ (op'[o] = "awaiting_save" \/ (op'[o] = op[o] /\ receipt'[o] = "applied"))
    BY <1>1, <1>7, <2>1 DEF TypeOK
  <2>3. op[o] \in {"pending", "awaiting_save"} BY <1>3, <1>7, <2>1 DEF Cycle, Removing, o
  <2>4. op[Prepare(g)] = "succeeded" /\ g \in archived BY <1>3, <2>3 DEF Cycle, Removing, o
  <2>5. lock = g BY <1>3, <1>7, <2>1 DEF Cycle, Stored, Held, ItemStates, o
  <2>6. Preparing(g)' BY <1>3, <1>5, <2>2, <2>4 DEF Cycle, Preparing
  <2>7. Removing(g)' BY <1>2, <1>7, <2>1, <2>2, <2>3, <2>4 DEF Removing, o
  <2>8. Cycle(g)'
    BY <1>7, <2>2, <2>3, <2>5, <2>6, <2>7 DEF Cycle, Stored, Held, ItemStates, After, o
  <2>9. \A h \in Garages : h # g => op'[Prepare(h)] = op[Prepare(h)] /\ op'[Store(h)] = op[Store(h)]
    BY <1>1, <1>7, StoreOps DEF TypeOK, o
  <2> QED BY <1>2, <1>4, <1>7, <2>8, <2>9, OtherCycles DEF o
<1>8. CASE CanRefuse(o) /\ Refuse(o)
  <2>1. /\ receipt[o] = "kept" /\ op[o] # "succeeded" /\ archived' = archived
        /\ item' = [item EXCEPT ![g] = "failed"] /\ op' = [op EXCEPT ![o] = "failed"]
        /\ lock' = IF lock = g THEN Nothing ELSE lock
    BY <1>1, <1>8 DEF CanRefuse, Refuse
  <2>2. item'[g] = "failed" /\ op'[o] = "failed" /\ op'[Prepare(g)] = op[Prepare(g)]
    BY <1>1, <2>1 DEF TypeOK
  <2>3. op[o] # "absent" BY <1>3, <2>1 DEF Cycle, Removing, o
  <2>4. op[Prepare(g)] = "succeeded" /\ g \in archived BY <1>3, <2>3 DEF Cycle, Removing, o
  <2>5. Preparing(g)' BY <1>3, <1>5, <2>2, <2>4 DEF Cycle, Preparing
  <2>6. Removing(g)' BY <1>2, <2>1, <2>2, <2>4 DEF Removing, o
  <2>7. lock' # g BY <2>1, NothingIsNone
  <2>8. Cycle(g)' BY <2>2, <2>5, <2>6, <2>7 DEF Cycle, Stored, Held, ItemStates, After, o
  <2>9. \A h \in Garages : h # g => op'[Prepare(h)] = op[Prepare(h)] /\ op'[Store(h)] = op[Store(h)]
    BY <1>1, <2>1, StoreOps DEF TypeOK, o
  <2> QED BY <1>2, <1>4, <2>1, <2>8, <2>9, OtherCycles DEF o
<1>9. CASE /\ CanReview(o) /\ UNCHANGED <<lock, archived>>
           /\ item' = [item EXCEPT ![g] = "review_required"]
           /\ op' = [op EXCEPT ![o] = "reconciliation_required"] \/ (op' = op /\ receipt' = receipt)
  <2>1. receipt[o] = "unproven" /\ op[o] # "succeeded" BY <1>9 DEF CanReview
  <2>2. item'[g] = "review_required" /\ op'[Prepare(g)] = op[Prepare(g)]
        /\ \/ op'[o] = "reconciliation_required"
           \/ op'[o] = op[o] /\ receipt'[o] = "unproven"
    BY <1>1, <1>9, <2>1 DEF TypeOK
  <2>3. op[o] \in {"pending", "reconciliation_required"} /\ item[g] \in {"removing", "review_required"}
    BY <1>3, <2>1 DEF Cycle, Removing, o
  <2>4. op[Prepare(g)] = "succeeded" /\ g \in archived BY <1>3, <2>3 DEF Cycle, Removing, o
  <2>5. lock = g BY <1>3, <2>1, <2>3 DEF Cycle, Stored, Held, ItemStates, o
  <2>6. Preparing(g)' BY <1>3, <1>5, <2>2, <2>4 DEF Cycle, Preparing
  <2>7. Removing(g)' BY <1>2, <1>9, <2>1, <2>2, <2>3, <2>4 DEF Removing, o
  <2>8. Cycle(g)'
    BY <1>9, <2>1, <2>2, <2>3, <2>5, <2>6, <2>7 DEF Cycle, Stored, Held, ItemStates, After, o
  <2>9. \A h \in Garages : h # g => op'[Prepare(h)] = op[Prepare(h)] /\ op'[Store(h)] = op[Store(h)]
    BY <1>1, <1>9, StoreOps DEF TypeOK, o
  <2> QED BY <1>2, <1>4, <1>9, <2>1, <2>8, <2>9, OtherCycles DEF o
<1>10. CASE HandlerStops(o)
  <2>1. UNCHANGED <<lock, archived, op, receipt>> BY <1>10 DEF HandlerStops, mailboxVars
  <2> QED BY <1>1, <1>7, <1>9, <1>10, <2>1 DEF HandlerStops
<1>11. CASE PostReceipt(o)
  <2>1. CASE CanApply(o) /\ Apply(o)
    <3>1. CASE op[o] = "succeeded"
      <4>1. item[g] # "awaiting_store_save" BY <1>3, <3>1 DEF Cycle, Removing, After, o
      <4>2. UNCHANGED <<item, lock, archived, op>> BY <2>1, <3>1 DEF Apply
      <4> QED BY <1>6, <3>1, <4>1, <4>2
    <3>2. CASE op[o] # "succeeded" BY <1>1, <1>7, <2>1, <3>2 DEF Apply
    <3> QED BY <3>1, <3>2
  <2>2. CASE CanReview(o) /\ Review(o) BY <1>1, <1>9, <2>2 DEF Review
  <2>3. CASE ~Handle(o)
    <3>1. UNCHANGED <<item, lock, archived, op>> /\ ~CanApply(o) /\ ~CanReview(o)
      BY <1>11, <2>3 DEF PostReceipt, Acceptable
    <3>2. item[g] = "awaiting_store_save" => receipt[o] = "none"
      <4>1. item[g] = "awaiting_store_save" => receipt[o] # "applied"
        BY <1>1, <3>1 DEF CanApply
      <4>2. item[g] = "awaiting_store_save" => op[o] = "awaiting_save"
        BY <1>3, <4>1 DEF Cycle, o
      <4>3. receipt[o] \in Statuses \union {"none"} BY <1>1 DEF TypeOK
      <4> QED BY <1>3, <4>1, <4>2, <4>3 DEF Cycle, Removing, Statuses, o
    <3>3. receipt[o] # "none" BY <1>11 DEF PostReceipt
    <3> QED BY <1>1, <1>6, <3>1, <3>2, <3>3 DEF CanReview
  <2>4. Handle(o) => \/ CanApply(o) /\ Apply(o)
                     \/ CanRefuse(o) /\ Refuse(o)
                     \/ CanReview(o) /\ Review(o)
    BY <1>1 DEF Handle, CanCapture, CanSettle
  <2> QED BY <1>8, <2>1, <2>2, <2>3, <2>4
<1> QED BY <1>10, <1>11 DEF o

(* ... and of a load: whatever the item is, it was stored before.          *)
LEMMA RestoredMoves ==
  ASSUME TypeOK, RequestInv, CycleInv, NEW r \in Retrieves,
         PostReceipt(Retrieve(r)) \/ HandlerStops(Retrieve(r))
  PROVE  \E g \in Garages :
           /\ g = leased[r] /\ Stored(g) /\ UNCHANGED <<lock, archived>>
           /\ item' = item \/ \E state \in After : item' = [item EXCEPT ![g] = state]
           /\ \A p \in Ops : p # Retrieve(r) => op'[p] = op[p]
<1> DEFINE o == Retrieve(r)
<1>1. /\ o \in Ops /\ o \in GarageOps /\ o[1] = "retrieve" /\ o[2] = r /\ OpGarage(o) = leased[r]
      /\ Awaited(o) = "awaiting_retrieve_save"
  BY OpNames, GarageOpNames, GarageOpsAreOps DEF Awaited
<1>2. receipt[o] # "none" BY <1>1 DEF PostReceipt, HandlerStops
<1>3. PICK g \in Garages : g = leased[r] /\ Stored(g)
  BY <1>1, <1>2, NothingIsNone DEF RequestInv, CycleInv
<1> HIDE DEF o
<1>4. /\ UNCHANGED <<lock, archived>>
      /\ item' = item \/ \E state \in After : item' = [item EXCEPT ![g] = state]
      /\ op' = op \/ \E state \in OpStates : op' = [op EXCEPT ![o] = state]
  <2>1. CASE PostReceipt(o) /\ ~Handle(o) BY <2>1 DEF PostReceipt
  <2>2. CASE Handle(o)
    <3>1. ~CanCapture(o) /\ ~CanSettle(o) BY <1>1 DEF CanCapture, CanSettle
    <3> QED BY <1>1, <1>3, <2>2, <3>1 DEF Handle, Apply, Refuse, Review, After, OpStates
  <2>3. CASE HandlerStops(o) BY <1>1, <1>3, <2>3 DEF HandlerStops, After
  <2> QED BY <2>1, <2>2, <2>3 DEF o
<1>5. \A p \in Ops : p # o => op'[p] = op[p] BY <1>4 DEF TypeOK
<1> QED BY <1>3, <1>4, <1>5 DEF o

LEMMA CycleRestored ==
  ASSUME TypeOK, RequestInv, CycleInv, NEW r \in Retrieves,
         PostReceipt(Retrieve(r)) \/ HandlerStops(Retrieve(r))
  PROVE  CycleInv'
<1>1. Retrieve(r) \in Ops BY OpNames, GarageOpsAreOps
<1>2. UNCHANGED leased /\ \A p \in Ops : p # Retrieve(r) => receipt'[p] = receipt[p]
  BY <1>1, PostFrame DEF HandlerStops, mailboxVars
<1>3. PICK g \in Garages :
        /\ Stored(g) /\ UNCHANGED <<lock, archived>>
        /\ item' = item \/ \E state \in After : item' = [item EXCEPT ![g] = state]
        /\ \A p \in Ops : p # Retrieve(r) => op'[p] = op[p]
  BY RestoredMoves
<1>4. \A h \in Garages : /\ op'[Prepare(h)] = op[Prepare(h)] /\ op'[Store(h)] = op[Store(h)]
                         /\ receipt'[Prepare(h)] = receipt[Prepare(h)]
                         /\ receipt'[Store(h)] = receipt[Store(h)]
  BY <1>2, <1>3, StoreOps
<1>5. Cycle(g) BY DEF CycleInv
<1>6. item[g] \in After BY <1>3, <1>5 DEF Cycle, Removing, Stored
<1>7. item'[g] \in After BY <1>3, <1>6 DEF TypeOK
<1>8. Cycle(g)' BY <1>3, <1>4, <1>5, <1>7, CycleMoves
<1> QED BY <1>2, <1>3, <1>4, <1>8, OtherCycles

(* What the game answers was asked of it, and waited for.                  *)
LEMMA CycleAnswers ==
  ASSUME TypeOK, CycleInv, StoreDelivery, NEW o \in Ops,
         Process(o) \/ FinishRemoval(o) \/ FinishLoad(o)
  PROVE  CycleInv'
<1>1. Answered(o) /\ o \in commands
  BY ProcessAnswers, FinishAnswers DEF StoreDelivery
<1>2. UNCHANGED <<item, lock, archived, leased, op>> BY GameFrame DEF custodyVars
<1>3. \A p \in Ops : p # o => receipt'[p] = receipt[p] BY <1>1 DEF TypeOK, Answered
<1>4. receipt'[o] = receipt[o] \/ receipt'[o] \in AnswersTo(o)
  BY <1>1 DEF TypeOK, Answered
<1>5. CASE \E g \in Garages : o = Prepare(g)
  <2>1. PICK g \in Garages : o = Prepare(g) BY <1>5
  <2>2. op[o] = "pending" /\ receipt[o] = "none"
    BY <1>1, <2>1 DEF StoreDelivery, Unanswered
  <2>3. Cycle(g) /\ o[1] = "prepare" /\ receipt'[Store(g)] = receipt[Store(g)]
    BY <1>3, <2>1, OpNames, StoreOps DEF CycleInv
  <2>4. receipt'[o] # "applied" BY <1>4, <2>2, <2>3 DEF AnswersTo
  <2>5. Preparing(g)' BY <1>2, <2>1, <2>2, <2>3, <2>4 DEF Cycle, Preparing
  <2>6. Removing(g)' BY <1>2, <2>3 DEF Cycle, Removing, After
  <2>7. Cycle(g)' BY <1>2, <2>3, <2>5, <2>6 DEF Cycle, Stored
  <2>8. \A h \in Garages : h # g => /\ receipt'[Prepare(h)] = receipt[Prepare(h)]
                                    /\ receipt'[Store(h)] = receipt[Store(h)]
    BY <1>3, <2>1, StoreOps
  <2> QED BY <1>2, <2>7, <2>8, OtherCycles
<1>6. CASE \E g \in Garages : o = Store(g)
  <2>1. PICK g \in Garages : o = Store(g) BY <1>6
  <2>2. op[o] = "pending" /\ receipt[o] = "none"
    BY <1>1, <2>1 DEF StoreDelivery, Unanswered
  <2>3. Cycle(g) /\ o[1] = "store" /\ receipt'[Prepare(g)] = receipt[Prepare(g)]
    BY <1>3, <2>1, OpNames, StoreOps DEF CycleInv
  <2>4. receipt'[o] # "prepared" BY <1>4, <2>2, <2>3 DEF AnswersTo
  <2>5. item[g] = "removing" BY <2>1, <2>2, <2>3 DEF Cycle, Removing
  <2>6. Preparing(g)' BY <1>2, <2>3 DEF Cycle, Preparing
  <2>7. Removing(g)' BY <1>2, <2>1, <2>2, <2>3, <2>4, <2>5 DEF Cycle, Removing, After
  <2>8. Cycle(g)' BY <1>2, <2>3, <2>5, <2>6, <2>7 DEF Cycle, Stored
  <2>9. \A h \in Garages : h # g => /\ receipt'[Prepare(h)] = receipt[Prepare(h)]
                                    /\ receipt'[Store(h)] = receipt[Store(h)]
    BY <1>3, <2>1, StoreOps
  <2> QED BY <1>2, <2>8, <2>9, OtherCycles
<1>7. CASE \A g \in Garages : o # Prepare(g) /\ o # Store(g)
  BY <1>2, <1>3, <1>7, StoreOps, CyclesStay
<1> QED BY <1>5, <1>6, <1>7

(* The native save proves a store, or a load of what was stored.           *)
LEMMA CycleCheckpoint ==
  ASSUME TypeOK, CycleInv, NEW g \in Garages, Checkpoint(g)
  PROVE  CycleInv'
<1>1. /\ UNCHANGED <<archived, leased, receipt>> /\ Cycle(g)
      /\ item' = [item EXCEPT ![g] = IF Gone(g) THEN "stored" ELSE "retrieved"]
      /\ op' = [op EXCEPT ![IF Gone(g) THEN Store(g) ELSE Retrieve(retrieval[g])] = "succeeded"]
      /\ lock' = IF ~Gone(g) /\ lock = g THEN Nothing ELSE lock
      /\ item[g] \in {"awaiting_store_save", "awaiting_retrieve_save"}
  BY DEF Checkpoint, mailboxVars, CycleInv
<1>2. \A h \in Garages : op'[Prepare(h)] = op[Prepare(h)] /\ (h # g => op'[Store(h)] = op[Store(h)])
  BY <1>1, StoreOps DEF TypeOK
<1>3. CASE Gone(g)
  <2>1. item[g] = "awaiting_store_save" /\ item'[g] = "stored" /\ op'[Store(g)] = "succeeded"
    BY <1>1, <1>3, StoreOps DEF TypeOK, Gone
  <2>2. op[Store(g)] \in {"pending", "awaiting_save"}
    <3>1. op[Store(g)] \in {"pending", "awaiting_save", "succeeded"}
      BY <1>1, <2>1 DEF Cycle, Removing
    <3> QED BY <1>1, <2>1, <3>1 DEF Cycle, Removing, After
  <2>3. receipt[Store(g)] \notin {"kept", "unproven", "prepared"}
    BY <1>1, <2>1, <2>2 DEF Cycle, Removing
  <2>4. op[Prepare(g)] = "succeeded" /\ g \in archived BY <1>1, <2>2 DEF Cycle, Removing
  <2>5. Preparing(g)' BY <1>1, <1>2, <2>4 DEF Cycle, Preparing
  <2>6. Removing(g)' BY <1>1, <1>2, <2>1, <2>3, <2>4 DEF Removing, After
  <2>7. Cycle(g)' BY <2>1, <2>5, <2>6 DEF Cycle, Stored
  <2> QED BY <1>1, <1>2, <1>3, <2>1, <2>7, OtherCycles
<1>4. CASE ~Gone(g)
  <2>1. item[g] = "awaiting_retrieve_save" /\ item'[g] = "retrieved" BY <1>1, <1>4 DEF TypeOK, Gone
  <2>2. Stored(g) BY <1>1, <2>1 DEF Cycle, After
  <2>3. op'[Store(g)] = op[Store(g)] BY <1>1, <1>4, StoreOps DEF TypeOK
  <2>4. Cycle(g)' BY <1>1, <1>2, <2>1, <2>2, <2>3, CycleMoves DEF After
  <2> QED BY <1>1, <1>2, <2>3, <2>4, OtherCycles
<1> QED BY <1>3, <1>4

LEMMA CycleStep ==
  ASSUME TypeOK, RequestInv, StoreDelivery, CycleInv, Next
  PROVE  CycleInv'
<1>1. ASSUME UNCHANGED <<item, lock, archived, leased, receipt>>,
             \A p \in GarageOps : op'[p] = op[p]
      PROVE  CycleInv'
  BY <1>1, CyclesStay, GarageOpNames
<1>2. CASE CentralStep
  <2>1. ASSUME NEW t \in Transfers, TransferRequest(t) \/ CheckQueue(t) PROVE CycleInv'
    BY <1>1, <2>1 DEF TransferRequest, CheckQueue, custodyVars, mailboxVars
  <2>2. ASSUME NEW t \in Transfers, QueueTransfer(t) PROVE CycleInv'
    <3>1. \A p \in GarageOps : op'[p] = op[p]
      BY <2>2, TransferOps, GarageOpsAreOps DEF TypeOK, QueueTransfer
    <3> QED BY <1>1, <2>2, <3>1 DEF QueueTransfer, custodyVars, mailboxVars
  <2> QED BY <1>2, <2>1, <2>2, CycleBegins, CycleLeases DEF CentralStep
<1>3. CASE AgentStep
  <2>1. CASE (\E o \in Ops : TestReceipt(o)) \/ WriteCommand \/ SnapshotAccepted
    BY <1>1, <2>1 DEF TestReceipt, WriteCommand, SnapshotAccepted, custodyVars, mailboxVars
  <2>2. ASSUME NEW t \in Transfers, PostReceipt(Transfer(t)) PROVE CycleInv'
    <3>1. Transfer(t) \in Ops /\ Transfer(t)[1] = "transfer" /\ Transfer(t) \notin GarageOps
      BY OpNames, TransferOps
    <3>2. UNCHANGED leased /\ \A p \in GarageOps : receipt'[p] = receipt[p]
      BY <2>2, <3>1, PostFrame, GarageOpsAreOps
    <3>3. CASE ~Handle(Transfer(t))
      BY <2>2, <3>2, <3>3, CyclesStay, GarageOpNames DEF PostReceipt
    <3>4. CASE Handle(Transfer(t))
      <4>1. Settle(Transfer(t))
        BY <3>1, <3>4 DEF Handle, CanCapture, CanApply, CanRefuse, CanReview
      <4>2. \A p \in GarageOps : op'[p] = op[p]
        BY <3>1, <4>1, GarageOpsAreOps DEF TypeOK, Settle
      <4> QED BY <3>2, <4>1, <4>2, CyclesStay, GarageOpNames DEF Settle
    <3> QED BY <3>3, <3>4
  <2>3. ASSUME NEW t \in Transfers PROVE ~HandlerStops(Transfer(t))
    BY OpNames, TransferOps DEF HandlerStops, CanApply, CanReview
  <2>4. ASSUME NEW o \in Ops, PostReceipt(o) \/ HandlerStops(o) PROVE CycleInv'
    <3>1. CASE o[1] = "prepare"
      <4>1. o[2] \in Garages /\ o = Prepare(o[2]) BY <3>1, OpKinds
      <4> QED BY <2>4, <4>1, CyclePrepared
    <3>2. CASE o[1] = "store" BY <2>4, <3>2, OpKinds, CycleRemoved
    <3>3. CASE o[1] = "retrieve" BY <2>4, <3>3, OpKinds, CycleRestored
    <3>4. CASE o[1] = "transfer" BY <2>2, <2>3, <2>4, <3>4, OpKinds
    <3> QED BY <3>1, <3>2, <3>3, <3>4, OpKinds
  <2> QED BY <1>3, <2>1, <2>4, CycleCheckpoint DEF AgentStep
<1>4. CASE GameStep
  <2>1. CASE NativeDelete \/ NativeSave \/ Crash \/ PlayerSells
    BY <1>1, <2>1 DEF NativeDelete, NativeSave, Crash, PlayerSells, custodyVars, mailboxVars
  <2> QED BY <1>4, <2>1, CycleAnswers DEF GameStep
<1> QED BY <1>2, <1>3, <1>4 DEF Next

(* A checkpoint completes only a deletion that was reported.               *)
LEMMA StoreDeliveryStep ==
  ASSUME TypeOK, CycleInv, StoreDelivery, "recreate" \notin Hazards, Next
  PROVE  StoreDelivery'
<1>1. ASSUME NEW o \in GarageOps, o[1] \in {"prepare", "store"}, Unanswered(o),
             NEW g \in Garages, Checkpoint(g), op'[o] # op[o]
      PROVE  o \notin commands
  <2>1. PICK h \in Garages : o = Prepare(h) \/ o = Store(h) BY <1>1, GarageOpKinds
  <2>2. op' = [op EXCEPT ![IF Gone(g) THEN Store(g) ELSE Retrieve(retrieval[g])] = "succeeded"]
    BY <1>1 DEF Checkpoint
  <2>3. Gone(g) BY <1>1, <2>1, <2>2, StoreOps DEF TypeOK
  <2>4. o = Store(g) BY <1>1, <2>2, <2>3 DEF TypeOK
  <2>5. op[o] = "awaiting_save" \/ receipt[o] = "applied"
    BY <2>3, <2>4 DEF CycleInv, Cycle, Gone
  <2> QED BY <1>1, <2>5 DEF Unanswered
<1>2. ASSUME NEW o \in GarageOps, o[1] \in {"prepare", "store"}, Unanswered(o) PROVE Unanswered(o)'
  <2>1. o \in Ops BY GarageOpsAreOps
  <2>2. \A g \in Garages : Checkpoint(g) /\ op'[o] # op[o] => o \notin commands BY <1>1, <1>2
  <2> QED BY <1>2, <2>1, <2>2, UnansweredStep
<1>3. \A g \in Garages : Unanswered(Prepare(g))' /\ Unanswered(Store(g))'
  BY <1>2, OpNames DEF StoreDelivery
<1> QED BY <1>3, PendingStep DEF StoreDelivery

LEMMA CycleInit == Init => StoreDelivery /\ CycleInv
<1> SUFFICES ASSUME Init PROVE StoreDelivery /\ CycleInv OBVIOUS
<1>1. \A g \in Garages : /\ op[Prepare(g)] = "absent" /\ receipt[Prepare(g)] = "none"
                         /\ op[Store(g)] = "absent" /\ receipt[Store(g)] = "none"
                         /\ item[g] = "absent" /\ lock # g
  BY StoreOps, NothingIsNone DEF Init
<1>2. \A g \in Garages : Cycle(g)
  BY <1>1 DEF Cycle, Preparing, Removing, Stored, After, Held
<1>3. \A r \in Retrieves : leased[r] = Nothing BY DEF Init
<1>4. StoreDelivery BY DEF Init, StoreDelivery, Unanswered
<1> QED BY <1>2, <1>3, <1>4 DEF CycleInv

LEMMA CyclesHold ==
  ASSUME "recreate" \notin Hazards
  PROVE  Spec => [](TypeOK /\ RequestInv /\ LoadInv /\ StoreDelivery /\ CycleInv)
<1> DEFINE I == StoreDelivery /\ CycleInv
<1>1. Init => I BY CycleInit
<1>2. (TypeOK /\ RequestInv /\ LoadInv) /\ I /\ [Next]_vars => I'
  <2> SUFFICES ASSUME TypeOK, RequestInv, I, [Next]_vars PROVE I' OBVIOUS
  <2>1. CASE Next BY <2>1, CycleStep, StoreDeliveryStep
  <2>2. CASE UNCHANGED vars
    <3>1. CycleInv' BY <2>2, CyclesStay DEF vars, custodyVars, mailboxVars
    <3>2. StoreDelivery' BY <2>2 DEF vars, mailboxVars, gameVars, StoreDelivery, Unanswered
    <3> QED BY <3>1, <3>2
  <2> QED BY <2>1, <2>2
<1> QED BY <1>1, <1>2, LoadsHold, PTL DEF Spec

-------------------------------------------------------------------------------
(* The vehicle is never lost                                               *)

(* What the game is asked for, or has refused.                             *)
Active(o) == op[o] = "pending" /\ receipt[o] \in {"none", "kept"}

LEMMA StoreActive ==
  ASSUME TypeOK, CycleInv, NEW g \in Garages, NEW o \in {Prepare(g), Store(g)}, Active(o)
  PROVE  /\ lock = g /\ ~Stored(g) /\ o \in GarageOps /\ o[2] = g
         /\ o[1] = "prepare" => item[g] = "preparing"
         /\ o[1] = "store" => item[g] = "removing"
         /\ item[g] # "absent"
<1>1. Cycle(g) BY DEF CycleInv
<1>2. CASE o = Prepare(g)
  <2>1. item[g] = "preparing" BY <1>1, <1>2 DEF Cycle, Preparing, Active
  <2>2. op[Store(g)] = "absent" BY <1>1, <1>2 DEF Cycle, Removing, Active
  <2>3. lock = g BY <1>1, <2>1, <2>2 DEF Cycle, Stored, Held, ItemStates
  <2> QED BY <1>2, <2>1, <2>2, <2>3, OpNames DEF Stored
<1>3. CASE o = Store(g)
  <2>1. item[g] = "removing" /\ ~Stored(g)
    BY <1>1, <1>3 DEF Cycle, Removing, Active, Stored
  <2>2. lock = g BY <1>1, <2>1 DEF Cycle, Held, ItemStates
  <2> QED BY <1>3, <2>1, <2>2, OpNames
<1> QED BY <1>2, <1>3

(* An archive is loaded for the garage that is locked, once.               *)
LEMMA LoadLocks ==
  ASSUME TypeOK, RequestInv, LoadInv, CycleInv, WorldInv, NEW r \in Retrieves, Retrieve(r) \in pending
  PROVE  /\ leased[r] \in Garages /\ lock = leased[r] /\ Stored(leased[r])
         /\ journal[leased[r]] = "loading" /\ Absent
         /\ \A s \in Retrieves : Retrieve(s) \in pending => s = r
<1> SUFFICES ASSUME NEW s \in Retrieves, Retrieve(s) \in pending
             PROVE  /\ leased[s] \in Garages /\ lock = leased[s] /\ Stored(leased[s])
                    /\ journal[leased[s]] = "loading" /\ Absent
  BY DEF LoadInv
<1>1. op[Retrieve(s)] # "absent" BY OpNames, GarageOpsAreOps DEF RequestInv
<1>2. leased[s] \in Garages /\ journal[leased[s]] = "loading"
  BY <1>1 DEF RequestInv, LoadInv
<1>3. Stored(leased[s]) BY <1>2, NothingIsNone DEF CycleInv
<1>4. lock = leased[s] BY <1>2, <1>3 DEF WorldInv
<1> QED BY <1>2, <1>3, <1>4 DEF WorldInv

(* Custody moves: the vehicle and the journal stay as they are.            *)
LEMMA CustodyMoves ==
  ASSUME TypeOK, WorldInv, UNCHANGED <<diskVars, gameVars>>, NEW g \in Garages,
         \A h \in Garages : h # g => item'[h] = item[h] /\ op'[Store(h)] = op[Store(h)],
         item'[g] # "absent", archived \subseteq archived',
         lock' = lock \/ (lock \in {g, Nothing} /\ lock' \in {g, Nothing}),
         lock' = g => HeldInv(g)', lock' = Nothing => Untouched,
         lock' # g /\ Stored(g)' => journal[g] = "restored",
         \A o \in GarageOps : \/ Undone(o)'
                              \/ op'[o] = "pending" /\ receipt'[o] = "kept" => Active(o) /\ receipt[o] = "kept"
  PROVE  WorldInv'
<1>1. UNCHANGED <<journal, live, saved, deleting, pending, sold, soldSaved>>
  BY DEF diskVars, gameVars
<1>2. CopiesInv' BY <1>1 DEF WorldInv, CopiesInv
<1>3. lock' = Nothing => Untouched' BY <1>1 DEF Untouched
<1>4. \A h \in Garages : item'[h] = "absent" => journal'[h] = "none"
  BY <1>1 DEF WorldInv
<1>5. ASSUME NEW h \in Garages, h # g
      PROVE  (lock' = h => HeldInv(h)') /\ (lock' # h /\ Stored(h)' => journal'[h] = "restored")
  <2>1. /\ lock' = h <=> lock = h
        /\ item'[h] = item[h] /\ (Stored(h)' <=> Stored(h)) /\ (h \in archived => h \in archived')
    BY <1>5, NothingIsNone DEF Stored
  <2>2. HeldInv(h) => HeldInv(h)'
    BY <1>1, <2>1 DEF HeldInv, Restorable, Leaving, Untouched, Absent
  <2> QED BY <1>1, <2>1, <2>2 DEF WorldInv
<1>6. ASSUME NEW o \in GarageOps PROVE Undone(o)'
  BY <1>1, <1>6 DEF WorldInv, Undone, Active
<1>7. \A r \in Retrieves : Retrieve(r) \in pending' => Absent'
  BY <1>1 DEF WorldInv, Absent
<1> QED BY <1>1, <1>2, <1>3, <1>4, <1>5, <1>6, <1>7 DEF WorldInv

(* Neither custody nor the journal nor the vehicle.                        *)
LEMMA WorldFrame ==
  ASSUME TypeOK, WorldInv, UNCHANGED <<diskVars, gameVars, item, lock, archived>>,
         \A h \in Garages : op'[Store(h)] = op[Store(h)],
         \A o \in GarageOps : op'[o] = "pending" /\ receipt'[o] = "kept"
                                => op[o] = "pending" /\ receipt[o] = "kept"
  PROVE  WorldInv'
<1>1. UNCHANGED <<journal, live, saved, deleting, pending, sold, soldSaved>>
  BY DEF diskVars, gameVars
<1>2. \A o \in GarageOps : Undone(o)' BY <1>1 DEF WorldInv, Undone
<1>3. ASSUME NEW h \in Garages PROVE (HeldInv(h) => HeldInv(h)') /\ (Stored(h)' <=> Stored(h))
  BY <1>1, <1>3 DEF HeldInv, Restorable, Leaving, Untouched, Absent, Stored
<1>4. CopiesInv' BY <1>1 DEF WorldInv, CopiesInv
<1>5. lock' = Nothing => Untouched' BY <1>1 DEF WorldInv, Untouched
<1>6. \A r \in Retrieves : Retrieve(r) \in pending' => Absent'
  BY <1>1 DEF WorldInv, Absent
<1> QED BY <1>1, <1>2, <1>3, <1>4, <1>5, <1>6 DEF WorldInv

(* The vehicle or its saved copy: neither custody nor the journal.         *)
LEMMA VehicleMoves ==
  ASSUME TypeOK, WorldInv, UNCHANGED <<item, lock, archived, op, journal>>,
         \A o \in GarageOps : receipt'[o] = "kept" => receipt[o] = "kept",
         \A r \in Retrieves : Retrieve(r) \in pending' => Retrieve(r) \in pending,
         CopiesInv', Untouched => Untouched', Absent => Absent',
         \A g \in Garages : HeldInv(g) => HeldInv(g)'
  PROVE  WorldInv'
<1>1. \A o \in GarageOps : Undone(o)' BY DEF WorldInv, Undone
<1>2. \A h \in Garages : Stored(h)' <=> Stored(h) BY DEF Stored
<1> QED BY <1>1, <1>2 DEF WorldInv

(* The game answers the command of the garage it is working on.            *)
LEMMA JournalMoves ==
  ASSUME TypeOK, CycleInv, WorldInv, NEW g \in Garages, lock = g, item[g] # "absent",
         UNCHANGED <<item, lock, archived, op>>,
         \A h \in Garages : h # g => journal'[h] = journal[h],
         \A o \in GarageOps : Undone(o)' \/ (o[2] # g /\ receipt'[o] = receipt[o]),
         \A r \in Retrieves : Retrieve(r) \in pending' => Absent',
         CopiesInv', HeldInv(g)'
  PROVE  WorldInv'
<1>1. ASSUME NEW o \in GarageOps PROVE Undone(o)'
  <2>1. o[1] # "retrieve" => o[2] \in Garages BY GarageOpKinds
  <2> QED BY <1>1, <2>1 DEF WorldInv, Undone
<1>2. \A h \in Garages : Stored(h)' <=> Stored(h) BY DEF Stored
<1>3. lock' # Nothing BY NothingIsNone
<1> QED BY <1>1, <1>2, <1>3 DEF WorldInv

LEMMA StoreWorld ==
  ASSUME TypeOK, CycleInv, WorldInv, NEW g \in Garages, StoreRequest(g)
  PROVE  WorldInv'
<1>1. /\ item[g] = "absent" /\ lock = Nothing /\ lock' = g
      /\ item' = [item EXCEPT ![g] = "preparing"] /\ op' = [op EXCEPT ![Prepare(g)] = "pending"]
      /\ UNCHANGED <<archived, leased, receipt, diskVars, gameVars>>
  BY DEF StoreRequest, mailboxVars
<1>2. Untouched /\ journal[g] = "none" BY <1>1 DEF WorldInv
<1>3. item'[g] = "preparing" /\ \A h \in Garages : h # g => item'[h] = item[h]
  BY <1>1 DEF TypeOK
<1>4. UNCHANGED <<journal, live, saved, deleting, sold, soldSaved>>
  BY <1>1 DEF diskVars, gameVars
<1>5. \A h \in Garages : op'[Store(h)] = op[Store(h)] BY <1>1, StoreOps DEF TypeOK
<1>6. ~Stored(g)' BY <1>1, <1>5 DEF CycleInv, Cycle, Removing, Stored
<1>7. HeldInv(g)'
  BY <1>2, <1>3, <1>4, <1>6 DEF HeldInv, Leaving, Untouched
<1>8. ASSUME NEW o \in GarageOps, op'[o] = "pending", op[o] # "pending" PROVE Undone(o)'
  <2>1. o = Prepare(g) BY <1>1, <1>8 DEF TypeOK
  <2>2. o[2] = g BY <2>1, OpNames
  <2> QED BY <1>2, <1>4, <2>2 DEF Undone
<1>9. \A o \in GarageOps : Undone(o)' \/ (op'[o] = "pending" => op[o] = "pending") BY <1>8
<1>10. lock' # Nothing BY <1>1, NothingIsNone
<1> QED BY <1>1, <1>3, <1>5, <1>6, <1>7, <1>9, <1>10, CustodyMoves DEF Active

(* A stored item moves, its garage stays locked or unlocked: where the     *)
(* vehicle is depends on the journal only.                                 *)
LEMMA StoredWorld ==
  ASSUME TypeOK, CycleInv, WorldInv, NEW g \in Garages, Stored(g),
         item' = item \/ \E state \in After : item' = [item EXCEPT ![g] = state],
         UNCHANGED <<lock, archived, diskVars, gameVars>>,
         \A h \in Garages : op'[Store(h)] = op[Store(h)],
         \A o \in GarageOps : o[1] # "retrieve" /\ op'[o] = "pending" /\ receipt'[o] = "kept"
                                => op[o] = "pending" /\ receipt[o] = "kept"
  PROVE  WorldInv'
<1>1. Cycle(g) BY DEF CycleInv
<1>2. item[g] \in After /\ g \in archived BY <1>1 DEF Cycle, Removing, Stored
<1>3. item'[g] \in After /\ \A h \in Garages : h # g => item'[h] = item[h] BY <1>2 DEF TypeOK
<1>4. UNCHANGED <<journal, live, saved, deleting, sold, soldSaved>> BY DEF diskVars, gameVars
<1>5. HeldInv(g) => HeldInv(g)'
  BY <1>2, <1>3, <1>4 DEF HeldInv, Restorable, Leaving, After, Absent, Stored
<1>6. lock' # g /\ Stored(g)' => journal[g] = "restored" BY DEF WorldInv
<1>7. lock' = Nothing => Untouched BY DEF WorldInv
<1>8. item'[g] # "absent" BY <1>3 DEF After
<1>9. \A o \in GarageOps : \/ Undone(o)'
                           \/ op'[o] = "pending" /\ receipt'[o] = "kept" => Active(o) /\ receipt[o] = "kept"
  BY DEF Undone, Active
<1>10. lock' = g => HeldInv(g)' BY <1>5 DEF WorldInv
<1> QED BY <1>3, <1>6, <1>7, <1>8, <1>9, <1>10, CustodyMoves

LEMMA RetrieveWorld ==
  ASSUME TypeOK, CycleInv, WorldInv, NEW r \in Retrieves, RetrieveRequest(r)
  PROVE  WorldInv'
<1>1. PICK g \in Garages : g = lock
  BY DEF TypeOK, RetrieveRequest
<1>2. /\ item[g] = "stored" /\ item' = [item EXCEPT ![g] = "retrieving"]
      /\ op' = [op EXCEPT ![Retrieve(r)] = "pending"]
      /\ UNCHANGED <<lock, archived, receipt, diskVars, gameVars>>
  BY <1>1 DEF RetrieveRequest, mailboxVars
<1>3. Stored(g) BY <1>2 DEF CycleInv, Cycle, After
<1>4. \A h \in Garages : op'[Store(h)] = op[Store(h)] BY <1>2, StoreOps DEF TypeOK
<1>5. ASSUME NEW o \in GarageOps, o[1] # "retrieve" PROVE op'[o] = op[o]
  BY <1>2, <1>5, OpNames, GarageOpsAreOps DEF TypeOK
<1>6. "retrieving" \in After BY DEF After
<1> QED BY <1>2, <1>3, <1>4, <1>5, <1>6, StoredWorld

(* What a receipt of the garage is turned into.                            *)
LEMMA PostedFrame ==
  ASSUME TypeOK, NEW o \in Ops, PostReceipt(o) \/ HandlerStops(o)
  PROVE  /\ UNCHANGED <<leased, diskVars, gameVars>> /\ receipt[o] # "none"
         /\ \A p \in Ops : receipt'[p] = "kept" => receipt[p] = "kept"
<1>1. CASE PostReceipt(o)
  <2>1. UNCHANGED <<leased, diskVars, gameVars>> /\ receipt[o] # "none" BY <1>1, PostFrame
  <2>2. \A p \in Ops : receipt'[p] = "kept" => receipt[p] = "kept" BY <1>1, PostFrame
  <2> QED BY <2>1, <2>2
<1>2. CASE HandlerStops(o) BY <1>2 DEF HandlerStops, mailboxVars
<1> QED BY <1>1, <1>2

(* Before the store is complete: the item moves and the garage stays       *)
(* locked, or the game is known to have done nothing.                      *)
LEMMA LeavingWorld ==
  ASSUME TypeOK, CycleInv, WorldInv, NEW g \in Garages, lock = g, ~Stored(g), ~Stored(g)',
         UNCHANGED <<diskVars, gameVars, leased>>, archived \subseteq archived',
         NEW state \in {"removing", "awaiting_store_save", "review_required", "failed"},
         item' = [item EXCEPT ![g] = state],
         state # "failed" => lock' = lock, state = "failed" => lock' = Nothing /\ Untouched,
         state \in {"removing", "awaiting_store_save"} => Leaving(g),
         state = "review_required" /\ g \notin archived' => Untouched,
         \A h \in Garages : h # g => op'[Store(h)] = op[Store(h)],
         \A o \in GarageOps : \/ Undone(o)'
                              \/ op'[o] = "pending" /\ receipt'[o] = "kept" => Active(o) /\ receipt[o] = "kept"
  PROVE  WorldInv'
<1>1. item'[g] = state /\ \A h \in Garages : h # g => item'[h] = item[h] BY DEF TypeOK
<1>2. UNCHANGED <<journal, live, saved, deleting, sold, soldSaved>> BY DEF diskVars, gameVars
<1>3. HeldInv(g) BY DEF WorldInv
<1>4. state # "failed" => HeldInv(g)'
  BY <1>1, <1>2, <1>3 DEF HeldInv, Leaving, Untouched
<1>5. g # Nothing BY NothingIsNone
<1>6. lock' = Nothing => Untouched BY <1>5
<1>7. lock' = lock \/ (lock \in {g, Nothing} /\ lock' \in {g, Nothing}) OBVIOUS
<1>8. lock' = g => HeldInv(g)' BY <1>4, <1>5
<1>9. item'[g] # "absent" BY <1>1
<1> QED BY <1>1, <1>6, <1>7, <1>8, <1>9, CustodyMoves

LEMMA PreparedWorld ==
  ASSUME TypeOK, CycleInv, WorldInv, NEW g \in Garages,
         PostReceipt(Prepare(g)) \/ HandlerStops(Prepare(g))
  PROVE  WorldInv'
<1> DEFINE o == Prepare(g)
<1>1. /\ o \in Ops /\ o \in GarageOps /\ o[1] = "prepare" /\ o[2] = g /\ OpGarage(o) = g
      /\ Store(g) \in Ops /\ Store(g) # o
  BY OpNames, GarageOpNames, StoreOps
<1>2. UNCHANGED <<leased, diskVars, gameVars>> /\ \A p \in GarageOps : receipt'[p] = "kept" => receipt[p] = "kept"
  BY <1>1, PostedFrame, GarageOpsAreOps
<1>3. Cycle(g) BY DEF CycleInv
<1>4. lock = g => HeldInv(g) BY DEF WorldInv
<1> HIDE DEF o
<1>5. CASE UNCHANGED <<item, lock, archived, op>> BY <1>2, <1>5, WorldFrame
<1>6. ASSUME NEW state \in OpStates \ {"pending"}, op' = [op EXCEPT ![o] = state] \/ op' = op
      PROVE  /\ \A h \in Garages : op'[Store(h)] = op[Store(h)]
             /\ \A p \in GarageOps : op'[p] = "pending" => op[p] = "pending"
  BY <1>1, <1>6, StoreOps, GarageOpsAreOps DEF TypeOK, o
<1>7. CASE CanCapture(o) /\ Capture(o) /\ g \notin archived
  <2>1. /\ item[g] = "preparing" /\ item' = [item EXCEPT ![g] = "removing"] /\ lock' = lock
        /\ op' = [op EXCEPT ![o] = "succeeded", ![Store(g)] = "pending"]
        /\ archived' = archived \union {g}
    BY <1>1, <1>7 DEF CanCapture, Capture
  <2>2. op[Store(g)] = "absent" BY <1>3, <1>7 DEF Cycle, Removing
  <2>3. lock = g BY <1>3, <2>1, <2>2 DEF Cycle, Stored, Held, ItemStates
  <2>4. op'[Store(g)] = "pending" BY <1>1, <2>1 DEF TypeOK
  <2>5. ~Stored(g) /\ ~Stored(g)' /\ Leaving(g) BY <2>1, <2>2, <2>4 DEF Stored, Leaving
  <2>6. journal[g] \in {"none", "prepared"} BY <1>4, <2>1, <2>3 DEF HeldInv
  <2>7. \A h \in Garages : h # g => op'[Store(h)] = op[Store(h)]
    BY <1>1, <2>1, StoreOps DEF TypeOK, o
  <2>8. ASSUME NEW p \in GarageOps
        PROVE  Undone(p)' \/ (op'[p] = "pending" => op[p] = "pending")
    <3>1. CASE p = Store(g)
      <4>1. p[2] = g /\ journal' = journal BY <1>2, <3>1, OpNames DEF diskVars
      <4> QED BY <2>6, <4>1 DEF Undone
    <3>2. CASE p # Store(g) BY <1>1, <2>1, <3>2, GarageOpsAreOps DEF TypeOK
    <3> QED BY <3>1, <3>2
  <2> QED BY <1>2, <2>1, <2>3, <2>5, <2>7, <2>8, LeavingWorld DEF Active
<1>8. CASE CanRefuse(o) /\ Refuse(o)
  <2>1. /\ receipt[o] = "kept" /\ op[o] # "succeeded" /\ archived' = archived
        /\ item' = [item EXCEPT ![g] = "failed"] /\ op' = [op EXCEPT ![o] = "failed"]
        /\ lock' = IF lock = g THEN Nothing ELSE lock
    BY <1>1, <1>8 DEF CanRefuse, Refuse
  <2>2. op[Store(g)] = "absent" BY <1>3, <2>1 DEF Cycle, Removing, o
  <2>3. /\ \A h \in Garages : op'[Store(h)] = op[Store(h)]
        /\ \A p \in GarageOps : op'[p] = "pending" => op[p] = "pending"
    BY <1>6, <2>1 DEF OpStates
  <2>4. ~Stored(g) /\ ~Stored(g)' BY <2>2, <2>3 DEF Stored
  <2>5. CASE op[o] = "pending"
    <3>1. Active(o) BY <2>1, <2>5 DEF Active
    <3>2. lock = g /\ item[g] = "preparing" BY <1>1, <3>1, StoreActive DEF o
    <3>3. Untouched BY <1>4, <3>2 DEF HeldInv, Leaving
    <3> QED BY <1>2, <2>1, <2>3, <2>4, <3>2, <3>3, LeavingWorld DEF Active
  <2>6. CASE op[o] # "pending"
    <3>1. item[g] = "failed" BY <1>3, <2>1, <2>6 DEF Cycle, Preparing, o
    <3>2. item' = item BY <2>1, <3>1 DEF TypeOK
    <3>3. lock' = lock BY <1>3, <2>1, <2>4, <3>1 DEF Cycle, Held
    <3> QED BY <1>2, <2>1, <2>3, <3>2, <3>3, WorldFrame
  <2> QED BY <2>5, <2>6
<1>9. CASE /\ CanReview(o) /\ UNCHANGED <<lock, archived>>
           /\ item' = [item EXCEPT ![g] = "review_required"]
           /\ op' = [op EXCEPT ![o] = "reconciliation_required"] \/ op' = op
  <2>1. receipt[o] = "unproven" /\ op[o] # "succeeded" BY <1>9 DEF CanReview
  <2>2. op[Store(g)] = "absent" BY <1>3, <2>1 DEF Cycle, Removing, o
  <2>3. /\ \A h \in Garages : op'[Store(h)] = op[Store(h)]
        /\ \A p \in GarageOps : op'[p] = "pending" => op[p] = "pending"
    BY <1>6, <1>9 DEF OpStates
  <2>4. ~Stored(g) /\ ~Stored(g)' BY <2>2, <2>3 DEF Stored
  <2>5. item[g] \in {"preparing", "review_required"} BY <1>3, <2>1 DEF Cycle, Preparing, o
  <2>6. lock = g BY <1>3, <2>4, <2>5 DEF Cycle, Held, ItemStates
  <2>7. g \notin archived => Untouched BY <1>4, <2>5, <2>6 DEF HeldInv, Leaving
  <2> QED BY <1>2, <1>9, <2>3, <2>4, <2>6, <2>7, LeavingWorld DEF Active
<1>10. CASE CanCapture(o) /\ Capture(o) /\ g \in archived
  BY <1>1, <1>5, <1>10 DEF Capture
<1>11. Handle(o) => \/ CanCapture(o) /\ Capture(o)
                    \/ CanRefuse(o) /\ Refuse(o)
                    \/ CanReview(o) /\ Review(o)
  BY <1>1 DEF Handle, CanApply, CanSettle
<1>12. CASE PostReceipt(o) /\ ~Handle(o) BY <1>5, <1>12 DEF PostReceipt
<1>13. CASE HandlerStops(o)
  <2>1. UNCHANGED <<lock, archived, op>> /\ ~CanApply(o)
    BY <1>1, <1>13 DEF HandlerStops, CanApply
  <2> QED BY <1>1, <1>9, <1>13, <2>1 DEF HandlerStops
<1>14. CASE CanReview(o) /\ Review(o) BY <1>1, <1>9, <1>14 DEF Review
<1> QED BY <1>7, <1>8, <1>10, <1>11, <1>12, <1>13, <1>14 DEF o

LEMMA RemovedWorld ==
  ASSUME TypeOK, CycleInv, WorldInv, NEW g \in Garages,
         PostReceipt(Store(g)) \/ HandlerStops(Store(g))
  PROVE  WorldInv'
<1> DEFINE o == Store(g)
<1>1. /\ o \in Ops /\ o \in GarageOps /\ o[1] = "store" /\ o[2] = g /\ OpGarage(o) = g
      /\ Awaited(o) = "awaiting_store_save"
  BY OpNames, GarageOpNames, StoreOps DEF Awaited
<1>2. UNCHANGED <<leased, diskVars, gameVars>> /\ \A p \in GarageOps : receipt'[p] = "kept" => receipt[p] = "kept"
  BY <1>1, PostedFrame, GarageOpsAreOps
<1>3. Cycle(g) BY DEF CycleInv
<1>4. lock = g => HeldInv(g) BY DEF WorldInv
<1> HIDE DEF o
<1>5. CASE UNCHANGED <<item, lock, archived, op>> BY <1>2, <1>5, WorldFrame
<1>6. ASSUME NEW state \in OpStates \ {"pending"}, op' = [op EXCEPT ![o] = state] \/ op' = op
      PROVE  /\ \A h \in Garages : h # g => op'[Store(h)] = op[Store(h)]
             /\ \A p \in GarageOps : op'[p] = "pending" => op[p] = "pending"
             /\ op'[o] \in {op[o], state}
  BY <1>1, <1>6, StoreOps, GarageOpsAreOps DEF TypeOK, o
<1>7. CASE /\ CanApply(o) /\ op[o] # "succeeded" /\ UNCHANGED <<lock, archived>>
           /\ item' = [item EXCEPT ![g] = "awaiting_store_save"]
           /\ op' = [op EXCEPT ![o] = "awaiting_save"] \/ op' = op
  <2>1. item[g] \in {"removing", "awaiting_store_save"}
    BY <1>1, <1>7 DEF CanApply
  <2>2. ~Stored(g) BY <1>7 DEF Stored, o
  <2>3. lock = g /\ Leaving(g) BY <1>3, <2>1, <2>2 DEF Cycle, Held, ItemStates, Leaving
  <2>4. /\ \A h \in Garages : h # g => op'[Store(h)] = op[Store(h)]
        /\ \A p \in GarageOps : op'[p] = "pending" => op[p] = "pending"
        /\ op'[o] \in {op[o], "awaiting_save"}
    BY <1>6, <1>7 DEF OpStates
  <2>5. ~Stored(g)' BY <1>7, <2>4 DEF Stored, o
  <2> QED BY <1>2, <1>7, <2>2, <2>3, <2>4, <2>5, LeavingWorld DEF Active
<1>8. CASE CanRefuse(o) /\ Refuse(o)
  <2>1. /\ receipt[o] = "kept" /\ op[o] # "succeeded" /\ archived' = archived
        /\ item' = [item EXCEPT ![g] = "failed"] /\ op' = [op EXCEPT ![o] = "failed"]
        /\ lock' = IF lock = g THEN Nothing ELSE lock
    BY <1>1, <1>8 DEF CanRefuse, Refuse
  <2>2. /\ \A h \in Garages : h # g => op'[Store(h)] = op[Store(h)]
        /\ \A p \in GarageOps : op'[p] = "pending" => op[p] = "pending"
        /\ op'[o] \in {op[o], "failed"}
    BY <1>6, <2>1 DEF OpStates
  <2>3. ~Stored(g) /\ ~Stored(g)' BY <2>1, <2>2 DEF Stored, o
  <2>4. CASE op[o] = "pending"
    <3>1. Active(o) BY <2>1, <2>4 DEF Active
    <3>2. lock = g /\ item[g] = "removing" BY <1>1, <3>1, StoreActive DEF o
    <3>3. journal[g] \in {"none", "prepared"} BY <1>1, <2>1, <2>4 DEF WorldInv, Undone
    <3>4. Untouched BY <1>4, <3>2, <3>3 DEF HeldInv, Leaving
    <3> QED BY <1>2, <2>1, <2>2, <2>3, <3>2, <3>4, LeavingWorld DEF Active
  <2>5. CASE op[o] # "pending"
    <3>1. item[g] = "failed" /\ op[o] = "failed" BY <1>3, <2>1, <2>5 DEF Cycle, Removing, o
    <3>2. item' = item /\ op' = op BY <1>1, <2>1, <3>1 DEF TypeOK
    <3>3. lock' = lock BY <1>3, <2>1, <2>3, <3>1 DEF Cycle, Held
    <3> QED BY <1>5, <2>1, <3>2, <3>3
  <2> QED BY <2>4, <2>5
<1>9. CASE /\ CanReview(o) /\ UNCHANGED <<lock, archived>>
           /\ item' = [item EXCEPT ![g] = "review_required"]
           /\ op' = [op EXCEPT ![o] = "reconciliation_required"] \/ op' = op
  <2>1. receipt[o] = "unproven" /\ op[o] # "succeeded" BY <1>9 DEF CanReview
  <2>2. /\ \A h \in Garages : h # g => op'[Store(h)] = op[Store(h)]
        /\ \A p \in GarageOps : op'[p] = "pending" => op[p] = "pending"
        /\ op'[o] \in {op[o], "reconciliation_required"}
    BY <1>6, <1>9 DEF OpStates
  <2>3. ~Stored(g) /\ ~Stored(g)' BY <2>1, <2>2 DEF Stored, o
  <2>4. op[o] # "absent" /\ item[g] \in {"removing", "review_required"}
    BY <1>3, <2>1 DEF Cycle, Removing, o
  <2>5. lock = g /\ g \in archived
    BY <1>3, <2>3, <2>4 DEF Cycle, Removing, Held, ItemStates, o
  <2> QED BY <1>2, <1>9, <2>2, <2>3, <2>5, LeavingWorld DEF Active
<1>10. CASE CanApply(o) /\ Apply(o)
  <2>1. CASE op[o] = "succeeded" BY <1>5, <1>10, <2>1 DEF Apply
  <2>2. CASE op[o] # "succeeded" BY <1>1, <1>7, <1>10, <2>2 DEF Apply
  <2> QED BY <2>1, <2>2
<1>11. Handle(o) => \/ CanApply(o) /\ Apply(o)
                    \/ CanRefuse(o) /\ Refuse(o)
                    \/ CanReview(o) /\ Review(o)
  BY <1>1 DEF Handle, CanCapture, CanSettle
<1>12. CASE PostReceipt(o) /\ ~Handle(o) BY <1>5, <1>12 DEF PostReceipt
<1>13. CASE HandlerStops(o)
  <2>1. UNCHANGED <<lock, archived, op>> BY <1>13 DEF HandlerStops
  <2> QED BY <1>1, <1>7, <1>9, <1>13, <2>1 DEF HandlerStops
<1>14. CASE CanReview(o) /\ Review(o) BY <1>1, <1>9, <1>14 DEF Review
<1> QED BY <1>8, <1>10, <1>11, <1>12, <1>13, <1>14 DEF o

LEMMA RestoredWorld ==
  ASSUME TypeOK, RequestInv, CycleInv, WorldInv, NEW r \in Retrieves,
         PostReceipt(Retrieve(r)) \/ HandlerStops(Retrieve(r))
  PROVE  WorldInv'
<1>1. Retrieve(r) \in Ops /\ Retrieve(r) \in GarageOps BY OpNames, GarageOpsAreOps
<1>2. UNCHANGED <<leased, diskVars, gameVars>> /\ \A p \in GarageOps : receipt'[p] = "kept" => receipt[p] = "kept"
  BY <1>1, PostedFrame, GarageOpsAreOps
<1>3. PICK g \in Garages :
        /\ Stored(g) /\ UNCHANGED <<lock, archived>>
        /\ item' = item \/ \E state \in After : item' = [item EXCEPT ![g] = state]
        /\ \A p \in Ops : p # Retrieve(r) => op'[p] = op[p]
  BY RestoredMoves
<1>4. \A h \in Garages : op'[Store(h)] = op[Store(h)] BY <1>3, StoreOps
<1>5. ASSUME NEW o \in GarageOps, o[1] # "retrieve" PROVE op'[o] = op[o]
  BY <1>3, <1>5, OpNames, GarageOpsAreOps
<1> QED BY <1>2, <1>3, <1>4, <1>5, StoredWorld

LEMMA PostWorld ==
  ASSUME TypeOK, RequestInv, CycleInv, WorldInv, NEW o \in Ops, PostReceipt(o) \/ HandlerStops(o)
  PROVE  WorldInv'
<1>1. CASE o[1] = "transfer"
  <2>1. o \notin GarageOps /\ ~HandlerStops(o)
    BY <1>1, OpKinds DEF HandlerStops, CanApply, CanReview
  <2>2. UNCHANGED <<leased, diskVars, gameVars>> /\ \A p \in GarageOps : receipt'[p] = "kept" => receipt[p] = "kept"
    BY PostedFrame, GarageOpsAreOps
  <2>3. UNCHANGED <<item, lock, archived>> /\ \A p \in GarageOps : op'[p] = op[p]
    <3>1. CASE ~Handle(o) BY <2>1, <3>1 DEF PostReceipt
    <3>2. CASE Handle(o)
      <4>1. Settle(o) BY <1>1, <2>1, <3>2 DEF Handle, CanCapture, CanApply, CanRefuse, CanReview
      <4> QED BY <2>1, <4>1, GarageOpsAreOps DEF TypeOK, Settle
    <3> QED BY <3>1, <3>2
  <2> QED BY <2>2, <2>3, WorldFrame, GarageOpNames
<1>2. CASE o[1] = "prepare" BY <1>2, OpKinds, PreparedWorld
<1>3. CASE o[1] = "store" BY <1>3, OpKinds, RemovedWorld
<1>4. CASE o[1] = "retrieve" BY <1>4, OpKinds, RestoredWorld
<1> QED BY <1>1, <1>2, <1>3, <1>4, OpKinds

(* The native save proves the store or the restoration.                    *)
LEMMA CheckpointWorld ==
  ASSUME TypeOK, CycleInv, WorldInv, NEW g \in Garages, Checkpoint(g)
  PROVE  WorldInv'
<1>1. /\ UNCHANGED <<archived, leased, receipt, diskVars, gameVars>> /\ Cycle(g)
      /\ item' = [item EXCEPT ![g] = IF Gone(g) THEN "stored" ELSE "retrieved"]
      /\ op' = [op EXCEPT ![IF Gone(g) THEN Store(g) ELSE Retrieve(retrieval[g])] = "succeeded"]
      /\ lock' = IF ~Gone(g) /\ lock = g THEN Nothing ELSE lock
      /\ item[g] \in {"awaiting_store_save", "awaiting_retrieve_save"} /\ Proven(g)
  BY DEF Checkpoint, mailboxVars, CycleInv
<1>2. /\ \A h \in Garages : h # g => op'[Store(h)] = op[Store(h)]
      /\ \A p \in GarageOps : op'[p] = "pending" => op[p] = "pending"
  BY <1>1, StoreOps, GarageOpsAreOps DEF TypeOK
<1>3. item'[g] # "absent" /\ \A h \in Garages : h # g => item'[h] = item[h] BY <1>1 DEF TypeOK
<1>4. UNCHANGED <<journal, live, saved, deleting, sold, soldSaved>> BY <1>1 DEF diskVars, gameVars
<1>5. lock = g => HeldInv(g) BY DEF WorldInv
<1>6. CASE Gone(g)
  <2>1. item[g] = "awaiting_store_save" /\ item'[g] = "stored" /\ lock' = lock
    BY <1>1, <1>6 DEF TypeOK, Gone
  <2>2. ~Stored(g) BY <1>1, <2>1 DEF Cycle, Removing, After, Stored
  <2>3. lock = g BY <1>1, <2>1, <2>2 DEF Cycle, Held, ItemStates
  <2>4. saved = <<>> /\ journal[g] = "removed"
    BY <1>1, <1>6 DEF Proven, Expected
  <2>5. Absent
    BY <1>5, <2>1, <2>3, <2>4 DEF HeldInv, Leaving, Absent, WorldInv, CopiesInv
  <2>6. HeldInv(g)'
    BY <1>4, <2>1, <2>4, <2>5 DEF HeldInv, Restorable, Leaving, Absent
  <2>7. lock' # Nothing /\ lock' = g BY <2>1, <2>3, NothingIsNone
  <2> QED BY <1>1, <1>2, <1>3, <2>1, <2>6, <2>7, CustodyMoves DEF Active
<1>7. CASE ~Gone(g)
  <2>1. item[g] = "awaiting_retrieve_save" BY <1>1, <1>7 DEF Gone
  <2>2. Stored(g) BY <1>1, <2>1 DEF Cycle, After
  <2>3. saved = Expected(g) /\ Expected(g) # <<>> /\ journal[g] = "restored"
    BY <1>1, <1>7, OneCopy DEF Proven, Expected
  <2>4. Len(live) = 1 \/ live = <<>>
    BY AtMostOne DEF WorldInv, CopiesInv, TypeOK
  <2>5. Len(saved) = 1
    BY <2>3, AtMostOne DEF WorldInv, CopiesInv, TypeOK
  <2>6. lock = g => Untouched
    <3>1. lock = g => ~deleting /\ saved # <<>> /\ (live = <<>> => sold)
      BY <1>5, <2>2, <2>3 DEF HeldInv, Restorable
    <3>2. lock = g => Len(live) = 1 \/ sold BY <2>4, <3>1
    <3> QED BY <2>5, <3>1, <3>2 DEF Untouched
  <2>7. g # Nothing BY NothingIsNone
  <2>8. lock' # g /\ (lock' = Nothing => Untouched) BY <1>1, <1>7, <2>6, <2>7 DEF WorldInv
  <2>9. lock' = lock \/ (lock \in {g, Nothing} /\ lock' \in {g, Nothing}) BY <1>1
  <2> QED BY <1>1, <1>2, <1>3, <2>3, <2>8, <2>9, CustodyMoves DEF Active
<1> QED BY <1>6, <1>7

(* The world without the Agent: natively deleted, saved, reloaded, sold.   *)
LEMMA NativeWorld ==
  ASSUME TypeOK, WorldInv, NativeDelete \/ NativeSave \/ Crash \/ PlayerSells
  PROVE  WorldInv'
<1>1. UNCHANGED <<item, lock, archived, leased, op, receipt, journal>>
  BY DEF NativeDelete, NativeSave, Crash, PlayerSells, custodyVars, mailboxVars, diskVars
<1>2. /\ Len(live) \in Nat /\ (live = <<>> <=> Len(live) = 0) /\ Len(live) <= 1
      /\ Len(saved) \in Nat /\ (saved = <<>> <=> Len(saved) = 0) /\ Len(saved) <= 1
      /\ deleting \in BOOLEAN /\ sold \in BOOLEAN /\ soldSaved \in BOOLEAN
      /\ (deleting => live # <<>>) /\ Len(<<>>) = 0
  BY Copies DEF WorldInv, CopiesInv, TypeOK
<1>3. /\ "sale" \notin Hazards => ~sold /\ ~soldSaved
      /\ Len(live) = 1 \/ live = <<>>
  BY <1>2 DEF WorldInv, CopiesInv
<1>4. CASE NativeDelete
  <2>1. deleting /\ ~deleting' /\ live' = <<>> /\ UNCHANGED <<saved, sold, soldSaved, pending>>
    BY <1>4 DEF NativeDelete, diskVars
  <2>2. CopiesInv' BY <1>2, <1>3, <2>1 DEF CopiesInv
  <2>3. ~Untouched /\ ~Absent BY <2>1 DEF Untouched, Absent
  <2>4. \A h \in Garages : HeldInv(h) => HeldInv(h)'
    BY <1>1, <2>1, <2>3 DEF HeldInv, Restorable, Leaving, Stored
  <2> QED BY <1>1, <2>1, <2>2, <2>3, <2>4, VehicleMoves
<1>5. CASE NativeSave
  <2>1. saved' = live /\ soldSaved' = sold /\ UNCHANGED <<live, deleting, sold, pending>>
    BY <1>5 DEF NativeSave, gameVars
  <2>2. CopiesInv' BY <1>2, <1>3, <2>1 DEF CopiesInv
  <2>3. (Untouched => Untouched') /\ (Absent => Absent')
    BY <2>1 DEF Untouched, Absent
  <2>4. \A h \in Garages : HeldInv(h) => HeldInv(h)'
    BY <1>1, <1>3, <2>1, <2>3 DEF HeldInv, Restorable, Leaving, Stored
  <2> QED BY <1>1, <2>1, <2>2, <2>3, <2>4, VehicleMoves
<1>6. CASE Crash
  <2>1. live' = saved /\ sold' = soldSaved /\ ~deleting' /\ pending' = {} /\ UNCHANGED <<saved, soldSaved>>
    BY <1>6 DEF Crash, diskVars
  <2>2. CopiesInv' BY <1>2, <1>3, <2>1 DEF CopiesInv
  <2>3. (Untouched => Untouched') /\ (Absent => Absent')
    BY <2>1 DEF Untouched, Absent
  <2>4. \A h \in Garages : HeldInv(h) => HeldInv(h)'
    BY <1>1, <1>2, <2>1, <2>3 DEF HeldInv, Restorable, Leaving, Stored
  <2> QED BY <1>1, <2>1, <2>2, <2>3, <2>4, VehicleMoves
<1>7. CASE PlayerSells
  <2>1. /\ Len(live) = 1 /\ ~deleting /\ live' = <<>> /\ sold' = TRUE /\ "sale" \in Hazards
        /\ UNCHANGED <<saved, soldSaved, deleting, pending>>
    BY <1>7 DEF PlayerSells, Fault, diskVars
  <2>2. CopiesInv' BY <1>2, <2>1 DEF CopiesInv
  <2>3. (Untouched => Untouched') /\ ~Absent
    BY <1>2, <2>1 DEF Untouched, Absent
  <2>4. \A h \in Garages : HeldInv(h) => HeldInv(h)'
    BY <1>1, <1>2, <2>1, <2>3 DEF HeldInv, Restorable, Leaving, Stored
  <2> QED BY <1>1, <2>1, <2>2, <2>3, <2>4, VehicleMoves
<1> QED BY <1>4, <1>5, <1>6, <1>7

(* What is known of a vehicle that is about to be stored.                  *)
LEMMA StoreCommanded ==
  ASSUME TypeOK, StoreDelivery, CycleInv, WorldInv, NEW g \in Garages,
         NEW o \in {Prepare(g), Store(g)}, o \in commands
  PROVE  /\ lock = g /\ ~Stored(g) /\ HeldInv(g) /\ o \in GarageOps /\ o[2] = g
         /\ item[g] # "absent" /\ op[o] = "pending"
         /\ o[1] = "prepare" => item[g] = "preparing"
         /\ o[1] = "store" => item[g] = "removing"
<1>1. op[o] = "pending" /\ receipt[o] = "none" BY DEF StoreDelivery, Unanswered
<1>2. Active(o) BY <1>1 DEF Active
<1> QED BY <1>1, <1>2, StoreActive DEF WorldInv

(* The command leaves the vehicle alone; it may write the journal.         *)
LEMMA ProcessStoreWorld ==
  ASSUME TypeOK, RequestInv, LoadInv, StoreDelivery, CycleInv, WorldInv,
         NEW g \in Garages, NEW o \in {Prepare(g), Store(g)}, Process(o)
  PROVE  WorldInv'
<1>1. o \in Ops BY StoreOps
<1>2. /\ Answered(o) /\ o \in commands /\ receipt[o] = "none"
      /\ UNCHANGED <<item, lock, archived, leased, op, saved, soldSaved, sold>>
  BY <1>1, ProcessAnswers, GameFrame DEF custodyVars
<1>3. /\ lock = g /\ ~Stored(g) /\ HeldInv(g) /\ o \in GarageOps /\ o[2] = g
      /\ item[g] # "absent"
      /\ o[1] = "prepare" => item[g] = "preparing"
      /\ o[1] = "store" => item[g] = "removing"
  BY <1>2, StoreCommanded
<1>4. o[1] \in {"prepare", "store"} BY OpNames
<1>5. \A p \in GarageOps : p # o => receipt'[p] = receipt[p]
  BY <1>2, GarageOpsAreOps DEF Answered, TypeOK
<1>6. ASSUME NEW r \in Retrieves PROVE Retrieve(r) \notin pending'
  <2>1. Retrieve(r) # o BY StoreOps
  <2>2. Retrieve(r) \in pending' => Retrieve(r) \in pending
    BY <1>2, <2>1 DEF Answered
  <2> QED BY <1>3, <2>2, LoadLocks
<1>7. ~Stored(g)' BY <1>2, <1>3 DEF Stored
<1>8. CopiesInv BY DEF WorldInv
<1>9. journal[g] \in {"none", "prepared"} => Untouched BY <1>3, <1>4 DEF HeldInv, Leaving
<1>10. ASSUME \A h \in Garages : h # g => journal'[h] = journal[h], CopiesInv', HeldInv(g)',
              receipt'[o] = "kept" => journal'[g] \in {"none", "prepared"}
       PROVE  WorldInv'
  <2>1. ASSUME NEW p \in GarageOps PROVE Undone(p)' \/ (p[2] # g /\ receipt'[p] = receipt[p])
    <3>1. CASE p = o BY <1>3, <1>10, <3>1 DEF Undone
    <3>2. CASE p # o /\ p[2] = g /\ p[1] # "retrieve"
      <4>1. p \in {Prepare(g), Store(g)} BY <3>2, GarageOpKinds
      <4>2. ~Active(p)
        <5>1. ASSUME Active(p) PROVE FALSE
          <6>1. (p[1] = "prepare" => item[g] = "preparing") /\ (p[1] = "store" => item[g] = "removing")
            BY <4>1, <5>1, StoreActive
          <6>2. p[1] = o[1] BY <1>3, <1>4, <4>1, <6>1, OpNames
          <6> QED BY <1>3, <3>2, <6>2, GarageOpDiffer
        <5> QED BY <5>1
      <4>3. receipt'[p] = receipt[p] /\ op'[p] = op[p] BY <1>2, <1>5, <3>2
      <4> QED BY <4>2, <4>3 DEF Undone, Active
    <3>3. CASE p[1] = "retrieve" BY <3>3 DEF Undone
    <3>4. CASE p # o /\ p[2] # g BY <1>5, <3>4
    <3> QED BY <3>1, <3>2, <3>3, <3>4
  <2> QED BY <1>2, <1>3, <1>6, <1>10, <2>1, JournalMoves
<1>11. ASSUME NEW s \in AnswersTo(o), Declines(o, s), s = "kept" => journal[g] \in {"none", "prepared"}
       PROVE  WorldInv'
  <2>1. UNCHANGED <<journal, live, deleting>> BY <1>11 DEF Declines
  <2>2. CopiesInv' BY <1>2, <1>8, <2>1 DEF CopiesInv
  <2>3. HeldInv(g)' BY <1>2, <1>3, <1>7, <2>1 DEF HeldInv, Leaving, Untouched
  <2>4. receipt'[o] \in {s, "none"}
    BY <1>1, <1>2, <1>11 DEF Declines, Answer, TypeOK
  <2> QED BY <1>10, <1>11, <2>1, <2>2, <2>3, <2>4
<1>12. CASE ProcessPrepare(o) /\ o[1] = "prepare"
  <2>1. item[g] = "preparing" BY <1>3, <1>12
  <2>2. journal[g] \in {"none", "prepared"} BY <1>3, <2>1 DEF HeldInv
  <2>3. CASE Declines(o, Readback(o)) BY <1>11, <2>2, <2>3, ReadbackAnswers
  <2>4. ASSUME \/ journal[g] = "none" /\ WritePhase(g, "prepared")
               \/ UNCHANGED <<journal, newer>>,
               UNCHANGED <<live, deleting, pending, loads, moved>>
        PROVE  WorldInv'
    <3>1. /\ \A h \in Garages : h # g => journal'[h] = journal[h]
          /\ journal'[g] \in {"none", "prepared"}
      BY <2>2, <2>4 DEF WritePhase, TypeOK
    <3>2. CopiesInv' BY <1>2, <1>8, <2>4 DEF CopiesInv
    <3>3. Untouched' BY <1>2, <1>9, <2>2, <2>4 DEF Untouched
    <3>4. item'[g] = "preparing" BY <1>2, <2>1
    <3>5. HeldInv(g)' BY <1>7, <3>1, <3>3, <3>4 DEF HeldInv, Leaving, Untouched
    <3> QED BY <1>10, <3>1, <3>2, <3>5
  <2> QED BY <1>3, <1>12, <2>3, <2>4 DEF ProcessPrepare
<1>13. CASE ProcessStore(o) /\ o[1] = "store"
  <2>1. item[g] = "removing" BY <1>3, <1>13
  <2>2. "applied" \in AnswersTo(o) /\ "unproven" \in AnswersTo(o) BY <1>13 DEF AnswersTo
  <2>3. CASE Declines(o, "applied") \/ Declines(o, "unproven") BY <1>11, <2>2, <2>3
  <2>4. CASE journal[g] = "prepared" /\ Declines(o, Readback(o)) BY <1>11, <2>4, ReadbackAnswers
  <2>5. ASSUME live = <<source[g]>>, journal[g] = "prepared", WritePhase(g, "removing"),
               deleting' = TRUE, UNCHANGED <<receipt, live>>
        PROVE  WorldInv'
    <3>1. journal'[g] = "removing" /\ \A h \in Garages : h # g => journal'[h] = journal[h]
      BY <2>5 DEF WritePhase, TypeOK
    <3>2. live # <<>> BY <2>5, OneCopy
    <3>3. CopiesInv' BY <1>2, <1>8, <2>5, <3>2 DEF CopiesInv
    <3>4. item'[g] = "removing" BY <1>2, <2>1
    <3>5. HeldInv(g)' BY <1>2, <1>7, <1>9, <2>5, <3>1, <3>4 DEF HeldInv, Leaving, Untouched
    <3>6. receipt'[o] # "kept" BY <1>2, <2>5
    <3> QED BY <1>10, <3>1, <3>3, <3>5, <3>6
  <2> QED BY <1>3, <1>13, <2>3, <2>4, <2>5 DEF ProcessStore
<1> QED BY <1>4, <1>12, <1>13 DEF Process

(* A load begins only where the vehicle is nowhere and custody is locked.  *)
LEMMA ProcessLoadWorld ==
  ASSUME TypeOK, RequestInv, LoadInv, StoreDelivery, CycleInv, WorldInv,
         NEW r \in Retrieves, Process(Retrieve(r))
  PROVE  WorldInv'
<1> DEFINE o == Retrieve(r)
<1>1. o \in Ops /\ o \in GarageOps /\ o[1] = "retrieve" /\ o[2] = r /\ OpGarage(o) = leased[r]
  BY OpNames, GarageOpNames, GarageOpsAreOps
<1>2. /\ Answered(o) /\ o \in commands
      /\ UNCHANGED <<item, lock, archived, leased, op, saved, soldSaved, sold>>
  BY <1>1, ProcessAnswers, GameFrame DEF custodyVars
<1>3. \A p \in GarageOps : p # o => receipt'[p] = receipt[p]
  BY <1>1, <1>2, GarageOpsAreOps DEF Answered, TypeOK
<1>4. PICK g \in Garages : g = leased[r] /\ Stored(g)
  <2>1. op[o] # "absent" BY <1>1, <1>2 DEF RequestInv
  <2>2. leased[r] \in Garages BY <2>1 DEF RequestInv
  <2> QED BY <2>2, NothingIsNone DEF CycleInv
<1>5. ProcessRetrieve(o) BY <1>1 DEF Process
<1> HIDE DEF o
<1>6. CASE UNCHANGED <<journal, live, deleting, pending>>
  <2>1. \A p \in GarageOps : Undone(p)'
    BY <1>1, <1>2, <1>3, <1>6 DEF WorldInv, Undone
  <2>2. CopiesInv' /\ (Untouched => Untouched') /\ (Absent => Absent')
    BY <1>2, <1>6 DEF WorldInv, CopiesInv, Untouched, Absent
  <2>3. \A h \in Garages : (HeldInv(h) => HeldInv(h)') /\ (Stored(h)' <=> Stored(h))
    BY <1>2, <1>6 DEF HeldInv, Restorable, Leaving, Untouched, Absent, Stored
  <2> QED BY <1>2, <1>6, <2>1, <2>2, <2>3 DEF WorldInv
<1>7. ASSUME live = <<>>, NeverLoaded(g), WritePhase(g, "loading"),
             UNCHANGED <<receipt, live, deleting>>
      PROVE  WorldInv'
  <2>1. journal[g] # "restored" /\ journal'[g] = "loading"
        /\ \A h \in Garages : h # g => journal'[h] = journal[h]
    BY <1>7 DEF NeverLoaded, WritePhase, TypeOK
  <2>2. lock = g BY <1>4, <2>1 DEF WorldInv
  <2>3. HeldInv(g) BY <2>2 DEF WorldInv
  <2>4. Absent
    BY <1>4, <1>7, <2>3 DEF HeldInv, Restorable, NeverLoaded
  <2>5. Absent' BY <1>2, <1>7, <2>4 DEF Absent
  <2>6. CopiesInv' BY <1>2, <1>7 DEF WorldInv, CopiesInv
  <2>7. Cycle(g) BY DEF CycleInv
  <2>8. item[g] \in After /\ g \in archived BY <1>4, <2>7 DEF Cycle, Removing, Stored
  <2>9. HeldInv(g)'
    BY <1>2, <2>1, <2>5, <2>8 DEF HeldInv, Restorable, Leaving, After, Absent
  <2>10. ASSUME NEW p \in GarageOps PROVE Undone(p)' \/ (p[2] # g /\ receipt'[p] = receipt[p])
    <3>1. CASE p[1] # "retrieve" /\ p[2] = g
      <4>1. p \in {Prepare(g), Store(g)} BY <3>1, GarageOpKinds
      <4>2. op[p] = "succeeded" BY <1>4, <2>7, <4>1 DEF Cycle, Removing, Stored
      <4>3. op'[p] # "pending" BY <1>2, <4>2
      <4> QED BY <4>3 DEF Undone
    <3>2. CASE p[1] = "retrieve" BY <3>2 DEF Undone
    <3>3. CASE p[2] # g BY <1>7, <3>3
    <3> QED BY <3>1, <3>2, <3>3
  <2>11. item[g] # "absent" BY <2>8 DEF After
  <2> QED BY <1>2, <2>1, <2>2, <2>5, <2>6, <2>9, <2>10, <2>11, JournalMoves
<1> QED BY <1>1, <1>4, <1>5, <1>6, <1>7 DEF ProcessRetrieve, Declines

(* A transfer hands the vehicle over; nobody deletes or doubles it.        *)
LEMMA ProcessOther ==
  ASSUME TypeOK, WorldInv, NEW o \in Ops, o \notin GarageOps, Process(o)
  PROVE  WorldInv'
<1>1. /\ Answered(o) /\ UNCHANGED <<item, lock, archived, leased, op, saved, soldSaved, sold>>
  BY ProcessAnswers, GameFrame DEF custodyVars
<1>2. /\ \A p \in GarageOps : receipt'[p] = receipt[p]
      /\ \A r \in Retrieves : Retrieve(r) \in pending' => Retrieve(r) \in pending
  BY <1>1, GarageOpsAreOps, OpNames DEF Answered, TypeOK
<1>3. ProcessTransfer(o) BY OpKinds DEF Process
<1>4. UNCHANGED <<journal, deleting>> BY <1>3 DEF ProcessTransfer, Declines
<1>5. live' = live \/ (live # <<>> /\ Len(live') = 1 /\ live' # <<>>)
  <2>1. live' = live \/ (live = <<source[o[2]]>> /\ live' = <<Destination[o[2]]>>)
    BY <1>3 DEF ProcessTransfer, Declines, OwnedBySource
  <2>2. CASE live' = live BY <2>2
  <2>3. CASE live = <<source[o[2]]>> /\ live' = <<Destination[o[2]]>>
    <3>1. live # <<>> BY <2>3, OneCopy
    <3>2. Len(live') = 1 /\ live' # <<>> BY <2>3, OneCopy
    <3> QED BY <3>1, <3>2
  <2> QED BY <2>1, <2>2, <2>3
<1>6. CopiesInv'
  <2>1. Len(live') <= 1 \/ live' = live BY <1>5, NotMany
  <2> QED BY <1>1, <1>4, <1>5, <2>1 DEF WorldInv, CopiesInv
<1>7. (Untouched => Untouched') /\ (Absent => Absent')
  BY <1>1, <1>4, <1>5 DEF Untouched, Absent
<1>8. \A h \in Garages : HeldInv(h) => HeldInv(h)'
  BY <1>1, <1>4, <1>5, <1>7 DEF HeldInv, Restorable, Leaving, Stored
<1> QED BY <1>1, <1>2, <1>4, <1>6, <1>7, <1>8, VehicleMoves

(* The game sees the deletion, or gives up.                                *)
LEMMA FinishRemovalWorld ==
  ASSUME TypeOK, RequestInv, LoadInv, StoreDelivery, CycleInv, WorldInv,
         NEW o \in Ops, FinishRemoval(o)
  PROVE  WorldInv'
<1>1. /\ Answered(o) /\ o \in commands /\ o[1] = "store" /\ pending' = pending \ {o}
      /\ UNCHANGED <<item, lock, archived, leased, op, saved, soldSaved, sold, live, deleting>>
  BY FinishAnswers, GameFrame DEF FinishRemoval, StoreDelivery, custodyVars
<1>2. PICK g \in Garages : o = Store(g) /\ o[2] = g BY <1>1, OpKinds
<1>3. /\ lock = g /\ ~Stored(g) /\ HeldInv(g) /\ o \in GarageOps
      /\ item[g] # "absent" /\ item[g] = "removing"
  BY <1>1, <1>2, StoreCommanded
<1>4. \A p \in GarageOps : p # o => receipt'[p] = receipt[p]
  BY <1>1, GarageOpsAreOps DEF Answered, TypeOK
<1>5. /\ \A h \in Garages : h # g => journal'[h] = journal[h]
      /\ journal'[g] = journal[g] \/ (journal'[g] = "removed" /\ live = <<>>)
  BY <1>2 DEF FinishRemoval, WritePhase, TypeOK
<1>6. CopiesInv' BY <1>1 DEF WorldInv, CopiesInv
<1>7. item'[g] = "removing" /\ ~Stored(g)' BY <1>1, <1>3 DEF Stored
<1>8. HeldInv(g)' BY <1>1, <1>3, <1>5, <1>7 DEF HeldInv, Leaving, Untouched
<1>9. ASSUME NEW p \in GarageOps PROVE Undone(p)' \/ (p[2] # g /\ receipt'[p] = receipt[p])
  <2>1. CASE p = o
    <3>1. receipt[o] = "none" BY <1>1, <1>2 DEF StoreDelivery, Unanswered
    <3>2. receipt'[o] # "kept" BY <3>1 DEF FinishRemoval, Answer, TypeOK
    <3> QED BY <2>1, <3>2 DEF Undone
  <2>2. CASE p = Prepare(g)
    <3>1. op[Store(g)] = "pending" BY <1>1, <1>2, StoreCommanded
    <3>2. op[p] = "succeeded" BY <2>2, <3>1 DEF CycleInv, Cycle, Removing
    <3>3. op'[p] # "pending" BY <1>1, <3>2
    <3> QED BY <3>3 DEF Undone
  <2>3. CASE p[1] = "retrieve" BY <2>3 DEF Undone
  <2>4. CASE p # o /\ p # Prepare(g) /\ p[1] # "retrieve"
    <3>1. p[2] # g BY <1>2, <2>4, GarageOpKinds
    <3> QED BY <1>4, <2>4, <3>1
  <2> QED BY <2>1, <2>2, <2>3, <2>4
<1>10. ASSUME NEW r \in Retrieves PROVE Retrieve(r) \notin pending'
  BY <1>1, <1>3, LoadLocks
<1> QED BY <1>1, <1>3, <1>5, <1>6, <1>8, <1>9, <1>10, JournalMoves

(* The archive was loaded: into a world without the vehicle, and once.     *)
LEMMA FinishLoadWorld ==
  ASSUME TypeOK, RequestInv, LoadInv, StoreDelivery, CycleInv, WorldInv,
         NEW o \in Ops, FinishLoad(o)
  PROVE  WorldInv'
<1>1. /\ Answered(o) /\ o \in pending /\ o[1] = "retrieve" /\ pending' = pending \ {o}
      /\ UNCHANGED <<item, lock, archived, leased, op, saved, soldSaved, sold, deleting>>
  BY FinishAnswers, GameFrame DEF FinishLoad, custodyVars
<1>2. PICK r \in Retrieves : o = Retrieve(r) /\ o[2] = r BY <1>1, OpKinds
<1>3. PICK g \in Garages : g = leased[r]
  BY <1>1, <1>2, LoadLocks
<1>4. /\ lock = g /\ Stored(g) /\ journal[g] = "loading" /\ Absent
      /\ \A s \in Retrieves : Retrieve(s) \in pending => s = r
  BY <1>1, <1>2, <1>3, LoadLocks
<1>5. OpGarage(o) = g BY <1>2, <1>3, GarageOpNames
<1>6. \A p \in GarageOps : p # o => receipt'[p] = receipt[p]
  BY <1>1, GarageOpsAreOps DEF Answered, TypeOK
<1>7. live' = <<>> \/ Len(live') = 1
  <2>1. live' \in {live, Append(live, Destination[o[2]])} BY DEF FinishLoad
  <2> QED BY <1>4, <2>1, OneCopy DEF Absent
<1>8. /\ \A h \in Garages : h # g => journal'[h] = journal[h]
      /\ journal'[g] \in {"loading", "restored"}
  BY <1>4, <1>5 DEF FinishLoad, WritePhase, TypeOK
<1>9. saved' = <<>> /\ ~deleting' BY <1>1, <1>4 DEF Absent
<1>10. CopiesInv'
  <2>1. Len(live') <= 1 BY <1>7, NotMany
  <2> QED BY <1>1, <1>9, <2>1 DEF WorldInv, CopiesInv
<1>11. Cycle(g) BY DEF CycleInv
<1>12. item[g] \in After /\ g \in archived BY <1>4, <1>11 DEF Cycle, Removing, Stored
<1>13. HeldInv(g)' BY <1>1, <1>8, <1>9, <1>12 DEF HeldInv, Restorable, Leaving, After
<1>14. ASSUME NEW p \in GarageOps PROVE Undone(p)' \/ (p[2] # g /\ receipt'[p] = receipt[p])
  <2>1. CASE p[1] # "retrieve" /\ p[2] = g
    <3>1. p \in {Prepare(g), Store(g)} BY <2>1, GarageOpKinds
    <3>2. op[p] = "succeeded" BY <1>4, <1>11, <3>1 DEF Cycle, Removing, Stored
    <3>3. op'[p] # "pending" BY <1>1, <3>2
    <3> QED BY <3>3 DEF Undone
  <2>2. CASE p[1] = "retrieve" BY <2>2 DEF Undone
  <2>3. CASE p[1] # "retrieve" /\ p[2] # g
    <3>1. p # o BY <1>1, <2>3
    <3> QED BY <1>6, <2>3, <3>1
  <2> QED BY <2>1, <2>2, <2>3
<1>15. ASSUME NEW s \in Retrieves PROVE Retrieve(s) \notin pending'
  BY <1>1, <1>2, <1>4
<1>16. item[g] # "absent" BY <1>12 DEF After
<1> QED BY <1>1, <1>4, <1>8, <1>10, <1>13, <1>14, <1>15, <1>16, JournalMoves

LEMMA WorldInit == Init => WorldInv
<1> SUFFICES ASSUME Init PROVE WorldInv OBVIOUS
<1>1. /\ live = <<Home>> /\ saved = <<Home>> /\ deleting = FALSE /\ sold = FALSE /\ soldSaved = FALSE
      /\ lock = Nothing /\ pending = {}
  BY DEF Init
<1>2. Len(live) = 1 /\ Len(saved) = 1 /\ live # <<>> /\ saved # <<>> BY <1>1, OneCopy
<1>3. Len(live) <= 1 /\ Len(saved) <= 1 BY <1>2, NotMany
<1>4. CopiesInv BY <1>1, <1>2, <1>3 DEF CopiesInv
<1>5. Untouched BY <1>1, <1>2 DEF Untouched
<1>6. \A g \in Garages : journal[g] = "none" /\ lock # g /\ ~Stored(g)
  BY <1>1, NothingIsNone, StoreOps DEF Init, Stored
<1>7. \A o \in GarageOps : Undone(o) BY GarageOpsAreOps DEF Init, Undone
<1> QED BY <1>1, <1>4, <1>5, <1>6, <1>7 DEF WorldInv

LEMMA WorldStep ==
  ASSUME TypeOK, RequestInv, LoadInv, StoreDelivery, CycleInv, WorldInv, Next
  PROVE  WorldInv'
<1>1. ASSUME UNCHANGED <<diskVars, gameVars, item, lock, archived, receipt>>,
             \A o \in GarageOps : op'[o] = op[o]
      PROVE  WorldInv'
  BY <1>1, WorldFrame, GarageOpNames
<1>2. CASE CentralStep
  <2>1. ASSUME NEW t \in Transfers, TransferRequest(t) \/ CheckQueue(t) PROVE WorldInv'
    BY <1>1, <2>1 DEF TransferRequest, CheckQueue, custodyVars, mailboxVars
  <2>2. ASSUME NEW t \in Transfers, QueueTransfer(t) PROVE WorldInv'
    <3>1. \A o \in GarageOps : op'[o] = op[o]
      BY <2>2, TransferOps, GarageOpsAreOps DEF TypeOK, QueueTransfer
    <3> QED BY <1>1, <2>2, <3>1 DEF QueueTransfer, custodyVars, mailboxVars
  <2> QED BY <1>2, <2>1, <2>2, StoreWorld, RetrieveWorld DEF CentralStep
<1>3. CASE AgentStep
  <2>1. CASE (\E o \in Ops : TestReceipt(o)) \/ WriteCommand \/ SnapshotAccepted
    BY <1>1, <2>1 DEF TestReceipt, WriteCommand, SnapshotAccepted, custodyVars, mailboxVars
  <2> QED BY <1>3, <2>1, PostWorld, CheckpointWorld DEF AgentStep
<1>4. CASE GameStep
  <2>1. ASSUME NEW o \in Ops, Process(o) PROVE WorldInv'
    <3>1. CASE o[1] \in {"prepare", "store"}
      <4>1. PICK g \in Garages : o \in {Prepare(g), Store(g)} BY <3>1, OpKinds
      <4> QED BY <2>1, <4>1, ProcessStoreWorld
    <3>2. CASE o[1] = "retrieve" BY <2>1, <3>2, OpKinds, ProcessLoadWorld
    <3>3. CASE o[1] = "transfer" BY <2>1, <3>3, OpKinds, ProcessOther
    <3> QED BY <3>1, <3>2, <3>3, OpKinds
  <2> QED BY <1>4, <2>1, FinishRemovalWorld, FinishLoadWorld, NativeWorld DEF GameStep
<1> QED BY <1>2, <1>3, <1>4 DEF Next

LEMMA WorldHolds ==
  ASSUME "recreate" \notin Hazards
  PROVE  Spec => [](TypeOK /\ RequestInv /\ LoadInv /\ StoreDelivery /\ CycleInv /\ WorldInv)
<1>1. (TypeOK /\ RequestInv /\ LoadInv /\ StoreDelivery /\ CycleInv) /\ WorldInv /\ [Next]_vars => WorldInv'
  <2> SUFFICES ASSUME TypeOK, RequestInv, LoadInv, StoreDelivery, CycleInv, WorldInv, [Next]_vars
               PROVE WorldInv'
    OBVIOUS
  <2>1. CASE UNCHANGED vars
    BY <2>1, WorldFrame DEF vars, custodyVars, mailboxVars
  <2> QED BY <2>1, WorldStep
<1> QED BY <1>1, WorldInit, CyclesHold, PTL DEF Spec

(* Custody, the archive at Central and the copies in the game: a vehicle   *)
(* that is nowhere in the world and was not sold is held by a garage whose *)
(* archive Central has, and no archive is loaded beside a live copy or a   *)
(* second time; whatever crashes, stops, fails, is posted again or is      *)
(* queued concurrently.                                                    *)
THEOREM VehicleIsNeverLost ==
  ASSUME "recreate" \notin Hazards
  PROVE  Spec => []GarageHolds
<1>1. TypeOK /\ CycleInv /\ WorldInv => NeverLost
  <2> SUFFICES ASSUME TypeOK, CycleInv, WorldInv, live = <<>>, ~sold
               PROVE  lock # Nothing /\ lock \in archived
    BY DEF NeverLost
  <2>1. ~Untouched
    <3>1. Len(live) # 1 OBVIOUS
    <3> QED BY <3>1 DEF Untouched
  <2>2. lock # Nothing BY <2>1 DEF WorldInv
  <2>3. PICK g \in Garages : g = lock BY <2>2 DEF TypeOK
  <2>4. HeldInv(g) /\ Cycle(g) BY <2>3 DEF WorldInv, CycleInv
  <2>5. item[g] # "preparing" /\ (item[g] = "review_required" => g \in archived)
    BY <2>1, <2>4 DEF HeldInv, Leaving
  <2>6. CASE op[Store(g)] # "absent" BY <2>2, <2>3, <2>4, <2>6 DEF Cycle, Removing
  <2>7. CASE op[Store(g)] = "absent"
    <3>1. item[g] \in Held BY <2>3, <2>4, <2>7 DEF Cycle, Stored
    <3>2. item[g] \in {"preparing", "review_required"}
      BY <2>4, <2>7, <3>1 DEF Cycle, Stored, Held, ItemStates, After
    <3> QED BY <2>2, <2>3, <2>5, <3>2
  <2> QED BY <2>6, <2>7
<1>2. WorldInv /\ LoadInv => LoadedOnce
  BY DEF WorldInv, CopiesInv, LoadInv, LoadedOnce
<1>3. NeverLost /\ LoadedOnce => GarageHolds BY DEF GarageHolds
<1> QED BY <1>1, <1>2, <1>3, WorldHolds, PTL

-------------------------------------------------------------------------------
(* Transfers whose receipts are not always written                         *)

LEMMA OnlyOneTransfer ==
  ASSUME \A t, u \in Transfers : t = u, NEW o \in Ops, NEW t \in Transfers, o[1] = "transfer"
  PROVE  o = Transfer(t)
BY OpKinds

LEMMA RepeatStep ==
  ASSUME TypeOK, RequestInv, LoadInv, CycleInv, WorldInv, LockInv, TransferInv, RepeatInv, Next,
         "crash" \notin Hazards, \A t, u \in Transfers : t = u
  PROVE  RepeatInv'
<1> SUFFICES ASSUME NEW t \in Transfers
             PROVE  /\ transfer'[t] # "absent" => source'[t] # Destination[t]
                    /\ op'[Transfer(t)] # "absent" \/ t \in queueing' => transfer'[t] # "absent"
                    /\ moved'[t] /\ op'[Transfer(t)] = "pending" => live' # <<source'[t]>>
  BY DEF RepeatInv
<1> DEFINE o == Transfer(t)
           Fine == /\ transfer'[t] # "absent" => source'[t] # Destination[t]
                   /\ op'[o] # "absent" \/ t \in queueing' => transfer'[t] # "absent"
                   /\ moved'[t] /\ op'[o] = "pending" => live' # <<source'[t]>>
<1>1. /\ o \in Ops /\ o[1] = "transfer" /\ o[2] = t
      /\ \A u \in Transfers : u = t
  BY OpNames
<1>2. /\ transfer[t] # "absent" => source[t] # Destination[t]
      /\ op[o] # "absent" \/ t \in queueing => transfer[t] # "absent"
      /\ moved[t] /\ op[o] = "pending" => live # <<source[t]>>
      /\ moved[t] => op[o] # "absent"
  BY DEF RepeatInv, TransferInv
<1>3. \A x : Prepare(x) # o /\ Store(x) # o /\ Retrieve(x) # o
  BY TransferOps
<1>4. /\ op \in [Ops -> OpStates] /\ transfer \in [Transfers -> TransferStates]
      /\ moved \in [Transfers -> BOOLEAN]
      /\ source \in [Garages \union Transfers -> Farms \union {Nothing}]
  BY DEF TypeOK
<1>5. t \in Garages \union Transfers /\ t \notin Garages
  BY GarageAssumption
<1> HIDE DEF o
<1>6. ASSUME op'[o] = op[o] \/ op'[o] # "pending", op[o] = "absent" => op'[o] = "absent",
             source'[t] = source[t], transfer'[t] = transfer[t], UNCHANGED <<moved, queueing>>,
             live' = live \/ live' = <<>>
      PROVE  Fine
  BY <1>2, <1>6
<1>7. ASSUME NEW g \in Garages, StoreRequest(g) PROVE Fine
  <2>1. op'[o] = op[o] /\ source'[t] = source[t]
    BY <1>1, <1>3, <1>4, <1>5, <1>7 DEF StoreRequest
  <2> QED BY <1>6, <1>7, <2>1 DEF StoreRequest, gameVars
<1>8. ASSUME NEW r \in Retrieves, RetrieveRequest(r) PROVE Fine
  <2>1. op'[o] = op[o] BY <1>1, <1>3, <1>4, <1>8 DEF RetrieveRequest
  <2> QED BY <1>6, <1>8, <2>1 DEF RetrieveRequest, gameVars, requestVars
<1>9. ASSUME TransferRequest(t) PROVE Fine
  <2>1. transfer[t] = "absent" /\ transfer'[t] = "requested" /\ source'[t] = seen[1]
        /\ seen[1] # Destination[t]
    BY <1>4, <1>5, <1>9 DEF TransferRequest
  <2>2. UNCHANGED <<op, moved, live, queueing>> BY <1>9 DEF TransferRequest, gameVars
  <2> QED BY <1>2, <2>1, <2>2
<1>10. ASSUME CheckQueue(t) PROVE Fine
  <2>1. transfer[t] # "absent" /\ UNCHANGED <<transfer, source, op, moved, live>>
    BY <1>10 DEF CheckQueue, gameVars
  <2> QED BY <1>2, <2>1
<1>11. ASSUME QueueTransfer(t) PROVE Fine
  <2>1. t \in queueing /\ queueing' = queueing \ {t} /\ UNCHANGED <<source, moved, live>>
    BY <1>11 DEF QueueTransfer, gameVars
  <2>2. op'[o] = op[o] \/ op[o] = "absent" BY <1>1, <1>4, <1>11 DEF QueueTransfer, o
  <2>3. transfer'[t] \in {transfer[t], "pending_game"} BY <1>4, <1>11 DEF QueueTransfer
  <2> QED BY <1>2, <2>1, <2>2, <2>3
<1>12. ASSUME NEW p \in Ops, PostReceipt(p) PROVE Fine
  <2>1. UNCHANGED <<source, moved, live, queueing>> BY <1>12 DEF PostReceipt, gameVars
  <2>2. CASE Handle(p) /\ p = o
    <3>1. /\ transfer'[t] \in {"completed", "failed", "reconciliation_required"}
          /\ op' = op \/ op'[o] \in {"succeeded", "failed", "reconciliation_required"}
      BY <2>2, HandleTransfer, SettleOutcome DEF o
    <3>2. transfer[t] # "absent" BY <1>1, <2>2, HandleTransfer DEF CanSettle, o
    <3> QED BY <1>2, <2>1, <3>1, <3>2
  <2>3. CASE Handle(p) /\ p # o
    BY <1>6, <2>1, <2>3, HandleTransfer DEF o
  <2>4. CASE ~Handle(p)
    BY <1>6, <1>12, <2>1, <2>4 DEF PostReceipt
  <2> QED BY <2>2, <2>3, <2>4
<1>13. ASSUME NEW g \in Garages, Checkpoint(g) PROVE Fine
  <2>1. op'[o] = op[o] BY <1>13, CheckpointOps DEF o
  <2> QED BY <1>6, <1>13, <2>1 DEF Checkpoint, requestVars, gameVars
<1>14. ASSUME \/ \E p \in Ops : TestReceipt(p) \/ HandlerStops(p)
              \/ WriteCommand \/ SnapshotAccepted
       PROVE  Fine
  <2>1. UNCHANGED <<op, source, transfer, moved, queueing, live>>
    BY <1>14 DEF TestReceipt, HandlerStops, WriteCommand, SnapshotAccepted, gameVars, requestVars
  <2> QED BY <1>6, <2>1
<1>15. ASSUME NativeDelete \/ NativeSave \/ PlayerSells PROVE Fine
  <2>1. UNCHANGED <<op, source, transfer, moved, queueing>> /\ (live' = live \/ live' = <<>>)
    BY <1>15 DEF NativeDelete, NativeSave, PlayerSells, gameVars, requestVars
  <2> QED BY <1>6, <2>1
<1>16. ASSUME NEW p \in Ops, Process(p), p # o PROVE Fine
  <2>1. UNCHANGED <<op, source, transfer, queueing>> BY <1>16, GameFrame DEF requestVars
  <2>2. p[1] # "transfer" BY <1>16, OnlyOneTransfer DEF o
  <2>3. UNCHANGED <<moved, live>>
    BY <1>16, <2>2 DEF Process, ProcessPrepare, ProcessStore, ProcessRetrieve, Declines
  <2> QED BY <1>6, <2>1, <2>3
<1>17. ASSUME Process(o) PROVE Fine
  <2>1. UNCHANGED <<op, source, transfer, queueing>> BY <1>17, GameFrame DEF requestVars
  <2>2. ProcessTransfer(o) /\ o \in commands BY <1>1, <1>17 DEF Process, Ready
  <2>3. op[o] = "pending" BY <1>1, <2>2 DEF TransferInv, Unanswered, o
  <2>4. source[t] # Destination[t] BY <1>2, <2>3
  <2>5. CASE UNCHANGED <<live, moved>> BY <1>6, <2>1, <2>5
  <2>6. CASE live' = <<Destination[t]>>
    <3>1. live' # <<source[t]>> BY <2>4, <2>6
    <3> QED BY <1>2, <2>1, <3>1
  <2> QED BY <1>1, <2>2, <2>5, <2>6 DEF ProcessTransfer, Declines
<1>18. ASSUME NEW p \in Ops, FinishRemoval(p) PROVE Fine
  <2>1. UNCHANGED <<op, source, transfer, queueing>> BY <1>18, GameFrame DEF requestVars
  <2> QED BY <1>6, <1>18, <2>1 DEF FinishRemoval
<1>19. ASSUME NEW p \in Ops, FinishLoad(p) PROVE Fine
  <2>1. UNCHANGED <<op, source, transfer, queueing, moved>>
    BY <1>19, GameFrame DEF requestVars, FinishLoad
  <2>2. PICK r \in Retrieves : p = Retrieve(r) /\ p \in pending BY <1>19, OpKinds DEF FinishLoad
  <2>3. lock # Nothing BY <2>2, LoadLocks, NothingIsNone
  <2>4. op[o] # "pending" BY <2>3 DEF LockInv, o
  <2> QED BY <1>2, <2>1, <2>4
<1>20. ~Crash BY DEF Crash, Fault
<1>21. Fine
  <2>1. CASE CentralStep BY <1>1, <2>1, <1>7, <1>8, <1>9, <1>10, <1>11 DEF CentralStep
  <2>2. CASE AgentStep BY <2>2, <1>12, <1>13, <1>14 DEF AgentStep
  <2>3. CASE GameStep BY <2>3, <1>15, <1>16, <1>17, <1>18, <1>19, <1>20 DEF GameStep
  <2> QED BY <2>1, <2>2, <2>3 DEF Next
<1> QED BY <1>21 DEF o

(* Also when the game does not manage to write a receipt and is asked      *)
(* again: the repeated command finds the new owner and does not guess.     *)
(* Then the transfer must be the only one of its vehicle, the game must    *)
(* not lose its memory, and custody must not begin while it is queued.     *)
THEOREM RepeatedTransfersAreTrue ==
  ASSUME "recreate" \notin Hazards, "crash" \notin Hazards, "queue_race" \notin Hazards,
         \A t, u \in Transfers : t = u
  PROVE  Spec => []TransferTruth
<1> DEFINE I == LockInv /\ TransferInv /\ RepeatInv
<1>1. Init => I
  <2>1. Init => LockInv BY DEF Init, LockInv
  <2>2. Init => RepeatInv BY TransferOps DEF Init, RepeatInv
  <2> QED BY <2>1, <2>2, TransferInit
<1>2. (TypeOK /\ RequestInv /\ LoadInv /\ StoreDelivery /\ CycleInv /\ WorldInv) /\ I /\ [Next]_vars => I'
  <2> SUFFICES ASSUME TypeOK, RequestInv, LoadInv, CycleInv, WorldInv, I, [Next]_vars PROVE I' OBVIOUS
  <2>1. CASE Next
    <3>1. \A t \in Transfers : Transfer(t) \in commands /\ moved[t] => ~OwnedBySource(t)
      BY OpNames DEF TransferInv, Unanswered, RepeatInv, OwnedBySource
    <3>2. TransferInv' BY <2>1, <3>1, TransferStep
    <3> QED BY <2>1, <3>2, LockStep, RepeatStep
  <2>2. CASE UNCHANGED vars
    BY <2>2 DEF vars, custodyVars, requestVars, mailboxVars, gameVars, LockInv, TransferInv,
       RepeatInv, Unanswered
  <2> QED BY <2>1, <2>2
<1>3. I => TransferTruth BY DEF TransferInv, TransferTruth
<1> QED BY <1>1, <1>2, <1>3, WorldHolds, PTL DEF Spec

-------------------------------------------------------------------------------
(* The garage keeps the promise of VehicleCustody                          *)

(* What the game is asked for, or has refused, is what the item waits for. *)
LEMMA ActiveItem ==
  ASSUME TypeOK, RowInv, NEW o \in GarageOps, Active(o)
  PROVE  /\ OpInv(o) /\ Mine(o) /\ item[OpGarage(o)] = Working(o)
         /\ OpGarage(o) \in Garages /\ lock = OpGarage(o) /\ ItemInv(OpGarage(o))
<1>1. OpInv(o) BY DEF RowInv
<1>2. Mine(o) /\ item[OpGarage(o)] = Working(o) BY <1>1 DEF OpInv, Active
<1>3. OpGarage(o) \in Garages BY <1>2 DEF Mine
<1>4. ItemInv(OpGarage(o)) BY <1>3 DEF RowInv
<1>5. item[OpGarage(o)] \in Held BY <1>2, Words
<1> QED BY <1>1, <1>2, <1>3, <1>4, <1>5 DEF ItemInv

LEMMA OneActive ==
  ASSUME TypeOK, RowInv, NEW o \in GarageOps, NEW p \in GarageOps, Active(o), Active(p)
  PROVE  o = p
<1>1. /\ Mine(o) /\ item[OpGarage(o)] = Working(o) /\ lock = OpGarage(o)
      /\ Mine(p) /\ item[OpGarage(p)] = Working(p) /\ lock = OpGarage(p)
  BY ActiveItem
<1>2. Working(o) = Working(p) /\ OpGarage(o) = OpGarage(p) BY <1>1
<1>3. o[1] = p[1]
  BY <1>2, Words, GarageOpKinds DEF Working
<1>4. o[2] = p[2]
  BY <1>1, <1>2, <1>3, GarageOpKinds DEF Mine
<1> QED BY <1>3, <1>4, GarageOpDiffer

LEMMA CommandActive ==
  ASSUME DeliveryInv, NEW o \in GarageOps, o \in commands \union pending
  PROVE  Active(o)
BY GarageOpsAreOps DEF DeliveryInv, Unanswered, Active

(* A refused retrieval was not begun: the vehicle is nowhere.              *)
LEMMA RefusedLoad ==
  ASSUME TypeOK, RowInv, CycleInv, WorldInv, StoredInv,
         NEW r \in Retrieves, op[Retrieve(r)] = "pending", receipt[Retrieve(r)] = "kept"
  PROVE  /\ leased[r] \in Garages /\ lock = leased[r] /\ item[leased[r]] = "retrieving"
         /\ journal[leased[r]] = "removed" /\ Absent
<1>1. /\ Retrieve(r) \in GarageOps /\ Retrieve(r)[1] = "retrieve"
      /\ OpGarage(Retrieve(r)) = leased[r] /\ Active(Retrieve(r))
  BY OpNames, GarageOpNames DEF Active
<1>2. leased[r] \in Garages /\ lock = leased[r] /\ item[leased[r]] = "retrieving"
  BY <1>1, ActiveItem, Words
<1>3. Stored(leased[r]) BY <1>2 DEF CycleInv, Cycle, After
<1>4. Restorable(leased[r]) BY <1>2, <1>3 DEF WorldInv, HeldInv
<1>5. journal[leased[r]] \in {"none", "removed"} BY DEF StoredInv
<1> QED BY <1>2, <1>4, <1>5 DEF Restorable

(* A stored vehicle is nowhere.                                            *)
LEMMA StoredAbsent ==
  ASSUME TypeOK, CycleInv, WorldInv, StoredInv, NEW g \in Garages, lock = g, item[g] = "stored"
  PROVE  Absent
BY DEF CycleInv, Cycle, After, WorldInv, HeldInv, Restorable, StoredInv

LEMMA StoredFrame ==
  ASSUME StoredInv, UNCHANGED journal,
         \A g \in Garages : item'[g] = "stored" => item[g] = "stored" \/ journal[g] = "removed",
         \A r \in Retrieves : receipt'[Retrieve(r)] = "kept" /\ op'[Retrieve(r)] = "pending"
           => /\ receipt[Retrieve(r)] = "kept" /\ op[Retrieve(r)] = "pending"
              /\ leased'[r] = leased[r]
  PROVE  StoredInv'
BY DEF StoredInv

LEMMA StoredPost ==
  ASSUME TypeOK, RowInv, CycleInv, WorldInv, StoredInv, NEW o \in Ops, PostReceipt(o) \/ HandlerStops(o)
  PROVE  StoredInv'
<1>1. UNCHANGED <<leased, journal>> /\ \A p \in Ops : receipt'[p] = "kept" => receipt[p] = "kept"
  BY PostedFrame DEF diskVars
<1>2. \A r \in Retrieves : Retrieve(r) \in Ops /\ op'[Retrieve(r)] = "pending" => op[Retrieve(r)] = "pending"
  <2>1. CASE Handle(o) BY <2>1, HandleAsks
  <2>2. CASE ~Handle(o) BY <2>2 DEF PostReceipt, HandlerStops
  <2> QED BY <2>1, <2>2
<1>3. ASSUME NEW g \in Garages, item'[g] = "stored", item[g] # "stored" PROVE journal[g] = "removed"
  <2>1. CanRefuse(o) /\ Refuse(o) /\ o \in GarageOps
    <3>1. CASE HandlerStops(o)
      BY <1>3, <3>1 DEF HandlerStops, TypeOK, Awaited
    <3>2. CASE PostReceipt(o)
      <4>1. Handle(o) BY <1>3, <3>2 DEF PostReceipt
      <4> QED BY <1>3, <4>1
              DEF Handle, Capture, Apply, Review, Settle, CanRefuse, TypeOK, Awaited
    <3> QED BY <3>1, <3>2
  <2>2. /\ OpInv(o) /\ OpGarage(o) \in Garages /\ receipt[o] = "kept"
        /\ item' = [item EXCEPT ![OpGarage(o)] = Refused(o)]
    BY <2>1, Posted DEF CanRefuse, Refuse, Refused
  <2>3. g = OpGarage(o) /\ Refused(o) = "stored" BY <1>3, <2>2 DEF TypeOK
  <2>4. op[o] = "pending" BY <1>3, <2>2, <2>3 DEF OpInv
  <2>5. PICK r \in Retrieves : o = Retrieve(r) /\ g = leased[r]
    BY <2>1, <2>3, GarageOpKinds DEF Refused
  <2> QED BY <2>2, <2>4, <2>5, RefusedLoad
<1> QED BY <1>1, <1>2, <1>3, OpNames, GarageOpsAreOps, StoredFrame

LEMMA StoredAnswers ==
  ASSUME TypeOK, RowInv, DeliveryInv, StoredInv, NEW o \in GarageOps,
         Process(o) \/ FinishRemoval(o) \/ FinishLoad(o)
  PROVE  StoredInv'
<1>1. Answered(o) /\ o \in commands /\ o \in Ops /\ UNCHANGED <<item, leased, op>>
  BY ProcessAnswers, FinishAnswers, GameFrame, GarageOpsAreOps DEF custodyVars, DeliveryInv
<1>2. Active(o) /\ receipt[o] = "none" BY <1>1, CommandActive DEF DeliveryInv, Unanswered
<1>3. PICK g \in Garages : g = OpGarage(o) /\ item[g] = Working(o) BY <1>2, ActiveItem
<1>4. item[g] # "stored" BY <1>3 DEF Working
<1>5. \A h \in Garages : h # g => journal'[h] = journal[h]
  <2>1. o[1] \in {"prepare", "store"} => o[2] = g BY <1>3, GarageOpKinds
  <2>2. o[1] # "transfer" BY GarageOpKinds
  <2>3. CASE Process(o)
    BY <1>3, <2>1, <2>2, <2>3
    DEF Process, ProcessPrepare, ProcessStore, ProcessRetrieve, Declines, WritePhase, TypeOK
  <2>4. CASE FinishRemoval(o)
    BY <1>3, <2>1, <2>4 DEF FinishRemoval, WritePhase, TypeOK
  <2>5. CASE FinishLoad(o)
    BY <1>3, <2>5 DEF FinishLoad, WritePhase, TypeOK
  <2> QED BY <2>3, <2>4, <2>5
<1>6. ASSUME NEW r \in Retrieves, receipt'[Retrieve(r)] = "kept", op'[Retrieve(r)] = "pending"
      PROVE  journal'[leased'[r]] \in {"none", "removed"}
  <2>1. Retrieve(r) \in GarageOps /\ Retrieve(r) \in Ops /\ Retrieve(r)[1] = "retrieve"
        /\ OpGarage(Retrieve(r)) = leased[r]
    BY OpNames, GarageOpNames, GarageOpsAreOps
  <2>2. CASE Retrieve(r) # o
    <3>1. receipt[Retrieve(r)] = "kept" /\ op[Retrieve(r)] = "pending"
      BY <1>1, <1>6, <2>1, <2>2 DEF Answered, TypeOK
    <3> QED BY <1>2, <2>1, <2>2, <3>1, OneActive DEF Active
  <2>3. CASE Retrieve(r) = o
    <3>1. ProcessRetrieve(o) /\ Declines(o, "kept") /\ NeverLoaded(g)
      BY <1>1, <1>2, <1>3, <1>6, <2>1, <2>3
      DEF Process, ProcessRetrieve, FinishRemoval, FinishLoad, Answer, Declines, TypeOK
    <3> QED BY <1>1, <1>3, <2>1, <2>3, <3>1 DEF Declines, NeverLoaded
  <2> QED BY <2>2, <2>3
<1>7. \A h \in Garages : item'[h] = "stored" => h # g /\ item[h] = "stored" BY <1>1, <1>4
<1> QED BY <1>5, <1>6, <1>7 DEF StoredInv

LEMMA StoredStep ==
  ASSUME TypeOK, RowInv, DeliveryInv, CycleInv, WorldInv, StoredInv, Next
  PROVE  StoredInv'
<1>1. ASSUME UNCHANGED <<journal, item, leased, receipt>>,
             \A r \in Retrieves : op'[Retrieve(r)] = op[Retrieve(r)]
      PROVE  StoredInv'
  BY <1>1, StoredFrame
<1>2. CASE CentralStep
  <2>1. ASSUME NEW g \in Garages, StoreRequest(g) PROVE StoredInv'
    <3>1. UNCHANGED <<journal, leased, receipt>> /\ item' = [item EXCEPT ![g] = "preparing"]
          /\ op' = [op EXCEPT ![Prepare(g)] = "pending"]
      BY <2>1 DEF StoreRequest, diskVars, mailboxVars
    <3>2. \A r \in Retrieves : op'[Retrieve(r)] = op[Retrieve(r)] BY <3>1, StoreOps DEF TypeOK
    <3>3. \A h \in Garages : item'[h] = "stored" => item[h] = "stored" BY <3>1 DEF TypeOK
    <3> QED BY <3>1, <3>2, <3>3, StoredFrame
  <2>2. ASSUME NEW r \in Retrieves, RetrieveRequest(r) PROVE StoredInv'
    <3>1. /\ UNCHANGED <<journal, receipt>> /\ item' = [item EXCEPT ![lock] = "retrieving"]
          /\ op' = [op EXCEPT ![Retrieve(r)] = "pending"] /\ leased[r] = Nothing
          /\ leased' = [leased EXCEPT ![r] = lock]
      BY <2>2 DEF RetrieveRequest, diskVars, mailboxVars
    <3>2. Retrieve(r) \in GarageOps /\ OpGarage(Retrieve(r)) = Nothing BY <3>1, GarageOpNames
    <3>3. receipt[Retrieve(r)] = "none" BY <3>2, NothingIsNone DEF RowInv, OpInv, Mine
    <3>4. \A s \in Retrieves : s # r => leased'[s] = leased[s] /\ op'[Retrieve(s)] = op[Retrieve(s)]
      <4>1. \A s \in Retrieves : s # r => Retrieve(s) # Retrieve(r) BY OpNames
      <4> QED BY <3>1, <4>1 DEF TypeOK
    <3>5. \A h \in Garages : item'[h] = "stored" => item[h] = "stored" BY <3>1 DEF TypeOK
    <3> QED BY <3>1, <3>3, <3>4, <3>5, StoredFrame
  <2>3. ASSUME NEW t \in Transfers, TransferRequest(t) \/ CheckQueue(t) PROVE StoredInv'
    BY <1>1, <2>3 DEF TransferRequest, CheckQueue, custodyVars, mailboxVars, diskVars
  <2>4. ASSUME NEW t \in Transfers, QueueTransfer(t) PROVE StoredInv'
    <3>1. \A o \in GarageOps : op'[o] = op[o]
      BY <2>4, TransferOps, GarageOpsAreOps DEF TypeOK, QueueTransfer
    <3> QED BY <1>1, <2>4, <3>1, GarageOpNames DEF QueueTransfer, custodyVars, mailboxVars, diskVars
  <2> QED BY <1>2, <2>1, <2>2, <2>3, <2>4 DEF CentralStep
<1>3. CASE AgentStep
  <2>1. CASE (\E o \in Ops : TestReceipt(o)) \/ WriteCommand \/ SnapshotAccepted
    BY <1>1, <2>1 DEF TestReceipt, WriteCommand, SnapshotAccepted, custodyVars, mailboxVars, diskVars
  <2>2. ASSUME NEW g \in Garages, Checkpoint(g) PROVE StoredInv'
    <3>1. /\ UNCHANGED <<journal, leased, receipt>> /\ Proven(g)
          /\ item' = [item EXCEPT ![g] = IF Gone(g) THEN "stored" ELSE "retrieved"]
          /\ op' = [op EXCEPT ![IF Gone(g) THEN Store(g) ELSE Retrieve(retrieval[g])] = "succeeded"]
      BY <2>2 DEF Checkpoint, diskVars, mailboxVars
    <3>2. \A h \in Garages : item'[h] = "stored" => item[h] = "stored" \/ journal[h] = "removed"
      BY <3>1 DEF TypeOK, Proven
    <3>3. \A r \in Retrieves : op'[Retrieve(r)] = "pending" => op[Retrieve(r)] = "pending"
      BY <3>1, OpNames, GarageOpsAreOps DEF TypeOK
    <3> QED BY <3>1, <3>2, <3>3, StoredFrame
  <2> QED BY <1>3, <2>1, <2>2, StoredPost DEF AgentStep
<1>4. CASE GameStep
  <2>1. CASE NativeDelete \/ NativeSave \/ Crash \/ PlayerSells
    BY <1>1, <2>1 DEF NativeDelete, NativeSave, Crash, PlayerSells, custodyVars, mailboxVars, diskVars
  <2>2. ASSUME NEW o \in Ops, Process(o) \/ FinishRemoval(o) \/ FinishLoad(o) PROVE StoredInv'
    <3>1. CASE o \in GarageOps BY <2>2, <3>1, StoredAnswers
    <3>2. CASE o \notin GarageOps
      <4>1. o[1] = "transfer" BY <3>2, OpKinds
      <4>2. Answered(o) /\ ProcessTransfer(o) /\ UNCHANGED <<item, leased, op>>
        BY <2>2, <4>1, ProcessAnswers, GameFrame DEF Process, FinishRemoval, FinishLoad, custodyVars
      <4>3. UNCHANGED journal BY <4>2 DEF ProcessTransfer, Declines
      <4>4. \A p \in GarageOps : receipt'[p] = receipt[p]
        BY <3>2, <4>2, GarageOpsAreOps DEF Answered, TypeOK
      <4> QED BY <4>2, <4>3, <4>4, GarageOpNames, StoredFrame
    <3> QED BY <3>1, <3>2
  <2> QED BY <1>4, <2>1, <2>2 DEF GameStep
<1> QED BY <1>2, <1>3, <1>4 DEF Next

LEMMA StoredHolds ==
  ASSUME "recreate" \notin Hazards, OneAnswer
  PROVE  Spec => [](/\ TypeOK /\ RequestInv /\ LoadInv /\ CycleInv /\ WorldInv
                    /\ DeliveryInv /\ RowInv /\ StoredInv)
<1> DEFINE I == TypeOK /\ RequestInv /\ LoadInv /\ StoreDelivery /\ CycleInv /\ WorldInv
           J == TypeOK /\ DeliveryInv /\ RowInv
<1>1. Init => StoredInv
  BY OpNames, GarageOpsAreOps DEF Init, StoredInv
<1>2. I /\ J /\ StoredInv /\ [Next]_vars => StoredInv'
  <2> SUFFICES ASSUME I, J, StoredInv, [Next]_vars PROVE StoredInv' OBVIOUS
  <2>1. CASE UNCHANGED vars
    BY <2>1, StoredFrame DEF vars, custodyVars, mailboxVars, diskVars
  <2> QED BY <2>1, StoredStep
<1>3. Spec => []I BY WorldHolds
<1>4. Spec => []J BY RowsHold
<1> QED BY <1>1, <1>2, <1>3, <1>4, PTL DEF Spec

(* Custody of a vehicle whose garage row is in this state.                 *)
Stage(state) ==
  CASE state \in {"preparing", "removing", "awaiting_store_save"} -> "leaving"
    [] state = "stored" -> "garage"
    [] state \in {"retrieving", "awaiting_retrieve_save"} -> "returning"
    [] OTHER -> "review"

LEMMA Stages ==
  /\ Stage("preparing") = "leaving" /\ Stage("removing") = "leaving"
  /\ Stage("awaiting_store_save") = "leaving" /\ Stage("stored") = "garage"
  /\ Stage("retrieving") = "returning" /\ Stage("awaiting_retrieve_save") = "returning"
  /\ Stage("review_required") = "review"
BY DEF Stage

LEMMA CustodyNow == Custody = IF lock = Nothing THEN "world" ELSE Stage(item[lock])
BY DEF Custody, Stage

LEMMA CustodyNext == Custody' = IF lock' = Nothing THEN "world" ELSE Stage(item'[lock'])
BY DEF Custody, Stage

(* The copies of a vehicle that was not sold.                              *)
LEMMA CopiesHeld ==
  ASSUME TypeOK, WorldInv, "sale" \notin Hazards
  PROVE  /\ Untouched => Len(live) = 1 /\ Len(saved) = 1 /\ ~deleting
         /\ Absent => Len(live) = 0 /\ Len(saved) = 0 /\ ~deleting
         /\ Len(live) \in {0, 1} /\ Len(saved) \in {0, 1}
<1>1. ~sold /\ ~soldSaved BY DEF WorldInv, CopiesInv
<1>2. (Len(live) = 1 \/ live = <<>>) /\ (Len(saved) = 1 \/ saved = <<>>)
  BY AtMostOne DEF WorldInv, CopiesInv, TypeOK
<1>3. (live = <<>> => Len(live) = 0) /\ (saved = <<>> => Len(saved) = 0)
  BY Copies DEF TypeOK
<1> QED BY <1>1, <1>2, <1>3 DEF Untouched, Absent

Kept == Promise!Next \/ UNCHANGED <<Custody, Len(live)>>

LEMMA CentralPromise ==
  ASSUME TypeOK, CentralStep
  PROVE  Kept
<1>1. UNCHANGED live
  BY DEF CentralStep, StoreRequest, RetrieveRequest, TransferRequest, CheckQueue, QueueTransfer, gameVars
<1>2. Len(live)' = Len(live) BY <1>1
<1>3. ASSUME NEW g \in Garages, StoreRequest(g) PROVE Kept
  <2>1. lock = Nothing /\ lock' = g /\ item'[g] = "preparing" BY <1>3 DEF StoreRequest, TypeOK
  <2>2. Custody = "world" /\ Custody' = "leaving"
    BY <2>1, CustodyNow, CustodyNext, Stages, NothingIsNone
  <2> QED BY <1>2, <2>2 DEF Kept, Promise!Next, Promise!Leave
<1>4. ASSUME NEW r \in Retrieves, RetrieveRequest(r) PROVE Kept
  <2>1. /\ lock # Nothing /\ item[lock] = "stored" /\ lock' = lock /\ item'[lock] = "retrieving"
    BY <1>4 DEF RetrieveRequest, TypeOK
  <2>2. Custody = "garage" /\ Custody' = "returning"
    BY <2>1, CustodyNow, CustodyNext, Stages
  <2> QED BY <1>2, <2>2 DEF Kept, Promise!Next, Promise!Release
<1>5. ASSUME NEW t \in Transfers, TransferRequest(t) \/ CheckQueue(t) \/ QueueTransfer(t) PROVE Kept
  <2>1. UNCHANGED <<lock, item>>
    BY <1>5 DEF TransferRequest, CheckQueue, QueueTransfer, custodyVars
  <2>2. Custody' = Custody BY <2>1, CustodyNow, CustodyNext
  <2> QED BY <1>2, <2>2 DEF Kept
<1> QED BY <1>3, <1>4, <1>5 DEF CentralStep

(* A receipt that moves the row of the locked vehicle.                     *)
LEMMA AwaitedPromise ==
  ASSUME TypeOK, RowInv, NEW o \in GarageOps, CanApply(o), op[o] # "succeeded",
         item' = [item EXCEPT ![OpGarage(o)] = Awaited(o)], UNCHANGED <<lock, live>>
  PROVE  Kept
<1>1. PICK g \in Garages : g = OpGarage(o)
  BY Posted DEF CanApply
<1>2. ItemInv(g) /\ o[1] \in {"store", "retrieve"} BY <1>1, Posted DEF CanApply
<1>3. item[g] \in {Working(o), Awaited(o)} BY <1>1, <1>2, Words DEF CanApply
<1>4. lock = g BY <1>2, <1>3, Words DEF ItemInv
<1>5. item'[g] = Awaited(o) BY <1>1 DEF TypeOK
<1>6. Stage(item'[g]) = Stage(item[g]) BY <1>2, <1>3, <1>5, Words, Stages
<1>7. Custody' = Custody BY <1>4, <1>6, CustodyNow, CustodyNext
<1>8. Len(live)' = Len(live) OBVIOUS
<1> QED BY <1>7, <1>8 DEF Kept

LEMMA DoubtPromise ==
  ASSUME TypeOK, RowInv, NEW o \in GarageOps, CanReview(o),
         item' = [item EXCEPT ![OpGarage(o)] = "review_required"], UNCHANGED <<lock, live>>
  PROVE  Kept
<1>1. PICK g \in Garages : g = OpGarage(o)
  BY Posted DEF CanReview
<1>2. ItemInv(g) /\ OpInv(o) /\ receipt[o] = "unproven" BY <1>1, Posted DEF CanReview
<1>3. item[g] \in {Working(o), "review_required"} BY <1>1, <1>2 DEF OpInv
<1>4. lock = g /\ g # Nothing
  BY <1>2, <1>3, Words, NothingIsNone DEF ItemInv, Held, ItemStates
<1>5. item'[g] = "review_required" BY <1>1 DEF TypeOK
<1>6. Stage(item[g]) \in {"leaving", "returning", "review"}
  BY <1>3, Words, GarageOpKinds, Stages
<1>7. Custody \in {"leaving", "returning", "review"} /\ Custody' = "review"
  BY <1>4, <1>5, <1>6, CustodyNow, CustodyNext, Stages
<1>8. Len(live)' = Len(live) OBVIOUS
<1> QED BY <1>7, <1>8 DEF Kept, Promise!Next, Promise!Doubt

LEMMA RefusePromise ==
  ASSUME TypeOK, RowInv, CycleInv, WorldInv, StoredInv, "sale" \notin Hazards,
         NEW o \in GarageOps, CanRefuse(o), Refuse(o), UNCHANGED live
  PROVE  Kept
<1>1. PICK g \in Garages : g = OpGarage(o)
  BY Posted DEF CanRefuse
<1>2. ItemInv(g) /\ OpInv(o) /\ receipt[o] = "kept" BY <1>1, Posted DEF CanRefuse
<1>3. /\ item' = [item EXCEPT ![g] = Refused(o)]
      /\ lock' = IF Refused(o) = "failed" /\ lock = g THEN Nothing ELSE lock
  BY <1>1 DEF Refuse, Refused
<1>4. item'[g] = Refused(o) BY <1>3 DEF TypeOK
<1>5. Len(live)' = Len(live) OBVIOUS
<1>6. CASE op[o] = "pending"
  <2>1. Active(o) BY <1>2, <1>6 DEF Active
  <2>2. lock = g /\ item[g] = Working(o) /\ g # Nothing BY <1>1, <2>1, ActiveItem, NothingIsNone
  <2>3. HeldInv(g) /\ Undone(o) BY <2>2 DEF WorldInv
  <2>4. CASE o[1] = "retrieve"
    <3>1. item[g] = "retrieving" /\ Refused(o) = "stored" BY <2>2, <2>4, Words
    <3>2. Absent BY <1>2, <1>6, <2>4, GarageOpKinds, RefusedLoad
    <3>3. Custody = "returning" /\ Custody' = "garage"
      BY <1>3, <1>4, <2>2, <3>1, CustodyNow, CustodyNext, Stages
    <3>4. Len(live) = 0 BY <3>2, CopiesHeld
    <3> QED BY <1>5, <3>3, <3>4 DEF Kept, Promise!Next, Promise!Retain
  <2>5. CASE o[1] # "retrieve"
    <3>1. item[g] \in {"preparing", "removing"} /\ Refused(o) = "failed"
      BY <2>2, <2>5, Words, GarageOpKinds
    <3>2. journal[g] \in {"none", "prepared"}
      BY <1>1, <1>2, <1>6, <2>3, <2>5, GarageOpKinds DEF Undone
    <3>3. Untouched BY <2>3, <3>1, <3>2 DEF HeldInv, Leaving
    <3>4. Custody = "leaving" /\ Custody' = "world"
      BY <1>3, <1>4, <2>2, <3>1, CustodyNow, CustodyNext, Stages
    <3>5. Len(live) = 1 BY <3>3, CopiesHeld
    <3> QED BY <1>5, <3>4, <3>5 DEF Kept, Promise!Next, Promise!Remain
  <2> QED BY <2>4, <2>5
<1>7. CASE op[o] # "pending"
  <2>1. item[g] = Refused(o) BY <1>1, <1>2, <1>7 DEF OpInv
  <2>2. item' = item BY <1>3, <2>1 DEF TypeOK
  <2>3. lock' = lock BY <1>2, <1>3, <2>1 DEF ItemInv, Held
  <2>4. Custody' = Custody BY <2>2, <2>3, CustodyNow, CustodyNext
  <2> QED BY <1>5, <2>4 DEF Kept
<1> QED BY <1>6, <1>7

LEMMA CapturePromise ==
  ASSUME TypeOK, RowInv, NEW o \in GarageOps, CanCapture(o), Capture(o), UNCHANGED live
  PROVE  Kept
<1>1. Len(live)' = Len(live) OBVIOUS
<1>2. PICK g \in Garages : g = o[2] BY GarageOpKinds DEF CanCapture
<1>3. ItemInv(g) BY DEF RowInv
<1>4. CASE g \in archived
  <2>1. UNCHANGED <<item, lock>> BY <1>2, <1>4 DEF Capture
  <2>2. Custody' = Custody BY <2>1, CustodyNow, CustodyNext
  <2> QED BY <1>1, <2>2 DEF Kept
<1>5. CASE g \notin archived
  <2>1. item[g] = "preparing" /\ item'[g] = "removing" /\ lock' = lock
    BY <1>2, <1>5 DEF CanCapture, Capture, TypeOK
  <2>2. lock = g /\ g # Nothing BY <1>3, <2>1, NothingIsNone DEF ItemInv, Held, ItemStates
  <2>3. Custody' = Custody BY <2>1, <2>2, CustodyNow, CustodyNext, Stages
  <2> QED BY <1>1, <2>3 DEF Kept
<1> QED BY <1>4, <1>5

LEMMA CheckpointPromise ==
  ASSUME TypeOK, RowInv, CycleInv, WorldInv, "sale" \notin Hazards, NEW g \in Garages, Checkpoint(g)
  PROVE  Kept
<1>1. PICK o \in GarageOps :
        /\ o[1] \in {"store", "retrieve"} /\ OpGarage(o) = g /\ Mine(o) /\ item[g] = Awaited(o)
        /\ item' = [item EXCEPT ![g] = IF o[1] = "store" THEN "stored" ELSE "retrieved"]
        /\ lock' = IF o[1] = "retrieve" /\ lock = g THEN Nothing ELSE lock
  BY CheckpointFacts
<1>2. UNCHANGED live BY DEF Checkpoint, gameVars
<1>3. Len(live)' = Len(live) BY <1>2
<1>4. lock = g /\ g # Nothing
  <2>1. ItemInv(g) /\ Awaited(o) \in Held BY Words DEF RowInv
  <2> QED BY <1>1, <2>1, NothingIsNone DEF ItemInv
<1>5. HeldInv(g) BY <1>4 DEF WorldInv
<1>6. CASE o[1] = "store"
  <2>1. item[g] = "awaiting_store_save" /\ item'[g] = "stored" /\ lock' = g
    BY <1>1, <1>4, <1>6, Words DEF TypeOK
  <2>2. saved = <<>> BY <2>1 DEF Checkpoint, Proven, Gone, Expected
  <2>3. live = <<>> BY <1>5, <2>1, <2>2 DEF HeldInv, Leaving
  <2>4. Len(live) = 0 BY <2>3
  <2>5. Custody = "leaving" /\ Custody' = "garage"
    BY <1>4, <2>1, CustodyNow, CustodyNext, Stages
  <2> QED BY <1>3, <2>4, <2>5 DEF Kept, Promise!Next, Promise!Enter
<1>7. CASE o[1] = "retrieve"
  <2>1. item[g] = "awaiting_retrieve_save" /\ item'[g] = "retrieved" /\ lock' = Nothing
    BY <1>1, <1>4, <1>7, Words DEF TypeOK
  <2>2. saved # <<>> BY <2>1, OneCopy DEF Checkpoint, Proven, Gone, Expected
  <2>3. ~sold BY DEF WorldInv, CopiesInv
  <2>4. live # <<>> BY <1>5, <2>1, <2>2, <2>3 DEF HeldInv, Restorable, CycleInv, Cycle, After
  <2>5. Len(live) = 1 BY <2>4, AtMostOne DEF WorldInv, CopiesInv, TypeOK
  <2>6. Custody = "returning" /\ Custody' = "world"
    BY <1>4, <2>1, CustodyNow, CustodyNext, Stages
  <2> QED BY <1>3, <2>5, <2>6 DEF Kept, Promise!Next, Promise!Return
<1> QED BY <1>1, <1>6, <1>7

LEMMA AgentPromise ==
  ASSUME TypeOK, RowInv, CycleInv, WorldInv, StoredInv, "sale" \notin Hazards, AgentStep
  PROVE  Kept
<1>1. ASSUME UNCHANGED <<item, lock, live>> PROVE Kept
  <2>1. Custody' = Custody /\ Len(live)' = Len(live) BY <1>1, CustodyNow, CustodyNext
  <2> QED BY <2>1 DEF Kept
<1>2. ASSUME NEW o \in Ops, PostReceipt(o) PROVE Kept
  <2>1. UNCHANGED live BY <1>2 DEF PostReceipt, gameVars
  <2>2. CASE ~Handle(o) BY <1>1, <1>2, <2>1, <2>2 DEF PostReceipt
  <2>3. CASE Handle(o) /\ o \notin GarageOps
    <3>1. o[1] = "transfer" BY <2>3, OpKinds
    <3>2. UNCHANGED <<item, lock>>
      BY <2>3, <3>1 DEF Handle, CanCapture, CanApply, CanRefuse, CanReview, Settle
    <3> QED BY <1>1, <2>1, <3>2
  <2>4. CASE Handle(o) /\ o \in GarageOps
    <3>1. CASE CanCapture(o) /\ Capture(o) BY <2>1, <2>4, <3>1, CapturePromise
    <3>2. CASE CanApply(o) /\ Apply(o)
      <4>1. CASE op[o] = "succeeded" BY <1>1, <2>1, <3>2, <4>1 DEF Apply
      <4>2. CASE op[o] # "succeeded" BY <2>1, <2>4, <3>2, <4>2, AwaitedPromise DEF Apply
      <4> QED BY <4>1, <4>2
    <3>3. CASE CanRefuse(o) /\ Refuse(o) BY <2>1, <2>4, <3>3, RefusePromise
    <3>4. CASE CanReview(o) /\ Review(o) BY <2>1, <2>4, <3>4, DoubtPromise DEF Review
    <3>5. ~CanSettle(o) BY <2>4, OpKinds DEF CanSettle
    <3> QED BY <2>4, <3>1, <3>2, <3>3, <3>4, <3>5 DEF Handle
  <2> QED BY <2>2, <2>3, <2>4
<1>3. ASSUME NEW o \in Ops, HandlerStops(o) PROVE Kept
  <2>1. o \in GarageOps BY <1>3, OpKinds DEF HandlerStops, CanApply, CanReview
  <2>2. UNCHANGED <<lock, live>> BY <1>3 DEF HandlerStops, gameVars
  <2> QED BY <1>3, <2>1, <2>2, AwaitedPromise, DoubtPromise DEF HandlerStops
<1>4. CASE (\E o \in Ops : TestReceipt(o)) \/ WriteCommand \/ SnapshotAccepted
  BY <1>1, <1>4 DEF TestReceipt, WriteCommand, SnapshotAccepted, custodyVars, gameVars
<1> QED BY <1>2, <1>3, <1>4, CheckpointPromise DEF AgentStep

LEMMA GamePromise ==
  ASSUME TypeOK, RequestInv, LoadInv, DeliveryInv, RowInv, CycleInv, WorldInv, StoredInv,
         "sale" \notin Hazards, GameStep
  PROVE  Kept
<1>1. UNCHANGED <<item, lock>>
  <2>1. CASE \E o \in Ops : Process(o) \/ FinishRemoval(o) \/ FinishLoad(o)
    BY <2>1, GameFrame DEF custodyVars
  <2>2. CASE NativeDelete \/ NativeSave \/ Crash \/ PlayerSells
    BY <2>2 DEF NativeDelete, NativeSave, Crash, PlayerSells, custodyVars
  <2> QED BY <2>1, <2>2 DEF GameStep
<1>2. Custody' = Custody BY <1>1, CustodyNow, CustodyNext
<1>3. ASSUME Len(live') = Len(live) PROVE Kept
  <2>1. Len(live)' = Len(live) BY <1>3
  <2> QED BY <1>2, <2>1 DEF Kept
<1>4. ASSUME NEW g \in Garages, lock = g, item[g] \in Held \ {"stored"}, Len(live') \in {0, 1}
      PROVE  Kept
  <2>1. Stage(item[g]) \in {"leaving", "returning", "review"}
    BY <1>4, Stages DEF Held, ItemStates
  <2>2. Custody \in {"leaving", "returning", "review"} BY <1>4, <2>1, CustodyNow, NothingIsNone
  <2>3. Len(live)' \in {0, 1} BY <1>4
  <2> QED BY <1>2, <2>2, <2>3 DEF Kept, Promise!Next, Promise!Move
<1>5. lock = Nothing => Untouched BY DEF WorldInv
<1>6. ASSUME NEW g \in Garages, lock = g PROVE item[g] \in Held /\ (item[g] = "stored" => Absent)
  BY <1>6, StoredAbsent DEF RowInv, ItemInv
<1>7. lock # Nothing => \E g \in Garages : lock = g BY DEF TypeOK
<1>8. Len(<<>>) = 0 OBVIOUS
<1>9. ASSUME NEW o \in Ops, Process(o) PROVE Kept
  <2>1. CASE o \notin GarageOps
    <3>1. ProcessTransfer(o) BY <1>9, <2>1, OpKinds DEF Process
    <3>2. live' = live \/ (live = <<source[o[2]]>> /\ live' = <<Destination[o[2]]>>)
      BY <3>1 DEF ProcessTransfer, Declines, OwnedBySource
    <3>3. Len(live') = Len(live)
      <4>1. CASE live' = live BY <4>1
      <4>2. CASE live = <<source[o[2]]>> /\ live' = <<Destination[o[2]]>>
        <5>1. Len(live) = 1 /\ Len(live') = 1 BY <4>2, OneCopy
        <5> QED BY <5>1
      <4> QED BY <3>2, <4>1, <4>2
    <3> QED BY <1>3, <3>3
  <2>2. CASE o \in GarageOps
    <3>1. live' = live
      BY <1>9, <2>2, GarageOpKinds
      DEF Process, ProcessPrepare, ProcessStore, ProcessRetrieve, Declines
    <3> QED BY <1>3, <3>1
  <2> QED BY <2>1, <2>2
<1>10. ASSUME NEW o \in Ops, FinishRemoval(o) PROVE Kept
  BY <1>3, <1>10 DEF FinishRemoval
<1>11. ASSUME NEW o \in Ops, FinishLoad(o) PROVE Kept
  <2>1. o \in GarageOps /\ o[1] = "retrieve" /\ o \in pending BY <1>11, OpKinds DEF FinishLoad
  <2>2. PICK g \in Garages : g = OpGarage(o) /\ item[g] = Working(o) /\ lock = g
    BY <2>1, CommandActive, ActiveItem
  <2>3. item[g] = "retrieving" /\ Absent BY <2>1, <2>2, Words, GarageOpKinds DEF WorldInv
  <2>4. lock = g BY <2>2
  <2>5. live' \in {<<>>, <<Destination[o[2]]>>}
    <3>1. live' \in {live, Append(live, Destination[o[2]])} BY <1>11 DEF FinishLoad
    <3> QED BY <2>3, <3>1, OneCopy DEF Absent
  <2>6. Len(live') \in {0, 1} BY <1>8, <2>5, OneCopy
  <2> QED BY <1>4, <1>6, <2>3, <2>4, <2>6
<1>12. CASE NativeDelete
  <2>1. deleting /\ live' = <<>> BY <1>12 DEF NativeDelete
  <2>2. ~Untouched /\ ~Absent BY <2>1 DEF Untouched, Absent
  <2>3. PICK g \in Garages : lock = g BY <1>5, <1>7, <2>2
  <2>4. item[g] \in Held \ {"stored"} BY <1>6, <2>2, <2>3
  <2>5. Len(live') = 0 BY <1>8, <2>1
  <2> QED BY <1>4, <2>3, <2>4, <2>5
<1>13. CASE NativeSave BY <1>3, <1>13 DEF NativeSave, gameVars
<1>14. CASE Crash
  <2>1. live' = saved BY <1>14 DEF Crash
  <2>2. Len(live') = Len(saved) BY <2>1
  <2>3. CASE Untouched \/ Absent BY <1>3, <2>2, <2>3, CopiesHeld
  <2>4. CASE ~Untouched /\ ~Absent
    <3>1. PICK g \in Garages : lock = g BY <1>5, <1>7, <2>4
    <3>2. item[g] \in Held \ {"stored"} BY <1>6, <2>4, <3>1
    <3>3. Len(live') \in {0, 1} BY <2>2, CopiesHeld
    <3> QED BY <1>4, <3>1, <3>2, <3>3
  <2> QED BY <2>3, <2>4
<1>15. ~PlayerSells BY DEF PlayerSells, Fault
<1> QED BY <1>9, <1>10, <1>11, <1>12, <1>13, <1>14, <1>15 DEF GameStep

(* Nobody but the garage takes the vehicle out of the world or brings it   *)
(* back, storing and restoring end where they may, and doubt stays under   *)
(* review: Custody and the copies of the running game implement            *)
(* VehicleCustody as long as no player sells the vehicle.                  *)
THEOREM PromiseIsKept ==
  ASSUME "recreate" \notin Hazards, "sale" \notin Hazards, OneAnswer
  PROVE  Spec => PromiseKept
<1> DEFINE I == /\ TypeOK /\ RequestInv /\ LoadInv /\ CycleInv /\ WorldInv
                /\ DeliveryInv /\ RowInv /\ StoredInv
<1>1. Init => Promise!Init
  <2> SUFFICES ASSUME Init PROVE Promise!Init OBVIOUS
  <2>1. lock = Nothing /\ Len(live) = 1 BY OneCopy DEF Init
  <2>2. Custody = "world" BY <2>1, CustodyNow
  <2> QED BY <2>1, <2>2 DEF Promise!Init
<1>2. I /\ [Next]_vars => [Promise!Next]_<<Custody, Len(live)>>
  <2> SUFFICES ASSUME I, [Next]_vars PROVE [Promise!Next]_<<Custody, Len(live)>> OBVIOUS
  <2>1. CASE Next
    <3>1. Kept BY <2>1, CentralPromise, AgentPromise, GamePromise DEF Next
    <3> QED BY <3>1 DEF Kept
  <2>2. CASE UNCHANGED vars
    <3>1. UNCHANGED <<item, lock, live>> BY <2>2 DEF vars, custodyVars, gameVars
    <3>2. Custody' = Custody /\ Len(live)' = Len(live) BY <3>1, CustodyNow, CustodyNext
    <3> QED BY <3>2
  <2> QED BY <2>1, <2>2
<1>3. Spec => []I BY StoredHolds
<1> HIDE DEF I
<1> QED BY <1>1, <1>2, <1>3, PTL DEF Spec, PromiseKept, Promise!Spec
===============================================================================
