------------------------------ MODULE MoneyBridge ------------------------------
(***************************************************************************)
(* The bank bridge: a player moves money between a central wallet and a    *)
(* farm of the running game.                                               *)
(*                                                                         *)
(*   Central  the bot's bank (banking_engine.py), the operation table of   *)
(*            farm_lifecycle.py, the active FS25 world                     *)
(*            (world_generation.py) and the HTTP handlers (server_api.py). *)
(*   Agent    agent.py, one thread: a receipt pass, then an operation      *)
(*            pass, then (when due) a snapshot.                            *)
(*   Game     NetworkLocal.lua in the dedicated server: polls the mailbox  *)
(*            directory, moves native cash, leaves receipts.               *)
(*                                                                         *)
(* Central and Agent talk over HTTP, either direction of which may be      *)
(* lost.  Agent and Game share a directory and no lock.  A request's       *)
(* operation, command, receipt and quarantine files are all named by the   *)
(* one operation ID derived from it, so they are indexed by the request.   *)
(*                                                                         *)
(* Right before some definitions stands a WRONG variant of it that nothing *)
(* uses (BalanceUnchecked before BalanceCovers): the plausible bug that    *)
(* PROJECT.json substitutes to show that a property would notice it.       *)
(***************************************************************************)
EXTENDS Naturals, FiniteSets, Functions

CONSTANTS
  Requests,     \* stable request IDs (one per bank interaction)
  Users,        \* Discord users, owners of wallets
  Farms,        \* native farms
  Worlds,       \* FS25 world generations seen by this server/save
  Kind,         \* Kind[r]: "withdraw_funds" or "deposit_funds"
  User,         \* User[r]: who asks
  Amount,       \* Amount[r]: positive whole currency units
  Opening,      \* Opening[u]: wallet balance before the first request
  Hazards,      \* which of HazardNames this instance lets happen
  MaxFaults,    \* bound on process stops and unwritten receipts together
  NoRequest,    \* no operation in hand
  NoFarm,       \* no active manager membership
  NoWorld       \* the request has not been made

(***************************************************************************)
(* Interleavings and failures the code leaves open and some runs exclude:  *)
(*   recreate       the game works on the mailbox between the Agent's      *)
(*                  receipt test and its command test (agent.py 626-672)   *)
(*   request_race   a new world is activated between a request's world     *)
(*                  check and its reservation (banking_engine.py 481-515)  *)
(*   crash          the game stops with unsaved cash, or inside a command  *)
(*   save_failure   receipt:save() leaves no file (NetworkLocal.lua 3162)  *)
(***************************************************************************)
HazardNames == {"recreate", "request_race", "crash", "save_failure"}

ASSUME RequestAssumption ==
  /\ Kind \in [Requests -> {"withdraw_funds", "deposit_funds"}]
  /\ User \in [Requests -> Users]
  /\ Amount \in [Requests -> Nat \ {0}]
  /\ Opening \in [Users -> Nat]
ASSUME NullAssumption ==
  /\ NoRequest \notin Requests
  /\ NoFarm \notin Farms
  /\ NoWorld \notin Worlds
ASSUME HazardAssumption == Hazards \subseteq HazardNames /\ MaxFaults \in Nat

VARIABLES
  (* Central, one Mongo database *)
  state,        \* state[r] of the withdrawals / deposit_requests row
  world,        \* world[r]: the generation the request was checked against
  farm,         \* farm[r]: the farm of the membership it was made under
  op,           \* op[r]: state of its farm_operations row
  wallet,       \* wallet[u]: the projected balance
  ledger,       \* ledger rows <<transaction type, request>>
  manages,      \* manages[w][u]: farm of the active manager membership
  activeWorld,  \* the world_generations row in state "active"
  (* Agent, in memory *)
  pass,         \* "idle", "receipts", "materialize" or "write"
  passWorld,    \* the world ID this half of the pass read from snapshot.xml
  todo,         \* receipts listed, or operations fetched, not yet handled
  current,      \* the operation between receipt test and command write
  delivered,    \* operations to be named in the manifest
  (* The mailbox directory *)
  commands,     \* commands/<operation>.xml
  manifest,     \* the operations commands/manifest.xml names
  receipt,      \* receipt[r]: status in permission-receipts/<operation>.xml
  failed,       \* failed[r]: status in the newest .xml.failed* marker
  snapshot,     \* the world ID in snapshot.xml
  (* Game, in memory, and its savegames *)
  gameWorld,    \* the world the server runs
  ready,        \* worldIdentityReady
  polling,      \* inside processPermissionCommands
  gameTodo,     \* manifest entries the loop has not reached
  consuming,    \* receipt saved, command file not yet deleted
  native,       \* native[r]: balance changes made for r in its world, live
  saved,        \* native[r] as of that world's last savegame
  faults        \* process stops and unwritten receipts so far

centralVars == <<state, world, farm, op, wallet, ledger, manages, activeWorld>>
bankVars    == <<state, op, wallet, ledger>>
agentVars   == <<pass, passWorld, todo, current, delivered>>
mailboxVars == <<commands, manifest, receipt, failed, snapshot>>
gameVars    == <<gameWorld, ready, polling, gameTodo, consuming, native, saved>>
vars == <<centralVars, agentVars, mailboxVars, gameVars, faults>>

States     == {"absent", "pending", "completed", "failed", "refunded"}
OpStates   == {"absent", "pending", "dispatched", "succeeded", "failed", "world_superseded"}
Statuses   == {"applied", "definitively_not_applied", "pending_validation", "rejected"}
LedgerRows == {"withdrawal_reservation", "withdrawal_refund", "deposit"} \X Requests

Open(o)      == o \in {"pending", "dispatched"}
Settled(r)   == state[r] \in {"completed", "failed", "refunded"}
Withdraws(r) == Kind[r] = "withdraw_funds"

Init ==
  /\ state = [r \in Requests |-> "absent"]
  /\ world = [r \in Requests |-> NoWorld]
  /\ farm = [r \in Requests |-> NoFarm]
  /\ op = [r \in Requests |-> "absent"]
  /\ wallet = Opening
  /\ ledger = {}
  /\ manages \in [Worlds -> [Users -> Farms \cup {NoFarm}]]
  /\ activeWorld \in Worlds
  /\ pass = "idle"
  /\ passWorld = activeWorld
  /\ todo = {}
  /\ current = NoRequest
  /\ delivered = {}
  /\ commands = {}
  /\ manifest = {}
  /\ receipt = [r \in Requests |-> "none"]
  /\ failed = [r \in Requests |-> "none"]
  /\ snapshot = activeWorld
  /\ gameWorld = activeWorld
  /\ ready = TRUE
  /\ polling = FALSE
  /\ gameTodo = {}
  /\ consuming = NoRequest
  /\ native = [r \in Requests |-> 0]
  /\ saved = [r \in Requests |-> 0]
  /\ faults = 0

-------------------------------------------------------------------------------
(* Central: the bank                                                       *)

InFlight(r) == world[r] # NoWorld /\ state[r] = "absent"

(* BankingEngine._world_id, called before the transaction starts.          *)
CheckRequestWorld(r) ==
  /\ state[r] = "absent"
  /\ world' = [world EXCEPT ![r] = activeWorld]
  /\ world[r] # activeWorld
  /\ UNCHANGED <<bankVars, farm, manages, activeWorld, agentVars, mailboxVars, gameVars, faults>>

(* _ledger: a row is inserted once; its wallet effect follows the insert.  *)
Post(type, r) == ledger' = ledger \cup {<<type, r>>}

BalanceUnchecked(r) == TRUE
BalanceCovers(r) == wallet[User[r]] >= Amount[r]

Queue(r) ==
  /\ InFlight(r)
  /\ manages[world[r]][User[r]] # NoFarm
  /\ farm' = [farm EXCEPT ![r] = manages[world[r]][User[r]]]
  /\ state' = [state EXCEPT ![r] = "pending"]
  /\ op' = [op EXCEPT ![r] = "pending"]
  /\ UNCHANGED <<world, manages, activeWorld, agentVars, mailboxVars, gameVars, faults>>

(* request_withdrawal: one transaction reserves the wallet amount, writes  *)
(* the ledger row, the operation and the request.                          *)
RequestWithdrawal(r) ==
  /\ Withdraws(r)
  /\ BalanceCovers(r)
  /\ Queue(r)
  /\ wallet' = [wallet EXCEPT ![User[r]] = @ - Amount[r]]
  /\ Post("withdrawal_reservation", r)

(* request_deposit: nothing is credited before a receipt.                  *)
RequestDeposit(r) ==
  /\ ~Withdraws(r)
  /\ Queue(r)
  /\ UNCHANGED <<wallet, ledger>>

(* A membership gains or loses active farm_manager status in the current   *)
(* world (assignment, revocation, drift repair), as AdminManager.lookup    *)
(* sees it.  Its own protocol is not part of this module.                  *)
ChangeManager(u) ==
  /\ \E f \in Farms \cup {NoFarm} :
       /\ f # manages[activeWorld][u]
       /\ manages' = [manages EXCEPT ![activeWorld][u] = f]
  /\ UNCHANGED <<bankVars, world, farm, activeWorld, agentVars, mailboxVars, gameVars, faults>>

-------------------------------------------------------------------------------
(* Central: world generations and the operation feed                       *)

SupersedeNothing(w) == op
SupersedeOthers(w) ==
  [r \in Requests |-> IF Open(op[r]) /\ world[r] # w THEN "world_superseded" ELSE op[r]]

(* do_snapshot -> record_snapshot -> WorldGenerationRegistry.activate: the *)
(* Agent posted the snapshot.xml of a world that is not the active one.    *)
(* Open operations of every other generation are superseded; the request   *)
(* rows only get a historical mark, their state is left alone.             *)
ActivateWorld ==
  /\ pass = "idle"
  /\ snapshot # activeWorld
  /\ "request_race" \in Hazards \/ \A r \in Requests : ~InFlight(r)
  /\ activeWorld' = snapshot
  /\ op' = SupersedeOthers(snapshot)
  /\ UNCHANGED <<state, world, farm, wallet, ledger, manages, agentVars, mailboxVars, gameVars, faults>>

ServedOnce(w) == {r \in Requests : op[r] = "pending" /\ world[r] = w}
Served(w) == {r \in Requests : Open(op[r]) /\ world[r] = w}
MarkServed(w) == [r \in Requests |-> IF r \in Served(w) THEN "dispatched" ELSE op[r]]

-------------------------------------------------------------------------------
(* Central: do_receipt and the two settlements                             *)

(* require_current_world, then the receipt's own world against the world   *)
(* the Agent posted under.  Every receipt carries the world of its command *)
(* (setReceiptWorldId, rejectWrongWorldCommand), which is its request's.   *)
ReceiptInWorld(r) == passWorld = activeWorld /\ world[r] = passWorld

DefinitiveStatus(r) == receipt[r] \in {"applied", "definitively_not_applied"}

Outcome(r) ==
  IF receipt[r] = "applied" THEN "completed"
  ELSE IF Withdraws(r) THEN "refunded" ELSE "failed"

OperationOpen(r) == Open(op[r])

(* credit_verified_transfer asks again for the depositor's membership.     *)
DepositorStillManages(r) == manages[world[r]][User[r]] = farm[r]

SettlesWithdrawal(r) ==
  /\ state[r] = "pending"
  /\ DefinitiveStatus(r)
  /\ OperationOpen(r)

SettlesDeposit(r) ==
  /\ state[r] = "pending"
  /\ DefinitiveStatus(r)
  /\ OperationOpen(r)
  /\ receipt[r] = "applied" => DepositorStillManages(r)

Settles(r) ==
  ReceiptInWorld(r) /\ IF Withdraws(r) THEN SettlesWithdrawal(r) ELSE SettlesDeposit(r)

(* The 200 answers that change nothing.  A settled withdrawal accepts only *)
(* the outcome it has; a settled deposit accepts either.                   *)
AlreadySettled(r) ==
  /\ ReceiptInWorld(r)
  /\ DefinitiveStatus(r)
  /\ IF Withdraws(r) THEN Settled(r) /\ state[r] = Outcome(r) ELSE Settled(r)

CreditOnce(type, r) ==
  /\ Post(type, r)
  /\ wallet' = IF <<type, r>> \in ledger THEN wallet
               ELSE [wallet EXCEPT ![User[r]] = @ + Amount[r]]

RawOutcome(r) == receipt[r]
OperationOutcome(r) == IF receipt[r] = "applied" THEN "succeeded" ELSE "failed"

ForgetRefund(r) == UNCHANGED <<wallet, ledger>>
Refund(r) == CreditOnce("withdrawal_refund", r)

(* settle_withdrawal / settle_deposit, one transaction each.               *)
Settle(r) ==
  /\ Settles(r)
  /\ state' = [state EXCEPT ![r] = Outcome(r)]
  /\ op' = [op EXCEPT ![r] = OperationOutcome(r)]
  /\ \/ Outcome(r) = "refunded" /\ Refund(r)
     \/ Outcome(r) = "completed" /\ ~Withdraws(r) /\ CreditOnce("deposit", r)
     \/ Outcome(r) = "failed" /\ UNCHANGED <<wallet, ledger>>
     \/ Outcome(r) = "completed" /\ Withdraws(r) /\ UNCHANGED <<wallet, ledger>>

-------------------------------------------------------------------------------
(* Agent: process_receipts_once                                            *)

ListReceipts ==
  /\ pass = "idle"
  /\ pass' = "receipts"
  /\ passWorld' = snapshot
  /\ todo' = {r \in Requests : receipt[r] # "none"}
  /\ UNCHANGED <<current, delivered, centralVars, mailboxVars, gameVars, faults>>

Handled(r) ==
  /\ pass = "receipts"
  /\ r \in todo
  /\ todo' = todo \ {r}
  /\ UNCHANGED <<pass, passWorld, current, delivered, world, farm, manages, activeWorld,
                 commands, manifest, snapshot, gameVars, faults>>

Unlink(r) == receipt' = [receipt EXCEPT ![r] = "none"] /\ UNCHANGED failed
Quarantine(r) == /\ failed' = [failed EXCEPT ![r] = receipt[r]]
                 /\ receipt' = [receipt EXCEPT ![r] = "none"]
Retain == UNCHANGED <<receipt, failed>>

(* The POST reached Central and its 200 came back.                         *)
ReceiptAccepted(r) ==
  /\ Handled(r)
  /\ Settle(r) \/ (AlreadySettled(r) /\ UNCHANGED bankVars)
  /\ Unlink(r)

(* The POST reached Central, the answer was lost: the file is kept.        *)
ReceiptAnswerLost(r) ==
  /\ Handled(r)
  /\ Settle(r)
  /\ Retain

(* Central raised ValueError; 400 and 404 are permanent for the Agent.     *)
ReceiptRefused(r) ==
  /\ Handled(r)
  /\ ~Settles(r) /\ ~AlreadySettled(r)
  /\ UNCHANGED bankVars
  /\ Quarantine(r)

(* No answer and nothing settled: the POST, or an answer that reported no  *)
(* change, was lost.                                                       *)
ReceiptUnsent(r) ==
  /\ Handled(r)
  /\ UNCHANGED bankVars
  /\ Retain

-------------------------------------------------------------------------------
(* Agent: process_operations_once                                          *)

EndReceipts == pass = "receipts" /\ todo = {}

(* operations_for marks every served row dispatched.  Its repair of        *)
(* manager memberships is a ChangeManager step of its own.                 *)
FetchOperations ==
  /\ EndReceipts
  /\ snapshot = activeWorld
  /\ op' = MarkServed(snapshot)
  /\ pass' = "materialize"
  /\ passWorld' = snapshot
  /\ todo' = Served(snapshot)
  /\ delivered' = {}
  /\ UNCHANGED <<current, state, world, farm, wallet, ledger, manages, activeWorld,
                 mailboxVars, gameVars, faults>>

(* The request failed, was refused (another world is active) or its answer *)
(* was lost.  The manifest of the last pass stays where it is.             *)
FetchFailed ==
  /\ EndReceipts
  /\ \/ op' = op
     \/ snapshot = activeWorld /\ op' = MarkServed(snapshot)
  /\ pass' = "idle"
  /\ UNCHANGED <<passWorld, todo, current, delivered, state, world, farm, wallet, ledger,
                 manages, activeWorld, mailboxVars, gameVars, faults>>

Forgetful(r) == TRUE
Unanswered(r) == receipt[r] = "none" /\ failed[r] = "none"

(* receipt_path.exists(), then the .failed* markers (none of a money       *)
(* operation is retryable).                                                *)
TestReceipt(r) ==
  /\ pass = "materialize"
  /\ r \in todo
  /\ todo' = todo \ {r}
  /\ IF Unanswered(r)
     THEN pass' = "write" /\ current' = r
     ELSE UNCHANGED <<pass, current>>
  /\ UNCHANGED <<passWorld, delivered, centralVars, mailboxVars, gameVars, faults>>

(* Create the command file unless it exists; either way it is delivered.   *)
WriteCommand ==
  /\ pass = "write"
  /\ commands' = commands \cup {current}
  /\ delivered' = delivered \cup {current}
  /\ current' = NoRequest
  /\ pass' = "materialize"
  /\ UNCHANGED <<passWorld, todo, centralVars, manifest, receipt, failed, snapshot, gameVars, faults>>

WriteManifest ==
  /\ pass = "materialize"
  /\ todo = {}
  /\ manifest' = delivered
  /\ pass' = "idle"
  /\ delivered' = {}
  /\ UNCHANGED <<passWorld, todo, current, centralVars, commands, receipt, failed, snapshot,
                 gameVars, faults>>

(* The Agent process stops; only the mailbox directory survives.           *)
AgentRestart ==
  /\ faults < MaxFaults
  /\ faults' = faults + 1
  /\ pass # "idle"
  /\ pass' = "idle"
  /\ todo' = {}
  /\ current' = NoRequest
  /\ delivered' = {}
  /\ UNCHANGED <<passWorld, centralVars, mailboxVars, gameVars>>

-------------------------------------------------------------------------------
(* Game: processPermissionCommands                                         *)

(* The mailbox hands the Agent's window to the game only in some runs.     *)
MailboxTurn == "recreate" \in Hazards \/ pass # "write"

PollManifest ==
  /\ ~polling
  /\ polling' = TRUE
  /\ gameTodo' = manifest
  /\ UNCHANGED <<gameWorld, ready, consuming, native, saved, centralVars, agentVars, mailboxVars, faults>>

(* The loop reaches the entry for r.                                       *)
Entry(r) ==
  /\ polling /\ consuming = NoRequest
  /\ r \in gameTodo
  /\ gameTodo' = gameTodo \ {r}
  /\ MailboxTurn

Executable(r) == r \in commands /\ receipt[r] = "none"
AnyWorld(r) == ready
WorldMatches(r) == ready /\ world[r] = gameWorld

(* saveReceiptAndConsume up to the saved receipt.  Where the file cannot   *)
(* be written the function returns before it deletes the command.          *)
SaveReceipt(r, status) ==
  \/ /\ receipt' = [receipt EXCEPT ![r] = status]
     /\ consuming' = r
     /\ UNCHANGED faults
  \/ /\ "save_failure" \in Hazards
     /\ faults < MaxFaults
     /\ faults' = faults + 1
     /\ UNCHANGED <<receipt, consuming>>

ProvenOutcome(status, change) ==
  \/ status = "applied" /\ change = 1
  \/ status = "definitively_not_applied" /\ change = 0
  \/ status = "pending_validation" /\ change \in {0, 1}

(* processMoneyCommand: one changeBalance, then the readback decides what  *)
(* the receipt may claim.  Mutation and receipt are one Lua frame: a stop  *)
(* between them loses unsaved cash and is a stop before both.              *)
ExecuteMoney(r) ==
  /\ Entry(r)
  /\ Executable(r) /\ WorldMatches(r)
  /\ \E status \in Statuses, change \in {0, 1} :
       /\ ProvenOutcome(status, change)
       /\ native' = [native EXCEPT ![r] = @ + change]
       /\ SaveReceipt(r, status)
  /\ UNCHANGED <<gameWorld, ready, polling, saved, centralVars, agentVars,
                 commands, manifest, failed, snapshot>>

(* rejectWrongWorldCommand, which also answers for an identity not ready.  *)
RejectWrongWorld(r) ==
  /\ Entry(r)
  /\ Executable(r) /\ ~WorldMatches(r)
  /\ SaveReceipt(r, "rejected")
  /\ UNCHANGED <<gameWorld, ready, polling, native, saved, centralVars, agentVars,
                 commands, manifest, failed, snapshot>>

(* A command beside its receipt was executed before: delete it.            *)
DiscardAnswered(r) ==
  /\ Entry(r)
  /\ r \in commands /\ receipt[r] # "none"
  /\ commands' = commands \ {r}
  /\ UNCHANGED <<gameWorld, ready, polling, consuming, native, saved, centralVars, agentVars,
                 manifest, receipt, failed, snapshot, faults>>

(* No command file, or XMLFile.create returned nil for the receipt.        *)
SkipEntry(r) ==
  /\ Entry(r)
  /\ r \in commands => receipt[r] = "none"
  /\ UNCHANGED <<gameWorld, ready, polling, consuming, native, saved, centralVars, agentVars,
                 mailboxVars, faults>>

ConsumeCommand ==
  /\ consuming # NoRequest
  /\ MailboxTurn
  /\ commands' = commands \ {consuming}
  /\ consuming' = NoRequest
  /\ UNCHANGED <<gameWorld, ready, polling, gameTodo, native, saved, centralVars, agentVars,
                 manifest, receipt, failed, snapshot, faults>>

(* deleteFile(manifestPath), whatever the Agent wrote there meanwhile.     *)
EndPoll ==
  /\ polling /\ gameTodo = {} /\ consuming = NoRequest
  /\ polling' = FALSE
  /\ manifest' = {}
  /\ UNCHANGED <<gameWorld, ready, gameTodo, consuming, native, saved, centralVars, agentVars,
                 commands, receipt, failed, snapshot, faults>>

(* update() runs the mailbox under pcall: a Lua error ends the pass and    *)
(* leaves the manifest for the next one.                                   *)
AbortPoll ==
  /\ polling /\ consuming = NoRequest
  /\ polling' = FALSE
  /\ gameTodo' = {}
  /\ UNCHANGED <<gameWorld, ready, consuming, native, saved, centralVars, agentVars, mailboxVars, faults>>

-------------------------------------------------------------------------------
(* Game: the process and its savegames                                     *)

InGame(r) == world[r] = gameWorld

ExportSnapshot ==
  /\ ready /\ ~polling
  /\ snapshot # gameWorld
  /\ snapshot' = gameWorld
  /\ UNCHANGED <<gameVars, centralVars, agentVars, commands, manifest, receipt, failed, faults>>

SaveGame ==
  /\ ~polling
  /\ saved' = [r \in Requests |-> IF InGame(r) THEN native[r] ELSE saved[r]]
  /\ saved' # saved
  /\ UNCHANGED <<gameWorld, ready, polling, gameTodo, consuming, native, centralVars, agentVars,
                 mailboxVars, faults>>

(* initializeWorldIdentity succeeds, at load or on a retry.                *)
IdentityReady ==
  /\ ~ready /\ ~polling
  /\ ready' = TRUE
  /\ UNCHANGED <<gameWorld, polling, gameTodo, consuming, native, saved, centralVars, agentVars,
                 mailboxVars, faults>>

CleanStop == ~polling /\ \A r \in Requests : InGame(r) => native[r] = saved[r]

(* The game stops and a savegame (of any world) is loaded: live cash falls *)
(* back to what was saved, and the world identity is unread again.         *)
GameRestart ==
  /\ faults < MaxFaults
  /\ faults' = faults + 1
  /\ "crash" \in Hazards \/ CleanStop
  /\ \E w \in Worlds : gameWorld' = w
  /\ native' = [r \in Requests |-> IF InGame(r) THEN saved[r] ELSE native[r]]
  /\ ready' = FALSE
  /\ polling' = FALSE
  /\ gameTodo' = {}
  /\ consuming' = NoRequest
  /\ UNCHANGED <<saved, centralVars, agentVars, mailboxVars>>

-------------------------------------------------------------------------------
CentralStep ==
  \/ \E r \in Requests : CheckRequestWorld(r) \/ RequestWithdrawal(r) \/ RequestDeposit(r)
  \/ \E u \in Users : ChangeManager(u)
  \/ ActivateWorld

AgentStep ==
  \/ ListReceipts \/ FetchOperations \/ FetchFailed \/ WriteCommand \/ WriteManifest \/ AgentRestart
  \/ \E r \in Requests :
       \/ ReceiptAccepted(r) \/ ReceiptAnswerLost(r) \/ ReceiptRefused(r) \/ ReceiptUnsent(r)
       \/ TestReceipt(r)

GameStep ==
  \/ PollManifest \/ ConsumeCommand \/ EndPoll \/ AbortPoll
  \/ ExportSnapshot \/ SaveGame \/ IdentityReady \/ GameRestart
  \/ \E r \in Requests :
       ExecuteMoney(r) \/ RejectWrongWorld(r) \/ DiscardAnswered(r) \/ SkipEntry(r)

Next == CentralStep \/ AgentStep \/ GameStep

Spec == Init /\ [][Next]_vars

(***************************************************************************)
(* Fairness.  The Agent's loop and the game's update loop run for ever, so *)
(* their own steps are weakly fair (a restart is never required).  A call  *)
(* to Central may fail any number of times but not every time it is tried, *)
(* and a money command that keeps meeting a nil receipt handle meets a     *)
(* working one in the end: those steps are strongly fair.                  *)
(***************************************************************************)
Fairness ==
  /\ WF_vars(ListReceipts) /\ WF_vars(WriteCommand) /\ WF_vars(WriteManifest)
  /\ SF_vars(FetchOperations) /\ WF_vars(FetchFailed) /\ SF_vars(ActivateWorld)
  /\ WF_vars(PollManifest) /\ WF_vars(ConsumeCommand) /\ WF_vars(EndPoll)
  /\ WF_vars(IdentityReady) /\ SF_vars(ExportSnapshot)
  /\ \A r \in Requests :
       /\ WF_vars(TestReceipt(r))
       /\ WF_vars(ReceiptUnsent(r))
       /\ SF_vars(ReceiptAccepted(r) \/ ReceiptRefused(r))
       /\ SF_vars(ExecuteMoney(r) \/ RejectWrongWorld(r))
       /\ WF_vars(SkipEntry(r) \/ DiscardAnswered(r))

LiveSpec == Spec /\ Fairness

-------------------------------------------------------------------------------
(* Properties                                                              *)

(* Every variable holds what its declaration says.                         *)
TypeOK ==
  /\ state \in [Requests -> States]
  /\ world \in [Requests -> Worlds \cup {NoWorld}]
  /\ farm \in [Requests -> Farms \cup {NoFarm}]
  /\ op \in [Requests -> OpStates]
  /\ wallet \in [Users -> Nat]
  /\ ledger \subseteq LedgerRows
  /\ manages \in [Worlds -> [Users -> Farms \cup {NoFarm}]]
  /\ activeWorld \in Worlds
  /\ pass \in {"idle", "receipts", "materialize", "write"}
  /\ passWorld \in Worlds
  /\ todo \subseteq Requests
  /\ current \in IF pass = "write" THEN Requests ELSE {NoRequest}
  /\ delivered \subseteq Requests
  /\ commands \subseteq Requests
  /\ manifest \subseteq Requests
  /\ receipt \in [Requests -> Statuses \cup {"none"}]
  /\ failed \in [Requests -> Statuses \cup {"none"}]
  /\ snapshot \in Worlds
  /\ gameWorld \in Worlds
  /\ ready \in BOOLEAN
  /\ polling \in BOOLEAN
  /\ gameTodo \subseteq Requests
  /\ consuming \in Requests \cup {NoRequest}
  /\ native \in [Requests -> Nat]
  /\ saved \in [Requests -> Nat]
  /\ faults \in Nat

(* What a settled request told the player is what happened to the farm:    *)
(* "Each transfer must change money once" (docs/bank-finance-validation).  *)
(* A completed request changed native cash exactly once, a failed or       *)
(* refunded one never did, and no request changes it twice.                *)
EachTransferChangesMoneyOnce ==
  \A r \in Requests :
    /\ native[r] <= 1
    /\ state[r] = "completed" => native[r] = 1
    /\ state[r] \in {"failed", "refunded"} => native[r] = 0

(* The projected wallet (_project_wallet, request_withdrawal) is never     *)
(* overdrawn and is always the opening balance plus the user's ledger.     *)
LedgerExplainsWallet ==
  \A u \in Users :
    LET rows(type) == {r \in Requests : User[r] = u /\ <<type, r>> \in ledger}
        total(type) == SumFunctionOnSet(Amount, rows(type))
    IN  /\ wallet[u] >= 0
        /\ wallet[u] + total("withdrawal_reservation")
             = Opening[u] + total("withdrawal_refund") + total("deposit")

(* The ledger tells one story per request: a withdrawal is reserved when   *)
(* it exists and refunded exactly when it ended refunded; a deposit is     *)
(* credited exactly when it completed.  No retry, duplicate receipt, lost  *)
(* answer, restart or world change adds or loses a row.                    *)
LedgerMatchesState ==
  \A r \in Requests :
    /\ <<"withdrawal_reservation", r>> \in ledger <=> Withdraws(r) /\ state[r] # "absent"
    /\ <<"withdrawal_refund", r>> \in ledger <=> state[r] = "refunded"
    /\ <<"deposit", r>> \in ledger <=> ~Withdraws(r) /\ state[r] = "completed"

(* The operation row says what the request row says, in every interleaving *)
(* of requests, settlements, fetches and world changes.                    *)
OperationMatchesRequest ==
  \A r \in Requests :
    /\ op[r] = "absent" <=> state[r] = "absent"
    /\ op[r] = "succeeded" <=> state[r] = "completed"
    /\ op[r] = "failed" <=> state[r] \in {"failed", "refunded"}

(* A settled request never changes its answer, even when the game executes *)
(* its command a second time and reports the opposite.                     *)
SettledIsFinal ==
  [][\A r \in Requests : Settled(r) => state'[r] = state[r] /\ op'[r] = op[r]]_vars

(* Once a world change supersedes an operation, no late receipt settles    *)
(* its request, also after the old world has become the active one again.  *)
SupersededNeverSettles ==
  [][\A r \in Requests : op[r] = "world_superseded" =>
       state'[r] = state[r] /\ op'[r] = op[r]]_vars

(* activate() leaves no executable operation behind in another generation. *)
OpenOperationsAreCurrent ==
  \A r \in Requests : Open(op[r]) => world[r] = activeWorld

(* Requests, operations and ledger are three views of one history, and     *)
(* none of them is left open in a world that is not the active one.        *)
BankAgrees == LedgerMatchesState /\ OperationMatchesRequest /\ OpenOperationsAreCurrent

(* "Uncertain outcomes must remain in reconciliation": after a receipt in  *)
(* pending_validation was set aside, the request stays reserved and the    *)
(* command is not run again by any pass of the Agent or of the game.       *)
UncertainStaysInReconciliation ==
  [][\A r \in Requests : failed[r] = "pending_validation" =>
       state'[r] = state[r] /\ native'[r] = native[r]]_vars

(* A command only moves cash of the world its request was made in, however *)
(* long its file survives world changes in the mailbox.                    *)
OtherWorldsKeepTheirCash ==
  [][\A r \in Requests : native'[r] > native[r] => world[r] = gameWorld]_vars

(* Late receipts, second executions and stale files change nothing that is *)
(* over: no settled answer, no superseded request, no other world's cash.  *)
PastIsFinal == SettledIsFinal /\ SupersededNeverSettles /\ OtherWorldsKeepTheirCash

(* A pending request is not silently lost: it is settled, or its operation *)
(* is superseded, or a quarantined receipt is there for an operator.  The  *)
(* game deletes the manifest at the end of its mailbox pass, so this takes *)
(* that not every manifest is written inside those few milliseconds.       *)
ManifestsAreRead ==
  []<><<WriteManifest>>_vars => []<><<WriteManifest /\ ~polling>>_vars
Answered(r) == Settled(r) \/ op[r] = "world_superseded" \/ failed[r] # "none"
(* Inserted for a world that was replaced since it was checked: nobody     *)
(* serves or supersedes such an operation.                                 *)
Raced(r) == "request_race" \in Hazards /\ world[r] # activeWorld
PendingIsAnswered ==
  ManifestsAreRead =>
    \A r \in Requests : state[r] = "pending" ~> Answered(r) \/ Raced(r)

(***************************************************************************)
(* Why a money command runs once, as an inductive invariant of the clean   *)
(* bridge (no recreate, crash or save_failure).  Unanswered is the hinge:  *)
(* an operation with neither receipt nor marker has not been executed, and *)
(* a command file that is not being consumed belongs to such an operation. *)
(***************************************************************************)
AbsentIsUntouched(r) == state[r] = "absent" =>
  op[r] = "absent" /\ Unanswered(r) /\ native[r] = 0 /\ r \notin commands
PendingUnansweredIsUntouched(r) == state[r] = "pending" /\ Unanswered(r) => native[r] = 0
ReceiptTellsTheTruth(r) ==
  /\ receipt[r] = "applied" => native[r] = 1
  /\ receipt[r] \in {"definitively_not_applied", "rejected"} => native[r] = 0
CommandIsUnanswered(r) == r \in commands => r = consuming \/ (state[r] = "pending" /\ Unanswered(r))
OpenIsPending(r) == Open(op[r]) => state[r] = "pending"
ListedHasReceipt(r) == pass = "receipts" /\ r \in todo => receipt[r] # "none"
FetchedIsPending(r) == pass \in {"materialize", "write"} /\ r \in todo => state[r] = "pending"
MarkedHasNoReceipt(r) == failed[r] # "none" => receipt[r] = "none"
CurrentIsUnanswered == pass = "write" =>
  state[current] = "pending" /\ Unanswered(current)
ConsumingInsidePoll == consuming # NoRequest => polling

OnceInv ==
  /\ \A r \in Requests :
       /\ AbsentIsUntouched(r)
       /\ PendingUnansweredIsUntouched(r)
       /\ ReceiptTellsTheTruth(r)
       /\ CommandIsUnanswered(r)
       /\ OpenIsPending(r)
       /\ ListedHasReceipt(r)
       /\ FetchedIsPending(r)
       /\ MarkedHasNoReceipt(r)
  /\ CurrentIsUnanswered
  /\ ConsumingInsidePoll
  /\ EachTransferChangesMoneyOnce

(* What a player pays and gets, in the game and at the bank, adds up, and  *)
(* for the reason OnceInv gives.                                           *)
BooksBalance == OnceInv /\ LedgerExplainsWallet

(* The bridge implements the abstract transfer: central state is the       *)
(* phase, native cash the movement, the projected wallet the purse.        *)
PhaseOf(s) == CASE s = "absent" -> "new"
                [] s = "pending" -> "open"
                [] s = "completed" -> "confirmed"
                [] OTHER -> "cancelled"
Transfer == INSTANCE AtomicTransfer WITH
              phase <- [r \in Requests |-> PhaseOf(state[r])],
              moved <- {r \in Requests : native[r] > 0},
              purse <- wallet
ImplementsAtomicTransfer == Transfer!Spec
===============================================================================
