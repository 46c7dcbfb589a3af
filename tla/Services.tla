-------------------------------- MODULE Services -------------------------------
(***************************************************************************)
(* The services of central that share no state with each other, as         *)
(* instances, and what each promises.  MCServices checks the promises on   *)
(* small sets, ServicesProofs proves them for any.                         *)
(***************************************************************************)
EXTENDS Integers, Sequences

CONSTANTS
  Payers, Linked, Opening, Invoices, Orders, Requests,       \* WalletPayments
  Grace, Fresh, Period, Transit, Horizon, MaxCash, MaxTransfers,  \* BankBalance
  Guests, Tasks, Maximum,                                    \* EventBoard
  Messages, Posts, MaxMishaps,                               \* ChatBridge
  Claims, MaxCodes, MaxSlips,                                \* ServerPairing
  Saves, Handlers, MaxLoad, MaxSequence, MaxFlight, MaxLapses,    \* RuntimePointer
  Allocators, Identities, Codes, Lengths, Candidate,         \* VehicleCodes
  Ids, Ensurers, MaxSetbacks,                                \* SystemFarm
  Members, Sources, Evidence, Transactions,                  \* WorldContinuity
  None

VARIABLES
  wallet, ledger, transfers, credits, invoice, phase, view,   \* WalletPayments
  now, running, cash, moves, file, upload, stored,            \* BankBalance
  status, roster, boarded, board, answering, joining,         \* EventBoard
  queue, record, operation, command, receipt, spoken, post, current, mishaps,   \* ChatBridge
  row, issuedCodes, paired, staff, told, requests, claim, response, binding, overlapped,
  slips,                                                      \* ServerPairing
  runs, world, flight, thread, pointer, snapshots, active, lapses,   \* RuntimePointer
  rows, task, step, length, answer,                           \* VehicleCodes
  here, nativeSave, lost, ensuring, found, named, ensured, mapped, handler, overlaps,
  setbacks,                                                   \* SystemFarm
  own, carried, audit, standing, open, crossed                \* WorldContinuity

Payments == INSTANCE WalletPayments WITH Players <- Payers, Calls <- Orders

\* Payments as if one command ran at a time: what all threads together have
\* booked, with the ledger left out.
Asked  == {Payments!Payment(Requests[c]) :
             c \in {h \in Orders : Requests[h].kind \in {"pay", "credit", "invoice"}}}
Funded == {Payments!Payment(Requests[c]) : c \in {h \in Orders : Requests[h].kind = "credit"}}
Billed == [i \in DOMAIN Invoices |-> Payments!Invoiced(i)]
Serial == INSTANCE SerialPayments WITH
  Players <- Payers, Orders <- Asked, Credits <- Funded, Due <- Billed,
  balance <- wallet, book <- transfers \union credits, bill <- invoice

Balance  == INSTANCE BankBalance
Party    == INSTANCE EventBoard WITH Players <- Guests, task <- joining
Chat     == INSTANCE ChatBridge
Pairing  == INSTANCE ServerPairing
Runtime  == INSTANCE RuntimePointer WITH Threads <- Handlers, game <- runs
Code     == INSTANCE VehicleCodes WITH Threads <- Allocators, Nothing <- None
System   == INSTANCE SystemFarm WITH
  Calls <- Ensurers, MaxFaults <- MaxSetbacks, saved <- nativeSave, command <- ensuring,
  receipt <- found, stored <- named, op <- ensured, row <- mapped, call <- handler,
  overlapped <- overlaps, faults <- setbacks
Carry    == INSTANCE WorldContinuity WITH
  Calls <- Transactions, call <- open, overlapped <- crossed

ASSUME ServicesAssumption ==
  /\ Payments!PaymentAssumption /\ Balance!BalanceAssumption /\ Party!BoardAssumption
  /\ Pairing!PairingAssumption /\ Runtime!RuntimeAssumption /\ Code!CodeAssumption
  /\ System!SystemAssumption /\ Carry!ContinuityAssumption
-------------------------------------------------------------------------------
\* Every service's variables keep their types and bounds.
TypesOK ==
  /\ Payments!TypeOK /\ Balance!TypeOK /\ Party!TypeOK /\ Chat!TypeOK /\ Pairing!TypeOK
  /\ Runtime!TypeOK /\ Code!TypeOK /\ System!TypeOK /\ Carry!TypeOK

\* Payments in overlapping transactions, retried or reusing an ID, neither
\* create nor lose money; the ledger explains every balance; what a command
\* tells its user is what was booked; and an invoice is paid exactly when its
\* amount moved.  (banking_engine.py, business_workflows.py)
MoneyAgrees == Payments!MoneyAgrees

\* Transactions that read snapshots, overlap and run again come to payments made
\* one after the other, each on the balances of its moment; so an invoice that the
\* bot pays twice while its issuer withdraws it is paid once or cancelled.
\* (Database.atomic, business_workflows.py)
PaymentsAreSerial == Serial!Spec /\ Payments!Final

\* The balance the bot shows was true a bounded time ago, transfers included,
\* and /equity leaves out no transfer older than its snapshot.
BalancesAreCurrent == Balance!ShownIsCurrent /\ Balance!EquityForgetsNothingOld

\* An event never gets more players than it has places and nobody joins one
\* that is over, although joining reads, checks and writes apart.
RosterHolds == Party!RosterHolds

\* A message marked delivered was broadcast, and none twice unless the game
\* could not save its receipt; its record follows its operation, unless central
\* stopped between the two writes.  (chat queue, Agent and mailbox)
ChatIsTrue == Chat!ChatIsTrue

\* The credential the Agent holds opens the record central holds, unless a
\* registration replaced the record between its read and its write.
BoundAuthenticates == Pairing!BoundAuthenticates

\* Whatever order two threads take up delayed snapshots in, the runtime served,
\* its snapshot and its world belong to one post, and no older start of the game
\* replaces a newer one.  (server_registry.py, activate_runtime)
OneRuntimeServed == Runtime!OneRuntimeServed

\* Allocations of vehicle codes give a vehicle one code and a code one vehicle,
\* answer with the stored one, and fail only when all are taken.
CodesAgree == Code!CodesAgree

\* The server has one mapping of its own farm and a member one live request,
\* made or carried over from an older world, although handlers are stopped
\* half-way and transactions overlap.  (farm_lifecycle.py)
FarmRecordsAgree == System!MappingHolds /\ Carry!ContinuityHolds
===============================================================================
