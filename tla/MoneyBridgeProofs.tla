--------------------------- MODULE MoneyBridgeProofs ---------------------------
(***************************************************************************)
(* Theorems about MoneyBridge for every set of requests, users, farms and  *)
(* worlds, every amount and every number of faults.                        *)
(*                                                                         *)
(* The central theorems (TypeCorrect, LedgerCorrect, FinalAnswers,         *)
(* SupersededIsTerminal) assume nothing about Hazards: they hold for every *)
(* interleaving, crash and unwritten receipt of the model.  OnceCorrect    *)
(* and what follows from it are about the clean bridge.                    *)
(***************************************************************************)
EXTENDS MoneyBridge, SumTheorems

-------------------------------------------------------------------------------
(* Type correctness                                                        *)

LEMMA InitType == Init => TypeOK
<1> SUFFICES ASSUME Init PROVE TypeOK
  OBVIOUS
<1>1. wallet \in [Users -> Nat]
  BY RequestAssumption DEF RequestAssumption, Init
<1>2. ledger \subseteq LedgerRows
  BY DEF Init
<1>3. QED
  BY <1>1, <1>2 DEF Init, TypeOK, States, OpStates

LEMMA SettleType ==
  ASSUME TypeOK, NEW r \in Requests, Settle(r)
  PROVE  /\ state' \in [Requests -> States]
         /\ op' \in [Requests -> OpStates]
         /\ wallet' \in [Users -> Nat]
         /\ ledger' \subseteq LedgerRows
<1>1. state' \in [Requests -> States] /\ op' \in [Requests -> OpStates]
  BY DEF Settle, TypeOK, States, OpStates, Outcome, OperationOutcome
<1>2. wallet' \in [Users -> Nat]
  <2>1. User[r] \in Users /\ Amount[r] \in Nat /\ wallet \in [Users -> Nat]
    BY RequestAssumption DEF RequestAssumption, TypeOK
  <2>2. \/ wallet' = wallet
        \/ wallet' = [wallet EXCEPT ![User[r]] = @ + Amount[r]]
    BY DEF Settle, Refund, CreditOnce
  <2>3. QED
    BY <2>1, <2>2
<1>3. \/ ledger' = ledger
      \/ ledger' = ledger \cup {<<"withdrawal_refund", r>>}
      \/ ledger' = ledger \cup {<<"deposit", r>>}
  BY DEF Settle, Refund, CreditOnce, Post
<1>4. ledger' \subseteq LedgerRows
  BY <1>3 DEF TypeOK, LedgerRows
<1>5. QED
  BY <1>1, <1>2, <1>4

LEMMA NextType == TypeOK /\ [Next]_vars => TypeOK'
<1> SUFFICES ASSUME TypeOK, [Next]_vars PROVE TypeOK'
  OBVIOUS
<1> USE RequestAssumption, NullAssumption DEF RequestAssumption, NullAssumption, TypeOK, States, OpStates, Statuses
<1>1. ASSUME NEW r \in Requests, CheckRequestWorld(r) PROVE TypeOK'
  BY <1>1 DEF CheckRequestWorld, bankVars, agentVars, mailboxVars, gameVars
<1>2. ASSUME NEW r \in Requests, RequestWithdrawal(r) PROVE TypeOK'
  <2>1. /\ InFlight(r) /\ BalanceCovers(r) /\ Queue(r)
        /\ wallet' = [wallet EXCEPT ![User[r]] = @ - Amount[r]]
        /\ Post("withdrawal_reservation", r)
    BY <1>2 DEF RequestWithdrawal, Queue
  <2>2. wallet' \in [Users -> Nat]
    BY <2>1 DEF BalanceCovers
  <2>3. ledger' \subseteq LedgerRows
    BY <2>1 DEF Post, LedgerRows
  <2>4. QED
    BY <2>1, <2>2, <2>3 DEF Queue, InFlight, agentVars, mailboxVars, gameVars
<1>3. ASSUME NEW r \in Requests, RequestDeposit(r) PROVE TypeOK'
  BY <1>3 DEF RequestDeposit, Queue, InFlight, agentVars, mailboxVars, gameVars
<1>4. ASSUME NEW u \in Users, ChangeManager(u) PROVE TypeOK'
  BY <1>4 DEF ChangeManager, bankVars, agentVars, mailboxVars, gameVars
<1>5. CASE ActivateWorld
  BY <1>5 DEF ActivateWorld, SupersedeOthers, agentVars, mailboxVars, gameVars
<1>6. CASE ListReceipts
  BY <1>6 DEF ListReceipts, centralVars, mailboxVars, gameVars
<1>7. CASE FetchOperations
  BY <1>7 DEF FetchOperations, EndReceipts, Served, MarkServed, mailboxVars, gameVars
<1>8. CASE FetchFailed
  BY <1>8 DEF FetchFailed, EndReceipts, Served, MarkServed, mailboxVars, gameVars
<1>9. CASE WriteManifest
  BY <1>9 DEF WriteManifest, centralVars, gameVars
<1>10. CASE AgentRestart
  BY <1>10 DEF AgentRestart, centralVars, mailboxVars, gameVars
<1>11. CASE WriteCommand
  BY <1>11 DEF WriteCommand, centralVars, gameVars
<1>12. ASSUME NEW r \in Requests, ReceiptAccepted(r) PROVE TypeOK'
  BY <1>12, SettleType DEF ReceiptAccepted, Handled, Unlink, AlreadySettled, bankVars, gameVars
<1>13. ASSUME NEW r \in Requests, ReceiptAnswerLost(r) PROVE TypeOK'
  BY <1>13, SettleType DEF ReceiptAnswerLost, Handled, Retain, gameVars
<1>14. ASSUME NEW r \in Requests, ReceiptRefused(r) PROVE TypeOK'
  BY <1>14 DEF ReceiptRefused, Handled, Quarantine, bankVars, gameVars
<1>15. ASSUME NEW r \in Requests, ReceiptUnsent(r) PROVE TypeOK'
  BY <1>15 DEF ReceiptUnsent, Handled, Retain, bankVars, gameVars
<1>16. ASSUME NEW r \in Requests, TestReceipt(r) PROVE TypeOK'
  BY <1>16 DEF TestReceipt, centralVars, mailboxVars, gameVars
<1>17. CASE PollManifest
  BY <1>17 DEF PollManifest, centralVars, agentVars, mailboxVars
<1>18. CASE ConsumeCommand
  BY <1>18 DEF ConsumeCommand, centralVars, agentVars
<1>19. CASE EndPoll
  BY <1>19 DEF EndPoll, centralVars, agentVars
<1>20. CASE AbortPoll
  BY <1>20 DEF AbortPoll, centralVars, agentVars, mailboxVars
<1>21. CASE ExportSnapshot
  BY <1>21 DEF ExportSnapshot, gameVars, centralVars, agentVars
<1>22. CASE SaveGame
  BY <1>22 DEF SaveGame, centralVars, agentVars, mailboxVars
<1>23. CASE IdentityReady
  BY <1>23 DEF IdentityReady, centralVars, agentVars, mailboxVars
<1>24. CASE GameRestart
  <2>1. native' \in [Requests -> Nat]
    BY <1>24 DEF GameRestart
  <2>2. faults' \in Nat /\ gameWorld' \in Worlds
    BY <1>24 DEF GameRestart
  <2>3. QED
    BY <1>24, <2>1, <2>2 DEF GameRestart, centralVars, agentVars, mailboxVars
<1>25. ASSUME NEW r \in Requests, ExecuteMoney(r) PROVE TypeOK'
  BY <1>25 DEF ExecuteMoney, ProvenOutcome, Entry, SaveReceipt, centralVars, agentVars
<1>26. ASSUME NEW r \in Requests, RejectWrongWorld(r) PROVE TypeOK'
  BY <1>26 DEF RejectWrongWorld, Entry, SaveReceipt, centralVars, agentVars
<1>27. ASSUME NEW r \in Requests, DiscardAnswered(r) PROVE TypeOK'
  BY <1>27 DEF DiscardAnswered, Entry, centralVars, agentVars
<1>28. ASSUME NEW r \in Requests, SkipEntry(r) PROVE TypeOK'
  BY <1>28 DEF SkipEntry, Entry, centralVars, agentVars, mailboxVars
<1>29. CASE UNCHANGED vars
  BY <1>29 DEF vars, centralVars, agentVars, mailboxVars, gameVars
<1>30. QED
  BY <1>1, <1>2, <1>3, <1>4, <1>5, <1>6, <1>7, <1>8, <1>9, <1>10, <1>11, <1>12, <1>13,
     <1>14, <1>15, <1>16, <1>17, <1>18, <1>19, <1>20, <1>21, <1>22, <1>23, <1>24, <1>25,
     <1>26, <1>27, <1>28, <1>29 DEF Next, CentralStep, AgentStep, GameStep

(* Every variable of the bridge keeps its type (TypeOK) in every behaviour. *)
THEOREM TypeCorrect == Spec => []TypeOK
  BY InitType, NextType, PTL DEF Spec

-------------------------------------------------------------------------------
(* What a step can do to the bank's tables                                 *)

Idle(r) ==
  \/ op'[r] = op[r]
  \/ Open(op[r]) /\ op'[r] \in {"dispatched", "world_superseded"}
BankIdle == UNCHANGED <<state, ledger, wallet>> /\ \A r \in Requests : Idle(r)

LEMMA BankSteps ==
  ASSUME TypeOK, [Next]_vars
  PROVE  \/ \E r \in Requests : RequestWithdrawal(r) \/ RequestDeposit(r)
         \/ \E r \in Requests : Settle(r)
         \/ BankIdle
<1> USE DEF TypeOK, BankIdle, Idle
<1>1. ASSUME NEW r \in Requests, CheckRequestWorld(r) PROVE BankIdle
  BY <1>1 DEF CheckRequestWorld, bankVars
<1>2. ASSUME NEW u \in Users, ChangeManager(u) PROVE BankIdle
  BY <1>2 DEF ChangeManager, bankVars
<1>3. CASE ActivateWorld
  BY <1>3 DEF ActivateWorld, SupersedeOthers
<1>4. CASE FetchOperations
  BY <1>4 DEF FetchOperations, MarkServed, Served
<1>5. CASE FetchFailed
  BY <1>5 DEF FetchFailed, MarkServed, Served
<1>6. ASSUME NEW r \in Requests,
             \/ ReceiptAccepted(r) \/ ReceiptAnswerLost(r)
             \/ ReceiptRefused(r) \/ ReceiptUnsent(r)
      PROVE  Settle(r) \/ BankIdle
  BY <1>6 DEF ReceiptAccepted, ReceiptAnswerLost, ReceiptRefused, ReceiptUnsent, bankVars
<1>7. CASE UNCHANGED centralVars
  BY <1>7 DEF centralVars
<1>8. CASE \/ ListReceipts \/ WriteCommand \/ WriteManifest \/ AgentRestart
           \/ \E r \in Requests : TestReceipt(r)
  BY <1>7, <1>8 DEF ListReceipts, WriteCommand, WriteManifest, AgentRestart, TestReceipt
<1>9. CASE GameStep
  BY <1>7, <1>9 DEF GameStep, PollManifest, ConsumeCommand, EndPoll, AbortPoll, ExportSnapshot,
     SaveGame, IdentityReady, GameRestart, ExecuteMoney, RejectWrongWorld, DiscardAnswered, SkipEntry
<1>10. CASE UNCHANGED vars
  BY <1>7, <1>10 DEF vars
<1>11. QED
  BY <1>1, <1>2, <1>3, <1>4, <1>5, <1>6, <1>8, <1>9, <1>10 DEF Next, CentralStep, AgentStep

-------------------------------------------------------------------------------
(* The ledger and the two rows of a request                                *)

BankInv == LedgerMatchesState /\ OperationMatchesRequest

LEMMA InitBank == Init => BankInv
  BY DEF Init, BankInv, LedgerMatchesState, OperationMatchesRequest

LEMMA NextBank == TypeOK /\ BankInv /\ [Next]_vars => BankInv'
<1> SUFFICES ASSUME TypeOK, BankInv, [Next]_vars PROVE BankInv'
  OBVIOUS
<1> USE DEF TypeOK, BankInv, LedgerMatchesState, OperationMatchesRequest
<1>1. ASSUME NEW r \in Requests, RequestWithdrawal(r) PROVE BankInv'
  BY <1>1 DEF RequestWithdrawal, Queue, InFlight, Post
<1>2. ASSUME NEW r \in Requests, RequestDeposit(r) PROVE BankInv'
  BY <1>2 DEF RequestDeposit, Queue, InFlight
<1>3. ASSUME NEW r \in Requests, Settle(r) PROVE BankInv'
  <2>1. state[r] = "pending"
    BY <1>3 DEF Settle, Settles, SettlesWithdrawal, SettlesDeposit
  <2>2. LedgerMatchesState'
    <3>1. state' = [state EXCEPT ![r] = Outcome(r)]
      BY <1>3 DEF Settle
    <3>2. CASE Outcome(r) = "refunded"
      <4>1. ledger' = ledger \cup {<<"withdrawal_refund", r>>} /\ Withdraws(r)
        BY <1>3, <3>2 DEF Settle, Refund, CreditOnce, Post, Outcome
      <4>2. QED
        BY <2>1, <3>1, <3>2, <4>1
    <3>3. CASE Outcome(r) = "completed" /\ ~Withdraws(r)
      <4>1. ledger' = ledger \cup {<<"deposit", r>>}
        BY <1>3, <3>3 DEF Settle, CreditOnce, Post
      <4>2. QED
        BY <2>1, <3>1, <3>3, <4>1
    <3>4. CASE Outcome(r) = "failed" \/ (Outcome(r) = "completed" /\ Withdraws(r))
      <4>1. ledger' = ledger
        BY <1>3, <3>4 DEF Settle
      <4>2. QED
        BY <2>1, <3>1, <3>4, <4>1
    <3>5. QED
      BY <3>2, <3>3, <3>4 DEF Outcome
  <2>3. OperationMatchesRequest'
    BY <1>3, <2>1 DEF Settle, Settles, SettlesWithdrawal, SettlesDeposit, DefinitiveStatus,
       Outcome, OperationOutcome
  <2>4. QED
    BY <2>2, <2>3
<1>4. CASE BankIdle
  BY <1>4 DEF BankIdle, Idle, Open
<1>5. QED
  BY BankSteps, <1>1, <1>2, <1>3, <1>4

LEMMA BankCorrect == Spec => [](TypeOK /\ BankInv)
<1>1. Init => TypeOK /\ BankInv
  BY InitType, InitBank
<1>2. TypeOK /\ BankInv /\ [Next]_vars => TypeOK' /\ BankInv'
  BY NextType, NextBank
<1>3. QED
  BY <1>1, <1>2, PTL DEF Spec

(* In every behaviour, hazards included, the ledger holds exactly the rows *)
(* that the state of each request calls for.                               *)
THEOREM LedgerCorrect == Spec => []LedgerMatchesState
  BY BankCorrect, PTL DEF BankInv

(* The operation and request rows of the bank never disagree.              *)
THEOREM RowsAgree == Spec => []OperationMatchesRequest
  BY BankCorrect, PTL DEF BankInv

(* A completed, failed or refunded request keeps its answer for ever.      *)
THEOREM FinalAnswers == Spec => SettledIsFinal
<1>1. ASSUME TypeOK, BankInv, [Next]_vars, NEW r \in Requests, Settled(r)
      PROVE  state'[r] = state[r] /\ op'[r] = op[r]
  <2> USE <1>1 DEF TypeOK, Settled
  <2>1. op[r] \in {"succeeded", "failed"}
    BY DEF BankInv, OperationMatchesRequest
  <2>2. ASSUME NEW q \in Requests, RequestWithdrawal(q) \/ RequestDeposit(q) PROVE q # r
    BY <2>2 DEF RequestWithdrawal, RequestDeposit, Queue, InFlight
  <2>3. ASSUME NEW q \in Requests, Settle(q) PROVE q # r
    BY <2>3 DEF Settle, Settles, SettlesWithdrawal, SettlesDeposit
  <2>4. CASE BankIdle
    BY <2>1, <2>4 DEF BankIdle, Idle, Open
  <2>5. QED
    BY BankSteps, <2>2, <2>3, <2>4 DEF RequestWithdrawal, RequestDeposit, Queue, Settle
<1>2. TypeOK /\ BankInv /\ [Next]_vars =>
        [\A r \in Requests : Settled(r) => state'[r] = state[r] /\ op'[r] = op[r]]_vars
  BY <1>1
<1>3. QED
  BY BankCorrect, <1>2, PTL DEF Spec, SettledIsFinal

(* A superseded operation is never executed into an answer again.          *)
THEOREM SupersededIsTerminal == Spec => SupersededNeverSettles
<1>1. ASSUME TypeOK, BankInv, [Next]_vars, NEW r \in Requests, op[r] = "world_superseded"
      PROVE  state'[r] = state[r] /\ op'[r] = op[r]
  <2> USE <1>1 DEF TypeOK
  <2>1. ASSUME NEW q \in Requests, RequestWithdrawal(q) \/ RequestDeposit(q) PROVE q # r
    BY <2>1 DEF RequestWithdrawal, RequestDeposit, Queue, InFlight, BankInv, OperationMatchesRequest
  <2>2. ASSUME NEW q \in Requests, Settle(q) PROVE q # r
    BY <2>2 DEF Settle, Settles, SettlesWithdrawal, SettlesDeposit, OperationOpen, Open
  <2>3. CASE BankIdle
    BY <2>3 DEF BankIdle, Idle, Open
  <2>4. QED
    BY BankSteps, <2>1, <2>2, <2>3 DEF RequestWithdrawal, RequestDeposit, Queue, Settle
<1>2. TypeOK /\ BankInv /\ [Next]_vars =>
        [\A r \in Requests : op[r] = "world_superseded" => state'[r] = state[r] /\ op'[r] = op[r]]_vars
  BY <1>1
<1>3. QED
  BY BankCorrect, <1>2, PTL DEF Spec, SupersededNeverSettles

-------------------------------------------------------------------------------
(* Worlds                                                                  *)

(* What OpenOperationsAreCurrent needs: a request that has passed its      *)
(* world check and is not reserved yet still names the active world.       *)
InFlightIsCurrent == \A r \in Requests : InFlight(r) => world[r] = activeWorld
WorldInv == InFlightIsCurrent /\ OpenOperationsAreCurrent

LEMMA NextWorlds ==
  ASSUME "request_race" \notin Hazards, TypeOK, BankInv, WorldInv, [Next]_vars
  PROVE  WorldInv'
<1> USE DEF WorldInv, InFlightIsCurrent, InFlight, OpenOperationsAreCurrent, Open
<1>1. \A r \in Requests : op[r] = "absent" <=> state[r] = "absent"
  BY DEF BankInv, OperationMatchesRequest
<1>2. ASSUME NEW r \in Requests, CheckRequestWorld(r) PROVE WorldInv'
  BY <1>1, <1>2 DEF CheckRequestWorld, bankVars, TypeOK
<1>3. ASSUME NEW r \in Requests, RequestWithdrawal(r) \/ RequestDeposit(r) PROVE WorldInv'
  BY <1>3 DEF RequestWithdrawal, RequestDeposit, Queue, TypeOK
<1>4. CASE ActivateWorld
  BY <1>4 DEF ActivateWorld, SupersedeOthers
<1>5. ASSUME UNCHANGED <<world, activeWorld>>, BankIdle PROVE WorldInv'
  BY <1>5 DEF BankIdle, Idle
<1>6. ASSUME UNCHANGED <<world, activeWorld>>, NEW r \in Requests, Settle(r) PROVE WorldInv'
  <2>1. state[r] # "absent" /\ \A q \in Requests : q # r => state'[q] = state[q] /\ op'[q] = op[q]
    BY <1>6 DEF Settle, Settles, SettlesWithdrawal, SettlesDeposit, TypeOK
  <2>2. ~Open(op'[r]) /\ state'[r] # "absent"
    BY <1>6 DEF Settle, OperationOutcome, Outcome, TypeOK
  <2>3. QED
    BY <1>6, <2>1, <2>2
<1>7. \/ UNCHANGED <<world, activeWorld>>
      \/ ActivateWorld
      \/ \E r \in Requests : CheckRequestWorld(r)
  BY DEF Next, CentralStep, AgentStep, GameStep, RequestWithdrawal, RequestDeposit, Queue, ChangeManager,
     ListReceipts, FetchOperations, FetchFailed, WriteCommand, WriteManifest, AgentRestart, TestReceipt,
     ReceiptAccepted, ReceiptAnswerLost, ReceiptRefused, ReceiptUnsent, Handled, PollManifest,
     ConsumeCommand, EndPoll, AbortPoll, ExportSnapshot, SaveGame, IdentityReady, GameRestart,
     ExecuteMoney, RejectWrongWorld, DiscardAnswered, SkipEntry, vars, centralVars
<1>8. QED
  BY BankSteps, <1>2, <1>3, <1>4, <1>5, <1>6, <1>7

(* As long as no world change falls between a request's world check and    *)
(* its reservation, no operation of another generation stays executable.   *)
THEOREM OpenIsCurrent ==
  ASSUME "request_race" \notin Hazards
  PROVE  Spec => []OpenOperationsAreCurrent
<1>1. Init => WorldInv
  BY NullAssumption
  DEF Init, WorldInv, InFlightIsCurrent, InFlight, OpenOperationsAreCurrent, Open, NullAssumption
<1>2. TypeOK /\ BankInv /\ WorldInv /\ [Next]_vars => WorldInv'
  BY NextWorlds
<1>3. WorldInv => OpenOperationsAreCurrent
  BY DEF WorldInv
<1>4. QED
  BY <1>1, <1>2, <1>3, BankCorrect, PTL DEF Spec

(* Requests, operations and ledger are three views of one history, and     *)
(* none of them is left open in a world that is not the active one.        *)
THEOREM BankViewsAgree ==
  ASSUME "request_race" \notin Hazards
  PROVE  Spec => []BankAgrees
<1>1. LedgerMatchesState /\ OperationMatchesRequest /\ OpenOperationsAreCurrent => BankAgrees
  BY DEF BankAgrees
<1>2. QED
  BY <1>1, LedgerCorrect, RowsAgree, OpenIsCurrent, PTL

(* A savegame never holds more of a request's cash than the live world.    *)
SavedIsBehind == \A r \in Requests : saved[r] <= native[r]

LEMMA NextSaved ==
  ASSUME TypeOK, SavedIsBehind, [Next]_vars
  PROVE  /\ SavedIsBehind'
         /\ \A r \in Requests : native'[r] > native[r] => world[r] = gameWorld
<1> USE DEF SavedIsBehind, TypeOK
<1>1. ASSUME NEW r \in Requests, ExecuteMoney(r)
      PROVE  SavedIsBehind' /\ \A q \in Requests : native'[q] > native[q] => world[q] = gameWorld
  <2>1. PICK change \in {0, 1} : native' = [native EXCEPT ![r] = @ + change]
    BY <1>1 DEF ExecuteMoney
  <2>2. saved' = saved /\ world[r] = gameWorld
    BY <1>1 DEF ExecuteMoney, WorldMatches
  <2>3. QED
    BY <2>1, <2>2
<1>2. CASE GameRestart
  BY <1>2 DEF GameRestart
<1>3. CASE SaveGame
  BY <1>3 DEF SaveGame
<1>4. CASE UNCHANGED <<native, saved>>
  BY <1>4
<1>5. \/ UNCHANGED <<native, saved>> \/ SaveGame \/ GameRestart
      \/ \E r \in Requests : ExecuteMoney(r)
  BY DEF Next, CentralStep, AgentStep, GameStep, CheckRequestWorld, RequestWithdrawal, RequestDeposit,
     Queue, ChangeManager, ActivateWorld, ListReceipts, FetchOperations, FetchFailed, WriteCommand,
     WriteManifest, AgentRestart, TestReceipt, ReceiptAccepted, ReceiptAnswerLost, ReceiptRefused,
     ReceiptUnsent, Handled, PollManifest, ConsumeCommand, EndPoll, AbortPoll, ExportSnapshot,
     IdentityReady, RejectWrongWorld, DiscardAnswered, SkipEntry, vars, gameVars
<1>6. QED
  BY <1>1, <1>2, <1>3, <1>4, <1>5

(* Whatever crashes, stale command files and world changes happen, native  *)
(* cash only ever moves in the world its request was made in.              *)
THEOREM CashStaysInItsWorld == Spec => OtherWorldsKeepTheirCash
<1>1. Init => SavedIsBehind
  BY DEF Init, SavedIsBehind
<1>2. TypeOK /\ SavedIsBehind /\ [Next]_vars =>
        /\ SavedIsBehind'
        /\ [\A r \in Requests : native'[r] > native[r] => world[r] = gameWorld]_vars
  BY NextSaved
<1>3. QED
  BY <1>1, <1>2, TypeCorrect, PTL DEF Spec, OtherWorldsKeepTheirCash

(* Late receipts, second executions and stale files change nothing that is *)
(* over: no settled answer, no superseded request, no other world's cash.  *)
THEOREM PastStays == Spec => PastIsFinal
  BY FinalAnswers, SupersededIsTerminal, CashStaysInItsWorld DEF PastIsFinal

-------------------------------------------------------------------------------
(* Once                                                                    *)

(* The bridge without the game's lost cash, unwritten receipts and polls   *)
(* inside the Agent's window.  World changes, restarts and lost calls stay. *)
Clean == Hazards \subseteq {"request_race"}

LEMMA InitOnce == Init => OnceInv
<1> SUFFICES ASSUME Init PROVE OnceInv
  OBVIOUS
<1>1. EachTransferChangesMoneyOnce
  BY DEF Init, EachTransferChangesMoneyOnce
<1>2. QED
  BY <1>1, NullAssumption DEF Init, OnceInv, AbsentIsUntouched, PendingUnansweredIsUntouched,
     ReceiptTellsTheTruth, CommandIsUnanswered, OpenIsPending, ListedHasReceipt, FetchedIsPending, MarkedHasNoReceipt,
     CurrentIsUnanswered, ConsumingInsidePoll, Unanswered, Open, NullAssumption

(* The answer a settlement writes is the truth about the native balance.   *)
LEMMA SettleTruth ==
  ASSUME TypeOK, OnceInv, NEW r \in Requests, Settle(r)
  PROVE  /\ state[r] = "pending" /\ receipt[r] # "none"
         /\ state' = [state EXCEPT ![r] = Outcome(r)]
         /\ op' = [op EXCEPT ![r] = OperationOutcome(r)]
         /\ Outcome(r) \in {"completed", "refunded", "failed"}
         /\ OperationOutcome(r) \in {"succeeded", "failed"}
         /\ Outcome(r) = "completed" => native[r] = 1
         /\ Outcome(r) # "completed" => native[r] = 0
<1>1. state[r] = "pending" /\ receipt[r] \in {"applied", "definitively_not_applied"}
  BY DEF Settle, Settles, SettlesWithdrawal, SettlesDeposit, DefinitiveStatus
<1>2. state' = [state EXCEPT ![r] = Outcome(r)] /\ op' = [op EXCEPT ![r] = OperationOutcome(r)]
  BY DEF Settle
<1>3. receipt[r] = "applied" => native[r] = 1
  BY DEF OnceInv, ReceiptTellsTheTruth
<1>4. receipt[r] = "definitively_not_applied" => native[r] = 0
  BY DEF OnceInv, ReceiptTellsTheTruth
<1>5. Outcome(r) \in {"completed", "refunded", "failed"} /\ OperationOutcome(r) \in {"succeeded", "failed"}
  BY DEF Outcome, OperationOutcome
<1>6. Outcome(r) = "completed" <=> receipt[r] = "applied"
  BY DEF Outcome
<1>7. QED
  BY <1>1, <1>2, <1>3, <1>4, <1>5, <1>6

LEMMA NextOnce ==
  ASSUME Clean, TypeOK, OnceInv, [Next]_vars
  PROVE  OnceInv'
<1> USE NullAssumption DEF NullAssumption, TypeOK, OnceInv, AbsentIsUntouched,
    PendingUnansweredIsUntouched, ReceiptTellsTheTruth, CommandIsUnanswered, OpenIsPending,
    ListedHasReceipt, FetchedIsPending, MarkedHasNoReceipt, CurrentIsUnanswered, ConsumingInsidePoll, Unanswered, Open,
    EachTransferChangesMoneyOnce
<1>1. ASSUME NEW r \in Requests, CheckRequestWorld(r) PROVE OnceInv'
  BY <1>1 DEF CheckRequestWorld, bankVars, agentVars, mailboxVars, gameVars
<1>2. ASSUME NEW r \in Requests, RequestWithdrawal(r) \/ RequestDeposit(r) PROVE OnceInv'
  BY <1>2 DEF RequestWithdrawal, RequestDeposit, Queue, InFlight, agentVars, mailboxVars, gameVars
<1>4. ASSUME NEW u \in Users, ChangeManager(u) PROVE OnceInv'
  BY <1>4 DEF ChangeManager, bankVars, agentVars, mailboxVars, gameVars
<1>5. CASE ActivateWorld
  BY <1>5 DEF ActivateWorld, SupersedeOthers, agentVars, mailboxVars, gameVars
<1>6. CASE ListReceipts
  BY <1>6 DEF ListReceipts, centralVars, mailboxVars, gameVars
<1>7. CASE FetchOperations
  BY <1>7 DEF FetchOperations, EndReceipts, Served, MarkServed, mailboxVars, gameVars
<1>8. CASE FetchFailed
  BY <1>8 DEF FetchFailed, EndReceipts, Served, MarkServed, mailboxVars, gameVars
<1>9. CASE WriteManifest
  BY <1>9 DEF WriteManifest, centralVars, gameVars
<1>10. CASE AgentRestart
  BY <1>10 DEF AgentRestart, centralVars, mailboxVars, gameVars
<1>11. CASE WriteCommand
  BY <1>11 DEF WriteCommand, centralVars, gameVars
<1>12. ASSUME NEW r \in Requests, ReceiptAccepted(r) PROVE OnceInv'
  <2>1. CASE Settle(r)
    BY <1>12, <2>1, SettleTruth DEF ReceiptAccepted, Handled, Unlink, gameVars
  <2>2. CASE AlreadySettled(r) /\ UNCHANGED bankVars
    BY <1>12, <2>2 DEF ReceiptAccepted, Handled, Unlink, AlreadySettled, DefinitiveStatus, Settled,
       bankVars, gameVars
  <2>3. QED
    BY <1>12, <2>1, <2>2 DEF ReceiptAccepted
<1>13. ASSUME NEW r \in Requests, ReceiptAnswerLost(r) PROVE OnceInv'
  BY <1>13, SettleTruth DEF ReceiptAnswerLost, Handled, Retain, gameVars
<1>14. ASSUME NEW r \in Requests, ReceiptRefused(r) PROVE OnceInv'
  BY <1>14 DEF ReceiptRefused, Handled, Quarantine, bankVars, gameVars
<1>15. ASSUME NEW r \in Requests, ReceiptUnsent(r) PROVE OnceInv'
  BY <1>15 DEF ReceiptUnsent, Handled, Retain, bankVars, gameVars
<1>16. ASSUME NEW r \in Requests, TestReceipt(r) PROVE OnceInv'
  BY <1>16 DEF TestReceipt, centralVars, mailboxVars, gameVars
<1>17. CASE PollManifest
  BY <1>17 DEF PollManifest, centralVars, agentVars, mailboxVars
<1>18. CASE ConsumeCommand
  BY <1>18 DEF ConsumeCommand, centralVars, agentVars
<1>19. CASE EndPoll
  BY <1>19 DEF EndPoll, centralVars, agentVars
<1>20. CASE AbortPoll
  BY <1>20 DEF AbortPoll, centralVars, agentVars, mailboxVars
<1>21. CASE ExportSnapshot
  BY <1>21 DEF ExportSnapshot, gameVars, centralVars, agentVars
<1>22. CASE SaveGame
  BY <1>22 DEF SaveGame, centralVars, agentVars, mailboxVars
<1>23. CASE IdentityReady
  BY <1>23 DEF IdentityReady, centralVars, agentVars, mailboxVars
<1>24. CASE GameRestart
  BY <1>24 DEF GameRestart, CleanStop, Clean, InGame, centralVars, agentVars, mailboxVars
<1>25. ASSUME NEW r \in Requests, ExecuteMoney(r) PROVE OnceInv'
  <2>1. /\ consuming = NoRequest /\ polling /\ pass # "write" /\ r \in commands /\ receipt[r] = "none"
        /\ UNCHANGED <<pass, todo, current, state, op, commands, failed, polling>>
    BY <1>25 DEF ExecuteMoney, Entry, MailboxTurn, Clean, Executable, centralVars, agentVars
  <2>2. state[r] = "pending" /\ failed[r] = "none" /\ native[r] = 0
    BY <2>1
  <2>3. PICK status \in Statuses, change \in {0, 1} :
          /\ ProvenOutcome(status, change)
          /\ native' = [native EXCEPT ![r] = @ + change]
          /\ SaveReceipt(r, status)
    BY <1>25 DEF ExecuteMoney
  <2>4. receipt' = [receipt EXCEPT ![r] = status] /\ consuming' = r
    BY <2>3 DEF SaveReceipt, Clean
  <2>5. native' = [native EXCEPT ![r] = change]
    BY <2>2, <2>3
  <2>6. /\ status # "none"
        /\ status = "applied" => change = 1
        /\ status \in {"definitively_not_applied", "rejected"} => change = 0
    BY <2>3 DEF ProvenOutcome, Statuses
  <2>7. QED
    BY <2>1, <2>2, <2>4, <2>5, <2>6
<1>26. ASSUME NEW r \in Requests, RejectWrongWorld(r) PROVE OnceInv'
  <2>1. /\ consuming = NoRequest /\ polling /\ pass # "write" /\ r \in commands /\ receipt[r] = "none"
        /\ UNCHANGED <<pass, todo, current, state, op, commands, failed, polling, native>>
    BY <1>26 DEF RejectWrongWorld, Entry, MailboxTurn, Clean, Executable, centralVars, agentVars
  <2>2. state[r] = "pending" /\ failed[r] = "none" /\ native[r] = 0
    BY <2>1
  <2>3. receipt' = [receipt EXCEPT ![r] = "rejected"] /\ consuming' = r
    BY <1>26 DEF RejectWrongWorld, SaveReceipt, Clean
  <2>4. QED
    BY <2>1, <2>2, <2>3
<1>27. ASSUME NEW r \in Requests, DiscardAnswered(r) PROVE OnceInv'
  BY <1>27 DEF DiscardAnswered, Entry, centralVars, agentVars
<1>28. ASSUME NEW r \in Requests, SkipEntry(r) PROVE OnceInv'
  BY <1>28 DEF SkipEntry, Entry, centralVars, agentVars, mailboxVars
<1>29. CASE UNCHANGED vars
  BY <1>29 DEF vars, centralVars, agentVars, mailboxVars, gameVars
<1>30. QED
  BY <1>1, <1>2, <1>4, <1>5, <1>6, <1>7, <1>8, <1>9, <1>10, <1>11, <1>12, <1>13,
     <1>14, <1>15, <1>16, <1>17, <1>18, <1>19, <1>20, <1>21, <1>22, <1>23, <1>24, <1>25,
     <1>26, <1>27, <1>28, <1>29 DEF Next, CentralStep, AgentStep, GameStep

(* In every behaviour of the clean bridge OnceInv holds; its consequences  *)
(* follow.                                                                 *)
LEMMA OnceInvariant ==
  ASSUME Clean
  PROVE  Spec => [](TypeOK /\ BankInv /\ OnceInv)
<1>1. Init => TypeOK /\ BankInv /\ OnceInv
  BY InitType, InitBank, InitOnce
<1>2. TypeOK /\ BankInv /\ OnceInv /\ [Next]_vars => TypeOK' /\ BankInv' /\ OnceInv'
  BY NextType, NextBank, NextOnce
<1>3. QED
  BY <1>1, <1>2, PTL DEF Spec

(* OnceInv is inductive: no length of history makes the Agent or the game  *)
(* run a command that has been answered.                                   *)
THEOREM OnceCorrect ==
  ASSUME Clean
  PROVE  Spec => []OnceInv
  BY OnceInvariant, PTL

(* A completed transfer moved native cash exactly once, a refunded or      *)
(* failed one never did, and no transfer moves it twice.                   *)
THEOREM TransfersChangeMoneyOnce ==
  ASSUME Clean
  PROVE  Spec => []EachTransferChangesMoneyOnce
<1>1. OnceInv => EachTransferChangesMoneyOnce
  BY DEF OnceInv
<1>2. QED
  BY <1>1, OnceInvariant, PTL

-------------------------------------------------------------------------------
(* The game's cash                                                         *)

Moves(r) ==
  /\ state[r] = "pending" /\ Unanswered(r) /\ native[r] = 0
  /\ native' = [native EXCEPT ![r] = 1]
  /\ UNCHANGED centralVars

LEMMA NativeSteps ==
  ASSUME Clean, TypeOK, OnceInv, [Next]_vars
  PROVE  native' = native \/ \E r \in Requests : Moves(r)
<1>1. ASSUME NEW r \in Requests, ExecuteMoney(r) PROVE native' = native \/ Moves(r)
  <2>1. consuming = NoRequest /\ r \in commands /\ receipt[r] = "none" /\ UNCHANGED centralVars
    BY <1>1 DEF ExecuteMoney, Entry, Executable
  <2>2. state[r] = "pending" /\ Unanswered(r) /\ native[r] = 0
    BY <2>1, NullAssumption
    DEF NullAssumption, OnceInv, CommandIsUnanswered, PendingUnansweredIsUntouched
  <2>3. PICK change \in {0, 1} : native' = [native EXCEPT ![r] = @ + change]
    BY <1>1 DEF ExecuteMoney
  <2>4. CASE change = 0
    BY <2>2, <2>3, <2>4 DEF TypeOK
  <2>5. CASE change = 1
    BY <2>1, <2>2, <2>3, <2>5 DEF Moves
  <2>6. QED
    BY <2>4, <2>5
<1>2. CASE GameRestart
  BY <1>2 DEF GameRestart, Clean, CleanStop, InGame, TypeOK
<1>3. CASE UNCHANGED gameVars
  BY <1>3 DEF gameVars
<1>4. CASE UNCHANGED vars
  BY <1>3, <1>4 DEF vars
<1>5. CASE CentralStep
  BY <1>3, <1>5 DEF CentralStep, CheckRequestWorld, RequestWithdrawal, RequestDeposit, Queue,
     ChangeManager, ActivateWorld
<1>6. CASE AgentStep
  BY <1>3, <1>6 DEF AgentStep, ListReceipts, FetchOperations, FetchFailed, WriteCommand, WriteManifest,
     AgentRestart, ReceiptAccepted, ReceiptAnswerLost, ReceiptRefused, ReceiptUnsent, Handled, TestReceipt
<1>7. CASE \/ PollManifest \/ ConsumeCommand \/ EndPoll \/ AbortPoll
           \/ ExportSnapshot \/ SaveGame \/ IdentityReady
           \/ \E r \in Requests : RejectWrongWorld(r) \/ DiscardAnswered(r) \/ SkipEntry(r)
  BY <1>7 DEF PollManifest, ConsumeCommand, EndPoll, AbortPoll, ExportSnapshot, SaveGame, IdentityReady,
     RejectWrongWorld, DiscardAnswered, SkipEntry, gameVars
<1>8. QED
  BY <1>1, <1>2, <1>4, <1>5, <1>6, <1>7 DEF Next, GameStep

(* An outcome the game could not prove keeps its request reserved and its  *)
(* command unexecuted for as long as its quarantined receipt is there.     *)
THEOREM UncertainIsKept ==
  ASSUME Clean
  PROVE  Spec => UncertainStaysInReconciliation
<1>1. ASSUME TypeOK, OnceInv, [Next]_vars, NEW r \in Requests, failed[r] = "pending_validation"
      PROVE  state'[r] = state[r] /\ native'[r] = native[r]
  <2>1. receipt[r] = "none" /\ state[r] # "absent"
    BY <1>1 DEF OnceInv, MarkedHasNoReceipt, AbsentIsUntouched, Unanswered
  <2>2. ASSUME NEW q \in Requests, RequestWithdrawal(q) \/ RequestDeposit(q)
        PROVE  state'[r] = state[r]
    BY <1>1, <2>1, <2>2 DEF RequestWithdrawal, RequestDeposit, Queue, InFlight, TypeOK
  <2>3. ASSUME NEW q \in Requests, Settle(q) PROVE state'[r] = state[r]
    BY <1>1, <2>1, <2>3, SettleTruth DEF TypeOK
  <2>4. state'[r] = state[r]
    BY <1>1, BankSteps, <2>2, <2>3 DEF BankIdle
  <2>5. ASSUME NEW q \in Requests, Moves(q) PROVE native'[r] = native[r]
    BY <1>1, <2>5 DEF Moves, Unanswered, TypeOK
  <2>6. QED
    BY <1>1, <2>4, <2>5, NativeSteps
<1>2. TypeOK /\ OnceInv /\ [Next]_vars =>
        [\A r \in Requests : failed[r] = "pending_validation" =>
           state'[r] = state[r] /\ native'[r] = native[r]]_vars
  BY <1>1
<1>3. QED
  BY OnceInvariant, <1>2, PTL DEF Spec, UncertainStaysInReconciliation

-------------------------------------------------------------------------------
(* Refinement                                                              *)

LEMMA InitRefines == Init => Transfer!Init
  BY DEF Init, Transfer!Init, PhaseOf

LEMMA Phases ==
  /\ PhaseOf("absent") = "new" /\ PhaseOf("pending") = "open"
  /\ PhaseOf("completed") = "confirmed"
  /\ PhaseOf("refunded") = "cancelled" /\ PhaseOf("failed") = "cancelled"
  BY DEF PhaseOf

(* A change of one request's state is a change of that request's phase.    *)
LEMMA PhaseChange ==
  ASSUME TypeOK, NEW r \in Requests, NEW s, state' = [state EXCEPT ![r] = s]
  PROVE  [q \in Requests |-> PhaseOf(state[q])]'
           = [[q \in Requests |-> PhaseOf(state[q])] EXCEPT ![r] = PhaseOf(s)]
  BY DEF TypeOK

LEMMA StepRefines ==
  ASSUME Clean, TypeOK, BankInv, OnceInv, [Next]_vars
  PROVE  [Transfer!Next]_(Transfer!absVars)
<1> DEFINE phase == [q \in Requests |-> PhaseOf(state[q])]
<1> DEFINE moved == {q \in Requests : native[q] > 0}
<1>1. ASSUME NEW r \in Requests, RequestWithdrawal(r) \/ RequestDeposit(r)
      PROVE  Transfer!Open(r)
  <2>1. state[r] = "absent" /\ state' = [state EXCEPT ![r] = "pending"] /\ native' = native
    BY <1>1 DEF RequestWithdrawal, RequestDeposit, Queue, InFlight, gameVars
  <2>2. IF Withdraws(r)
        THEN /\ wallet[User[r]] >= Amount[r]
             /\ wallet' = [wallet EXCEPT ![User[r]] = @ - Amount[r]]
        ELSE wallet' = wallet
    <3>1. CASE RequestWithdrawal(r)
      BY <3>1 DEF RequestWithdrawal, BalanceCovers
    <3>2. CASE RequestDeposit(r)
      BY <3>2 DEF RequestDeposit
    <3>3. QED
      BY <1>1, <3>1, <3>2
  <2>3. phase' = [phase EXCEPT ![r] = PhaseOf("pending")]
    BY <2>1, PhaseChange
  <2>4. phase[r] = "new" /\ phase' = [phase EXCEPT ![r] = "open"]
    BY <2>1, <2>3, Phases
  <2>5. moved' = moved
    BY <2>1
  <2>6. IF Transfer!Withdraws(r) THEN Transfer!Debit(r) ELSE wallet' = wallet
    BY <2>2 DEF Transfer!Debit, Transfer!Withdraws, Withdraws
  <2>7. QED
    BY <2>4, <2>5, <2>6 DEF Transfer!Open
<1>2. ASSUME NEW r \in Requests, Settle(r), native' = native
      PROVE  Transfer!Confirm(r) \/ Transfer!Cancel(r)
  <2>1. state[r] = "pending" /\ state' = [state EXCEPT ![r] = Outcome(r)]
    BY <1>2, SettleTruth DEF Settle
  <2>0. phase' = [phase EXCEPT ![r] = PhaseOf(Outcome(r))] /\ phase[r] = "open"
    <3>1. phase' = [phase EXCEPT ![r] = PhaseOf(Outcome(r))]
      BY <2>1, PhaseChange
    <3>2. QED
      BY <2>1, <3>1, Phases
  <2>2. <<"withdrawal_refund", r>> \notin ledger /\ <<"deposit", r>> \notin ledger
    BY <2>1 DEF BankInv, LedgerMatchesState
  <2>3. Outcome(r) = "completed" => native[r] = 1
    BY <1>2, SettleTruth
  <2>4. Outcome(r) # "completed" => native[r] = 0
    BY <1>2, SettleTruth
  <2>5. CASE Outcome(r) = "completed"
    <3>1. IF Withdraws(r) THEN wallet' = wallet
          ELSE wallet' = [wallet EXCEPT ![User[r]] = @ + Amount[r]]
      BY <1>2, <2>2, <2>5 DEF Settle, CreditOnce
    <3>2. r \in moved /\ moved' = moved
      BY <1>2, <2>3, <2>5
    <3>3. phase' = [phase EXCEPT ![r] = "confirmed"] /\ phase[r] = "open"
      BY <2>0, <2>5, Phases
    <3>4. Transfer!Confirm(r)
      BY <3>1, <3>2, <3>3
      DEF Transfer!Confirm, Transfer!Credit, Transfer!Withdraws, Withdraws
    <3>5. QED
      BY <3>4
  <2>6. CASE Outcome(r) # "completed"
    <3>1. Outcome(r) = IF Withdraws(r) THEN "refunded" ELSE "failed"
      BY <2>6 DEF Outcome
    <3>2. IF Withdraws(r) THEN wallet' = [wallet EXCEPT ![User[r]] = @ + Amount[r]]
          ELSE wallet' = wallet
      BY <1>2, <2>2, <3>1 DEF Settle, Refund, CreditOnce
    <3>3. r \notin moved /\ moved' = moved
      BY <1>2, <2>4, <2>6
    <3>4. PhaseOf(Outcome(r)) = "cancelled"
      BY <3>1, Phases
    <3>5. phase' = [phase EXCEPT ![r] = "cancelled"] /\ phase[r] = "open"
      BY <2>0, <3>4
    <3>6. Transfer!Cancel(r)
      BY <3>2, <3>3, <3>5
      DEF Transfer!Cancel, Transfer!Credit, Transfer!Withdraws, Withdraws
    <3>7. QED
      BY <3>6
  <2>7. QED
    BY <2>5, <2>6
<1>3. ASSUME NEW r \in Requests, Moves(r)
      PROVE  Transfer!Move(r)
  BY <1>3, Phases DEF Moves, centralVars, TypeOK, Transfer!Move
<1>4. CASE BankIdle /\ native' = native
  BY <1>4 DEF BankIdle, Transfer!absVars
<1>5. CASE \E r \in Requests : Moves(r)
  BY <1>3, <1>5 DEF Transfer!Next
<1>6. CASE native' = native
  BY <1>1, <1>2, <1>4, <1>6, BankSteps DEF Transfer!Next
<1>7. QED
  BY <1>5, <1>6, NativeSteps

(* The clean bridge implements the atomic transfer: the mailbox, the lost  *)
(* answers, the restarts and the world changes between request and receipt *)
(* show only as stuttering.                                                *)
THEOREM BridgeImplementsTransfer ==
  ASSUME Clean
  PROVE  Spec => ImplementsAtomicTransfer
<1>1. TypeOK /\ BankInv /\ OnceInv /\ [Next]_vars => [Transfer!Next]_(Transfer!absVars)
  BY StepRefines
<1>2. QED
  BY InitRefines, <1>1, OnceInvariant, PTL DEF Spec, ImplementsAtomicTransfer, Transfer!Spec

-------------------------------------------------------------------------------
(* The books: the wallet is what the ledger's rows add up to               *)

LedgerTypes == {"withdrawal_reservation", "withdrawal_refund", "deposit"}
RowsOf(u, type) == {r \in Requests : User[r] = u /\ <<type, r>> \in ledger}
Booked(u, type) == SumFunctionOnSet(Amount, RowsOf(u, type))

Explained(u) ==
  wallet[u] + Booked(u, "withdrawal_reservation")
    = Opening[u] + Booked(u, "withdrawal_refund") + Booked(u, "deposit")
BooksInv ==
  \A u \in Users : Explained(u) /\ \A type \in LedgerTypes : IsFiniteSet(RowsOf(u, type))

\* A row that is new adds its amount to the sum of its owner and type only.
LEMMA PostBooks ==
  ASSUME TypeOK, BooksInv, NEW r \in Requests, NEW t \in LedgerTypes,
         <<t, r>> \notin ledger, Post(t, r), NEW u \in Users, NEW type \in LedgerTypes
  PROVE  /\ IsFiniteSet(RowsOf(u, type)')
         /\ Booked(u, type) \in Int
         /\ Booked(u, type)' = IF u = User[r] /\ type = t THEN Amount[r] + Booked(u, type)
                               ELSE Booked(u, type)
<1> DEFINE old == RowsOf(u, type)
<1>1. IsFiniteSet(old) /\ \A q \in old \cup {r} : Amount[q] \in Int
  BY RequestAssumption DEF RequestAssumption, BooksInv, RowsOf
<1>2. RowsOf(u, type)' = IF u = User[r] /\ type = t THEN old \cup {r} ELSE old
  <2>1. \A q \in Requests : <<type, q>> \in ledger' <=> <<type, q>> \in ledger \/ (type = t /\ q = r)
    BY DEF Post
  <2>2. RowsOf(u, type)' = {q \in Requests : User[q] = u /\ <<type, q>> \in ledger'}
    BY DEF RowsOf
  <2> QED
    BY <2>1, <2>2 DEF RowsOf
<1>3. r \in old => ~(type = t)
  BY DEF RowsOf
<1>4. Booked(u, type) = SumFunctionOnSet(Amount, old)
  BY DEF Booked
<1>5. Booked(u, type)' = SumFunctionOnSet(Amount, RowsOf(u, type)')
  BY DEF Booked
<1>6. IsFiniteSet(old \cup {r})
  BY <1>1, FS_AddElement
<1>7. /\ SumFunctionOnSet(Amount, old) \in Int
      /\ r \notin old => SumFunctionOnSet(Amount, old \cup {r}) = Amount[r] + SumFunctionOnSet(Amount, old)
  BY <1>1, SumWithElement
<1> HIDE DEF old
<1> QED
  BY <1>1, <1>2, <1>3, <1>4, <1>5, <1>6, <1>7

LEMMA SameBooks ==
  ASSUME BooksInv, UNCHANGED <<ledger, wallet>>
  PROVE  BooksInv'
BY DEF BooksInv, Explained, Booked, RowsOf

LEMMA InitBooks == Init => BooksInv
<1> SUFFICES ASSUME Init, NEW u \in Users
             PROVE  Explained(u) /\ \A type \in LedgerTypes : IsFiniteSet(RowsOf(u, type))
  BY DEF BooksInv
<1>1. \A type : RowsOf(u, type) = {}
  BY DEF Init, RowsOf
<1>2. \A type : Booked(u, type) = 0
  BY <1>1, SumOfNothing DEF Booked
<1>3. \A type : IsFiniteSet(RowsOf(u, type))
  BY <1>1, FS_EmptySet
<1>4. wallet[u] = Opening[u] /\ Opening[u] \in Nat
  BY RequestAssumption DEF RequestAssumption, Init
<1> QED
  BY <1>2, <1>3, <1>4 DEF Explained

LEMMA NextBooks == TypeOK /\ BankInv /\ BooksInv /\ [Next]_vars => BooksInv'
<1> SUFFICES ASSUME TypeOK, BankInv, BooksInv, [Next]_vars PROVE BooksInv'
  OBVIOUS
<1>1. ASSUME NEW r \in Requests, NEW t \in LedgerTypes, <<t, r>> \notin ledger, Post(t, r),
             wallet' = [wallet EXCEPT ![User[r]] =
               IF t = "withdrawal_reservation" THEN @ - Amount[r] ELSE @ + Amount[r]]
      PROVE  BooksInv'
  <2> SUFFICES ASSUME NEW u \in Users
               PROVE  Explained(u)' /\ \A type \in LedgerTypes : IsFiniteSet(RowsOf(u, type)')
    BY DEF BooksInv
  <2>1. \A type \in LedgerTypes :
          /\ IsFiniteSet(RowsOf(u, type)')
          /\ Booked(u, type) \in Int
          /\ Booked(u, type)' = IF u = User[r] /\ type = t THEN Amount[r] + Booked(u, type)
                                ELSE Booked(u, type)
    BY <1>1, PostBooks
  <2>2. Amount[r] \in Int /\ wallet[u] \in Int /\ Opening[u] \in Int /\ User[r] \in Users
    BY RequestAssumption DEF RequestAssumption, TypeOK
  <2>3. wallet'[u] = IF u # User[r] THEN wallet[u]
                     ELSE IF t = "withdrawal_reservation" THEN wallet[u] - Amount[r]
                     ELSE wallet[u] + Amount[r]
    BY <1>1, <2>2 DEF TypeOK
  <2>4. Explained(u)
    BY DEF BooksInv
  <2>5. \A type \in LedgerTypes : Booked(u, type)' =
          Booked(u, type) + IF u = User[r] /\ type = t THEN Amount[r] ELSE 0
    BY <2>1, <2>2
  <2>6. Explained(u)'
    <3>1. /\ "withdrawal_reservation" \in LedgerTypes
          /\ "withdrawal_refund" \in LedgerTypes
          /\ "deposit" \in LedgerTypes
          /\ t \in {"withdrawal_reservation", "withdrawal_refund", "deposit"}
      BY DEF LedgerTypes
    <3>2. wallet'[u] + Booked(u, "withdrawal_reservation")'
            = Opening[u] + Booked(u, "withdrawal_refund")' + Booked(u, "deposit")'
      BY <2>1, <2>2, <2>3, <2>4, <2>5, <3>1 DEF Explained
    <3> QED
      BY <3>2 DEF Explained
  <2> QED
    BY <2>1, <2>6
<1>2. ASSUME NEW r \in Requests, RequestWithdrawal(r) PROVE BooksInv'
  <2>1. state[r] = "absent"
    BY <1>2 DEF RequestWithdrawal, Queue, InFlight
  <2>2. <<"withdrawal_reservation", r>> \notin ledger
    BY <2>1 DEF BankInv, LedgerMatchesState
  <2> QED
    BY <1>1, <1>2, <2>2 DEF RequestWithdrawal, LedgerTypes
<1>3. ASSUME NEW r \in Requests, RequestDeposit(r) PROVE BooksInv'
  BY <1>3, SameBooks DEF RequestDeposit
<1>4. ASSUME NEW r \in Requests, Settle(r) PROVE BooksInv'
  <2>1. state[r] = "pending"
    BY <1>4 DEF Settle, Settles, SettlesWithdrawal, SettlesDeposit
  <2>2. <<"withdrawal_refund", r>> \notin ledger /\ <<"deposit", r>> \notin ledger
    BY <2>1 DEF BankInv, LedgerMatchesState
  <2>3. CASE UNCHANGED <<ledger, wallet>>
    BY <2>3, SameBooks
  <2>4. ASSUME NEW t \in {"withdrawal_refund", "deposit"}, CreditOnce(t, r) PROVE BooksInv'
    BY <1>1, <2>2, <2>4 DEF CreditOnce, LedgerTypes
  <2> QED
    BY <1>4, <2>3, <2>4 DEF Settle, Refund
<1>5. CASE BankIdle
  BY <1>5, SameBooks DEF BankIdle
<1> QED
  BY BankSteps, <1>2, <1>3, <1>4, <1>5

(* The wallet is never overdrawn and is always its opening balance plus    *)
(* what the ledger adds up to, with every hazard: _project_wallet and the  *)
(* balance that request_withdrawal and the settlements keep agree.         *)
THEOREM LedgerExplained == Spec => []LedgerExplainsWallet
<1>1. Init => TypeOK /\ BankInv /\ BooksInv
  BY InitType, InitBank, InitBooks
<1>2. TypeOK /\ BankInv /\ BooksInv /\ [Next]_vars => TypeOK' /\ BankInv' /\ BooksInv'
  BY NextType, NextBank, NextBooks
<1>3. TypeOK /\ BooksInv => LedgerExplainsWallet
  <2> SUFFICES ASSUME TypeOK, BooksInv, NEW u \in Users
               PROVE  /\ wallet[u] >= 0
                      /\ wallet[u] + Booked(u, "withdrawal_reservation")
                           = Opening[u] + Booked(u, "withdrawal_refund") + Booked(u, "deposit")
    BY Zenon DEF LedgerExplainsWallet, Booked, RowsOf
  <2> QED
    BY DEF TypeOK, BooksInv, Explained
<1> QED
  BY <1>1, <1>2, <1>3, PTL DEF Spec

(* What players pay and get adds up in the game and at the bank.           *)
THEOREM BooksStayBalanced ==
  ASSUME Clean
  PROVE  Spec => []BooksBalance
<1>1. OnceInv /\ LedgerExplainsWallet => BooksBalance
  BY DEF BooksBalance
<1> QED
  BY <1>1, OnceCorrect, LedgerExplained, PTL
===============================================================================
