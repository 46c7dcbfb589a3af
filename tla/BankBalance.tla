------------------------------- MODULE BankBalance -----------------------------
(***************************************************************************)
(* What /balance and /equity tell a farm manager (banking_engine.py).  The *)
(* game writes snapshot.xml, the Agent posts the file, central stores it   *)
(* with the time it was received; receipts of deposits and withdrawals     *)
(* arrive on their own.  A snapshot may so be older than a settled         *)
(* transfer.  One tick stands for some 20 seconds.                         *)
(***************************************************************************)
EXTENDS Integers, Sequences, FiniteSets

CONSTANTS
  Grace,       \* BALANCE_SNAPSHOT_GRACE, 45 seconds
  Fresh,       \* the two minutes after which /equity refuses a snapshot
  Period,      \* the game rewrites snapshot.xml at least this often while it runs
  Transit,     \* an accepted post takes at most this long
  Horizon, MaxCash, MaxTransfers    \* bounds

BalanceAssumption == \* what the 45 seconds rest on
  /\ Grace \in Nat /\ Fresh \in Nat /\ Period \in Nat /\ Transit \in Nat
  /\ Period + Transit <= Grace
  /\ Horizon \in Nat \ {0} /\ MaxCash \in Nat \ {0} /\ MaxTransfers \in Nat

VARIABLES
  now,
  running,   \* the game runs; the Agent goes on without it
  cash,      \* the farm's native balance
  moves,     \* transfers the game applied: [after, since, done], done = 0 until the receipt is accepted
  file,      \* snapshot.xml: [value, covers, at], covers = how many moves it reflects
  upload,    \* the post under way: {} or one [value, covers, sent]
  stored     \* server_snapshots: {} or one [value, covers, received]
balanceVars == <<now, running, cash, moves, file, upload, stored>>

Init ==
  /\ now = 1 /\ running = TRUE /\ cash = 1 /\ moves = <<>>
  /\ file = [value |-> 1, covers |-> 0, at |-> 1] /\ upload = {} /\ stored = {}

(***************************************************************************)
(* The game and the Agent.  since collects what the farm has been worth    *)
(* from each transfer on.                                                  *)
(***************************************************************************)
Seen(v) == [i \in 1..Len(moves) |-> [moves[i] EXCEPT !.since = @ \union {v}]]

Earn(v) ==
  /\ running /\ v \in {cash - 1, cash + 1} /\ cash' = v /\ moves' = Seen(v)
  /\ UNCHANGED <<now, running, file, upload, stored>>

Move(v) ==
  /\ running /\ v \in {cash - 1, cash + 1} /\ Len(moves) < MaxTransfers
  /\ cash' = v /\ moves' = Append(Seen(v), [after |-> v, since |-> {v}, done |-> 0])
  /\ UNCHANGED <<now, running, file, upload, stored>>

ExportSnapshot ==
  /\ running /\ file' = [value |-> cash, covers |-> Len(moves), at |-> now]
  /\ UNCHANGED <<now, running, cash, moves, upload, stored>>

Stop ==
  /\ running /\ running' = FALSE
  /\ UNCHANGED <<now, cash, moves, file, upload, stored>>

(* process_snapshot_once posts whatever the file holds. *)
Post ==
  /\ upload = {} /\ upload' = {[value |-> file.value, covers |-> file.covers, sent |-> now]}
  /\ UNCHANGED <<now, running, cash, moves, file, stored>>

Receive ==
  /\ upload # {} /\ upload' = {}
  /\ stored' = {[value |-> u.value, covers |-> u.covers, received |-> now] : u \in upload}
  /\ UNCHANGED <<now, running, cash, moves, file>>

Lose ==
  /\ upload # {} /\ upload' = {}
  /\ UNCHANGED <<now, running, cash, moves, file, stored>>

(* The receipt of a move is accepted: state completed, completed_at = now.
   Receipts may come in another order than the game applied the moves.      *)
Complete(i) ==
  /\ moves[i].done = 0 /\ moves' = [moves EXCEPT ![i].done = now]
  /\ UNCHANGED <<now, running, cash, file, upload, stored>>

Tick ==
  /\ now < Horizon /\ now' = now + 1
  /\ running => file.at + Period > now
  /\ \A u \in upload : u.sent + Transit > now
  /\ UNCHANGED <<running, cash, moves, file, upload, stored>>

GameSide == ExportSnapshot \/ Stop \/ (\E v \in 0..MaxCash : Earn(v) \/ Move(v))
AgentSide == Post \/ Receive \/ Lose \/ (\E i \in 1..Len(moves) : Complete(i))
Next == GameSide \/ AgentSide \/ Tick
Spec == Init /\ [][Next]_balanceVars

(***************************************************************************)
(* The commands only read.  Of transfers completed at one instant either   *)
(* may be taken for the latest.                                            *)
(***************************************************************************)
Completed == {i \in 1..Len(moves) : moves[i].done > 0}
Latest == {i \in Completed : \A j \in Completed : moves[j].done <= moves[i].done}

(* account_summary hides the snapshot's balance and answers "updating".
   /balance then looks again for 26 seconds.                               *)
NoGrace(s, i) == moves[i].after # s.value /\ s.received <= moves[i].done   \* WRONG
Updating(s, i) == moves[i].after # s.value /\ s.received <= moves[i].done + Grace

(* equity_summary has no grace; it refuses a snapshot received too long ago. *)
Usable(s) == now - s.received <= Fresh

-----------------------------------------------------------------------------
TypeOK ==
  /\ now \in 1..Horizon /\ running \in BOOLEAN /\ cash \in 0..MaxCash
  /\ file \in [value : 0..MaxCash, covers : 0..MaxTransfers, at : 1..Horizon]
  /\ Cardinality(upload) <= 1 /\ Cardinality(stored) <= 1 /\ Len(moves) <= MaxTransfers
  /\ \A i \in 1..Len(moves) : moves[i].after \in moves[i].since /\ moves[i].done \in 0..now

(* While the game runs, the game balance /balance shows is one the farm has
   had since the latest settled transfer, never the one from before it,
   though snapshots and receipts reach central in any order.               *)
ShownIsCurrent ==
  running => \A s \in stored, i \in Latest : Updating(s, i) \/ s.value \in moves[i].since

(* Right after a deposit /equity may count the money twice, in the wallet and
   in the farm's balance.  It does so for a bounded time only: a total never
   misses a transfer settled longer ago than its snapshot may be old.       *)
EquityForgetsNothingOld ==
  running => \A s \in stored, i \in Completed :
               Usable(s) /\ s.covers < i => moves[i].done + Fresh + Transit + Period >= now
=============================================================================
