---------------------------- MODULE AtomicTransfer ----------------------------
(***************************************************************************)
(* What the bank promises, with no mailbox, no receipt and no Agent in it. *)
(* A withdrawal takes its amount out of the wallet when it is accepted and *)
(* a deposit takes nothing.  The native farm balance then moves at most    *)
(* once, and the transfer closes in the way that agrees with it: a request *)
(* whose money moved is confirmed, one whose money did not is cancelled    *)
(* (a withdrawal is refunded), and a cancelled request never moves money.  *)
(* A request may also stay open for ever: that is how the bank answers an  *)
(* outcome it cannot prove.                                                *)
(***************************************************************************)
EXTENDS Naturals

CONSTANTS
  Requests,  \* the transfers players may ask for
  Users,     \* wallet holders
  Kind,      \* Kind[r]: "withdraw_funds" or "deposit_funds"
  User,      \* User[r]: whose wallet it is
  Amount,    \* Amount[r]: whole currency units
  Opening    \* Opening[u]: wallet balance before the first transfer

VARIABLES
  phase,   \* phase[r]: "new", "open", "confirmed" or "cancelled"
  moved,   \* the requests whose amount moved in the game
  purse    \* purse[u]: the wallet

absVars == <<phase, moved, purse>>

Withdraws(r) == Kind[r] = "withdraw_funds"

Init ==
  /\ phase = [r \in Requests |-> "new"]
  /\ moved = {}
  /\ purse = Opening

Credit(r) == purse' = [purse EXCEPT ![User[r]] = @ + Amount[r]]
Debit(r)  == /\ purse[User[r]] >= Amount[r]
             /\ purse' = [purse EXCEPT ![User[r]] = @ - Amount[r]]

Open(r) ==
  /\ phase[r] = "new"
  /\ phase' = [phase EXCEPT ![r] = "open"]
  /\ IF Withdraws(r) THEN Debit(r) ELSE UNCHANGED purse
  /\ UNCHANGED moved

Move(r) ==
  /\ phase[r] = "open"
  /\ r \notin moved
  /\ moved' = moved \cup {r}
  /\ UNCHANGED <<phase, purse>>

Confirm(r) ==
  /\ phase[r] = "open"
  /\ r \in moved
  /\ phase' = [phase EXCEPT ![r] = "confirmed"]
  /\ IF Withdraws(r) THEN UNCHANGED purse ELSE Credit(r)
  /\ UNCHANGED moved

Cancel(r) ==
  /\ phase[r] = "open"
  /\ r \notin moved
  /\ phase' = [phase EXCEPT ![r] = "cancelled"]
  /\ IF Withdraws(r) THEN Credit(r) ELSE UNCHANGED purse
  /\ UNCHANGED moved

Next == \E r \in Requests : Open(r) \/ Move(r) \/ Confirm(r) \/ Cancel(r)

Spec == Init /\ [][Next]_absVars
===============================================================================
