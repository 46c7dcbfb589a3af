----------------------------- MODULE SerialPayments -----------------------------
(***************************************************************************)
(* What payments between checking accounts promise, with no snapshot, no   *)
(* transaction and no command in it.  A payment is one step on the         *)
(* balances of that moment: its payer has the money, its reference was     *)
(* never used, and the invoice it settles is open.  An invoice is issued   *)
(* once, and is either paid or cancelled.  Nothing is ever taken back.     *)
(***************************************************************************)
EXTENDS Integers

CONSTANTS
  Players,   \* account holders
  Opening,   \* Opening[p]: balance at first
  Orders,    \* the payments commands ask for: [id, payer, payee, amount]
  Credits,   \* those of them the system funds
  Due        \* Due[i]: the payment that settles invoice i

VARIABLES
  balance,   \* balance[p]
  book,      \* the payments made
  bill       \* bill[i]: "absent", "issued", "paid" or "cancelled"

serialVars == <<balance, book, bill>>

Init ==
  /\ balance = Opening
  /\ book = {}
  /\ bill = [i \in DOMAIN Due |-> "absent"]

Affordable(t) == t \in Credits \/ balance[t.payer] >= t.amount
Spent(t, p)   == IF p = t.payer /\ t \notin Credits THEN t.amount ELSE 0
Gained(t, p)  == IF p = t.payee THEN t.amount ELSE 0

Pay(t) ==
  /\ book' = book \union {t}
  /\ t.payer # t.payee /\ Affordable(t)
  /\ \A made \in book : made.id # t.id
  /\ \A i \in DOMAIN Due : Due[i] = t => bill[i] = "issued"
  /\ balance' = [p \in Players |-> balance[p] + Gained(t, p) - Spent(t, p)]
  /\ bill' = [i \in DOMAIN Due |-> IF Due[i] = t THEN "paid" ELSE bill[i]]

Issue(i) ==
  /\ bill[i] = "absent" /\ bill' = [bill EXCEPT ![i] = "issued"]
  /\ UNCHANGED <<balance, book>>

Cancel(i) ==
  /\ bill[i] = "issued" /\ bill' = [bill EXCEPT ![i] = "cancelled"]
  /\ UNCHANGED <<balance, book>>

Next ==
  \/ \E t \in Orders : Pay(t)
  \/ \E i \in DOMAIN Due : Issue(i) \/ Cancel(i)

Spec == Init /\ [][Next]_serialVars
===============================================================================
