----------------------------- MODULE WalletPayments -----------------------------
(***************************************************************************)
(* Payments between SiN checking accounts: player payments, staff credits  *)
(* (BankingEngine.pay_player, admin_pay_player) and invoices               *)
(* (InvoiceService), with the ledger behind them.  The Discord commands    *)
(* run in threads of one or several bot processes.                         *)
(*                                                                         *)
(* A payment is one Mongo transaction: it reads a snapshot of the database *)
(* and is run again from the start when a document it writes has changed   *)
(* meanwhile (Database.atomic).  Cancelling an invoice is a read and a     *)
(* guarded update, outside any transaction.                                *)
(***************************************************************************)
EXTENDS Integers, FiniteSets, Functions

CONSTANTS
  Players,
  Linked,     \* players with a linked game identity
  Opening,    \* Opening[p]: balance at first
  Invoices,   \* Invoices[i]: [issuer, recipient, amount] of an invoice to come
  Calls,      \* threads of the bot
  Requests    \* Requests[c]: what a command of thread c asks for

(* Requests repeat, with the payment ID of the first: a retried commit, or a *)
(* command delivered again.  Of a credit the payer is the member of staff.   *)
PaymentAssumption ==
  /\ IsFiniteSet(Players) /\ Linked \subseteq Players /\ Opening \in [Players -> Nat]
  /\ \A i \in DOMAIN Invoices :
       {Invoices[i].issuer, Invoices[i].recipient} \subseteq Players /\ Invoices[i].amount \in Nat \ {0}
  /\ \A c \in Calls : LET x == Requests[c] IN
       \/ /\ x.kind \in {"pay", "credit"}
          /\ {x.payer, x.payee} \subseteq Players /\ x.amount \in Nat \ {0}
       \/ x.kind \in {"invoice", "cancel"} /\ x.invoice \in DOMAIN Invoices

VARIABLES
  wallet,     \* wallets: projected balances
  ledger,     \* ledger_entries
  transfers,  \* wallet_transfers
  credits,    \* admin_payments
  invoice,    \* invoice[i]: status
  phase,      \* phase[c]: "idle", "open", "done" or "refused"
  view        \* view[c]: the snapshot an open transaction reads

db   == [wallet |-> wallet, ledger |-> ledger, transfers |-> transfers, credits |-> credits,
         invoice |-> invoice]
vars == <<wallet, ledger, transfers, credits, invoice, phase, view>>

(* What a thread without an open transaction holds. *)
NoView ==
  [wallet |-> Opening, ledger |-> {}, transfers |-> {}, credits |-> {},
   invoice |-> [i \in DOMAIN Invoices |-> "absent"]]

Init ==
  /\ wallet = Opening /\ ledger = {} /\ transfers = {} /\ credits = {}
  /\ invoice = [i \in DOMAIN Invoices |-> "absent"]
  /\ phase = [c \in Calls |-> "idle"] /\ view = [c \in Calls |-> NoView]

-----------------------------------------------------------------------------
(* What one call makes of the database d it reads. *)

Transfer(id, x) == [id |-> id, payer |-> x.payer, payee |-> x.payee, amount |-> x.amount]
Invoiced(i) ==
  [id |-> <<"invoice", i>>, payer |-> Invoices[i].recipient, payee |-> Invoices[i].issuer,
   amount |-> Invoices[i].amount]
(* The wallet transfer, or the credit, a request comes to. *)
Payment(x) == IF x.kind = "invoice" THEN Invoiced(x.invoice) ELSE Transfer(<<x.kind, x.id>>, x)

Book(d, x)   == IF x.kind = "credit" THEN d.credits ELSE d.transfers
Recorded(d, x) == {row \in Book(d, x) : row.id = Payment(x).id}
(* WRONG: any payment with the reference is taken for this one *)
SameReference(d, x) == FALSE
Conflicting(d, x) == \E row \in Recorded(d, x) : row # Payment(x)

(* A stable reference that was paid before: no second effect. *)
Settled(d, x) ==
  \/ x.kind = "invoice" /\ d.invoice[x.invoice] = "paid"
  \/ Recorded(d, x) # {} /\ x.kind # "invoice"

Identified(x) ==
  CASE x.kind = "pay" -> {x.payer, x.payee} \subseteq Linked
    [] x.kind = "credit" -> x.payee \in Linked
    [] OTHER -> x.actor = Invoices[x.invoice].recipient
Covered(d, x) == x.kind = "credit" \/ d.wallet[Payment(x).payer] >= Payment(x).amount

Payable(d, x) ==
  /\ Identified(x) /\ Payment(x).payer # Payment(x).payee
  /\ x.kind = "invoice" => d.invoice[x.invoice] \in {"issued", "paid"}
  /\ ~Conflicting(d, x)
  /\ Settled(d, x) \/ Covered(d, x)

(* Immutable rows: a debit and a credit, or a credit the system funds. *)
(* WRONG: the actor of a row is the side it is on *)
EntryOfSide(side, x, p, n) == [id |-> <<side, Payment(x).id>>, actor |-> side, amount |-> n]
Entry(side, x, p, n) == [id |-> <<side, Payment(x).id>>, actor |-> p, amount |-> n]
Entries(x) ==
  LET credit == Entry("credit", x, Payment(x).payee, Payment(x).amount) IN
  IF x.kind = "credit" THEN {credit}
  ELSE {Entry("debit", x, Payment(x).payer, -Payment(x).amount), credit}

Moved(d, x) ==
  [p \in Players |-> d.wallet[p]
                     + (IF p = Payment(x).payee THEN Payment(x).amount ELSE 0)
                     - (IF p = Payment(x).payer /\ x.kind # "credit" THEN Payment(x).amount ELSE 0)]

(* Documents the transaction writes, unchanged since it began. *)
Touched(x) == IF x.kind = "credit" THEN {Payment(x).payee} ELSE {Payment(x).payer, Payment(x).payee}
Unchanged(c) ==
  LET x == Requests[c] IN
  /\ \A p \in Touched(x) : view[c].wallet[p] = wallet[p]
  /\ Recorded(view[c], x) = Recorded(db, x)
  /\ x.kind = "invoice" => view[c].invoice[x.invoice] = invoice[x.invoice]

-----------------------------------------------------------------------------
(* InvoiceService.create *)
Issue(i) ==
  /\ invoice[i] = "absent" /\ Invoices[i].issuer # Invoices[i].recipient
  /\ invoice' = [invoice EXCEPT ![i] = "issued"]
  /\ UNCHANGED <<wallet, ledger, transfers, credits, phase, view>>

(* Any command may be given again. *)
Begin(c) ==
  /\ phase[c] # "open"
  /\ phase' = [phase EXCEPT ![c] = "open"] /\ view' = [view EXCEPT ![c] = db]
  /\ UNCHANGED <<wallet, ledger, transfers, credits, invoice>>

End(c, result) ==
  phase' = [phase EXCEPT ![c] = result] /\ view' = [view EXCEPT ![c] = NoView]

Open(c)    == phase[c] = "open"
Settles(c) == Requests[c].kind # "cancel"

Refuse(c) ==
  /\ Open(c) /\ Settles(c) /\ ~Payable(view[c], Requests[c])
  /\ End(c, "refused")
  /\ UNCHANGED <<wallet, ledger, transfers, credits, invoice>>

Repeat(c) ==
  /\ Open(c) /\ Settles(c) /\ Payable(view[c], Requests[c]) /\ Settled(view[c], Requests[c])
  /\ End(c, "done")
  /\ UNCHANGED <<wallet, ledger, transfers, credits, invoice>>

Commit(c) ==
  LET x == Requests[c] IN
  /\ Open(c) /\ Settles(c) /\ Payable(view[c], x) /\ ~Settled(view[c], x) /\ Unchanged(c)
  /\ wallet' = Moved(db, x)
  /\ ledger' = ledger \union Entries(x)
  /\ IF x.kind = "credit" THEN credits' = credits \union {Payment(x)} /\ UNCHANGED transfers
     ELSE transfers' = transfers \union {Payment(x)} /\ UNCHANGED credits
  /\ invoice' = IF x.kind = "invoice" THEN [invoice EXCEPT ![x.invoice] = "paid"] ELSE invoice
  /\ End(c, "done")

(* A write conflict: the whole callback runs again on a new snapshot. *)
Rerun(c) ==
  /\ Open(c) /\ Settles(c) /\ Payable(view[c], Requests[c]) /\ ~Settled(view[c], Requests[c])
  /\ ~Unchanged(c)
  /\ view' = [view EXCEPT ![c] = db]
  /\ UNCHANGED <<wallet, ledger, transfers, credits, invoice, phase>>

(* WRONG: the status read before is not tested again by the update *)
ReadIssued(c) == view[c].invoice[Requests[c].invoice] = "issued"
Cancellable(c) ==
  /\ view[c].invoice[Requests[c].invoice] = "issued"
  /\ invoice[Requests[c].invoice] = "issued"

CancelInvoice(c) ==
  LET x == Requests[c] IN
  /\ Open(c) /\ x.kind = "cancel"
  /\ IF Cancellable(c) /\ (x.staff \/ x.actor = Invoices[x.invoice].issuer)
     THEN invoice' = [invoice EXCEPT ![x.invoice] = "cancelled"] /\ End(c, "done")
     ELSE UNCHANGED invoice /\ End(c, "refused")
  /\ UNCHANGED <<wallet, ledger, transfers, credits>>

Next ==
  \/ \E i \in DOMAIN Invoices : Issue(i)
  \/ \E c \in Calls : Begin(c) \/ Refuse(c) \/ Repeat(c) \/ Commit(c) \/ Rerun(c) \/ CancelInvoice(c)
Spec == Init /\ [][Next]_vars

-----------------------------------------------------------------------------
Sum(rows) == SumFunction([row \in rows |-> row.amount])

TypeOK ==
  /\ wallet \in [Players -> Int]
  /\ \A row \in ledger : row.actor \in Players /\ row.amount \in Int
  /\ \A row \in transfers \union credits : {row.payer, row.payee} \subseteq Players
  /\ invoice \in [DOMAIN Invoices -> {"absent", "issued", "paid", "cancelled"}]
  /\ phase \in [Calls -> {"idle", "open", "done", "refused"}]

(* Checking accounts hold what was there and what staff credited: no        *)
(* repeated, raced or half-done payment creates or destroys money, and      *)
(* nobody spends the same money twice (transfer_wallet, admin_pay_player).  *)
MoneyConserved ==
  /\ SumFunction([p \in Players |-> wallet[p] - Opening[p]]) = Sum(credits)
  /\ \A p \in Players : wallet[p] >= 0

(* The ledger is append-only and explains every projected balance.          *)
LedgerExplains ==
  \A p \in Players : wallet[p] = Opening[p] + Sum({row \in ledger : row.actor = p})

(* An invoice is paid when, and only when, its money moved: a cancellation  *)
(* or a second payment that overtakes the payment does not part the two     *)
(* (business_workflows.py 369-402).                                         *)
PaidMeansMoved ==
  \A i \in DOMAIN Invoices : invoice[i] = "paid" <=> Invoiced(i) \in transfers

(* A paid or cancelled invoice stays so, and no booked payment is dropped   *)
(* or rewritten, whichever commands are given again.                        *)
Final ==
  [][/\ ledger \subseteq ledger' /\ transfers \subseteq transfers' /\ credits \subseteq credits'
     /\ \A i \in DOMAIN Invoices : invoice[i] \in {"paid", "cancelled"} => invoice'[i] = invoice[i]]_vars

(* Whoever is told that a payment is done finds exactly this payment        *)
(* booked, never another one that had taken its reference before.           *)
ToldIsBooked ==
  \A c \in Calls : phase[c] = "done" /\ Settles(c) =>
    Payment(Requests[c]) \in Book(db, Requests[c])

(* What MoneyBridge asks of the farms' cash these ask of wallet payments.   *)
MoneyAgrees == MoneyConserved /\ LedgerExplains /\ ToldIsBooked /\ PaidMeansMoved
=============================================================================
