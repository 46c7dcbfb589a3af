----------------------------- MODULE ServicesProofs ----------------------------
(***************************************************************************)
(* Theorems about the services of Services, for any values of their        *)
(* constants.  Each is proved about alone.                                 *)
(***************************************************************************)
EXTENDS Services, SumTheorems

-------------------------------------------------------------------------------
(* WalletPayments: what a command comes to                                 *)

\* Finiteness and sums in the instance are those of the library.
LEMMA PayersAreFinite == Payments!PaymentAssumption => IsFiniteSet(Payers)
  BY Zenon DEF Payments!PaymentAssumption, Payments!IsFiniteSet, IsFiniteSet

LEMMA PaymentSums == \A fun : Payments!SumFunction(fun) = SumFunctionOnSet(fun, DOMAIN fun)
  BY Zenon DEF Payments!SumFunction, Payments!SumFunctionOnSet, Payments!FoldFunctionOnSet,
     Payments!MapThenFoldSet,
     SumFunctionOnSet, FoldFunctionOnSet, MapThenFoldSet

\* A request to move money names two players and a positive amount.
LEMMA PaymentIs ==
  ASSUME Payments!PaymentAssumption, NEW c \in Orders, Payments!Settles(c), NEW x, x = Requests[c],
         NEW p, p = Payments!Payment(x)
  PROVE  /\ x.kind \in {"pay", "credit", "invoice"}
         /\ p.payer \in Payers /\ p.payee \in Payers /\ p.amount \in Nat \ {0}
         /\ p.id[1] = x.kind
         /\ x.kind = "invoice" => x.invoice \in DOMAIN Invoices /\ p = Payments!Invoiced(x.invoice)
<1>1. CASE x.kind = "invoice"
  <2>1. x.invoice \in DOMAIN Invoices /\ p = Payments!Invoiced(x.invoice)
    BY <1>1 DEF Payments!PaymentAssumption, Payments!Payment
  <2>2. /\ p.payer = Invoices[x.invoice].recipient /\ p.payee = Invoices[x.invoice].issuer
        /\ p.amount = Invoices[x.invoice].amount /\ p.id = <<"invoice", x.invoice>>
    BY <2>1 DEF Payments!Invoiced
  <2> QED
    BY <1>1, <2>1, <2>2 DEF Payments!PaymentAssumption
<1>2. CASE x.kind # "invoice"
  <2>1. x.kind \in {"pay", "credit"} /\ {x.payer, x.payee} \subseteq Payers /\ x.amount \in Nat \ {0}
    BY <1>2 DEF Payments!PaymentAssumption, Payments!Settles
  <2>2. /\ p.payer = x.payer /\ p.payee = x.payee
        /\ p.amount = x.amount /\ p.id = <<x.kind, x.id>>
    BY <1>2 DEF Payments!Payment, Payments!Transfer
  <2> QED
    BY <1>2, <2>1, <2>2
<1> QED
  BY <1>1, <1>2

-------------------------------------------------------------------------------
(* WalletPayments: what transactions read and what they leave              *)

(* An open transaction reads a database of the past; nothing in it was     *)
(* taken back since.                                                       *)
SnapshotHolds(d) ==
  /\ d.transfers \subseteq transfers /\ d.credits \subseteq credits
  /\ \A i \in DOMAIN Invoices : d.invoice[i] = "paid" => Payments!Invoiced(i) \in d.transfers

(* The kind of a reference says which collection it is recorded in, and    *)
(* no two payments share one.                                              *)
EntriesHold ==
  /\ \A entry \in transfers : entry.id[1] \in {"pay", "invoice"}
  /\ \A entry \in credits : entry.id[1] = "credit" /\ entry.amount \in Nat
  /\ \A entry \in transfers \union credits : {entry.payer, entry.payee} \subseteq Payers
  /\ IsFiniteSet(credits)

(* A ledger row belongs to a payment.                                      *)
LedgerHolds ==
  /\ \A entry \in ledger : entry.actor \in Payers /\ entry.amount \in Int
  /\ \A entry \in ledger : \E paid \in transfers \union credits : entry.id[2] = paid.id
  /\ IsFiniteSet(ledger)

PayInv ==
  /\ Payments!TypeOK
  /\ EntriesHold /\ LedgerHolds
  /\ view = [c \in Orders |-> view[c]] /\ \A c \in Orders : SnapshotHolds(view[c])
  /\ Payments!PaidMeansMoved
  /\ Payments!ToldIsBooked
  /\ \A p \in Payers : wallet[p] >= 0

\* A payment is committed where its reference was not used, by a payer who can.
LEMMA CommitIs ==
  ASSUME Payments!PaymentAssumption, PayInv, NEW c \in Orders, Payments!Commit(c),
         NEW x, x = Requests[c], NEW p, p = Payments!Payment(x)
  PROVE  /\ \A entry \in transfers \union credits : entry.id # p.id
         /\ p.payer # p.payee
         /\ x.kind = "credit" \/ wallet[p.payer] >= p.amount
         /\ x.kind = "invoice" => invoice[x.invoice] = "issued"
<1>1. /\ Payments!Settles(c) /\ Payments!Payable(view[c], x)
      /\ ~ Payments!Settled(view[c], x) /\ Payments!Unchanged(c)
  BY DEF Payments!Commit
<1>2. /\ x.kind \in {"pay", "credit", "invoice"} /\ p.id[1] = x.kind
      /\ p.payer \in Payers /\ p.payee \in Payers
      /\ x.kind = "invoice" => x.invoice \in DOMAIN Invoices /\ p = Payments!Invoiced(x.invoice)
  BY <1>1, PaymentIs
<1>3. p.payer # p.payee
  BY <1>1 DEF Payments!Payable
<1>4. x.kind = "invoice" => invoice[x.invoice] = "issued"
  BY <1>1 DEF Payments!Payable, Payments!Settled, Payments!Unchanged
<1>5. x.kind = "credit" \/ wallet[p.payer] >= p.amount
  BY <1>1 DEF Payments!Payable, Payments!Covered, Payments!Unchanged, Payments!Touched
<1>6. Payments!Recorded(Payments!db, x) = {}
  <2>1. Payments!Recorded(view[c], x) = Payments!Recorded(Payments!db, x)
    BY <1>1 DEF Payments!Unchanged
  <2>2. CASE x.kind # "invoice"
    BY <1>1, <2>1, <2>2 DEF Payments!Settled
  <2>3. CASE x.kind = "invoice"
    <3>1. \A entry \in Payments!Recorded(Payments!db, x) : entry = p
      BY <1>1, <2>1 DEF Payments!Payable, Payments!Conflicting
    <3>2. p \notin transfers
      BY <1>2, <1>4, <2>3 DEF PayInv, Payments!PaidMeansMoved
    <3>3. Payments!Recorded(Payments!db, x) \subseteq transfers
      BY <2>3 DEF Payments!Recorded, Payments!Book, Payments!db
    <3> QED
      BY <3>1, <3>2, <3>3
  <2> QED
    BY <2>2, <2>3
<1>7. \A entry \in transfers \union credits : entry.id # p.id
  <2>1. CASE x.kind = "credit"
    <3>1. \A entry \in credits : entry.id # p.id
      BY <1>6, <2>1 DEF Payments!Recorded, Payments!Book, Payments!db
    <3> QED
      BY <1>2, <2>1, <3>1 DEF PayInv, EntriesHold
  <2>2. CASE x.kind # "credit"
    <3>1. \A entry \in transfers : entry.id # p.id
      BY <1>6, <2>2 DEF Payments!Recorded, Payments!Book, Payments!db
    <3> QED
      BY <1>2, <2>2, <3>1 DEF PayInv, EntriesHold
  <2> QED
    BY <2>1, <2>2
<1> QED
  BY <1>3, <1>4, <1>5, <1>7

\* A view taken now holds, and one taken before goes on to.
LEMMA ViewsStay ==
  ASSUME PayInv, NEW c \in Orders,
         transfers \subseteq transfers', credits \subseteq credits',
         \/ view'[c] = view[c]
         \/ view'[c] = Payments!NoView
         \/ view'[c] = Payments!db
  PROVE  SnapshotHolds(view[c])'
<1>1. SnapshotHolds(view[c]) /\ SnapshotHolds(Payments!NoView) /\ SnapshotHolds(Payments!db)
  BY DEF PayInv, SnapshotHolds, Payments!NoView, Payments!db, Payments!PaidMeansMoved
<1>2. PICK d : d = view'[c] /\ SnapshotHolds(d)
  BY <1>1
<1>3. d.transfers \subseteq transfers' /\ d.credits \subseteq credits'
  BY <1>2 DEF SnapshotHolds
<1> QED
  BY <1>2, <1>3 DEF SnapshotHolds

LEMMA InitPay == Payments!PaymentAssumption /\ Payments!Init => PayInv
<1> SUFFICES ASSUME Payments!PaymentAssumption, Payments!Init PROVE PayInv
  OBVIOUS
<1>1. Payments!TypeOK /\ EntriesHold /\ LedgerHolds
  BY FS_EmptySet DEF Payments!Init, Payments!PaymentAssumption, Payments!TypeOK, EntriesHold, LedgerHolds
<1>2. view = [c \in Orders |-> view[c]] /\ \A c \in Orders : SnapshotHolds(view[c])
  BY DEF Payments!Init, SnapshotHolds, Payments!NoView
<1>3. Payments!PaidMeansMoved /\ Payments!ToldIsBooked
  BY DEF Payments!Init, Payments!PaidMeansMoved, Payments!ToldIsBooked
<1>4. \A p \in Payers : wallet[p] >= 0
  BY DEF Payments!Init, Payments!PaymentAssumption
<1> QED
  BY <1>1, <1>2, <1>3, <1>4 DEF PayInv

\* Every step that commits nothing leaves the books alone.
Booked == UNCHANGED <<wallet, ledger, transfers, credits>>

\* Who is told a payment is done finds it booked.
LEMMA ToldStays ==
  ASSUME PayInv, NEW c \in Orders,
         transfers \subseteq transfers', credits \subseteq credits',
         phase' = [phase EXCEPT ![c] = phase'[c]],
         phase'[c] = "done" /\ Payments!Settles(c) =>
           Payments!Payment(Requests[c]) \in Payments!Book(Payments!db, Requests[c])'
  PROVE  Payments!ToldIsBooked'
<1> SUFFICES ASSUME NEW h \in Orders, phase'[h] = "done", Payments!Settles(h)
             PROVE  Payments!Payment(Requests[h]) \in Payments!Book(Payments!db, Requests[h])'
  BY DEF Payments!ToldIsBooked
<1>1. CASE h = c
  BY <1>1
<1>2. CASE h # c
  <2>1. phase[h] = "done"
    BY <1>2 DEF PayInv, Payments!TypeOK
  <2>2. Payments!Payment(Requests[h]) \in Payments!Book(Payments!db, Requests[h])
    BY <2>1 DEF PayInv, Payments!ToldIsBooked
  <2> QED
    BY <2>2 DEF Payments!Book, Payments!db
<1> QED
  BY <1>1, <1>2

\* A step of call c that books nothing new and pays no invoice.
LEMMA NextUnbooked ==
  ASSUME PayInv, Booked, NEW c \in Orders,
         phase' = [phase EXCEPT ![c] = phase'[c]], phase'[c] \in {"idle", "open", "done", "refused"},
         phase'[c] = "done" /\ Payments!Settles(c) =>
           Payments!Payment(Requests[c]) \in Payments!Book(Payments!db, Requests[c]),
         view' = [view EXCEPT ![c] = view'[c]], view'[c] \in {view[c], Payments!NoView, Payments!db},
         invoice' \in [DOMAIN Invoices -> {"absent", "issued", "paid", "cancelled"}],
         \A i \in DOMAIN Invoices : invoice'[i] = "paid" <=> invoice[i] = "paid"
  PROVE  PayInv'
<1> USE DEF Booked
<1>1. (EntriesHold /\ LedgerHolds /\ \A p \in Payers : wallet[p] >= 0)'
  BY DEF PayInv, EntriesHold, LedgerHolds
<1>2. Payments!TypeOK'
  BY DEF PayInv, Payments!TypeOK
<1>3. Payments!ToldIsBooked'
  <2>1. Payments!Book(Payments!db, Requests[c])' = Payments!Book(Payments!db, Requests[c])
    BY DEF Payments!Book, Payments!db
  <2> QED
    BY <2>1, ToldStays
<1>4. Payments!PaidMeansMoved'
  BY DEF PayInv, Payments!PaidMeansMoved
<1>5. (view = [h \in Orders |-> view[h]])'
  BY DEF PayInv
<1>6. ASSUME NEW h \in Orders PROVE SnapshotHolds(view[h])'
  <2>1. view'[h] = view[h] \/ view'[h] = Payments!NoView \/ view'[h] = Payments!db
    BY DEF PayInv
  <2> QED
    BY <2>1, ViewsStay
<1> QED
  BY <1>1, <1>2, <1>3, <1>4, <1>5, <1>6 DEF PayInv

LEMMA CommitPay ==
  ASSUME Payments!PaymentAssumption, PayInv, NEW c \in Orders, Payments!Commit(c)
  PROVE  PayInv'
<1> DEFINE x == Requests[c]
           p == Payments!Payment(x)
<1>1. /\ \A entry \in transfers \union credits : entry.id # p.id
      /\ p.payer # p.payee
      /\ x.kind = "credit" \/ wallet[p.payer] >= p.amount
      /\ x.kind = "invoice" => invoice[x.invoice] = "issued"
  BY CommitIs
<1>2. /\ x.kind \in {"pay", "credit", "invoice"}
      /\ p.payer \in Payers /\ p.payee \in Payers /\ p.amount \in Nat \ {0}
      /\ p.id[1] = x.kind
      /\ x.kind = "invoice" => x.invoice \in DOMAIN Invoices /\ p = Payments!Invoiced(x.invoice)
  BY PaymentIs DEF Payments!Commit
<1>3. wallet' = [q \in Payers |-> wallet[q] + (IF q = p.payee THEN p.amount ELSE 0)
                   - (IF q = p.payer /\ x.kind # "credit" THEN p.amount ELSE 0)]
  BY DEF Payments!Commit, Payments!Moved, Payments!db
<1>4. IF x.kind = "credit" THEN credits' = credits \union {p} /\ transfers' = transfers
      ELSE transfers' = transfers \union {p} /\ credits' = credits
  BY DEF Payments!Commit
<1>5. invoice' = IF x.kind = "invoice" THEN [invoice EXCEPT ![x.invoice] = "paid"] ELSE invoice
  BY DEF Payments!Commit
<1>6. /\ phase' = [phase EXCEPT ![c] = "done"] /\ view' = [view EXCEPT ![c] = Payments!NoView]
      /\ ledger' = ledger \union Payments!Entries(x)
  BY DEF Payments!Commit, Payments!End
<1>7. /\ Payments!Entries(x) = IF x.kind = "credit" THEN {Payments!Entry("credit", x, p.payee, p.amount)}
           ELSE {Payments!Entry("debit", x, p.payer, -p.amount),
                 Payments!Entry("credit", x, p.payee, p.amount)}
      /\ IsFiniteSet(Payments!Entries(x))
      /\ \A entry \in Payments!Entries(x) : entry.actor \in Payers /\ entry.amount \in Int /\ entry.id[2] = p.id
  <2>1. Payments!Entries(x) = IF x.kind = "credit" THEN {Payments!Entry("credit", x, p.payee, p.amount)}
           ELSE {Payments!Entry("debit", x, p.payer, -p.amount),
                 Payments!Entry("credit", x, p.payee, p.amount)}
    BY DEF Payments!Entries
  <2>2. IsFiniteSet(Payments!Entries(x))
    <3>1. \A a : IsFiniteSet({a})
      BY FS_Singleton
    <3>2. ASSUME NEW a, NEW b PROVE IsFiniteSet({a, b})
      <4>1. IsFiniteSet({a} \union {b})
        BY <3>1, FS_AddElement
      <4>2. {a, b} = {a} \union {b}
        OBVIOUS
      <4> QED
        BY <4>1, <4>2, Zenon
    <3>3. CASE x.kind = "credit"
      BY <2>1, <3>1, <3>3
    <3>4. CASE x.kind # "credit"
      BY <2>1, <3>2, <3>4
    <3> QED
      BY <3>3, <3>4
  <2>3. \A side, q, n : Payments!Entry(side, x, q, n) = [id |-> <<side, p.id>>, actor |-> q, amount |-> n]
    BY DEF Payments!Entry
  <2>4. -p.amount \in Int /\ p.amount \in Int
    BY <1>2
  <2>5. ASSUME NEW side, NEW q \in Payers, NEW n \in Int
        PROVE  /\ Payments!Entry(side, x, q, n).actor \in Payers /\ Payments!Entry(side, x, q, n).amount \in Int
               /\ Payments!Entry(side, x, q, n).id[2] = p.id
    <3> HIDE DEF x, p
    <3>1. Payments!Entry(side, x, q, n) = [id |-> <<side, p.id>>, actor |-> q, amount |-> n]
      BY <2>3
    <3> QED
      BY <3>1
  <2>6. \A entry \in Payments!Entries(x) : entry.actor \in Payers /\ entry.amount \in Int /\ entry.id[2] = p.id
    <3> HIDE DEF x, p
    <3>1. CASE x.kind = "credit"
      BY <1>2, <2>1, <2>4, <2>5, <3>1
    <3>2. CASE x.kind # "credit"
      BY <1>2, <2>1, <2>4, <2>5, <3>2
    <3> QED
      BY <3>1, <3>2
  <2> QED
    BY <2>1, <2>2, <2>6
<1> HIDE DEF x, p
<1>8. x = Requests[c] /\ p = Payments!Payment(x)
  BY DEF x, p
<1>9. transfers \subseteq transfers' /\ credits \subseteq credits'
  BY <1>4
<1>10. p \in transfers' \union credits'
  BY <1>4
<1>11. EntriesHold'
  <2>1. IsFiniteSet(credits')
    BY <1>4, FS_AddElement DEF PayInv, EntriesHold
  <2>2. \A entry \in transfers' : entry.id[1] \in {"pay", "invoice"}
    BY <1>2, <1>4 DEF PayInv, EntriesHold
  <2>3. \A entry \in credits' : entry.id[1] = "credit" /\ entry.amount \in Nat
    BY <1>2, <1>4 DEF PayInv, EntriesHold
  <2>4. \A entry \in transfers' \union credits' : {entry.payer, entry.payee} \subseteq Payers
    BY <1>2, <1>4 DEF PayInv, EntriesHold
  <2> QED
    BY <2>1, <2>2, <2>3, <2>4 DEF EntriesHold
<1>12. LedgerHolds'
  <2>1. IsFiniteSet(ledger')
    BY <1>6, <1>7, FS_Union DEF PayInv, LedgerHolds
  <2>2. \A entry \in ledger' : entry.actor \in Payers /\ entry.amount \in Int
    BY <1>6, <1>7 DEF PayInv, LedgerHolds
  <2>3. \A entry \in ledger' : \E paid \in transfers' \union credits' : entry.id[2] = paid.id
    BY <1>6, <1>7, <1>9, <1>10 DEF PayInv, LedgerHolds
  <2> QED
    BY <2>1, <2>2, <2>3 DEF LedgerHolds
<1>13. wallet' \in [Payers -> Int]
  BY <1>2, <1>3 DEF PayInv, Payments!TypeOK
<1>14. Payments!TypeOK'
  <2>1. invoice' \in [DOMAIN Invoices -> {"absent", "issued", "paid", "cancelled"}]
    BY <1>2, <1>5 DEF PayInv, Payments!TypeOK
  <2>2. phase' \in [Orders -> {"idle", "open", "done", "refused"}]
    BY <1>6 DEF PayInv, Payments!TypeOK
  <2> QED
    BY <1>11, <1>12, <1>13, <2>1, <2>2 DEF Payments!TypeOK, EntriesHold, LedgerHolds
<1>15. ASSUME NEW q \in Payers PROVE wallet'[q] >= 0
  BY <1>1, <1>2, <1>3 DEF PayInv, Payments!TypeOK
<1>16. Payments!PaidMeansMoved'
  <2>1. CASE x.kind = "invoice"
    <3>1. \A i \in DOMAIN Invoices : Payments!Invoiced(i) = p <=> i = x.invoice
      BY <1>2, <2>1 DEF Payments!Invoiced
    <3> QED
      BY <1>2, <1>4, <1>5, <2>1, <3>1 DEF PayInv, Payments!TypeOK, Payments!PaidMeansMoved
  <2>2. CASE x.kind # "invoice"
    <3>1. \A i \in DOMAIN Invoices : Payments!Invoiced(i) # p
      <4>1. \A i \in DOMAIN Invoices : Payments!Invoiced(i).id[1] = "invoice"
        BY DEF Payments!Invoiced
      <4> QED
        BY <1>2, <2>2, <4>1
    <3> QED
      BY <1>4, <1>5, <2>2, <3>1 DEF PayInv, Payments!PaidMeansMoved
  <2> QED
    BY <2>1, <2>2
<1>17. Payments!ToldIsBooked'
  <2>1. Payments!Payment(Requests[c]) \in Payments!Book(Payments!db, Requests[c])'
    BY <1>4, <1>8 DEF Payments!Book, Payments!db
  <2>2. phase' = [phase EXCEPT ![c] = phase'[c]]
    BY <1>6 DEF PayInv, Payments!TypeOK
  <2> QED
    BY <1>9, <2>1, <2>2, ToldStays
<1>18. (view = [h \in Orders |-> view[h]])'
  BY <1>6 DEF PayInv
<1>19. ASSUME NEW h \in Orders PROVE SnapshotHolds(view[h])'
  <2>1. view'[h] = view[h] \/ view'[h] = Payments!NoView
    BY <1>6 DEF PayInv
  <2> QED
    BY <1>9, <2>1, ViewsStay
<1> QED
  BY <1>11, <1>12, <1>14, <1>15, <1>16, <1>17, <1>18, <1>19 DEF PayInv

LEMMA NextPay == Payments!PaymentAssumption /\ PayInv /\ [Payments!Next]_(Payments!vars) => PayInv'
<1> SUFFICES ASSUME Payments!PaymentAssumption, PayInv, [Payments!Next]_(Payments!vars) PROVE PayInv'
  OBVIOUS
<1>1. ASSUME NEW i \in DOMAIN Invoices, Payments!Issue(i) PROVE PayInv'
  <2>1. /\ invoice[i] = "absent" /\ invoice' = [invoice EXCEPT ![i] = "issued"]
        /\ UNCHANGED <<wallet, ledger, transfers, credits, phase, view>>
    BY <1>1 DEF Payments!Issue
  <2>2. Payments!TypeOK'
    BY <2>1 DEF PayInv, Payments!TypeOK
  <2>3. Payments!PaidMeansMoved'
    BY <2>1 DEF PayInv, Payments!TypeOK, Payments!PaidMeansMoved
  <2>4. Payments!ToldIsBooked'
    <3>1. \A c \in Orders : Payments!Book(Payments!db, Requests[c])' = Payments!Book(Payments!db, Requests[c])
      BY <2>1 DEF Payments!Book, Payments!db
    <3> QED
      BY <2>1, <3>1 DEF PayInv, Payments!ToldIsBooked
  <2>5. (EntriesHold /\ LedgerHolds /\ \A p \in Payers : wallet[p] >= 0)'
    BY <2>1 DEF PayInv, EntriesHold, LedgerHolds
  <2>6. ASSUME NEW c \in Orders PROVE SnapshotHolds(view[c])'
    BY <2>1, ViewsStay
  <2> QED
    BY <2>1, <2>2, <2>3, <2>4, <2>5, <2>6 DEF PayInv
<1>2. ASSUME NEW c \in Orders, Payments!Begin(c) PROVE PayInv'
  <2>1. /\ phase' = [phase EXCEPT ![c] = "open"] /\ view' = [view EXCEPT ![c] = Payments!db]
        /\ UNCHANGED invoice /\ Booked
    BY <1>2 DEF Payments!Begin, Booked
  <2>2. phase'[c] = "open" /\ view'[c] = Payments!db
    BY <2>1 DEF PayInv, Payments!TypeOK
  <2> QED
    BY <2>1, <2>2, NextUnbooked DEF PayInv, Payments!TypeOK
<1>3. ASSUME NEW c \in Orders, Payments!Refuse(c) PROVE PayInv'
  <2>1. /\ phase' = [phase EXCEPT ![c] = "refused"] /\ view' = [view EXCEPT ![c] = Payments!NoView]
        /\ UNCHANGED invoice /\ Booked
    BY <1>3 DEF Payments!Refuse, Payments!End, Booked
  <2>2. phase'[c] = "refused" /\ view'[c] = Payments!NoView
    BY <2>1 DEF PayInv, Payments!TypeOK
  <2> QED
    BY <2>1, <2>2, NextUnbooked DEF PayInv, Payments!TypeOK
<1>4. ASSUME NEW c \in Orders, Payments!Repeat(c) PROVE PayInv'
  <2>1. /\ phase' = [phase EXCEPT ![c] = "done"] /\ view' = [view EXCEPT ![c] = Payments!NoView]
        /\ UNCHANGED invoice /\ Booked
    BY <1>4 DEF Payments!Repeat, Payments!End, Booked
  <2>2. phase'[c] = "done" /\ view'[c] = Payments!NoView
    BY <2>1 DEF PayInv, Payments!TypeOK
  <2>3. Payments!Payment(Requests[c]) \in Payments!Book(Payments!db, Requests[c])
    <3> DEFINE x == Requests[c]
               d == view[c]
    <3>1. Payments!Settles(c) /\ Payments!Payable(d, x) /\ Payments!Settled(d, x)
      BY <1>4 DEF Payments!Repeat
    <3>2. SnapshotHolds(d)
      BY DEF PayInv
    <3>3. Payments!Payment(x) \in Payments!Book(d, x)
      <4>1. CASE x.kind = "invoice"
        <5>1. x.invoice \in DOMAIN Invoices /\ Payments!Payment(x) = Payments!Invoiced(x.invoice)
          BY <3>1, <4>1, PaymentIs
        <5>2. d.invoice[x.invoice] = "paid"
          BY <3>1, <4>1 DEF Payments!Settled
        <5> QED
          BY <3>2, <4>1, <5>1, <5>2 DEF SnapshotHolds, Payments!Book
      <4>2. CASE x.kind # "invoice"
        BY <3>1, <4>2 DEF Payments!Settled, Payments!Payable, Payments!Conflicting, Payments!Recorded
      <4> QED
        BY <4>1, <4>2
    <3> QED
      BY <3>2, <3>3 DEF SnapshotHolds, Payments!Book, Payments!db
  <2> QED
    BY <2>1, <2>2, <2>3, NextUnbooked DEF PayInv, Payments!TypeOK
<1>5. ASSUME NEW c \in Orders, Payments!Commit(c) PROVE PayInv'
  BY <1>5, CommitPay
<1>6. ASSUME NEW c \in Orders, Payments!Rerun(c) PROVE PayInv'
  <2>1. /\ phase' = phase /\ phase[c] = "open" /\ view' = [view EXCEPT ![c] = Payments!db]
        /\ UNCHANGED invoice /\ Booked
    BY <1>6 DEF Payments!Rerun, Booked, Payments!Open
  <2>2. phase'[c] = "open" /\ view'[c] = Payments!db /\ phase' = [phase EXCEPT ![c] = phase'[c]]
    BY <2>1 DEF PayInv, Payments!TypeOK
  <2> QED
    BY <2>1, <2>2, NextUnbooked DEF PayInv, Payments!TypeOK
<1>7. ASSUME NEW c \in Orders, Payments!CancelInvoice(c) PROVE PayInv'
  <2>1. Booked /\ ~ Payments!Settles(c)
    BY <1>7 DEF Payments!CancelInvoice, Booked, Payments!Settles
  <2>2. PICK result \in {"done", "refused"} : Payments!End(c, result)
    BY <1>7 DEF Payments!CancelInvoice
  <2>3. phase'[c] = result /\ view'[c] = Payments!NoView
    BY <2>2 DEF PayInv, Payments!TypeOK, Payments!End
  <2>4. Requests[c].invoice \in DOMAIN Invoices
    BY <1>7 DEF Payments!CancelInvoice, Payments!PaymentAssumption
  <2>5. \/ invoice' = invoice
        \/ /\ invoice[Requests[c].invoice] = "issued"
           /\ invoice' = [invoice EXCEPT ![Requests[c].invoice] = "cancelled"]
    BY <1>7 DEF Payments!CancelInvoice, Payments!Cancellable
  <2>6. /\ invoice' \in [DOMAIN Invoices -> {"absent", "issued", "paid", "cancelled"}]
        /\ \A i \in DOMAIN Invoices : invoice'[i] = "paid" <=> invoice[i] = "paid"
    BY <2>4, <2>5 DEF PayInv, Payments!TypeOK
  <2>7. phase' = [phase EXCEPT ![c] = phase'[c]] /\ view' = [view EXCEPT ![c] = view'[c]]
    BY <2>2, <2>3 DEF Payments!End
  <2> QED
    BY <2>1, <2>3, <2>6, <2>7, NextUnbooked
<1>8. CASE UNCHANGED Payments!vars
  <2>1. PayInv' = PayInv
    BY <1>8 DEF Payments!vars, PayInv, Payments!TypeOK, EntriesHold, LedgerHolds, SnapshotHolds,
       Payments!PaidMeansMoved, Payments!ToldIsBooked,
       Payments!Book, Payments!db
  <2> QED
    BY <2>1
<1> QED
  BY <1>1, <1>2, <1>3, <1>4, <1>5, <1>6, <1>7, <1>8 DEF Payments!Next

(* A payment is booked in full or not at all, under its own reference; the *)
(* types hold, no account is overdrawn, an invoice is paid when its money  *)
(* moved and who is told so finds it done.                                 *)
LEMMA PayHolds ==
  ASSUME Payments!PaymentAssumption
  PROVE  Payments!Spec => []PayInv
<1>1. Payments!Init => PayInv
  BY InitPay
<1>2. PayInv /\ [Payments!Next]_(Payments!vars) => PayInv'
  BY NextPay
<1> QED
  BY <1>1, <1>2, PTL DEF Payments!Spec

-------------------------------------------------------------------------------
(* WalletPayments: the books                                               *)

EntriesOf(q, entries) == {entry \in entries : entry.actor = q}

LEMMA SumMore ==
  ASSUME NEW entries, IsFiniteSet(entries), NEW extra, extra \notin entries,
         \A entry \in entries \union {extra} : entry.amount \in Int
  PROVE  /\ Payments!Sum(entries) \in Int
         /\ Payments!Sum(entries \union {extra}) = Payments!Sum(entries) + extra.amount
<1> DEFINE all == entries \union {extra}
           f == [entry \in entries |-> entry.amount]
           g == [entry \in all |-> entry.amount]
<1>1. Payments!Sum(entries) = SumFunctionOnSet(f, entries) /\ Payments!Sum(all) = SumFunctionOnSet(g, all)
  BY PaymentSums DEF Payments!Sum
<1>2. SumFunctionOnSet(f, entries) = SumFunctionOnSet(g, entries)
  <2>1. \A entry \in entries : f[entry] \in Int /\ f[entry] = g[entry]
    OBVIOUS
  <2> HIDE DEF f, g
  <2> QED
    BY <2>1, SumsAgree
<1>3. /\ SumFunctionOnSet(g, entries) \in Int
      /\ SumFunctionOnSet(g, all) = g[extra] + SumFunctionOnSet(g, entries)
  <2>1. \A entry \in entries \union {extra} : g[entry] \in Int
    OBVIOUS
  <2> HIDE DEF g
  <2> QED
    BY <2>1, SumWithElement
<1>4. g[extra] = extra.amount /\ extra.amount \in Int
  OBVIOUS
<1> HIDE DEF f, g, all
<1>5. Payments!Sum(entries) \in Int /\ Payments!Sum(all) = Payments!Sum(entries) + extra.amount
  BY <1>1, <1>2, <1>3, <1>4
<1> QED
  BY <1>5 DEF all

\* A new ledger row counts for its actor.
LEMMA EntryCounts ==
  ASSUME NEW entries, IsFiniteSet(entries), NEW extra, extra \notin entries,
         \A entry \in entries \union {extra} : entry.amount \in Int, NEW q
  PROVE  /\ Payments!Sum(EntriesOf(q, entries)) \in Int
         /\ Payments!Sum(EntriesOf(q, entries \union {extra}))
              = Payments!Sum(EntriesOf(q, entries)) + IF extra.actor = q THEN extra.amount ELSE 0
<1> DEFINE old == EntriesOf(q, entries)
<1>1. IsFiniteSet(old) /\ extra \notin old /\ \A entry \in old \union {extra} : entry.amount \in Int
  <2>1. old \in SUBSET entries
    BY DEF EntriesOf
  <2> QED
    BY <2>1, FS_Subset
<1>2. Payments!Sum(old) \in Int /\ Payments!Sum(old \union {extra}) = Payments!Sum(old) + extra.amount
  BY <1>1, SumMore
<1>3. EntriesOf(q, entries \union {extra}) = IF extra.actor = q THEN old \union {extra} ELSE old
  BY DEF EntriesOf
<1> HIDE DEF old
<1>4. CASE extra.actor = q
  BY <1>2, <1>3, <1>4 DEF old
<1>5. CASE extra.actor # q
  BY <1>2, <1>3, <1>5 DEF old
<1> QED
  BY <1>4, <1>5

\* Where one payer's amount changes, the sum changes as much.
LEMMA OneGains ==
  ASSUME IsFiniteSet(Payers), NEW A, NEW B, NEW p \in Payers,
         \A q \in Payers : A[q] \in Int /\ B[q] \in Int,
         \A q \in Payers \ {p} : B[q] = A[q]
  PROVE  SumFunctionOnSet(B, Payers) = SumFunctionOnSet(A, Payers) + (B[p] - A[p])
BY SumWithChange

Gain == [p \in Payers |-> wallet[p] - Opening[p]]
BooksInv == Payments!LedgerExplains /\ SumFunctionOnSet(Gain, Payers) = Payments!Sum(credits)

LEMMA InitBooks == Payments!PaymentAssumption /\ Payments!Init => BooksInv
<1> SUFFICES ASSUME Payments!PaymentAssumption, Payments!Init PROVE BooksInv
  OBVIOUS
<1>1. Payments!Sum({}) = 0
  <2>1. DOMAIN [entry \in {} |-> entry.amount] = {}
    OBVIOUS
  <2> QED
    BY <2>1, SumOfNothing, PaymentSums DEF Payments!Sum
<1>2. Payments!LedgerExplains
  <2>1. \A p \in Payers : {entry \in ledger : entry.actor = p} = {}
    BY DEF Payments!Init
  <2>2. \A p \in Payers : wallet[p] = Opening[p] /\ Opening[p] \in Int
    BY DEF Payments!Init, Payments!PaymentAssumption
  <2>3. \A p \in Payers : Payments!Sum({entry \in ledger : entry.actor = p}) = 0
    BY <1>1, <2>1
  <2>4. ASSUME NEW p \in Payers PROVE Opening[p] = Opening[p] + 0
    <3>1. Opening[p] \in Int
      BY <2>2
    <3> QED
      BY <3>1
  <2> QED
    BY <2>2, <2>3, <2>4, Zenon DEF Payments!LedgerExplains
<1>3. SumFunctionOnSet(Gain, Payers) = 0
  <2> DEFINE f == [T \in SUBSET Payers |-> 0]
  <2>1. \A p \in Payers : Gain[p] = 0
    BY DEF Payments!Init, Payments!PaymentAssumption, Gain
  <2>2. Tally(Gain, Payers, f)
    BY <2>1 DEF Tally
  <2>3. f[Payers] = 0
    OBVIOUS
  <2> QED
    BY <2>2, <2>3, SumIsTally, PayersAreFinite
<1> QED
  BY <1>1, <1>2, <1>3 DEF Payments!Init, BooksInv

LEMMA CommitBooks ==
  ASSUME Payments!PaymentAssumption, PayInv, BooksInv, NEW c \in Orders, Payments!Commit(c)
  PROVE  BooksInv'
<1> DEFINE x == Requests[c]
           p == Payments!Payment(x)
           credit == Payments!Entry("credit", x, p.payee, p.amount)
           debit == Payments!Entry("debit", x, p.payer, -p.amount)
           booked == ledger \union {credit}
<1>1. (\A entry \in transfers \union credits : entry.id # p.id) /\ p.payer # p.payee
  BY CommitIs
<1>2. p.payer \in Payers /\ p.payee \in Payers /\ p.amount \in Nat /\ p.amount \in Int /\ -p.amount \in Int
  BY PaymentIs DEF Payments!Commit
<1>3. wallet' = [q \in Payers |-> wallet[q] + (IF q = p.payee THEN p.amount ELSE 0)
                   - (IF q = p.payer /\ x.kind # "credit" THEN p.amount ELSE 0)]
  BY DEF Payments!Commit, Payments!Moved, Payments!db
<1>4. IF x.kind = "credit" THEN credits' = credits \union {p} ELSE credits' = credits
  BY DEF Payments!Commit
<1>5. ledger' = IF x.kind = "credit" THEN booked ELSE booked \union {debit}
  BY DEF Payments!Commit, Payments!Entries
<1>6. /\ credit.id = <<"credit", p.id>> /\ credit.actor = p.payee /\ credit.amount = p.amount
      /\ debit.id = <<"debit", p.id>> /\ debit.actor = p.payer /\ debit.amount = -p.amount
  BY DEF Payments!Entry
<1> HIDE DEF x, p, credit, debit
<1>7. credit \notin ledger /\ debit \notin booked
  <2>1. \A entry \in ledger : entry.id[2] # p.id
    BY <1>1 DEF PayInv, LedgerHolds
  <2>2. credit.id[2] = p.id /\ debit.id[2] = p.id /\ credit.id # debit.id
    BY <1>6
  <2> QED
    BY <2>1, <2>2
<1>8. wallet \in [Payers -> Int] /\ Opening \in [Payers -> Int] /\ IsFiniteSet(Payers)
  BY PayersAreFinite DEF PayInv, Payments!TypeOK, Payments!PaymentAssumption
<1>9. IsFiniteSet(ledger) /\ \A entry \in ledger : entry.amount \in Int
  BY DEF PayInv, LedgerHolds
<1>10. ASSUME NEW q \in Payers
       PROVE  wallet'[q] = Opening[q] + Payments!Sum(EntriesOf(q, ledger'))
  <2>1. /\ Payments!Sum(EntriesOf(q, ledger)) \in Int
        /\ Payments!Sum(EntriesOf(q, booked))
             = Payments!Sum(EntriesOf(q, ledger)) + IF p.payee = q THEN p.amount ELSE 0
    <3>1. \A entry \in ledger \union {credit} : entry.amount \in Int
      BY <1>2, <1>6, <1>9
    <3>2. /\ Payments!Sum(EntriesOf(q, ledger)) \in Int
          /\ Payments!Sum(EntriesOf(q, ledger \union {credit}))
               = Payments!Sum(EntriesOf(q, ledger)) + IF credit.actor = q THEN credit.amount ELSE 0
      BY <1>7, <1>9, <3>1, EntryCounts, Zenon
    <3> QED
      BY <1>6, <3>2
  <2>2. Payments!Sum(EntriesOf(q, booked \union {debit}))
          = Payments!Sum(EntriesOf(q, booked)) + IF p.payer = q THEN -p.amount ELSE 0
    <3>1. \A entry \in booked \union {debit} : entry.amount \in Int
      BY <1>2, <1>6, <1>9
    <3>2. IsFiniteSet(booked)
      BY <1>9, FS_AddElement
    <3> HIDE DEF booked
    <3>3. Payments!Sum(EntriesOf(q, booked \union {debit}))
            = Payments!Sum(EntriesOf(q, booked)) + IF debit.actor = q THEN debit.amount ELSE 0
      BY <1>7, <3>1, <3>2, EntryCounts, Zenon
    <3> QED
      BY <1>6, <3>3
  <2>3. wallet[q] = Opening[q] + Payments!Sum(EntriesOf(q, ledger))
    BY DEF BooksInv, Payments!LedgerExplains, EntriesOf
  <2>4. wallet[q] \in Int /\ Opening[q] \in Int
    BY <1>8
  <2>5. wallet'[q] = wallet[q] + (IF q = p.payee THEN p.amount ELSE 0)
                       - (IF q = p.payer /\ x.kind # "credit" THEN p.amount ELSE 0)
    BY <1>3
  <2> HIDE DEF booked
  <2>6. CASE x.kind = "credit"
    BY <1>2, <1>5, <2>1, <2>3, <2>4, <2>5, <2>6
  <2>7. CASE x.kind # "credit"
    BY <1>1, <1>2, <1>5, <2>1, <2>2, <2>3, <2>4, <2>5, <2>7
  <2> QED
    BY <2>6, <2>7
<1>11. Payments!LedgerExplains'
  BY <1>10 DEF Payments!LedgerExplains, EntriesOf
<1> DEFINE middle == [Gain EXCEPT ![p.payee] = @ + p.amount]
           later == [q \in Payers |-> wallet'[q] - Opening[q]]
<1>12. \A q \in Payers : Gain[q] \in Int
  BY <1>8 DEF Gain
<1>13. ASSUME NEW q \in Payers PROVE middle[q] \in Int
  <2>1. Gain[q] \in Int
    BY <1>12
  <2>2. middle[q] = IF q = p.payee THEN Gain[q] + p.amount ELSE Gain[q]
    BY DEF Gain
  <2> QED
    BY <1>2, <2>1, <2>2
<1>14. /\ SumFunctionOnSet(middle, Payers) = SumFunctionOnSet(Gain, Payers) + p.amount
       /\ SumFunctionOnSet(Gain, Payers) \in Int
  <2>1. middle[p.payee] = Gain[p.payee] + p.amount /\ \A q \in Payers \ {p.payee} : middle[q] = Gain[q]
    BY <1>2 DEF Gain
  <2> HIDE DEF middle
  <2>2. SumFunctionOnSet(middle, Payers)
          = SumFunctionOnSet(Gain, Payers) + (middle[p.payee] - Gain[p.payee])
    <3>1. IsFiniteSet(Payers) /\ p.payee \in Payers
      BY <1>2, <1>8
    <3>2. \A q \in Payers : Gain[q] \in Int /\ middle[q] \in Int
      BY <1>12, <1>13
    <3>3. \A q \in Payers \ {p.payee} : middle[q] = Gain[q]
      BY <2>1
    <3> QED
      BY <3>1, <3>2, <3>3, OneGains, Zenon
  <2>3. SumFunctionOnSet(Gain, Payers) \in Int
    <3>1. \A q \in Payers \union {p.payee} : Gain[q] \in Int
      BY <1>2, <1>12
    <3> QED
      BY <1>8, <3>1, SumWithElement
  <2> QED
    BY <1>2, <1>12, <2>1, <2>2, <2>3
<1>15. CASE x.kind = "credit"
  <2>1. \A q \in Payers : middle[q] = later[q]
    BY <1>2, <1>3, <1>8, <1>15 DEF Gain
  <2>2. SumFunctionOnSet(later, Payers) = SumFunctionOnSet(middle, Payers)
    <3> HIDE DEF middle, later
    <3> QED
      BY <1>8, <1>13, <2>1, SumsAgree
  <2>3. Payments!Sum(credits') = Payments!Sum(credits) + p.amount /\ Payments!Sum(credits) \in Int
    <3>1. p \notin credits /\ IsFiniteSet(credits) /\ \A entry \in credits \union {p} : entry.amount \in Int
      BY <1>1, <1>2 DEF PayInv, EntriesHold
    <3> QED
      BY <1>4, <1>15, <3>1, SumMore
  <2>4. SumFunctionOnSet(Gain, Payers) = Payments!Sum(credits)
    BY DEF BooksInv
  <2>5. SumFunctionOnSet(later, Payers) = Payments!Sum(credits')
    <3> HIDE DEF middle, later
    <3> QED
      BY <1>14, <2>2, <2>3, <2>4
  <2> QED
    BY <1>11, <2>5 DEF BooksInv, Gain
<1>16. CASE x.kind # "credit"
  <2>1. later[p.payer] = middle[p.payer] + (-p.amount)
    BY <1>1, <1>2, <1>3, <1>8, <1>16 DEF Gain
  <2>2. \A q \in Payers \ {p.payer} : later[q] = middle[q]
    BY <1>1, <1>2, <1>3, <1>8, <1>16 DEF Gain
  <2>3. \A q \in Payers : later[q] \in Int
    BY <1>3, <1>8, <1>2
  <2>4. SumFunctionOnSet(later, Payers) = SumFunctionOnSet(middle, Payers) + (later[p.payer] - middle[p.payer])
    <3> HIDE DEF middle, later
    <3>1. IsFiniteSet(Payers) /\ p.payer \in Payers
      BY <1>2, <1>8
    <3>2. \A q \in Payers : middle[q] \in Int /\ later[q] \in Int
      BY <1>13, <2>3
    <3> QED
      <4> DEFINE a == middle
                 b == later
      <4>1. /\ \A q \in Payers : a[q] \in Int /\ b[q] \in Int
            /\ \A q \in Payers \ {p.payer} : b[q] = a[q]
        BY <2>2, <3>2
      <4> HIDE DEF a, b
      <4>2. SumFunctionOnSet(b, Payers) = SumFunctionOnSet(a, Payers) + (b[p.payer] - a[p.payer])
        BY <3>1, <4>1, OneGains, Zenon
      <4> QED
        BY <4>2 DEF a, b
  <2>5. SumFunctionOnSet(later, Payers) = Payments!Sum(credits')
    <3>1. middle[p.payer] \in Int
      BY <1>2, <1>13
    <3> HIDE DEF middle, later
    <3> QED
      BY <1>2, <1>4, <1>14, <1>16, <2>1, <2>4, <3>1 DEF BooksInv
  <2> QED
    BY <1>11, <2>5 DEF BooksInv, Gain
<1> QED
  BY <1>15, <1>16

LEMMA NextBooks ==
  ASSUME Payments!PaymentAssumption, PayInv, BooksInv, [Payments!Next]_(Payments!vars)
  PROVE  BooksInv'
<1>1. ASSUME Booked PROVE BooksInv'
  BY <1>1 DEF Booked, BooksInv, Payments!LedgerExplains, Gain
<1>2. ASSUME NEW c \in Orders, Payments!Commit(c) PROVE BooksInv'
  BY <1>2, CommitBooks
<1> QED
  BY <1>1, <1>2 DEF Payments!Next, Payments!vars, Booked, Payments!Issue, Payments!Begin,
     Payments!Refuse, Payments!Repeat, Payments!Rerun, Payments!CancelInvoice

-------------------------------------------------------------------------------
(* In every interleaving of transactions, retried or with a reference used *)
(* before, balances are what was there plus what staff credited, nobody    *)
(* pays what he has not, the ledger explains every balance, and who is     *)
(* told a payment is done finds it booked (transfer_wallet,                *)
(* admin_pay_player, InvoiceService.pay).                                  *)
THEOREM MoneyAlwaysAgrees ==
  ASSUME Payments!PaymentAssumption
  PROVE  Payments!Spec => []MoneyAgrees
<1>1. Payments!Init => BooksInv
  BY InitBooks
<1>2. PayInv /\ BooksInv /\ [Payments!Next]_(Payments!vars) => BooksInv'
  BY NextBooks
<1>3. PayInv /\ BooksInv => MoneyAgrees
  <2>1. Payments!SumFunction([p \in Payers |-> wallet[p] - Opening[p]]) = SumFunctionOnSet(Gain, Payers)
    BY PaymentSums DEF Gain
  <2> QED
    BY <2>1 DEF PayInv, BooksInv, MoneyAgrees, Payments!MoneyAgrees, Payments!MoneyConserved
<1> QED
  BY <1>1, <1>2, <1>3, PayHolds, PTL DEF Payments!Spec

LEMMA BookedStays ==
  ASSUME Payments!PaymentAssumption
  PROVE  Payments!Spec => Payments!Final
<1>1. PayInv /\ [Payments!Next]_(Payments!vars) =>
        [/\ ledger \subseteq ledger' /\ transfers \subseteq transfers' /\ credits \subseteq credits'
         /\ \A i \in DOMAIN Invoices :
              invoice[i] \in {"paid", "cancelled"} => invoice'[i] = invoice[i]]_(Payments!vars)
  <2> SUFFICES ASSUME PayInv, [Payments!Next]_(Payments!vars)
               PROVE  /\ ledger \subseteq ledger'
                      /\ transfers \subseteq transfers' /\ credits \subseteq credits'
                      /\ \A i \in DOMAIN Invoices :
                           invoice[i] \in {"paid", "cancelled"} => invoice'[i] = invoice[i]
    OBVIOUS
  <2>1. ASSUME NEW c \in Orders, Payments!Commit(c)
        PROVE  /\ ledger \subseteq ledger' /\ transfers \subseteq transfers' /\ credits \subseteq credits'
               /\ \A i \in DOMAIN Invoices :
                    invoice[i] \in {"paid", "cancelled"} => invoice'[i] = invoice[i]
    <3>1. Requests[c].kind = "invoice" => invoice[Requests[c].invoice] = "issued"
      BY <2>1, CommitIs
    <3>2. invoice' = IF Requests[c].kind = "invoice" THEN [invoice EXCEPT ![Requests[c].invoice] = "paid"]
                     ELSE invoice
      BY <2>1 DEF Payments!Commit
    <3>3. ledger \subseteq ledger' /\ transfers \subseteq transfers' /\ credits \subseteq credits'
      BY <2>1 DEF Payments!Commit
    <3> QED
      BY <3>1, <3>2, <3>3 DEF PayInv, Payments!TypeOK
  <2>2. ASSUME NEW i \in DOMAIN Invoices, Payments!Issue(i)
        PROVE  /\ invoice[i] = "absent" /\ invoice' = [invoice EXCEPT ![i] = "issued"]
               /\ UNCHANGED <<ledger, transfers, credits>>
    BY <2>2 DEF Payments!Issue
  <2>3. ASSUME NEW c \in Orders, Payments!CancelInvoice(c)
        PROVE  /\ \/ invoice' = invoice
                  \/ /\ invoice[Requests[c].invoice] = "issued"
                     /\ invoice' = [invoice EXCEPT ![Requests[c].invoice] = "cancelled"]
               /\ UNCHANGED <<ledger, transfers, credits>>
    BY <2>3 DEF Payments!CancelInvoice, Payments!Cancellable
  <2>4. ASSUME \/ \E c \in Orders : \/ Payments!Begin(c) \/ Payments!Refuse(c)
                                    \/ Payments!Repeat(c) \/ Payments!Rerun(c)
               \/ UNCHANGED Payments!vars
        PROVE  UNCHANGED <<ledger, transfers, credits, invoice>>
    BY <2>4 DEF Payments!Begin, Payments!Refuse, Payments!Repeat, Payments!Rerun, Payments!vars
  <2> QED
    BY <2>1, <2>2, <2>3, <2>4 DEF Payments!Next, PayInv, Payments!TypeOK
<1> QED
  BY <1>1, PayHolds, PTL DEF Payments!Spec, Payments!Final

-------------------------------------------------------------------------------
(* WalletPayments: one payment at a time                                   *)

\* Who pays when it is a payment of the players, and who when of the system.
LEMMA FundedBySystem ==
  ASSUME Payments!PaymentAssumption, NEW c \in Orders, Payments!Settles(c)
  PROVE  /\ Payments!Payment(Requests[c]) \in Asked
         /\ Payments!Payment(Requests[c]) \in Funded <=> Requests[c].kind = "credit"
<1>1. Requests[c].kind \in {"pay", "credit", "invoice"}
  BY PaymentIs
<1>2. ASSUME Payments!Payment(Requests[c]) \in Funded PROVE Requests[c].kind = "credit"
  <2>1. PICK h \in Orders : Requests[h].kind = "credit" /\ Payments!Payment(Requests[h]) = Payments!Payment(Requests[c])
    BY <1>2 DEF Funded
  <2>2. Payments!Settles(h)
    BY <2>1 DEF Payments!Settles
  <2>3. Payments!Payment(Requests[h]).id[1] = "credit"
    BY <2>1, <2>2, PaymentIs
  <2>4. Payments!Payment(Requests[c]).id[1] = Requests[c].kind
    BY PaymentIs
  <2> QED
    BY <2>1, <2>3, <2>4
<1> QED
  BY <1>1, <1>2 DEF Asked, Funded

\* The transaction that commits reads what it writes as it still is, so it is
\* as if it had run at that moment.
LEMMA CommitIsSerial ==
  ASSUME Payments!PaymentAssumption, PayInv, NEW c \in Orders, Payments!Commit(c)
  PROVE  Serial!Next
<1> DEFINE x == Requests[c]
           t == Payments!Payment(x)
<1>1. /\ \A entry \in transfers \union credits : entry.id # t.id
      /\ t.payer # t.payee
      /\ x.kind = "credit" \/ wallet[t.payer] >= t.amount
      /\ x.kind = "invoice" => invoice[x.invoice] = "issued"
  BY CommitIs
<1>2. /\ x.kind \in {"pay", "credit", "invoice"} /\ t.id[1] = x.kind
      /\ x.kind = "invoice" => x.invoice \in DOMAIN Invoices /\ t = Payments!Invoiced(x.invoice)
  BY PaymentIs DEF Payments!Commit
<1>3. t \in Asked /\ (t \in Funded <=> x.kind = "credit")
  BY FundedBySystem DEF Payments!Commit
<1>4. ASSUME NEW i \in DOMAIN Invoices PROVE Payments!Invoiced(i) = t <=> x.kind = "invoice" /\ x.invoice = i
  <2>1. Payments!Invoiced(i).id = <<"invoice", i>>
    BY DEF Payments!Invoiced
  <2>2. x.kind = "invoice" => t.id = <<"invoice", x.invoice>>
    BY <1>2 DEF Payments!Invoiced
  <2> HIDE DEF x, t
  <2> QED
    BY <1>2, <2>1, <2>2
<1>5. wallet' = [q \in Payers |-> wallet[q] + (IF q = t.payee THEN t.amount ELSE 0)
                   - (IF q = t.payer /\ x.kind # "credit" THEN t.amount ELSE 0)]
  BY DEF Payments!Commit, Payments!Moved, Payments!db
<1>6. transfers' \union credits' = (transfers \union credits) \union {t}
  BY DEF Payments!Commit
<1>7. invoice' = IF x.kind = "invoice" THEN [invoice EXCEPT ![x.invoice] = "paid"] ELSE invoice
  BY DEF Payments!Commit
<1> HIDE DEF x, t
<1>8. invoice' = [i \in DOMAIN Billed |-> IF Billed[i] = t THEN "paid" ELSE invoice[i]]
  BY <1>4, <1>7 DEF Billed, PayInv, Payments!TypeOK
<1>9. \A i \in DOMAIN Billed : Billed[i] = t => invoice[i] = "issued"
  BY <1>1, <1>4 DEF Billed
<1>10. Serial!Pay(t)
  BY <1>1, <1>3, <1>5, <1>6, <1>8, <1>9 DEF Serial!Pay, Serial!Affordable, Serial!Spent, Serial!Gained
<1> QED
  BY <1>3, <1>10 DEF Serial!Next

LEMMA StepIsSerial ==
  ASSUME Payments!PaymentAssumption, PayInv, [Payments!Next]_(Payments!vars)
  PROVE  [Serial!Next]_(Serial!serialVars)
<1>1. ASSUME NEW i \in DOMAIN Invoices, Payments!Issue(i) PROVE Serial!Next
  BY <1>1 DEF Payments!Issue, Serial!Issue, Serial!Next, Billed
<1>2. ASSUME NEW c \in Orders, Payments!Commit(c) PROVE Serial!Next
  BY <1>2, CommitIsSerial
<1>3. ASSUME NEW c \in Orders, Payments!CancelInvoice(c) PROVE [Serial!Next]_(Serial!serialVars)
  <2> DEFINE i == Requests[c].invoice
  <2>1. i \in DOMAIN Invoices
    BY <1>3 DEF Payments!CancelInvoice, Payments!PaymentAssumption
  <2>2. UNCHANGED <<wallet, transfers, credits>>
    BY <1>3 DEF Payments!CancelInvoice
  <2>3. CASE invoice' = invoice
    BY <2>2, <2>3 DEF Serial!serialVars
  <2>4. CASE invoice[i] = "issued" /\ invoice' = [invoice EXCEPT ![i] = "cancelled"]
    BY <2>1, <2>2, <2>4 DEF Serial!Cancel, Serial!Next, Billed
  <2> QED
    BY <1>3, <2>3, <2>4 DEF Payments!CancelInvoice, Payments!Cancellable
<1>4. ASSUME \/ \E c \in Orders : \/ Payments!Begin(c) \/ Payments!Refuse(c)
                                  \/ Payments!Repeat(c) \/ Payments!Rerun(c)
             \/ UNCHANGED Payments!vars
      PROVE  UNCHANGED Serial!serialVars
  BY <1>4 DEF Payments!Begin, Payments!Refuse, Payments!Repeat, Payments!Rerun, Payments!vars, Serial!serialVars
<1> QED
  BY <1>1, <1>2, <1>3, <1>4 DEF Payments!Next

(* For any players, invoices, threads and commands: transactions that read *)
(* snapshots, overlap, repeat a reference and run again come to the same   *)
(* as payments made one after the other (Database.atomic, transfer_wallet, *)
(* admin_pay_player, InvoiceService.pay and cancel).                       *)
THEOREM PaymentsAlwaysSerial ==
  ASSUME Payments!PaymentAssumption
  PROVE  Payments!Spec => PaymentsAreSerial
<1>1. Payments!Init => Serial!Init
  BY DEF Payments!Init, Serial!Init, Billed
<1>2. PayInv /\ [Payments!Next]_(Payments!vars) => [Serial!Next]_(Serial!serialVars)
  BY StepIsSerial
<1> QED
  BY <1>1, <1>2, PayHolds, BookedStays, PTL DEF Payments!Spec, Serial!Spec, PaymentsAreSerial

-------------------------------------------------------------------------------
(* VehicleCodes                                                            *)

(* Every prefix tried so far is another vehicle's code, and a thread that  *)
(* was refused one knows whose fault it was when it looks again.           *)
Taken(h, n) == \E entry \in rows : entry[1] # task[h] /\ entry[2] = Candidate[task[h]][n]
CallHolds(h) ==
  /\ step[h] # "idle" => task[h] \in Identities
  /\ step[h] \in {"find", "insert", "reread"} => length[h] \in 1..Lengths
  /\ step[h] \in {"insert", "reread", "exhausted"} =>
       \A n \in 1..Lengths : n < length[h] => Taken(h, n)
  /\ step[h] = "find" => length[h] = 1
  /\ step[h] = "reread" =>
       \E entry \in rows : entry[1] = task[h] \/ entry[2] = Candidate[task[h]][length[h]]
  /\ step[h] = "exhausted" => length[h] = Lengths + 1

CodeInv ==
  /\ Code!TypeOK /\ Code!OneToOne /\ Code!AnswersAgree
  /\ \A h \in Allocators : CallHolds(h)

LEMMA InitCodes == Code!CodeAssumption /\ Code!Init => CodeInv
<1> SUFFICES ASSUME Code!CodeAssumption, Code!Init PROVE CodeInv
  OBVIOUS
<1>1. Code!TypeOK
  BY DEF Code!CodeAssumption, Code!Init, Code!TypeOK, Code!Steps
<1> QED
  BY <1>1 DEF Code!Init, CodeInv, Code!OneToOne, Code!AnswersAgree, CallHolds

\* Rows stay, so what the other threads know stays true.
LEMMA OthersKeep ==
  ASSUME CodeInv, rows \subseteq rows', NEW h \in Allocators,
         task'[h] = task[h], step'[h] = step[h], length'[h] = length[h]
  PROVE  CallHolds(h)'
<1>1. CallHolds(h)
  BY DEF CodeInv
<1>2. \A n : Taken(h, n) => Taken(h, n)'
  BY DEF Taken
<1> QED
  BY <1>1, <1>2 DEF CallHolds

\* The code a thread answers with is the one that is registered.
LEMMA AnswerHolds ==
  ASSUME CodeInv, NEW h \in Allocators, NEW value, Code!Answer(h, value),
         rows \subseteq rows', rows' \subseteq Identities \X Codes, Code!OneToOne',
         step[h] # "idle", <<task[h], value>> \in rows'
  PROVE  CodeInv'
<1>1. /\ task[h] \in Identities /\ value \in Codes
      /\ task' = task /\ length' = length /\ step' = [step EXCEPT ![h] = "idle"]
      /\ answer' = [answer EXCEPT ![h][task[h]] = value]
  BY DEF Code!Answer, CodeInv, CallHolds
<1>2. Code!TypeOK'
  <2>1. answer' \in [Allocators -> [Identities -> Codes \union {None}]]
    BY <1>1 DEF CodeInv, Code!TypeOK
  <2>2. step' \in [Allocators -> Code!Steps]
    BY <1>1 DEF CodeInv, Code!TypeOK, Code!Steps
  <2> QED
    BY <1>1, <2>1, <2>2 DEF CodeInv, Code!TypeOK
<1>3. Code!AnswersAgree'
  <2>1. \A g \in Allocators, v \in Identities :
          answer'[g][v] = IF g = h /\ v = task[h] THEN value ELSE answer[g][v]
    BY <1>1 DEF CodeInv, Code!TypeOK
  <2> QED
    BY <2>1 DEF CodeInv, Code!AnswersAgree
<1>4. ASSUME NEW g \in Allocators PROVE CallHolds(g)'
  <2>1. CASE g = h
    <3>1. step'[h] = "idle"
      BY <1>1 DEF CodeInv, Code!TypeOK
    <3> QED
      BY <2>1, <3>1 DEF CallHolds
  <2>2. CASE g # h
    <3>1. task'[g] = task[g] /\ step'[g] = step[g] /\ length'[g] = length[g]
      BY <1>1, <2>2 DEF CodeInv, Code!TypeOK
    <3> QED
      BY <3>1, OthersKeep
  <2> QED
    BY <2>1, <2>2
<1> QED
  BY <1>2, <1>3, <1>4 DEF CodeInv

\* A step of one thread that registers and answers nothing.
LEMMA QuietStep ==
  ASSUME CodeInv, NEW h \in Allocators, UNCHANGED <<rows, answer>>,
         task' = [task EXCEPT ![h] = task'[h]], task'[h] \in Identities \union {None},
         step' = [step EXCEPT ![h] = step'[h]], step'[h] \in Code!Steps,
         length' = [length EXCEPT ![h] = length'[h]], length'[h] \in 1..Lengths + 1,
         CallHolds(h)'
  PROVE  CodeInv'
<1>1. Code!TypeOK'
  BY DEF CodeInv, Code!TypeOK
<1>2. (Code!OneToOne /\ Code!AnswersAgree)'
  BY DEF CodeInv, Code!OneToOne, Code!AnswersAgree
<1>3. ASSUME NEW g \in Allocators, g # h PROVE CallHolds(g)'
  <2>1. task'[g] = task[g] /\ step'[g] = step[g] /\ length'[g] = length[g]
    BY <1>3 DEF CodeInv, Code!TypeOK
  <2> QED
    BY <2>1, OthersKeep
<1> QED
  BY <1>1, <1>2, <1>3 DEF CodeInv

LEMMA NextCodes == Code!CodeAssumption /\ CodeInv /\ [Code!Next]_(Code!vars) => CodeInv'
<1> SUFFICES ASSUME Code!CodeAssumption, CodeInv, [Code!Next]_(Code!vars) PROVE CodeInv'
  OBVIOUS
<1>1. ASSUME NEW h \in Allocators, NEW v \in Identities, Code!Call(h, v) PROVE CodeInv'
  <2>1. task'[h] = v /\ step'[h] = "find" /\ length'[h] = 1 /\ UNCHANGED <<rows, answer>>
    BY <1>1 DEF Code!Call, CodeInv, Code!TypeOK
  <2>2. CallHolds(h)' /\ 1 \in 1..Lengths + 1
    BY <2>1 DEF CallHolds, Code!CodeAssumption
  <2> QED
    BY <1>1, <2>1, <2>2, QuietStep DEF Code!Call, Code!Steps
<1>2. ASSUME NEW h \in Allocators, step[h] \in {"find", "reread"}, UNCHANGED rows,
             NEW entry \in Code!Registered(task[h]), Code!Answer(h, entry[2])
      PROVE  CodeInv'
  <2>1. entry \in rows /\ entry[1] = task[h] /\ entry \in Identities \X Codes
    BY <1>2 DEF Code!Registered, CodeInv, Code!TypeOK
  <2>2. <<task[h], entry[2]>> \in rows'
    BY <1>2, <2>1
  <2> QED
    BY <1>2, <2>2, AnswerHolds DEF CodeInv, Code!TypeOK, Code!OneToOne
<1>3. ASSUME NEW h \in Allocators, Code!Find(h) PROVE CodeInv'
  <2>1. CASE \E entry \in Code!Registered(task[h]) : Code!Answer(h, entry[2])
    BY <1>2, <1>3, <2>1 DEF Code!Find
  <2>2. CASE step' = [step EXCEPT ![h] = "insert"] /\ UNCHANGED <<task, length, answer>>
    <3>1. /\ step[h] = "find" /\ step'[h] = "insert" /\ task'[h] = task[h] /\ length'[h] = length[h]
          /\ UNCHANGED <<rows, answer>>
      BY <1>3, <2>2 DEF Code!Find, CodeInv, Code!TypeOK
    <3>2. CallHolds(h)
      BY DEF CodeInv
    <3>3. CallHolds(h)'
      BY <3>1, <3>2 DEF CallHolds
    <3>4. /\ task' = [task EXCEPT ![h] = task'[h]] /\ length' = [length EXCEPT ![h] = length'[h]]
          /\ task'[h] \in Identities \union {None} /\ length'[h] \in 1..Lengths + 1
      BY <2>2 DEF CodeInv, Code!TypeOK
    <3> QED
      BY <2>2, <3>1, <3>3, <3>4, QuietStep DEF Code!Steps
  <2> QED
    BY <1>3, <2>1, <2>2 DEF Code!Find
<1>4. ASSUME NEW h \in Allocators, Code!Insert(h) PROVE CodeInv'
  <2> DEFINE value == Candidate[task[h]][length[h]]
  <2>1. step[h] = "insert" /\ CallHolds(h) /\ task[h] \in Identities /\ length[h] \in 1..Lengths
    BY <1>4 DEF Code!Insert, CodeInv, CallHolds
  <2>2. value \in Codes
    BY <2>1 DEF Code!CodeAssumption
  <2>3. CASE Code!Insertable(task[h], value) /\ rows' = rows \union {<<task[h], value>>} /\ Code!Answer(h, value)
    <3>1. Code!OneToOne'
      BY <2>1, <2>2, <2>3 DEF Code!Insertable, Code!OneToOne, CodeInv
    <3>2. rows' \subseteq Identities \X Codes /\ rows \subseteq rows' /\ <<task[h], value>> \in rows'
      BY <2>1, <2>2, <2>3 DEF CodeInv, Code!TypeOK
    <3> HIDE DEF value
    <3> QED
      BY <2>1, <2>3, <3>1, <3>2, AnswerHolds
  <2>4. CASE /\ ~ Code!Insertable(task[h], value) /\ step' = [step EXCEPT ![h] = "reread"]
             /\ UNCHANGED <<rows, task, length, answer>>
    <3>1. step'[h] = "reread" /\ task'[h] = task[h] /\ length'[h] = length[h]
      BY <2>4 DEF CodeInv, Code!TypeOK
    <3>2. \E entry \in rows : entry[1] = task[h] \/ entry[2] = value
      BY <2>4 DEF Code!Insertable
    <3>3. CallHolds(h)'
      BY <2>1, <2>4, <3>1, <3>2 DEF CallHolds, Taken
    <3>4. /\ task' = [task EXCEPT ![h] = task'[h]] /\ length' = [length EXCEPT ![h] = length'[h]]
          /\ task'[h] \in Identities \union {None} /\ length'[h] \in 1..Lengths + 1
      BY <2>4 DEF CodeInv, Code!TypeOK
    <3> QED
      BY <2>4, <3>1, <3>3, <3>4, QuietStep DEF Code!Steps
  <2> QED
    BY <1>4, <2>3, <2>4 DEF Code!Insert
<1>5. ASSUME NEW h \in Allocators, Code!Reread(h) PROVE CodeInv'
  <2>1. step[h] = "reread" /\ UNCHANGED rows
    BY <1>5 DEF Code!Reread
  <2>2. CASE \E entry \in Code!Registered(task[h]) : Code!Answer(h, entry[2])
    BY <1>2, <2>1, <2>2
  <2>3. CASE Code!Registered(task[h]) = {} /\ Code!TryLonger(h)
    <3>1. /\ CallHolds(h) /\ task[h] \in Identities /\ length[h] \in 1..Lengths /\ Lengths \in Nat \ {0}
      BY <2>1 DEF CodeInv, CallHolds, Code!CodeAssumption
    <3>2. /\ task'[h] = task[h] /\ length'[h] = length[h] + 1 /\ UNCHANGED answer
          /\ step'[h] = IF length[h] = Lengths THEN "exhausted" ELSE "insert"
      BY <2>3 DEF Code!TryLonger, CodeInv, Code!TypeOK
    <3>3. Taken(h, length[h])
      BY <2>1, <2>3, <3>1 DEF CallHolds, Code!Registered, Taken
    <3>4. \A n \in 1..Lengths : n < length[h] + 1 => Taken(h, n)
      BY <2>1, <3>1, <3>3 DEF CallHolds
    <3>5. \A n : Taken(h, n)' <=> Taken(h, n)
      BY <2>1, <3>2 DEF Taken
    <3>6. CallHolds(h)'
      BY <3>1, <3>2, <3>4, <3>5 DEF CallHolds
    <3>7. /\ task' = [task EXCEPT ![h] = task'[h]] /\ length' = [length EXCEPT ![h] = length'[h]]
          /\ step' = [step EXCEPT ![h] = step'[h]]
          /\ task'[h] \in Identities \union {None} /\ length'[h] \in 1..Lengths + 1
      BY <2>3, <3>1, <3>2 DEF Code!TryLonger, CodeInv, Code!TypeOK
    <3> QED
      BY <2>1, <3>2, <3>6, <3>7, QuietStep DEF Code!Steps
  <2> QED
    BY <1>5, <2>2, <2>3 DEF Code!Reread, Code!AfterDuplicate
<1>6. CASE UNCHANGED Code!vars
  <2>1. (Code!TypeOK /\ Code!OneToOne /\ Code!AnswersAgree)'
    BY <1>6 DEF Code!vars, CodeInv, Code!TypeOK, Code!OneToOne, Code!AnswersAgree
  <2>2. \A h \in Allocators : CallHolds(h)'
    BY <1>6, OthersKeep DEF Code!vars
  <2> QED
    BY <2>1, <2>2 DEF CodeInv
<1> QED
  BY <1>1, <1>3, <1>4, <1>5, <1>6 DEF Code!Next

(* However many threads allocate codes at once, a code names one vehicle   *)
(* and a vehicle has one code, everybody was told the registered one, and  *)
(* an allocation fails only when all prefixes are other vehicles' codes    *)
(* (VehicleCodeRegistry.ensure).                                           *)
THEOREM CodesAlwaysAgree ==
  ASSUME Code!CodeAssumption
  PROVE  Code!Spec => []CodesAgree
<1>1. Code!Init => CodeInv
  BY InitCodes
<1>2. CodeInv /\ [Code!Next]_(Code!vars) => CodeInv'
  BY NextCodes
<1>3. CodeInv => CodesAgree
  <2> SUFFICES ASSUME CodeInv PROVE Code!FailsOnlyWhenFull
    BY DEF CodeInv, CodesAgree, Code!CodesAgree
  <2> QED
    BY DEF CodeInv, CallHolds, Taken, Code!FailsOnlyWhenFull, Code!CodeAssumption
<1> QED
  BY <1>1, <1>2, <1>3, PTL DEF Code!Spec

-------------------------------------------------------------------------------
(* EventBoard                                                              *)

RosterFits == IsFiniteSet(roster) /\ (Maximum # 0 => Cardinality(roster) <= Maximum)

\* An instance has a copy of the standard modules it extends.
LEMMA PartyCardinality == \A S : Party!Cardinality(S) = Cardinality(S)
  BY DEF Party!Cardinality, Cardinality

LEMMA InitEvents == Party!BoardAssumption /\ Party!Init => RosterFits
  BY FS_EmptySet DEF Party!BoardAssumption, Party!Init, RosterFits

\* What a step may do to the event, and that the roster goes on fitting.
LEMMA EventStep ==
  ASSUME Party!BoardAssumption, RosterFits, [Party!Next]_(Party!eventVars)
  PROVE  /\ RosterFits'
         /\ status \in Party!Ended => status' = status /\ roster' \subseteq roster
<1>1. CASE UNCHANGED <<status, roster>>
  BY <1>1 DEF RosterFits
<1>2. ASSUME NEW h \in Tasks, Party!Apply(h)
      PROVE  /\ RosterFits'
             /\ status \in Party!Ended => status' = status /\ roster' \subseteq roster
  <2> DEFINE p == joining[h].player
  <2>1. CASE roster' = roster \union {p} /\ Party!Joinable(h) /\ UNCHANGED status
    <3>1. status \notin Party!Ended /\ ~Party!Full(roster)
      BY <2>1 DEF Party!Joinable
    <3> HIDE DEF p
    <3>2. IsFiniteSet(roster')
      BY <2>1, FS_AddElement DEF RosterFits
    <3>3. Cardinality(roster') <= Cardinality(roster) + 1 /\ Cardinality(roster) \in Nat
      <4>1. IsFiniteSet(roster)
        BY DEF RosterFits
      <4>2. Cardinality(roster) \in Nat
        BY <4>1, FS_CardinalityType
      <4>3. Cardinality(roster') = IF p \in roster THEN Cardinality(roster) ELSE Cardinality(roster) + 1
        BY <2>1, <4>1, FS_AddElement
      <4> QED
        BY <4>2, <4>3
    <3>4. Maximum # 0 => Cardinality(roster) + 1 <= Maximum
      <4>1. Maximum # 0 => ~(Cardinality(roster) >= Maximum)
        BY <3>1, PartyCardinality DEF Party!Full, Party!NoLimit
      <4> QED
        BY <3>3, <4>1 DEF Party!BoardAssumption
    <3>5. Cardinality(roster') \in Nat
      BY <3>2, FS_CardinalityType
    <3> QED
      BY <3>1, <3>2, <3>3, <3>4, <3>5 DEF RosterFits, Party!BoardAssumption
  <2>2. CASE roster' = roster \ {p} /\ UNCHANGED status
    <3> HIDE DEF p
    <3>1. IsFiniteSet(roster') /\ Cardinality(roster') <= Cardinality(roster)
      BY <2>2, FS_Subset DEF RosterFits
    <3>2. Cardinality(roster') \in Nat /\ Cardinality(roster) \in Nat
      BY <3>1, FS_CardinalityType DEF RosterFits
    <3> QED
      BY <2>2, <3>1, <3>2 DEF RosterFits, Party!BoardAssumption
  <2>3. CASE roster' = roster /\ (status \in Party!Ended => status' = status)
    BY <2>3 DEF RosterFits
  <2> QED
    BY <1>2, <2>1, <2>2, <2>3 DEF Party!Apply
<1>3. ASSUME NEW h \in Tasks, Party!CreateEvent(h)
      PROVE  UNCHANGED roster /\ status \notin Party!Ended
  BY <1>3 DEF Party!CreateEvent, Party!Ended
<1>4. CASE UNCHANGED roster /\ status \notin Party!Ended
  BY <1>4 DEF RosterFits
<1> QED
  BY <1>1, <1>2, <1>3, <1>4
  DEF Party!Next, Party!eventVars, Party!Publish, Party!Store, Party!ReadBack, Party!Reply,
      Party!Call, Party!RestartBot

(* However many players compete for the last place, the roster keeps to    *)
(* the event's maximum, nobody enters it once it has ended, and the first  *)
(* end stays (CommunityEventService.join, leave, finish).                  *)
THEOREM RosterAlwaysHolds ==
  ASSUME Party!BoardAssumption
  PROVE  Party!Spec => RosterHolds
<1>1. Party!Init => RosterFits
  BY InitEvents
<1>2. RosterFits /\ [Party!Next]_(Party!eventVars) =>
        /\ RosterFits'
        /\ Maximum # Party!NoLimit => Party!Cardinality(roster') <= Maximum
        /\ status \in Party!Ended => status' = status /\ roster' \subseteq roster
  BY EventStep, PartyCardinality DEF RosterFits, Party!NoLimit
<1> QED
  BY <1>1, <1>2, PTL DEF Party!Spec, RosterHolds, Party!RosterHolds

-------------------------------------------------------------------------------
(* ServerPairing                                                           *)

Credential == Nat \union {None}
Request == [step : {"idle", "found", "claim", "answer"}, code : Credential, credential : Credential]
PairTypes ==
  /\ row \in [credential : Credential, code : Credential, expired : BOOLEAN]
  /\ issuedCodes \in Nat /\ paired \in Nat /\ requests \subseteq Nat
  /\ claim \in [Claims -> Request]

\* Wherever a credential is on its way to the game it is the one of the record.
PairInv ==
  /\ PairTypes
  /\ ~overlapped =>
       /\ binding \in {None, row.credential} /\ response \in {None, row.credential}
       /\ \A c \in Claims : claim[c].credential \in {None, row.credential}

LEMMA InitPairing == Pairing!Init => PairInv
  BY DEF Pairing!Init, Pairing!Idle, PairInv, PairTypes, Credential, Request

LEMMA IdleRequest == Pairing!Idle \in Request /\ Pairing!Idle.credential = None
  BY DEF Pairing!Idle, Request, Credential

\* A claim moves on, and its credential stays or is dropped.
LEMMA ClaimMoves ==
  ASSUME PairInv, NEW c \in Claims, UNCHANGED <<row, issuedCodes, paired, binding, overlapped>>,
         requests' \subseteq requests, response' \in {response, claim[c].credential},
         NEW r \in Request, claim' = [claim EXCEPT ![c] = r],
         r.credential \in {None, claim[c].credential}
  PROVE  PairInv'
<1>1. PairTypes'
  BY DEF PairInv, PairTypes
<1>2. \A d \in Claims : claim'[d].credential \in {None, claim[d].credential}
  BY DEF PairInv, PairTypes
<1> QED
  BY <1>1, <1>2 DEF PairInv

LEMMA NextPairing == Pairing!PairingAssumption /\ PairInv /\ [Pairing!Next]_(Pairing!pairVars) => PairInv'
<1> SUFFICES ASSUME Pairing!PairingAssumption, PairInv, [Pairing!Next]_(Pairing!pairVars)
             PROVE  PairInv'
  OBVIOUS
<1>1. CASE UNCHANGED <<row, issuedCodes, paired, requests, claim, response, binding, overlapped>>
  BY <1>1 DEF PairInv, PairTypes
<1>2. CASE Pairing!IssueCode
  <2>1. PairTypes'
    BY <1>2 DEF Pairing!IssueCode, PairInv, PairTypes, Credential
  <2>2. ~overlapped' => ~overlapped /\ row.credential = None /\ row'.credential = None
    BY <1>2 DEF Pairing!IssueCode
  <2> QED
    BY <1>2, <2>1, <2>2 DEF Pairing!IssueCode, PairInv
<1>3. CASE Pairing!Expire
  BY <1>3 DEF Pairing!Expire, PairInv, PairTypes
<1>4. ASSUME NEW k \in 1..issuedCodes, Pairing!TypeCode(k) PROVE PairInv'
  BY <1>4 DEF Pairing!TypeCode, PairInv, PairTypes
<1>5. ASSUME NEW c \in Claims, NEW k \in requests, Pairing!Post(c, k) PROVE PairInv'
  <2> DEFINE r == [step |-> "found", code |-> k, credential |-> None]
  <2>1. r \in Request /\ r.credential = None
    BY DEF PairInv, PairTypes, Request, Credential
  <2>2. /\ claim' = [claim EXCEPT ![c] = r]
        /\ UNCHANGED <<row, issuedCodes, paired, binding, overlapped, requests, response>>
    BY <1>5 DEF Pairing!Post
  <2> HIDE DEF r
  <2> QED
    BY <2>1, <2>2, ClaimMoves
<1>6. ASSUME NEW c \in Claims, Pairing!FindAgain(c) PROVE PairInv'
  <2> DEFINE r == IF Pairing!Matches(claim[c].code) THEN [claim[c] EXCEPT !.step = "claim"] ELSE Pairing!Idle
  <2>1. r \in Request /\ r.credential \in {None, claim[c].credential}
    BY IdleRequest DEF PairInv, PairTypes, Request
  <2>2. /\ claim' = [claim EXCEPT ![c] = r]
        /\ UNCHANGED <<row, issuedCodes, paired, binding, overlapped, requests, response>>
    BY <1>6 DEF Pairing!FindAgain
  <2> HIDE DEF r
  <2> QED
    BY <2>1, <2>2, ClaimMoves
<1>7. ASSUME NEW c \in Claims, Pairing!Claim(c) PROVE PairInv'
  <2>1. CASE ~ Pairing!Claimable(claim[c].code)
    BY <1>7, <2>1, IdleRequest, ClaimMoves DEF Pairing!Claim
  <2>2. CASE Pairing!Claimable(claim[c].code)
    <3>1. /\ paired' = paired + 1 /\ row.credential = None /\ row'.credential = paired'
          /\ row' = [credential |-> paired', code |-> None, expired |-> FALSE]
          /\ claim' = [claim EXCEPT ![c].step = "answer", ![c].credential = paired']
          /\ UNCHANGED <<issuedCodes, requests, response, binding, overlapped>>
      BY <1>7, <2>2 DEF Pairing!Claim, Pairing!Claimable
    <3>2. paired' \in Nat
      BY <3>1 DEF PairInv, PairTypes
    <3>3. PairTypes'
      <4> DEFINE r == [claim[c] EXCEPT !.step = "answer", !.credential = paired']
      <4>0. r \in Request
        BY <3>2 DEF PairInv, PairTypes, Credential, Request
      <4>a. claim' = [claim EXCEPT ![c] = r]
        BY <3>1 DEF PairInv, PairTypes
      <4>1. claim' \in [Claims -> Request]
        <5> HIDE DEF r
        <5> QED
          BY <4>0, <4>a DEF PairInv, PairTypes
      <4>2. row' \in [credential : Credential, code : Credential, expired : BOOLEAN]
        BY <3>1, <3>2 DEF Credential
      <4> QED
        BY <3>1, <3>2, <4>1, <4>2 DEF PairInv, PairTypes
    <3>4. \A d \in Claims : claim'[d].credential = IF d = c THEN paired' ELSE claim[d].credential
      BY <3>1 DEF PairInv, PairTypes
    <3> QED
      BY <3>1, <3>3, <3>4 DEF PairInv
  <2> QED
    BY <2>1, <2>2
<1>8. ASSUME NEW c \in Claims, NEW removed \in BOOLEAN, Pairing!Deliver(c, removed) PROVE PairInv'
  <2>1. /\ claim' = [claim EXCEPT ![c] = Pairing!Idle] /\ response' = claim[c].credential
        /\ requests' \subseteq requests /\ UNCHANGED <<row, issuedCodes, paired, binding, overlapped>>
    BY <1>8 DEF Pairing!Deliver
  <2> QED
    BY <2>1, IdleRequest, ClaimMoves
<1>9. ASSUME NEW c \in Claims, Pairing!LoseAnswer(c) PROVE PairInv'
  BY <1>9, IdleRequest, ClaimMoves DEF Pairing!LoseAnswer
<1>10. CASE Pairing!Bind
  BY <1>10 DEF Pairing!Bind, PairInv, PairTypes
<1> QED
  BY <1>1, <1>2, <1>3, <1>4, <1>5, <1>6, <1>7, <1>8, <1>9, <1>10
  DEF Pairing!Next, Pairing!StaffSide, Pairing!AgentSide, Pairing!pairVars,
      Pairing!RegisterRead, Pairing!Preserve

(* Whatever claims, lost answers and registrations interleave, a bound     *)
(* server authenticates with the credential central holds, unless a        *)
(* registration replaced a record that was paired after it had read it     *)
(* (ServerRegistry.register and pair, the Agent's claim, the mod's bind).  *)
THEOREM BoundAlwaysAuthenticates ==
  ASSUME Pairing!PairingAssumption
  PROVE  Pairing!Spec => []BoundAuthenticates
<1>1. Pairing!Init => PairInv
  BY InitPairing
<1>2. PairInv /\ [Pairing!Next]_(Pairing!pairVars) => PairInv'
  BY NextPairing
<1>3. PairInv => BoundAuthenticates
  BY DEF PairInv, BoundAuthenticates, Pairing!BoundAuthenticates
<1> QED
  BY <1>1, <1>2, <1>3, PTL DEF Pairing!Spec

-------------------------------------------------------------------------------
(* SystemFarm                                                              *)

Steps == {"idle", "snapshot", "adopt", "note", "queue", "existing", "map", "succeed", "fail",
          "answered"}
Frame == [step : Steps, answer : Ids \union {"failed", None}, target : System!Writers \union {None}]
SystemTypes ==
  /\ here \subseteq Ids /\ nativeSave \subseteq Ids /\ named \subseteq Ids
  /\ lost \in BOOLEAN /\ overlaps \in BOOLEAN /\ found \in Ids \union {"failed", None}
  /\ mapped \in [System!Writers -> Ids \union {None}] /\ handler \in [Ensurers -> Frame]

\* What a handler relies on between its reads and its writes.
HandlerHolds(c) ==
  /\ handler[c].step \in {"adopt", "existing", "map"} =>
       handler[c].answer \in Ids \ {None} /\ (~lost => handler[c].answer \in here)
  /\ handler[c].step = "map" => handler[c].target \in System!Writers
  /\ handler[c].step \in {"note", "succeed"} => System!Rows # {}
  /\ ~overlaps /\ handler[c].step \in {"snapshot", "adopt"} => System!Rows = {}
  /\ ~overlaps /\ handler[c].step = "map" => System!Rows \subseteq {handler[c].target}

\* What the game and the rows promise whatever the handlers do.
SystemHolds ==
  /\ ~lost => /\ named \subseteq here /\ (found \notin {"failed", None} => found \in here)
              /\ \A k \in System!Rows : mapped[k] \in here
  /\ ensured = "succeeded" => System!Rows # {}
  /\ ~overlaps => /\ \A k, l \in System!Rows : k = l
                  /\ \A c, d \in Ensurers : handler[c].step # "idle" /\ handler[d].step # "idle" => c = d

SystemInv == SystemTypes /\ SystemHolds /\ \A c \in Ensurers : HandlerHolds(c)

LEMMA InitSystem == System!Init => SystemInv
<1> SUFFICES ASSUME System!Init PROVE SystemInv
  OBVIOUS
<1>1. System!Idle \in Frame /\ System!Idle.step = "idle"
  BY DEF System!Idle, Frame, Steps
<1>2. SystemTypes
  BY <1>1 DEF System!Init, SystemTypes
<1>3. System!Rows = {}
  BY DEF System!Init, System!Rows
<1> QED
  BY <1>1, <1>2, <1>3 DEF System!Init, SystemInv, SystemHolds, HandlerHolds

\* A handler goes from one step to the next without writing a row.
LEMMA HandlerStep ==
  ASSUME SystemInv, NEW c \in Ensurers, NEW r \in Frame, handler' = [handler EXCEPT ![c] = r],
         UNCHANGED <<here, nativeSave, lost, mapped>>,
         named' \in {named, here}, found' \in {found, None},
         ensured' = "succeeded" => ensured = "succeeded" \/ System!Rows # {},
         overlaps' \in BOOLEAN, overlaps => overlaps',
         r.step # "idle" => \/ handler[c].step # "idle"
                           \/ overlaps' \/ \A d \in Ensurers \ {c} : handler[d].step = "idle",
         HandlerHolds(c)'
  PROVE  SystemInv'
<1>1. SystemTypes'
  BY DEF SystemInv, SystemTypes
<1>2. System!Rows' = System!Rows
  BY DEF System!Rows
<1>3. \A d \in Ensurers : handler'[d] = IF d = c THEN r ELSE handler[d]
  BY DEF SystemInv, SystemTypes
<1>4. SystemHolds'
  <2>1. ~overlaps' => \A d, e \in Ensurers : handler'[d].step # "idle" /\ handler'[e].step # "idle" => d = e
    BY <1>3 DEF SystemInv, SystemHolds
  <2> QED
    BY <1>2, <2>1 DEF SystemInv, SystemHolds
<1>5. ASSUME NEW d \in Ensurers, d # c PROVE HandlerHolds(d)'
  BY <1>2, <1>3, <1>5 DEF SystemInv, HandlerHolds
<1> QED
  BY <1>1, <1>4, <1>5 DEF SystemInv

\* A handler writes the row k.
LEMMA RowWritten ==
  ASSUME SystemInv, NEW c \in Ensurers, NEW k \in System!Writers, NEW f \in Ids, f # None,
         NEW s \in {"note", "succeed"}, handler[c].step # "idle",
         mapped' = [mapped EXCEPT ![k] = f], handler' = [handler EXCEPT ![c].step = s],
         UNCHANGED <<here, nativeSave, lost, found, named, ensured, overlaps>>,
         ~lost => f \in here, ~overlaps => System!Rows \subseteq {k}
  PROVE  SystemInv'
<1>1. SystemTypes'
  BY DEF SystemInv, SystemTypes, Frame, Steps
<1>2. \A l \in System!Writers : mapped'[l] = IF l = k THEN f ELSE mapped[l]
  BY DEF SystemInv, SystemTypes
<1>3. System!Rows' = System!Rows \union {k}
  BY <1>2 DEF System!Rows
<1>4. \A d \in Ensurers : /\ handler'[d].step = IF d = c THEN s ELSE handler[d].step
                          /\ handler'[d].answer = handler[d].answer /\ handler'[d].target = handler[d].target
  BY DEF SystemInv, SystemTypes, Frame
<1>5. SystemHolds'
  <2>1. ~overlaps => \A d, e \in Ensurers : handler'[d].step # "idle" /\ handler'[e].step # "idle" => d = e
    BY <1>4 DEF SystemInv, SystemHolds
  <2>2. ~overlaps => System!Rows' = {k}
    BY <1>3
  <2>3. ~lost => \A l \in System!Rows' : mapped'[l] \in here
    BY <1>2, <1>3 DEF SystemInv, SystemHolds, System!Rows
  <2> QED
    BY <1>3, <2>1, <2>2, <2>3 DEF SystemInv, SystemHolds
<1>6. HandlerHolds(c)'
  BY <1>3, <1>4 DEF HandlerHolds
<1>7. ASSUME NEW d \in Ensurers, d # c PROVE HandlerHolds(d)'
  <2>1. HandlerHolds(d) /\ handler'[d].step = handler[d].step
    BY <1>4, <1>7 DEF SystemInv
  <2>2. ~overlaps => handler[d].step = "idle"
    BY <1>7 DEF SystemInv, SystemHolds
  <2> QED
    BY <1>3, <1>4, <2>1, <2>2 DEF HandlerHolds
<1> QED
  BY <1>1, <1>5, <1>6, <1>7 DEF SystemInv

\* The game moves: as long as it loses nothing, it keeps what it has.
LEMMA GameMoves ==
  ASSUME SystemInv, UNCHANGED <<named, ensured, mapped, handler, overlaps>>,
         here' \subseteq Ids, nativeSave' \subseteq Ids, lost' \in BOOLEAN,
         ~lost' => ~lost /\ here \subseteq here',
         found' \in {found, "failed"} \union here'
  PROVE  SystemInv'
<1>1. SystemTypes'
  BY DEF SystemInv, SystemTypes
<1>2. System!Rows' = System!Rows
  BY DEF System!Rows
<1>3. SystemHolds'
  BY <1>2 DEF SystemInv, SystemHolds
<1>4. \A c \in Ensurers : HandlerHolds(c)'
  BY <1>2 DEF SystemInv, HandlerHolds
<1> QED
  BY <1>1, <1>3, <1>4 DEF SystemInv

\* A handler begins: it reads nothing it could rely on wrongly.
LEMMA HandlerBegins ==
  ASSUME SystemInv, NEW c \in Ensurers, NEW s \in Steps \ {"idle"}, NEW a \in Ids \union {"failed", None},
         System!Begin(c, s, a), UNCHANGED <<here, nativeSave, lost, found, ensured, mapped>>,
         named' \in {named, here},
         \/ s \in {"fail", "answered"}
         \/ s = "snapshot" /\ System!Rows = {}
         \/ s = "existing" /\ a \notin {"failed", None} /\ (~lost => a \in here)
  PROVE  SystemInv'
<1> DEFINE r == [step |-> s, answer |-> a, target |-> None]
<1>1. r \in Frame
  BY DEF Frame
<1>2. /\ handler' = [handler EXCEPT ![c] = r] /\ overlaps \in BOOLEAN
      /\ overlaps' = (overlaps \/ \E d \in Ensurers \ {c} : handler[d].step # "idle")
  BY DEF System!Begin, System!At, SystemInv, SystemTypes
<1>3. handler'[c] = r
  BY <1>2 DEF SystemInv, SystemTypes
<1>4. HandlerHolds(c)'
  BY <1>3 DEF HandlerHolds, System!Rows
<1>5. overlaps' \in BOOLEAN /\ (overlaps => overlaps')
      /\ (overlaps' \/ \A d \in Ensurers \ {c} : handler[d].step = "idle")
  BY <1>2
<1> HIDE DEF r
<1> QED
  BY <1>1, <1>2, <1>4, <1>5, HandlerStep

\* A handler ends.
LEMMA HandlerEnds ==
  ASSUME SystemInv, NEW c \in Ensurers, System!End(c),
         UNCHANGED <<here, nativeSave, lost, mapped, named, overlaps>>, found' \in {found, None},
         ensured' = "succeeded" => ensured = "succeeded" \/ System!Rows # {}
  PROVE  SystemInv'
<1>1. System!Idle \in Frame /\ System!Idle.step = "idle"
  BY DEF System!Idle, Frame, Steps
<1>2. handler' = [handler EXCEPT ![c] = System!Idle] /\ overlaps' \in BOOLEAN
  BY DEF System!End, SystemInv, SystemTypes
<1>3. handler'[c].step = "idle"
  BY <1>1, <1>2 DEF SystemInv, SystemTypes
<1>4. HandlerHolds(c)'
  BY <1>3 DEF HandlerHolds
<1> QED
  BY <1>1, <1>2, <1>4, HandlerStep

LEMMA NextSystem == System!SystemAssumption /\ SystemInv /\ [System!Next]_(System!vars) => SystemInv'
<1> SUFFICES ASSUME System!SystemAssumption, SystemInv, [System!Next]_(System!vars)
             PROVE  SystemInv'
  OBVIOUS
<1> USE DEF System!At
<1>1. ASSUME NEW c \in Ensurers, System!RecordSnapshot(c) PROVE SystemInv'
  <2>1. CASE System!Rows = {}
    BY <1>1, <2>1, HandlerBegins
    DEF System!RecordSnapshot, System!EnsureFinds, System!game, System!mailbox, Steps
  <2>2. CASE UNCHANGED <<handler, overlaps>>
    <3>1. SystemTypes'
      BY <1>1, <2>2 DEF System!RecordSnapshot, System!game, System!mailbox, SystemInv, SystemTypes
    <3>2. /\ System!Rows' = System!Rows /\ named' = here
          /\ UNCHANGED <<here, lost, found, mapped, ensured, handler, overlaps>>
      BY <1>1, <2>2 DEF System!RecordSnapshot, System!game, System!mailbox, System!Rows
    <3>3. SystemHolds'
      BY <3>2 DEF SystemInv, SystemHolds
    <3>4. \A d \in Ensurers : HandlerHolds(d)'
      BY <3>2 DEF SystemInv, HandlerHolds
    <3> QED
      BY <3>1, <3>3, <3>4 DEF SystemInv
  <2> QED
    BY <1>1, <2>1, <2>2 DEF System!RecordSnapshot, System!EnsureFinds
<1>2. ASSUME NEW c \in Ensurers, System!Ensure(c) PROVE SystemInv'
  BY <1>2, HandlerBegins DEF System!Ensure, System!game, System!mailbox, Steps
<1>3. ASSUME NEW c \in Ensurers, System!AcceptReceipt(c) PROVE SystemInv'
  <2> DEFINE s == IF ensured = "succeeded" THEN "answered" ELSE IF found = "failed" THEN "fail" ELSE "existing"
  <2> DEFINE f == found
  <2>1. s \in Steps \ {"idle"}
    BY DEF Steps
  <2>a. f \in Ids \union {"failed", None}
    BY DEF SystemInv, SystemTypes
  <2>b. System!Begin(c, s, f)
    BY <1>3 DEF System!AcceptReceipt
  <2>2. \/ s \in {"fail", "answered"}
        \/ s = "existing" /\ f \notin {"failed", None} /\ (~lost => f \in here)
    BY <1>3 DEF System!AcceptReceipt, SystemInv, SystemHolds
  <2>3. UNCHANGED <<here, nativeSave, lost, found, ensured, mapped>> /\ named' \in {named, here}
    BY <1>3 DEF System!AcceptReceipt, System!game, System!mailbox
  <2> HIDE DEF s, f
  <2> QED
    BY <2>1, <2>a, <2>b, <2>2, <2>3, HandlerBegins
<1>4. ASSUME NEW c \in Ensurers, System!ReadSnapshot(c) PROVE SystemInv'
  <2>1. /\ handler[c].step = "snapshot" /\ HandlerHolds(c) /\ handler[c] \in Frame /\ overlaps \in BOOLEAN
        /\ UNCHANGED <<here, nativeSave, lost, found, ensured, mapped, named, overlaps>>
    BY <1>4 DEF System!ReadSnapshot, System!game, System!mailbox, SystemInv, SystemTypes
  <2>2. CASE handler' = [handler EXCEPT ![c].step = "queue"]
    <3> DEFINE r == [handler[c] EXCEPT !.step = "queue"]
    <3>1. r \in Frame /\ handler' = [handler EXCEPT ![c] = r]
      BY <2>1, <2>2 DEF Frame, Steps, SystemInv, SystemTypes
    <3>2. handler'[c].step = "queue"
      BY <2>1, <2>2 DEF Frame, SystemInv, SystemTypes
    <3>3. HandlerHolds(c)'
      BY <3>2 DEF HandlerHolds
    <3> HIDE DEF r
    <3> QED
      BY <2>1, <3>1, <3>3, HandlerStep
  <2>3. CASE \E f \in named : handler' = [handler EXCEPT ![c].step = "adopt", ![c].answer = f]
    <3>1. PICK f \in named : handler' = [handler EXCEPT ![c].step = "adopt", ![c].answer = f]
      BY <2>3
    <3> DEFINE r == [handler[c] EXCEPT !.step = "adopt", !.answer = f]
    <3>2. f \in Ids /\ f # None /\ (~lost => f \in here)
      BY DEF SystemInv, SystemTypes, SystemHolds, System!SystemAssumption
    <3>3. r \in Frame /\ handler' = [handler EXCEPT ![c] = r] /\ r.step = "adopt" /\ r.answer = f
      BY <2>1, <3>1, <3>2 DEF Frame, Steps, SystemInv, SystemTypes
    <3> HIDE DEF r
    <3>4. handler'[c].step = "adopt" /\ handler'[c].answer = f
      BY <3>3 DEF SystemInv, SystemTypes
    <3>5. HandlerHolds(c)'
      BY <2>1, <3>2, <3>4 DEF HandlerHolds, System!Rows
    <3> QED
      BY <2>1, <3>3, <3>5, HandlerStep
  <2> QED
    BY <1>4, <2>1, <2>2, <2>3, HandlerEnds DEF System!ReadSnapshot, System!Goto
<1>5. ASSUME NEW c \in Ensurers, System!Adopt(c) PROVE SystemInv'
  <2>1. /\ handler[c].step = "adopt" /\ HandlerHolds(c) /\ handler[c] \in Frame
        /\ mapped' = [mapped EXCEPT !["adoption"] = handler[c].answer]
        /\ handler' = [handler EXCEPT ![c].step = "note"]
        /\ UNCHANGED <<here, nativeSave, lost, found, named, ensured, overlaps>>
    BY <1>5 DEF System!Adopt, System!Goto, System!game, System!mailbox, SystemInv, SystemTypes
  <2>2. "adoption" \in System!Writers /\ "note" \in {"note", "succeed"}
    BY DEF System!Writers
  <2>3. CASE handler[c].answer \in Ids
    BY <2>1, <2>2, <2>3, RowWritten DEF HandlerHolds
  <2> QED
    BY <2>1, <2>3 DEF HandlerHolds, Frame
<1>6. ASSUME NEW c \in Ensurers, System!NoteAdoption(c) PROVE SystemInv'
  <2>1. System!Rows # {}
    BY <1>6 DEF System!NoteAdoption, SystemInv, HandlerHolds
  <2> QED
    BY <1>6, <2>1, HandlerEnds DEF System!NoteAdoption, System!game, System!mailbox
<1>7. ASSUME NEW c \in Ensurers, System!QueueOperation(c) PROVE SystemInv'
  BY <1>7, HandlerEnds DEF System!QueueOperation, System!game, System!mailbox
<1>8. ASSUME NEW c \in Ensurers, System!ReadExisting(c) PROVE SystemInv'
  <2> DEFINE k == System!Existing(handler[c].answer)
             r == [handler[c] EXCEPT !.target = k, !.step = IF k = None THEN "fail" ELSE "map"]
  <2>1. /\ handler[c].step = "existing" /\ HandlerHolds(c) /\ handler[c] \in Frame /\ overlaps \in BOOLEAN
        /\ UNCHANGED <<here, nativeSave, lost, found, ensured, mapped, named, overlaps>>
        /\ handler' = [handler EXCEPT ![c].target = k, ![c].step = IF k = None THEN "fail" ELSE "map"]
    BY <1>8 DEF System!ReadExisting, System!game, System!mailbox, SystemInv, SystemTypes
  <2>2. k = None \/ (k \in System!Writers /\ (System!Rows = {} \/ k \in System!Rows))
    BY DEF System!Existing, System!Writers, System!Rows
  <2> HIDE DEF k
  <2>3. /\ r \in Frame /\ r.step = (IF k = None THEN "fail" ELSE "map") /\ r.target = k
        /\ r.answer = handler[c].answer
    BY <2>1, <2>2 DEF Frame, Steps
  <2>4. handler' = [handler EXCEPT ![c] = r]
    BY <2>1 DEF SystemInv, SystemTypes
  <2> HIDE DEF r
  <2>5. handler'[c] = r
    BY <2>4 DEF SystemInv, SystemTypes
  <2>6. ~overlaps => System!Rows = {} \/ k = None \/ System!Rows \subseteq {k}
    BY <2>2 DEF SystemInv, SystemHolds
  <2>7. HandlerHolds(c)'
    <3>1. System!Rows' = System!Rows
      BY <2>1 DEF System!Rows
    <3>2. /\ handler'[c].step = (IF k = None THEN "fail" ELSE "map") /\ handler'[c].target = k
          /\ handler'[c].answer = handler[c].answer /\ UNCHANGED <<here, lost, overlaps>>
      BY <2>1, <2>3, <2>5
    <3>3. handler[c].answer \in Ids \ {None} /\ (~lost => handler[c].answer \in here)
      BY <2>1 DEF HandlerHolds
    <3> QED
      BY <2>2, <2>6, <3>1, <3>2, <3>3 DEF HandlerHolds
  <2> QED
    BY <2>1, <2>3, <2>4, <2>7, HandlerStep
<1>9. ASSUME NEW c \in Ensurers, System!Map(c) PROVE SystemInv'
  <2> DEFINE k == handler[c].target
             f == handler[c].answer
  <2>1. /\ handler[c].step = "map" /\ HandlerHolds(c)
        /\ mapped' = [mapped EXCEPT ![k] = f] /\ handler' = [handler EXCEPT ![c].step = "succeed"]
        /\ UNCHANGED <<here, nativeSave, lost, found, named, ensured, overlaps>>
    BY <1>9 DEF System!Map, System!Goto, System!game, System!mailbox, SystemInv
  <2>2. k \in System!Writers /\ f \in Ids /\ f # None /\ (~lost => f \in here)
    BY <2>1 DEF HandlerHolds
  <2>3. handler[c].step # "idle" /\ (~overlaps => System!Rows \subseteq {k})
    BY <2>1 DEF HandlerHolds
  <2>4. "succeed" \in {"note", "succeed"}
    OBVIOUS
  <2> HIDE DEF k, f
  <2> QED
    BY <2>1, <2>2, <2>3, <2>4, RowWritten
<1>10. ASSUME NEW c \in Ensurers, System!Answer(c) PROVE SystemInv'
  <2>1. ensured' = "succeeded" => ensured = "succeeded" \/ System!Rows # {}
    BY <1>10 DEF System!Answer, SystemInv, HandlerHolds
  <2> QED
    BY <1>10, <2>1, HandlerEnds DEF System!Answer, System!game
<1>11. CASE System!Dispatch
  BY <1>11, GameMoves DEF System!Dispatch, System!game, SystemInv, SystemTypes
<1>12. CASE System!ProcessCommand
  <2>1. PICK x \in {here} \union (IF here = {} THEN {{f} : f \in Ids} ELSE {}) :
          /\ here' = x
          /\ \/ found' \in {"failed"} \union {f \in x : x = {f}}
             \/ UNCHANGED System!mailbox
    BY <1>12 DEF System!ProcessCommand
  <2>2. here' \subseteq Ids /\ here \subseteq here' /\ found' \in {found, "failed"} \union here'
    BY <2>1 DEF System!mailbox, SystemInv, SystemTypes
  <2> QED
    BY <1>12, <2>2, GameMoves DEF System!ProcessCommand, SystemInv, SystemTypes
<1>13. CASE System!Namesake
  BY <1>13, GameMoves DEF System!Namesake, System!mailbox, SystemInv, SystemTypes
<1>14. CASE System!Save
  BY <1>14, GameMoves DEF System!Save, System!mailbox, SystemInv, SystemTypes
<1>15. CASE System!Crash
  <2>1. lost \in BOOLEAN /\ lost' = (lost \/ here # nativeSave) /\ here' = nativeSave /\ nativeSave \subseteq Ids
    BY <1>15 DEF System!Crash, SystemInv, SystemTypes
  <2>2. lost' \in BOOLEAN /\ (~lost' => ~lost /\ here \subseteq here')
    BY <2>1
  <2> QED
    BY <1>15, <2>1, <2>2, GameMoves DEF System!Crash, System!mailbox
<1>16. CASE System!Stop
  <2>1. /\ handler' = [c \in Ensurers |-> System!Idle]
        /\ UNCHANGED <<here, nativeSave, lost, found, named, ensured, mapped, overlaps>>
    BY <1>16 DEF System!Stop, System!game, System!mailbox
  <2>2. System!Idle \in Frame /\ \A c \in Ensurers : handler'[c].step = "idle"
    BY <2>1 DEF System!Idle, Frame, Steps
  <2>3. SystemTypes'
    BY <2>1, <2>2 DEF SystemInv, SystemTypes
  <2>4. System!Rows' = System!Rows
    BY <2>1 DEF System!Rows
  <2>5. SystemHolds'
    BY <2>1, <2>2, <2>4 DEF SystemInv, SystemHolds
  <2> QED
    BY <2>2, <2>3, <2>5 DEF SystemInv, HandlerHolds
<1>17. CASE UNCHANGED System!vars
  BY <1>17, GameMoves DEF System!vars, SystemInv, SystemTypes
<1> QED
  BY <1>1, <1>2, <1>3, <1>4, <1>5, <1>6, <1>7, <1>8, <1>9, <1>10, <1>11, <1>12, <1>13, <1>14,
     <1>15, <1>16, <1>17 DEF System!Next

LEMMA SystemCardinality == \A S : System!Cardinality(S) = Cardinality(S)
  BY DEF System!Cardinality, Cardinality

LEMMA MappingFollows == SystemInv => System!MappingHolds
<1> SUFFICES ASSUME SystemInv PROVE System!MappingHolds
  OBVIOUS
<1>1. ASSUME ~overlaps PROVE System!Cardinality(System!Rows) <= 1
  <2>1. \A k, l \in System!Rows : k = l
    BY <1>1 DEF SystemInv, SystemHolds
  <2>2. CASE System!Rows = {}
    <3>1. System!Cardinality(System!Rows) = Cardinality({})
      BY <2>2, SystemCardinality
    <3> QED
      BY <3>1, FS_EmptySet
  <2>3. ASSUME NEW k \in System!Rows PROVE System!Cardinality(System!Rows) = 1
    <3>1. System!Rows = {k}
      BY <2>1, <2>3
    <3>2. System!Cardinality(System!Rows) = Cardinality({k})
      BY <3>1, SystemCardinality
    <3> QED
      BY <3>2, FS_Singleton
  <2> QED
    BY <2>2, <2>3
<1> QED
  BY <1>1 DEF SystemInv, SystemHolds, System!MappingHolds

(* However handlers of Central interleave or stop, and whatever the game    *)
(* loses: handlers that do not overlap leave one mapping row, a row names   *)
(* a farm the game has until it loses one unsaved, and an operation closed  *)
(* as succeeded has a row (ensure_system_farm, accept_receipt).             *)
THEOREM MappingAlwaysHolds ==
  ASSUME System!SystemAssumption
  PROVE  System!Spec => []System!MappingHolds
<1>1. System!Init => SystemInv
  BY InitSystem
<1>2. SystemInv /\ [System!Next]_(System!vars) => SystemInv'
  BY NextSystem
<1>3. SystemInv => System!MappingHolds
  BY MappingFollows
<1> QED
  BY <1>1, <1>2, <1>3, PTL DEF System!Spec

-------------------------------------------------------------------------------
(* WorldContinuity                                                         *)

Owns == {"none", "pending", "rejected", "active"}
Seen == [own : Owns, carried : SUBSET Sources, standing : BOOLEAN]
Transaction == [member : Members, source : Sources \union {None}, view : Seen]
CarryTypes ==
  /\ own \in [Members -> Owns] /\ carried \in [Members -> SUBSET Sources]
  /\ audit \in [Sources -> Members \union {None}]
  /\ open \in [Transactions -> Transaction \union {Carry!Idle}]

\* As long as no request and migration of a member overlap, what one of
\* them read of the other's document is still so.
ViewHolds(c) ==
  open[c] # Carry!Idle /\ open[c].member \notin crossed =>
    /\ open[c].source = None => open[c].view.carried = carried[open[c].member]
    /\ open[c].source # None /\ open[c].view.own = "none" => own[open[c].member] = "none"

MemberHolds(m) ==
  /\ carried[m] = {s \in Sources : audit[s] = m}
  /\ \A s, t \in carried[m] : s = t
  /\ m \notin crossed =>
       /\ carried[m] = {} \/ own[m] \notin Carry!Live
       /\ \A c, d \in Carry!OpenFor(m) : open[c].source = None <=> open[d].source = None

CarryInv ==
  /\ CarryTypes
  /\ \A m \in Members : MemberHolds(m)
  /\ \A c \in Transactions : ViewHolds(c)

LEMMA InitCarry == Carry!ContinuityAssumption /\ Carry!Init => CarryInv
<1> SUFFICES ASSUME Carry!ContinuityAssumption, Carry!Init PROVE CarryInv
  OBVIOUS
<1>1. CarryTypes
  BY DEF Carry!Init, CarryTypes, Owns
<1>2. ASSUME NEW m \in Members PROVE MemberHolds(m)
  <2>1. Carry!OpenFor(m) = {}
    BY DEF Carry!Init, Carry!OpenFor, Carry!Open
  <2>2. m # None
    BY DEF Carry!ContinuityAssumption
  <2> QED
    BY <2>1, <2>2 DEF Carry!Init, MemberHolds
<1>3. \A c \in Transactions : ViewHolds(c)
  BY DEF Carry!Init, ViewHolds
<1> QED
  BY <1>1, <1>2, <1>3 DEF CarryInv

\* What an open transaction is.
LEMMA OpenIsTyped ==
  ASSUME Carry!ContinuityAssumption, CarryInv, NEW c \in Transactions
  PROVE  open[c] # Carry!Idle =>
           /\ open[c] \in Transaction /\ open[c].member \in Members
           /\ open[c].source \in Sources \union {None} /\ open[c].view \in Seen
  BY DEF CarryInv, CarryTypes, Transaction

\* A transaction opens or reads again: it sees what there is.
LEMMA FreshView ==
  ASSUME Carry!ContinuityAssumption, CarryInv, NEW c \in Transactions, NEW m \in Members,
         NEW s \in Sources \union {None}, UNCHANGED <<own, carried, audit>>,
         open' = [open EXCEPT ![c] = [member |-> m, source |-> s, view |-> Carry!View(m, s)]],
         crossed \subseteq crossed',
         m \notin crossed' => \A d \in Carry!OpenFor(m) : (open[d].source = None) <=> (s = None)
  PROVE  CarryInv'
<1> DEFINE r == [member |-> m, source |-> s, view |-> Carry!View(m, s)]
<1>1. /\ Carry!View(m, s) \in Seen /\ Carry!View(m, s).own = own[m]
      /\ Carry!View(m, s).carried = carried[m]
  BY DEF Carry!View, Seen, CarryInv, CarryTypes
<1>2. /\ r \in Transaction /\ r # Carry!Idle /\ r.member = m /\ r.source = s
      /\ r.view.own = own[m] /\ r.view.carried = carried[m]
  BY <1>1 DEF Transaction, Carry!Idle, Carry!ContinuityAssumption
<1>3. open' = [open EXCEPT ![c] = r]
  OBVIOUS
<1> HIDE DEF r
<1>4. CarryTypes'
  BY <1>2, <1>3 DEF CarryInv, CarryTypes
<1>5. \A d \in Transactions : open'[d] = IF d = c THEN r ELSE open[d]
  BY <1>3 DEF CarryInv, CarryTypes
<1>6. ASSUME NEW n \in Members PROVE MemberHolds(n)'
  <2>1. MemberHolds(n)
    BY DEF CarryInv
  <2>2. CASE n # m
    <3>1. Carry!OpenFor(n)' \subseteq Carry!OpenFor(n) /\ c \notin Carry!OpenFor(n)'
      BY <1>2, <1>5, <2>2 DEF Carry!OpenFor, Carry!Open
    <3>2. \A d \in Carry!OpenFor(n)' : open'[d] = open[d]
      BY <1>5, <3>1 DEF Carry!OpenFor, Carry!Open
    <3> QED
      BY <2>1, <3>1, <3>2 DEF MemberHolds
  <2>3. CASE n = m
    <3>1. \A d \in Carry!OpenFor(m)' : d = c \/ (d \in Carry!OpenFor(m) /\ open'[d] = open[d])
      BY <1>5 DEF Carry!OpenFor, Carry!Open
    <3>2. m \notin crossed' => \A d \in Carry!OpenFor(m)' : open'[d].source = None <=> s = None
      BY <1>2, <1>5, <3>1 DEF Carry!OpenFor, Carry!Open
    <3> QED
      BY <2>1, <2>3, <3>2 DEF MemberHolds
  <2> QED
    BY <2>2, <2>3
<1>7. \A d \in Transactions : ViewHolds(d)'
  BY <1>2, <1>5 DEF CarryInv, ViewHolds
<1> QED
  BY <1>4, <1>6, <1>7 DEF CarryInv

\* A transaction ends, and its writes leave the other members alone.
LEMMA Committed ==
  ASSUME Carry!ContinuityAssumption, CarryInv, NEW c \in Transactions, open[c] # Carry!Idle,
         open' = [open EXCEPT ![c] = Carry!Idle], UNCHANGED crossed,
         (own' \in [Members -> Owns] /\ carried' \in [Members -> SUBSET Sources]
          /\ audit' \in [Sources -> Members \union {None}]),
         \A n \in Members : n # open[c].member => own'[n] = own[n] /\ carried'[n] = carried[n],
         \A n \in Members : carried'[n] = {s \in Sources : audit'[s] = n},
         \A s, t \in carried'[open[c].member] : s = t,
         open[c].member \notin crossed =>
           carried'[open[c].member] = {} \/ own'[open[c].member] \notin Carry!Live,
         \/ UNCHANGED own /\ open[c].source # None
         \/ UNCHANGED carried /\ open[c].source = None
  PROVE  CarryInv'
<1> DEFINE m == open[c].member
<1>1. m \in Members
  BY OpenIsTyped
<1>2. CarryTypes'
  BY DEF CarryInv, CarryTypes
<1>3. \A d \in Transactions : open'[d] = IF d = c THEN Carry!Idle ELSE open[d]
  BY DEF CarryInv, CarryTypes
<1>4. ASSUME NEW n \in Members
      PROVE  Carry!OpenFor(n)' \subseteq Carry!OpenFor(n) /\ \A d \in Carry!OpenFor(n)' : open'[d] = open[d]
  BY <1>3 DEF Carry!OpenFor, Carry!Open
<1>5. ASSUME NEW n \in Members PROVE MemberHolds(n)'
  <2>1. MemberHolds(n) /\ carried'[n] = {s \in Sources : audit'[s] = n}
    BY DEF CarryInv
  <2>2. n \notin crossed => \A d, e \in Carry!OpenFor(n)' : open'[d].source = None <=> open'[e].source = None
    BY <1>4, <2>1 DEF MemberHolds
  <2>3. /\ \A s, t \in carried'[n] : s = t
        /\ n \notin crossed => carried'[n] = {} \/ own'[n] \notin Carry!Live
    BY <2>1 DEF MemberHolds
  <2> QED
    BY <2>1, <2>2, <2>3 DEF MemberHolds
<1>6. ASSUME NEW d \in Transactions PROVE ViewHolds(d)'
  <2>1. CASE d = c
    BY <1>3, <2>1 DEF ViewHolds
  <2>2. CASE d # c /\ open[d] # Carry!Idle /\ open[d].member = m /\ m \notin crossed
    <3>1. c \in Carry!OpenFor(m) /\ d \in Carry!OpenFor(m)
      BY <2>2 DEF Carry!OpenFor, Carry!Open
    <3>2. open[c].source = None <=> open[d].source = None
      BY <1>1, <2>2, <3>1 DEF CarryInv, MemberHolds
    <3>3. ViewHolds(d) /\ open'[d] = open[d]
      BY <1>3, <2>2 DEF CarryInv
    <3> QED
      BY <2>2, <3>2, <3>3 DEF ViewHolds
  <2>3. CASE d # c /\ (open[d] # Carry!Idle /\ open[d].member \notin crossed => open[d].member # m)
    <3>1. ViewHolds(d) /\ open'[d] = open[d] /\ (open[d] # Carry!Idle => open[d].member \in Members)
      BY <1>3, <2>3, OpenIsTyped DEF CarryInv
    <3> QED
      BY <2>3, <3>1 DEF ViewHolds
  <2> QED
    BY <2>1, <2>2, <2>3
<1> QED
  BY <1>2, <1>5, <1>6 DEF CarryInv

LEMMA NextCarry ==
  Carry!ContinuityAssumption /\ CarryInv /\ [Carry!Next]_(Carry!vars) => CarryInv'
<1> SUFFICES ASSUME Carry!ContinuityAssumption, CarryInv, [Carry!Next]_(Carry!vars)
             PROVE  CarryInv'
  OBVIOUS
<1>1. ASSUME NEW c \in Transactions, NEW m \in Members, NEW s \in Sources \union {None},
             Carry!Begin(c, m, s)
      PROVE  CarryInv'
  <2>1. /\ UNCHANGED <<own, carried, audit>> /\ crossed \subseteq crossed'
        /\ open' = [open EXCEPT ![c] = [member |-> m, source |-> s, view |-> Carry!View(m, s)]]
    BY <1>1 DEF Carry!Begin
  <2>2. m \notin crossed' => \A d \in Carry!OpenFor(m) : (open[d].source = None) <=> (s = None)
    BY <1>1 DEF Carry!Begin
  <2> QED
    BY <2>1, <2>2, FreshView
<1>2. ASSUME NEW c \in Transactions, Carry!Rerun(c) PROVE CarryInv'
  <2> DEFINE m == open[c].member
             s == open[c].source
  <2>1. /\ open[c] # Carry!Idle /\ UNCHANGED <<own, carried, audit, crossed>>
        /\ open' = [open EXCEPT ![c].view = Carry!View(m, s)]
    BY <1>2 DEF Carry!Rerun
  <2>2. open[c] \in Transaction /\ m \in Members /\ s \in Sources \union {None}
    BY <2>1, OpenIsTyped
  <2>3. [open[c] EXCEPT !.view = Carry!View(m, s)] = [member |-> m, source |-> s, view |-> Carry!View(m, s)]
    BY <2>2 DEF Transaction
  <2>4. open' = [open EXCEPT ![c] = [member |-> m, source |-> s, view |-> Carry!View(m, s)]]
    BY <2>1, <2>3
  <2>5. m \notin crossed' => \A d \in Carry!OpenFor(m) : (open[d].source = None) <=> (s = None)
    <3>1. c \in Carry!OpenFor(m)
      BY <2>1 DEF Carry!OpenFor, Carry!Open
    <3> QED
      BY <2>1, <2>2, <3>1 DEF CarryInv, MemberHolds
  <2> HIDE DEF m, s
  <2> QED
    BY <2>1, <2>2, <2>4, <2>5, FreshView
<1>3. ASSUME NEW c \in Transactions, Carry!RequestFarm(c) PROVE CarryInv'
  <2> DEFINE m == open[c].member
  <2>1. /\ open[c] # Carry!Idle /\ open[c].source = None /\ open' = [open EXCEPT ![c] = Carry!Idle]
        /\ UNCHANGED <<carried, audit, crossed>>
        /\ IF Carry!MayRequest(c) THEN own' = [own EXCEPT ![m] = "pending"] ELSE UNCHANGED own
    BY <1>3 DEF Carry!RequestFarm, Carry!End
  <2>2. m \in Members /\ MemberHolds(m) /\ ViewHolds(c)
    BY <2>1, OpenIsTyped DEF CarryInv
  <2>3. /\ own' \in [Members -> Owns] /\ carried' \in [Members -> SUBSET Sources]
        /\ audit' \in [Sources -> Members \union {None}]
    BY <2>1, <2>2 DEF CarryInv, CarryTypes, Owns
  <2>4. \A n \in Members : n # m => own'[n] = own[n] /\ carried'[n] = carried[n]
    BY <2>1 DEF CarryInv, CarryTypes
  <2>5. /\ \A n \in Members : carried'[n] = {s \in Sources : audit'[s] = n}
        /\ \A s, t \in carried'[m] : s = t
    BY <2>1, <2>2 DEF CarryInv, MemberHolds
  <2>6. m \notin crossed => carried'[m] = {} \/ own'[m] \notin Carry!Live
    BY <2>1, <2>2 DEF ViewHolds, MemberHolds, Carry!MayRequest
  <2> QED
    BY <2>1, <2>3, <2>4, <2>5, <2>6, Committed
<1>4. ASSUME NEW c \in Transactions, Carry!Migrate(c) PROVE CarryInv'
  <2> DEFINE m == open[c].member
             s == open[c].source
             applies == Carry!Plan(c) /\ Carry!NoConflictingRequest(c) /\ audit[s] = None
  <2>1. /\ open[c] # Carry!Idle /\ s # None /\ open' = [open EXCEPT ![c] = Carry!Idle]
        /\ UNCHANGED <<own, crossed>> /\ ~Carry!Conflict(c)
    BY <1>4 DEF Carry!Migrate, Carry!End
  <2>2. /\ m \in Members /\ s \in Sources /\ MemberHolds(m) /\ ViewHolds(c)
        /\ carried[m] \subseteq Sources
    BY <2>1, OpenIsTyped DEF CarryInv, CarryTypes
  <2>3. CASE UNCHANGED <<carried, audit>>
    <3>1. /\ own' \in [Members -> Owns] /\ carried' \in [Members -> SUBSET Sources]
          /\ audit' \in [Sources -> Members \union {None}]
      BY <2>1, <2>3 DEF CarryInv, CarryTypes
    <3>2. /\ \A n \in Members : carried'[n] = {x \in Sources : audit'[x] = n}
          /\ \A x, y \in carried'[m] : x = y
          /\ m \notin crossed => carried'[m] = {} \/ own'[m] \notin Carry!Live
      BY <2>1, <2>2, <2>3 DEF CarryInv, MemberHolds
    <3>3. \A n \in Members : n # m => own'[n] = own[n] /\ carried'[n] = carried[n]
      BY <2>1, <2>3
    <3> QED
      BY <2>1, <3>1, <3>2, <3>3, Committed
  <2>4. CASE applies /\ carried' = [carried EXCEPT ![m] = @ \union {s}] /\ audit' = [audit EXCEPT ![s] = m]
    <3>1. carried[m] = {} /\ open[c].view.own = "none"
      <4>1. open[c].view.carried = {} /\ open[c].view.own = "none"
        BY <2>4 DEF Carry!NoConflictingRequest
      <4>2. carried[m] = open[c].view.carried
        BY <2>1 DEF Carry!Conflict, Carry!View
      <4> QED
        BY <4>1, <4>2
    <3>2. \A n \in Members : carried'[n] = IF n = m THEN {s} ELSE carried[n]
      BY <2>2, <2>4, <3>1 DEF CarryInv, CarryTypes
    <3>3. \A x \in Sources : audit'[x] = IF x = s THEN m ELSE audit[x]
      BY <2>2, <2>4 DEF CarryInv, CarryTypes
    <3>4. /\ own' \in [Members -> Owns] /\ carried' \in [Members -> SUBSET Sources]
          /\ audit' \in [Sources -> Members \union {None}]
      BY <2>1, <2>2, <2>4 DEF CarryInv, CarryTypes
    <3>5. ASSUME NEW n \in Members PROVE carried'[n] = {x \in Sources : audit'[x] = n}
      <4>1. MemberHolds(n) /\ n # None /\ audit[s] = None
        BY <2>4 DEF CarryInv, Carry!ContinuityAssumption
      <4>2. carried[n] = {x \in Sources : audit[x] = n}
        BY <4>1 DEF MemberHolds
      <4> HIDE DEF m, s, applies
      <4>3. CASE n = m
        BY <2>2, <3>1, <3>2, <3>3, <4>2, <4>3
      <4>4. CASE n # m
        BY <2>2, <3>2, <3>3, <4>1, <4>2, <4>4
      <4> QED
        BY <4>3, <4>4
    <3>6. \A x, y \in carried'[m] : x = y
      BY <2>2, <3>2
    <3>7. m \notin crossed => own'[m] \notin Carry!Live
      BY <2>1, <2>2, <3>1 DEF ViewHolds, Carry!Live
    <3>8. \A n \in Members : n # m => own'[n] = own[n] /\ carried'[n] = carried[n]
      BY <2>1, <3>2
    <3> QED
      BY <2>1, <3>4, <3>5, <3>6, <3>7, <3>8, Committed
  <2> QED
    BY <1>4, <2>3, <2>4 DEF Carry!Migrate
<1>5. ASSUME NEW m \in Members, Carry!Review(m) PROVE CarryInv'
  <2>1. /\ own[m] = "pending" /\ UNCHANGED <<carried, audit, open, crossed>>
        /\ \E s \in {"rejected", "active"} : own' = [own EXCEPT ![m] = s]
    BY <1>5 DEF Carry!Review
  <2>2. /\ own' \in [Members -> Owns] /\ own'[m] \in {"rejected", "active"}
        /\ \A n \in Members : n # m => own'[n] = own[n]
    BY <2>1 DEF CarryInv, CarryTypes, Owns
  <2>3. CarryTypes'
    BY <2>1, <2>2 DEF CarryInv, CarryTypes
  <2>4. ASSUME NEW n \in Members PROVE MemberHolds(n)'
    <3>1. MemberHolds(n) /\ Carry!OpenFor(n)' = Carry!OpenFor(n)
      BY <2>1 DEF CarryInv, Carry!OpenFor, Carry!Open
    <3>2. own'[n] \in Carry!Live => own[n] \in Carry!Live
      BY <2>1, <2>2 DEF Carry!Live
    <3> QED
      BY <2>1, <3>1, <3>2 DEF MemberHolds
  <2>5. ASSUME NEW c \in Transactions PROVE ViewHolds(c)'
    <3>1. ViewHolds(c) /\ (open[c] # Carry!Idle => open[c].member \in Members)
      BY OpenIsTyped DEF CarryInv
    <3>2. \A n \in Members : own[n] = "none" => own'[n] = "none"
      BY <2>1, <2>2
    <3> QED
      BY <2>1, <3>1, <3>2 DEF ViewHolds
  <2> QED
    BY <2>3, <2>4, <2>5 DEF CarryInv
<1>6. CASE UNCHANGED <<own, carried, audit, open, crossed>>
  <2>1. CarryTypes'
    BY <1>6 DEF CarryInv, CarryTypes
  <2>2. \A n \in Members : MemberHolds(n)'
    BY <1>6 DEF CarryInv, MemberHolds, Carry!OpenFor, Carry!Open
  <2>3. \A c \in Transactions : ViewHolds(c)'
    BY <1>6 DEF CarryInv, ViewHolds
  <2> QED
    BY <2>1, <2>2, <2>3 DEF CarryInv
<1> QED
  BY <1>1, <1>2, <1>3, <1>4, <1>5, <1>6 DEF Carry!Next, Carry!Observe, Carry!vars

LEMMA CarryCardinality == \A S : Carry!Cardinality(S) = Cardinality(S)
  BY DEF Carry!Cardinality, Cardinality

LEMMA ContinuityFollows == CarryInv => Carry!ContinuityHolds
<1> SUFFICES ASSUME CarryInv, NEW m \in Members
             PROVE  /\ m \notin crossed => Carry!RequestsOf(m) <= 1
                    /\ Carry!Cardinality(carried[m]) <= 1
                    /\ carried[m] = {s \in Sources : audit[s] = m}
  BY DEF Carry!ContinuityHolds
<1>1. MemberHolds(m)
  BY DEF CarryInv
<1>2. Carry!Cardinality({}) = 0
  BY CarryCardinality, FS_EmptySet
<1>3. ASSUME NEW s \in carried[m] PROVE Carry!Cardinality(carried[m]) = 1
  <2>1. carried[m] = {s}
    BY <1>1, <1>3 DEF MemberHolds
  <2>2. Carry!Cardinality(carried[m]) = Cardinality({s})
    BY <2>1, CarryCardinality
  <2> QED
    BY <2>2, FS_Singleton
<1>4. CASE carried[m] = {}
  BY <1>1, <1>2, <1>4 DEF MemberHolds, Carry!RequestsOf
<1>5. CASE carried[m] # {}
  <2>1. Carry!Cardinality(carried[m]) = 1
    BY <1>3, <1>5
  <2> QED
    BY <1>1, <1>5, <2>1 DEF MemberHolds, Carry!RequestsOf
<1> QED
  BY <1>4, <1>5

(* Whatever requests, migrations, reviews and observations interleave, a   *)
(* member whose request and migration did not overlap has one live farm    *)
(* request, nobody has two carried over, and the audit rows tell exactly   *)
(* what was (migrate_same_physical_world, request_farm).                   *)
THEOREM ContinuityAlwaysHolds ==
  ASSUME Carry!ContinuityAssumption
  PROVE  Carry!Spec => []Carry!ContinuityHolds
<1>1. Carry!Init => CarryInv
  BY InitCarry
<1>2. CarryInv /\ [Carry!Next]_(Carry!vars) => CarryInv'
  BY NextCarry
<1>3. CarryInv => Carry!ContinuityHolds
  BY ContinuityFollows
<1> QED
  BY <1>1, <1>2, <1>3, PTL DEF Carry!Spec

(* The system farm has one mapping, of a farm the game has, and a member   *)
(* one live farm request, with the exceptions of the two theorems above,   *)
(* for any number of handlers, worlds and members (farm_lifecycle.py).     *)
THEOREM FarmRecordsAlwaysAgree ==
  ASSUME System!SystemAssumption, Carry!ContinuityAssumption
  PROVE  System!Spec /\ Carry!Spec => []FarmRecordsAgree
<1>1. System!Spec => []System!MappingHolds
  BY MappingAlwaysHolds
<1>2. Carry!Spec => []Carry!ContinuityHolds
  BY ContinuityAlwaysHolds
<1>3. System!MappingHolds /\ Carry!ContinuityHolds <=> FarmRecordsAgree
  BY DEF FarmRecordsAgree
<1> QED
  BY <1>1, <1>2, <1>3, PTL

-------------------------------------------------------------------------------
(* RuntimePointer                                                          *)

Snapshot == Runtime!Snapshot
Work == [step : {"free", "record", "activate"}, post : Snapshot \union {None}]
RuntimeTypes ==
  /\ runs \in [load : Nat, generation : Nat, sequence : Nat, save : Saves]
  /\ world \in [Saves -> Nat] /\ flight \subseteq Snapshot /\ thread \in [Handlers -> Work]
  /\ pointer \in Snapshot \union {None} /\ snapshots \in [Saves -> Snapshot \union {None}]
  /\ active \in [Saves -> Nat] /\ lapses \in Nat

\* A generation counts the starts of the game, or is missing after a lapse.
Dated(m) == m.load > 0 /\ m.generation \in {0, m.load} /\ (lapses = 0 => m.generation = m.load)

\* s is the newest there is, and its world the active one.
Newest(s) ==
  /\ snapshots[s.save] = s /\ active[s.save] = s.world
  /\ \A k \in Saves : snapshots[k] # None => snapshots[k].load <= s.load

ThreadHolds(t) ==
  /\ thread[t].step = "free" => thread[t] = Runtime!Resting
  /\ thread[t].step # "free" => thread[t].post # None /\ Dated(thread[t].post)
  /\ thread[t].step = "record" => Runtime!Valid(thread[t].post)
  /\ thread[t].step = "activate" =>
       /\ snapshots[thread[t].post.save] = thread[t].post
       /\ lapses = 0 => Runtime!Valid(thread[t].post) /\ Newest(thread[t].post)

\* What holds between the record and the pointer of a post as well.
PointerHolds ==
  pointer # None =>
    /\ Dated(pointer)
    /\ pointer.generation > 0 =>
         snapshots[pointer.save] # None /\ snapshots[pointer.save].load >= pointer.load

Served ==
  lapses = 0 /\ (\A t \in Handlers : thread[t].step # "activate") =>
    IF pointer = None THEN \A s \in Saves : snapshots[s] = None ELSE Newest(pointer)

RuntimeInv ==
  /\ RuntimeTypes /\ PointerHolds /\ Served /\ Dated(runs)
  /\ \A m \in flight : Dated(m)
  /\ \A t \in Handlers : ThreadHolds(t)
  /\ \A t, u \in Handlers : thread[t].step # "free" /\ thread[u].step # "free" => t = u

LEMMA RestingWork == Runtime!Resting \in Work /\ Runtime!Resting.step = "free"
  BY DEF Runtime!Resting, Work

LEMMA InitRuntime == Runtime!Init => RuntimeInv
<1> SUFFICES ASSUME Runtime!Init PROVE RuntimeInv
  OBVIOUS
<1>1. PICK s \in Saves : runs = Runtime!Start(s)
  BY DEF Runtime!Init
<1>2. /\ runs \in [load : Nat, generation : Nat, sequence : Nat, save : Saves]
      /\ runs.load = 1 /\ runs.generation = 1
  BY <1>1 DEF Runtime!Start
<1>3. RuntimeTypes
  BY <1>2, RestingWork DEF Runtime!Init, RuntimeTypes
<1>4. \A t \in Handlers : thread[t] = Runtime!Resting /\ thread[t].step = "free"
  BY RestingWork DEF Runtime!Init
<1> QED
  BY <1>2, <1>3, <1>4 DEF Runtime!Init, RuntimeInv, PointerHolds, Served, Dated, ThreadHolds

\* The game and the mailbox move on.
LEMMA GamePosts ==
  ASSUME RuntimeInv, UNCHANGED <<thread, pointer, snapshots, active>>,
         runs' \in [load : Nat, generation : Nat, sequence : Nat, save : Saves],
         world' \in [Saves -> Nat], flight' \subseteq Snapshot,
         lapses' \in Nat, lapses' = 0 => lapses = 0,
         Dated(runs)', \A m \in flight' \ flight : Dated(m)'
  PROVE  RuntimeInv'
<1>1. RuntimeTypes'
  BY DEF RuntimeInv, RuntimeTypes
<1>2. \A m : Dated(m) => Dated(m)'
  BY DEF Dated
<1>3. PointerHolds' /\ Served'
  <2>1. PointerHolds'
    BY DEF RuntimeInv, PointerHolds, Dated
  <2>2. Served'
    BY DEF RuntimeInv, Served, Newest
  <2> QED
    BY <2>1, <2>2
<1>4. ASSUME NEW t \in Handlers PROVE ThreadHolds(t)'
  <2>1. ThreadHolds(t) /\ thread'[t] = thread[t]
    BY DEF RuntimeInv
  <2>2. (thread[t].step = "record" => Runtime!Valid(thread[t].post))'
    BY <2>1 DEF ThreadHolds, Runtime!Valid, Runtime!NewFormat, Runtime!Legacy
  <2>3. (thread[t].step = "activate" => snapshots[thread[t].post.save] = thread[t].post)'
    BY <2>1 DEF ThreadHolds
  <2>4. (thread[t].step = "activate" /\ lapses = 0 => Runtime!Valid(thread[t].post))'
    BY <2>1 DEF ThreadHolds, Runtime!Valid, Runtime!NewFormat, Runtime!Legacy
  <2>5. (thread[t].step = "activate" /\ lapses = 0 => Newest(thread[t].post))'
    BY <2>1 DEF ThreadHolds, Newest
  <2>6. /\ (thread[t].step = "free" => thread[t] = Runtime!Resting)'
        /\ (thread[t].step # "free" => thread[t].post # None /\ Dated(thread[t].post))'
    BY <2>1 DEF ThreadHolds, Dated, Runtime!Resting
  <2> QED
    BY <2>2, <2>3, <2>4, <2>5, <2>6 DEF ThreadHolds
<1>5. \A m \in flight' : Dated(m)'
  BY <1>2 DEF RuntimeInv
<1> QED
  BY <1>1, <1>3, <1>4, <1>5 DEF RuntimeInv

\* A thread goes on while the game and the mailbox do not.
LEMMA OneThreadMoves ==
  ASSUME RuntimeInv, NEW t \in Handlers, NEW w \in Work, thread' = [thread EXCEPT ![t] = w],
         UNCHANGED <<runs, world>>, flight' \subseteq flight,
         \A u \in Handlers \ {t} : thread[u].step = "free",
         pointer' \in Snapshot \union {None}, snapshots' \in [Saves -> Snapshot \union {None}],
         active' \in [Saves -> Nat], lapses' \in Nat, lapses' = 0 => lapses = 0,
         PointerHolds', Served', ThreadHolds(t)'
  PROVE  RuntimeInv'
<1>1. RuntimeTypes'
  BY DEF RuntimeInv, RuntimeTypes
<1>2. \A m : Dated(m) => Dated(m)'
  BY DEF Dated
<1>3. \A u \in Handlers : thread'[u] = IF u = t THEN w ELSE thread[u]
  BY DEF RuntimeInv, RuntimeTypes
<1>4. ASSUME NEW u \in Handlers, u # t PROVE ThreadHolds(u)'
  BY <1>3, <1>4 DEF RuntimeInv, ThreadHolds
<1>5. \A m \in flight' : Dated(m)'
  BY <1>2 DEF RuntimeInv
<1>6. Dated(runs)'
  BY <1>2 DEF RuntimeInv
<1> QED
  BY <1>1, <1>3, <1>4, <1>5, <1>6 DEF RuntimeInv

\* What is let in is not older than a pointer that knows its generation.
LEMMA ValidIsNewer ==
  ASSUME RuntimeInv, NEW m \in Snapshot, Dated(m), Runtime!Valid(m), pointer # None
  PROVE  /\ pointer.generation > 0 => m.load >= pointer.load
         /\ lapses = 0 => pointer.generation > 0
<1>1. /\ pointer \in Snapshot /\ Dated(pointer)
      /\ pointer.load \in Nat /\ pointer.generation \in Nat /\ m.load \in Nat /\ m.generation \in Nat
  BY DEF RuntimeInv, RuntimeTypes, PointerHolds, Snapshot, Runtime!Snapshot
<1> QED
  BY <1>1 DEF Dated, Runtime!Valid, Runtime!NewFormat, Runtime!Legacy

LEMMA NextRuntime ==
  Runtime!RuntimeAssumption /\ RuntimeInv /\ [Runtime!Next]_(Runtime!runtimeVars) => RuntimeInv'
<1> SUFFICES ASSUME Runtime!RuntimeAssumption, RuntimeInv, [Runtime!Next]_(Runtime!runtimeVars)
             PROVE  RuntimeInv'
  OBVIOUS
<1>1. /\ runs.load \in Nat /\ runs.load > 0 /\ runs.generation \in Nat /\ lapses \in Nat
      /\ runs.sequence \in Nat /\ runs.save \in Saves
      /\ runs \in [load : Nat, generation : Nat, sequence : Nat, save : Saves]
  BY DEF RuntimeInv, RuntimeTypes, Dated
<1>2. ASSUME NEW s \in Saves, NEW unreadable \in BOOLEAN, NEW replaced \in BOOLEAN,
             Runtime!Load(s, unreadable, replaced)
      PROVE  RuntimeInv'
  <2>1. /\ runs' \in [load : Nat, generation : Nat, sequence : Nat, save : Saves]
        /\ runs'.load = runs.load + 1 /\ runs'.generation = IF unreadable THEN 0 ELSE runs.load + 1
    BY <1>1, <1>2 DEF Runtime!Load
  <2>2. lapses' \in Nat /\ (lapses' = 0 => lapses = 0 /\ ~unreadable)
    BY <1>1, <1>2 DEF Runtime!Load
  <2>3. Dated(runs)'
    BY <1>1, <2>1, <2>2 DEF Dated
  <2>4. world' \in [Saves -> Nat]
    BY <1>1, <1>2 DEF Runtime!Load, RuntimeInv, RuntimeTypes
  <2>5. UNCHANGED <<flight, thread, pointer, snapshots, active>> /\ flight' \subseteq Snapshot
    BY <1>2 DEF Runtime!Load, RuntimeInv, RuntimeTypes
  <2> QED
    BY <2>1, <2>2, <2>3, <2>4, <2>5, GamePosts
<1>3. CASE Runtime!ExportSnapshot
  <2>1. /\ runs' = [runs EXCEPT !.sequence = @ + 1]
        /\ UNCHANGED <<world, flight, thread, pointer, snapshots, active, lapses>>
    BY <1>3 DEF Runtime!ExportSnapshot
  <2>2. Dated(runs)' /\ runs' \in [load : Nat, generation : Nat, sequence : Nat, save : Saves]
    BY <1>1, <2>1 DEF RuntimeInv, Dated
  <2> QED
    BY <2>1, <2>2, GamePosts DEF RuntimeInv, RuntimeTypes
<1>4. CASE Runtime!Post
  <2> DEFINE m == [load |-> runs.load, generation |-> runs.generation, sequence |-> runs.sequence,
                   save |-> runs.save, world |-> world[runs.save]]
  <2>1. /\ flight' = flight \union {m}
        /\ UNCHANGED <<runs, world, thread, pointer, snapshots, active, lapses>>
    BY <1>4 DEF Runtime!Post
  <2>2. m \in Snapshot /\ m.load = runs.load /\ m.generation = runs.generation
    BY <1>1 DEF RuntimeInv, RuntimeTypes, Snapshot, Runtime!Snapshot
  <2> HIDE DEF m
  <2>3. Dated(runs)' /\ \A n \in flight' \ flight : Dated(n)'
    BY <2>1, <2>2 DEF RuntimeInv, Dated
  <2>4. flight' \subseteq Snapshot
    BY <2>1, <2>2 DEF RuntimeInv, RuntimeTypes
  <2> QED
    BY <1>1, <2>1, <2>3, <2>4, GamePosts DEF RuntimeInv, RuntimeTypes
<1>5. ASSUME NEW t \in Handlers, NEW m \in flight, Runtime!Take(t, m) PROVE RuntimeInv'
  <2>1. /\ m \in Snapshot /\ Dated(m) /\ m # None
        /\ \A u \in Handlers : thread[u].step = "free"
        /\ UNCHANGED <<runs, world, pointer, snapshots, active, lapses>> /\ flight' \subseteq flight
    BY <1>5 DEF Runtime!Take, Runtime!Locked, RuntimeInv, RuntimeTypes, Runtime!RuntimeAssumption, Snapshot
  <2>2. CASE Runtime!Valid(m)
    <3> DEFINE w == [step |-> "record", post |-> m]
    <3>1. w \in Work /\ w.step = "record" /\ w.post = m
      BY <2>1 DEF Work
    <3>2. thread' = [thread EXCEPT ![t] = w]
      BY <1>5, <2>2 DEF Runtime!Take
    <3> HIDE DEF w
    <3>3. thread'[t] = w
      BY <3>2 DEF RuntimeInv, RuntimeTypes
    <3>4. (Dated(thread[t].post) /\ Runtime!Valid(thread[t].post))'
      BY <2>1, <2>2, <3>1, <3>3 DEF Dated, Runtime!Valid, Runtime!NewFormat, Runtime!Legacy
    <3>5. ThreadHolds(t)'
      BY <2>1, <3>1, <3>3, <3>4 DEF ThreadHolds
    <3>6. PointerHolds'
      BY <2>1 DEF RuntimeInv, PointerHolds, Dated
    <3>7. Served'
      BY <2>1 DEF RuntimeInv, Served, Newest
    <3> QED
      BY <2>1, <3>1, <3>2, <3>5, <3>6, <3>7, OneThreadMoves DEF RuntimeInv, RuntimeTypes
  <2>3. CASE ~ Runtime!Valid(m)
    <3>1. UNCHANGED thread /\ Dated(runs)' /\ flight' \ flight = {} /\ flight' \subseteq Snapshot
      BY <1>5, <2>1, <2>3 DEF Runtime!Take, RuntimeInv, RuntimeTypes, Dated
    <3> QED
      BY <1>1, <2>1, <3>1, GamePosts DEF RuntimeInv, RuntimeTypes
  <2> QED
    BY <2>2, <2>3
<1>6. ASSUME NEW t \in Handlers, thread[t].step # "free"
      PROVE  /\ thread[t] \in Work /\ thread[t].post \in Snapshot /\ Dated(thread[t].post)
             /\ \A u \in Handlers \ {t} : thread[u].step = "free"
  BY <1>6 DEF RuntimeInv, RuntimeTypes, ThreadHolds, Work
<1>7. ASSUME NEW t \in Handlers, Runtime!Record(t) PROVE RuntimeInv'
  <2> DEFINE m == thread[t].post
             w == [step |-> "activate", post |-> m]
  <2>1. /\ thread[t].step = "record" /\ thread' = [thread EXCEPT ![t].step = "activate"]
        /\ snapshots' = [snapshots EXCEPT ![m.save] = m] /\ active' = [active EXCEPT ![m.save] = m.world]
        /\ UNCHANGED <<runs, world, flight, pointer, lapses>>
    BY <1>7 DEF Runtime!Record
  <2>2. /\ m \in Snapshot /\ m # None /\ Dated(m) /\ Runtime!Valid(m) /\ thread[t] \in Work
        /\ \A u \in Handlers \ {t} : thread[u].step = "free"
    BY <1>6, <2>1 DEF RuntimeInv, ThreadHolds
  <2>3. w \in Work /\ thread' = [thread EXCEPT ![t] = w]
    <3>1. [thread[t] EXCEPT !.step = "activate"] = w
      BY <2>2 DEF Work
    <3>2. w \in Work
      BY <2>2 DEF Work
    <3> QED
      BY <2>1, <3>1, <3>2
  <2>4. thread'[t].step = "activate" /\ thread'[t].post = m
    BY <2>3 DEF RuntimeInv, RuntimeTypes
  <2>5. /\ m.save \in Saves /\ m.world \in Nat /\ m.load \in Nat
        /\ \A k \in Saves : snapshots'[k] = IF k = m.save THEN m ELSE snapshots[k]
        /\ active'[m.save] = m.world
    BY <2>1, <2>2 DEF Snapshot, Runtime!Snapshot, RuntimeInv, RuntimeTypes
  <2>6. snapshots' \in [Saves -> Snapshot \union {None}] /\ active' \in [Saves -> Nat]
    BY <2>1, <2>2, <2>5 DEF RuntimeInv, RuntimeTypes
  <2> HIDE DEF m, w
  <2>7. PointerHolds'
    <3>1. CASE pointer = None
      BY <2>1, <3>1 DEF PointerHolds
    <3>2. CASE pointer # None
      <4>1. pointer.save \in Saves /\ Dated(pointer)
        BY <3>2 DEF RuntimeInv, RuntimeTypes, Snapshot, Runtime!Snapshot, PointerHolds
      <4>2. pointer.generation > 0 => m.load >= pointer.load
        BY <2>2, <3>2, ValidIsNewer
      <4> QED
        BY <2>1, <2>2, <2>5, <3>2, <4>1, <4>2 DEF RuntimeInv, PointerHolds, Dated
    <3> QED
      BY <3>1, <3>2
  <2>8. lapses = 0 => \A k \in Saves : snapshots[k] # None => snapshots[k].load <= m.load
    <3> SUFFICES ASSUME lapses = 0, NEW k \in Saves, snapshots[k] # None PROVE snapshots[k].load <= m.load
      OBVIOUS
    <3>1. \A u \in Handlers : thread[u].step # "activate"
      BY <2>1, <2>2
    <3>2. pointer # None /\ snapshots[k].load <= pointer.load
      BY <3>1 DEF RuntimeInv, Served, Newest
    <3>3. m.load >= pointer.load
      BY <2>2, <3>2, ValidIsNewer
    <3>4. snapshots[k].load \in Nat /\ pointer.load \in Nat
      BY <3>2 DEF RuntimeInv, RuntimeTypes, Snapshot, Runtime!Snapshot
    <3> QED
      BY <2>5, <3>2, <3>3, <3>4
  <2>9. ThreadHolds(t)'
    <3>1. (Dated(thread[t].post) /\ Runtime!Valid(thread[t].post))'
      BY <2>1, <2>2, <2>4 DEF Dated, Runtime!Valid, Runtime!NewFormat, Runtime!Legacy
    <3>2. (lapses = 0 => Newest(thread[t].post))'
      BY <2>1, <2>4, <2>5, <2>8 DEF Newest
    <3> QED
      BY <2>2, <2>4, <2>5, <3>1, <3>2 DEF ThreadHolds
  <2>10. Served'
    BY <2>4 DEF Served
  <2> QED
    BY <2>1, <2>2, <2>3, <2>6, <2>7, <2>9, <2>10, OneThreadMoves DEF RuntimeInv, RuntimeTypes
<1>8. ASSUME NEW t \in Handlers, Runtime!ActivateRuntime(t) PROVE RuntimeInv'
  <2> DEFINE m == thread[t].post
  <2>1. /\ thread[t].step = "activate" /\ thread' = [thread EXCEPT ![t] = Runtime!Resting]
        /\ pointer' = IF Runtime!Valid(m) THEN m ELSE pointer
        /\ UNCHANGED <<runs, world, flight, snapshots, active, lapses>>
    BY <1>8 DEF Runtime!ActivateRuntime
  <2>2. /\ m \in Snapshot /\ m # None /\ Dated(m) /\ snapshots[m.save] = m
        /\ \A u \in Handlers \ {t} : thread[u].step = "free"
        /\ lapses = 0 => Runtime!Valid(m) /\ Newest(m)
    BY <1>6, <2>1 DEF RuntimeInv, ThreadHolds
  <2>3. thread'[t] = Runtime!Resting
    BY <2>1 DEF RuntimeInv, RuntimeTypes
  <2>4. m.load \in Nat
    BY <2>2 DEF Snapshot, Runtime!Snapshot
  <2> HIDE DEF m
  <2>5. PointerHolds'
    BY <2>1, <2>2, <2>4 DEF RuntimeInv, PointerHolds, Dated
  <2>6. Served'
    BY <2>1, <2>2 DEF Served, Newest
  <2>7. ThreadHolds(t)'
    BY <2>3, RestingWork DEF ThreadHolds
  <2> QED
    BY <2>1, <2>2, <2>5, <2>6, <2>7, RestingWork, OneThreadMoves DEF RuntimeInv, RuntimeTypes
<1>9. ASSUME NEW t \in Handlers, Runtime!Fail(t) PROVE RuntimeInv'
  <2>1. /\ thread[t] # Runtime!Resting /\ thread' = [thread EXCEPT ![t] = Runtime!Resting]
        /\ lapses' \in Nat /\ lapses' # 0
        /\ UNCHANGED <<runs, world, flight, pointer, snapshots, active>>
    BY <1>1, <1>9 DEF Runtime!Fail
  <2>2. \A u \in Handlers \ {t} : thread[u].step = "free"
    BY <1>6, <2>1 DEF RuntimeInv, ThreadHolds
  <2>3. thread'[t] = Runtime!Resting
    BY <2>1 DEF RuntimeInv, RuntimeTypes
  <2>4. PointerHolds' /\ Served'
    BY <2>1 DEF RuntimeInv, PointerHolds, Dated, Served
  <2>5. ThreadHolds(t)'
    BY <2>3, RestingWork DEF ThreadHolds
  <2> QED
    BY <2>1, <2>2, <2>4, <2>5, RestingWork, OneThreadMoves DEF RuntimeInv, RuntimeTypes
<1>10. CASE UNCHANGED Runtime!runtimeVars
  <2>1. /\ UNCHANGED <<runs, world, flight, thread, pointer, snapshots, active, lapses>>
        /\ flight' \ flight = {}
    BY <1>10 DEF Runtime!runtimeVars
  <2>2. Dated(runs)'
    BY <2>1 DEF RuntimeInv, Dated
  <2> QED
    BY <1>1, <2>1, <2>2, GamePosts DEF RuntimeInv, RuntimeTypes
<1> QED
  BY <1>2, <1>3, <1>4, <1>5, <1>7, <1>8, <1>9, <1>10 DEF Runtime!Next

(* Whatever restarts of the game, delayed snapshots and threads interleave,*)
(* the runtime served, its snapshot and its world are those of one post    *)
(* between requests, and after a lapse what is stored is at least as new   *)
(* as the pointer (do_snapshot, activate_runtime, record_snapshot).        *)
THEOREM OneRuntimeAlwaysServed ==
  ASSUME Runtime!RuntimeAssumption
  PROVE  Runtime!Spec => []OneRuntimeServed
<1>1. Runtime!Init => RuntimeInv
  BY InitRuntime
<1>2. RuntimeInv /\ [Runtime!Next]_(Runtime!runtimeVars) => RuntimeInv'
  BY NextRuntime
<1>3. RuntimeInv => OneRuntimeServed
  <2> SUFFICES ASSUME RuntimeInv, pointer # None PROVE OneRuntimeServed
    BY DEF OneRuntimeServed, Runtime!OneRuntimeServed
  <2>1. (\A t \in Handlers : thread[t] = Runtime!Resting) => \A t \in Handlers : thread[t].step # "activate"
    BY RestingWork
  <2> QED
    BY <2>1 DEF RuntimeInv, PointerHolds, Served, Newest, OneRuntimeServed, Runtime!OneRuntimeServed
<1> QED
  BY <1>1, <1>2, <1>3, PTL DEF Runtime!Spec

-------------------------------------------------------------------------------
(* ChatBridge                                                              *)

Statuses == {"none", "applied", "pending_validation"}
Handed == [step : {"idle", "operation", "record", "answer"}, of : SUBSET Messages, status : Statuses]
ChatTypes ==
  /\ record \in [Messages -> {"none", "pending", "delivered", "not_delivered"}]
  /\ operation \in [Messages -> {"none", "pending", "dispatched", "succeeded",
                                 "reconciliation_required", "world_superseded"}]
  /\ receipt \in [Messages -> Statuses] /\ spoken \in [Messages -> Nat]
  /\ command \subseteq Messages /\ post \in [Posts -> Handed] /\ current \in BOOLEAN
  /\ \A p \in Posts : \A m, n \in post[p].of : m = n

\* Nothing will be dispatched for m again.
Done(m) == operation[m] \in {"succeeded", "reconciliation_required", "world_superseded"} \/ ~current

\* What is reported as broadcast was broadcast.
Heard(m) ==
  /\ record[m] = "delivered" \/ receipt[m] = "applied" => spoken[m] > 0
  /\ \A p \in Posts : m \in post[p].of /\ post[p].status = "applied" => spoken[m] > 0

\* A message has one receipt: it is posted, and posted again, with one status,
\* and is removed only when no command can follow.
Handled(m) ==
  /\ receipt[m] # "none" \/ operation[m] = "succeeded" => m \notin command
  /\ operation[m] = "succeeded" => receipt[m] \in {"none", "applied"}
  /\ \A p \in Posts : m \in post[p].of =>
       /\ m \notin command
       /\ receipt[m] = "none" \/ post[p].step # "operation" => Done(m)
       /\ receipt[m] # "none" => post[p].status = receipt[m]
       /\ operation[m] = "succeeded" => post[p].status = "applied"
       /\ \A q \in Posts : m \in post[q].of => post[q].status = post[p].status

\* Whoever closed the operation still has the record to close.
Recorded(m) ==
  operation[m] = "succeeded" =>
    \/ record[m] = "delivered" \/ "half_closed" \in mishaps[2]
    \/ \E p \in Posts : m \in post[p].of /\ post[p].step = "record"

SpokenOnce(m) ==
  "unsaved" \notin mishaps[2] =>
    /\ spoken[m] <= 1 /\ (m \in command => spoken[m] = 0)
    /\ spoken[m] > 0 => receipt[m] # "none" \/ Done(m)

MessageHolds(m) == Heard(m) /\ Handled(m) /\ Recorded(m) /\ SpokenOnce(m)
ChatInv == ChatTypes /\ \A m \in Messages : MessageHolds(m)

LEMMA QuietPost == Chat!Quiet \in Handed /\ Chat!Quiet.of = {} /\ Chat!Quiet.step = "idle"
  BY DEF Chat!Quiet, Handed, Statuses

LEMMA InitChat == Chat!Init => ChatInv
<1> SUFFICES ASSUME Chat!Init PROVE ChatInv
  OBVIOUS
<1>1. ChatTypes
  BY QuietPost DEF Chat!Init, ChatTypes, Statuses
<1>2. ASSUME NEW m \in Messages PROVE MessageHolds(m)
  <2>1. \A p \in Posts : m \notin post[p].of
    BY QuietPost DEF Chat!Init
  <2> QED
    BY <2>1 DEF Chat!Init, MessageHolds, Heard, Handled, Recorded, SpokenOnce
<1> QED
  BY <1>1, <1>2 DEF ChatInv

\* A step that says and removes nothing of message n.
LEMMA Untouched ==
  ASSUME ChatTypes, NEW n \in Messages, MessageHolds(n),
         receipt'[n] = receipt[n], spoken'[n] = spoken[n],
         record'[n] = "delivered" <=> record[n] = "delivered",
         operation'[n] = "succeeded" <=> operation[n] = "succeeded",
         Done(n) => Done(n)', n \in command' => n \in command, mishaps[2] \subseteq mishaps'[2],
         \A p \in Posts : n \in post'[p].of => post'[p] = post[p],
         \A p \in Posts : n \in post[p].of /\ post[p].step = "record" =>
                            post'[p] = post[p] \/ "half_closed" \in mishaps'[2]
  PROVE  MessageHolds(n)'
<1>1. Heard(n)'
  BY DEF MessageHolds, Heard
<1>2. Handled(n)'
  BY DEF MessageHolds, Handled
<1>3. Recorded(n)'
  BY DEF MessageHolds, Recorded
<1>4. SpokenOnce(n)'
  BY DEF MessageHolds, SpokenOnce
<1> QED
  BY <1>1, <1>2, <1>3, <1>4 DEF MessageHolds

\* The posts are those there were, except p, which is moved or dropped.
LEMMA OnePostMoves ==
  ASSUME ChatTypes, NEW p \in Posts, NEW h \in Handed, post' = [post EXCEPT ![p] = h],
         \A m, n \in h.of : m = n
  PROVE  /\ post' \in [Posts -> Handed] /\ \A q \in Posts : post'[q] = IF q = p THEN h ELSE post[q]
         /\ \A q \in Posts : \A m, n \in post'[q].of : m = n
  BY DEF ChatTypes

LEMMA NextChat == ChatInv /\ [Chat!Next]_(Chat!chatVars) => ChatInv'
<1> SUFFICES ASSUME ChatInv, [Chat!Next]_(Chat!chatVars) PROVE ChatInv'
  OBVIOUS
<1> USE DEF ChatInv
<1>1. ASSUME NEW m \in Messages, Chat!QueueRecord(m) PROVE ChatInv'
  <2>1. ChatTypes'
    BY <1>1 DEF Chat!QueueRecord, ChatTypes
  <2>2. \A n \in Messages : record'[n] = "delivered" <=> record[n] = "delivered"
    BY <1>1 DEF Chat!QueueRecord, ChatTypes
  <2> QED
    BY <1>1, <2>1, <2>2, Untouched DEF Chat!QueueRecord, Done
<1>2. ASSUME NEW m \in Messages, Chat!QueueOperation(m) PROVE ChatInv'
  <2>1. ChatTypes'
    BY <1>2 DEF Chat!QueueOperation, ChatTypes
  <2>2. \A n \in Messages : (operation'[n] = "succeeded" <=> operation[n] = "succeeded") /\ (Done(n) => Done(n)')
    BY <1>2 DEF Chat!QueueOperation, ChatTypes, Done
  <2> QED
    BY <1>2, <2>1, <2>2, Untouched DEF Chat!QueueOperation
<1>3. ASSUME UNCHANGED <<record, operation, receipt, spoken, post, current>>, command' \subseteq command,
             mishaps[2] \subseteq mishaps'[2]
      PROVE  ChatInv'
  <2>1. ChatTypes'
    BY <1>3 DEF ChatTypes
  <2>2. \A n \in Messages : Done(n) => Done(n)'
    BY <1>3 DEF Done
  <2> QED
    BY <1>3, <2>1, <2>2, Untouched
<1>4. ASSUME NEW m \in Messages, Chat!Deliver(m) PROVE ChatInv'
  <2>1. /\ current /\ operation[m] \in {"pending", "dispatched"} /\ receipt[m] = "none"
        /\ operation' = [operation EXCEPT ![m] = "dispatched"] /\ command' = command \union {m}
        /\ UNCHANGED <<record, receipt, spoken, post, current, mishaps>>
    BY <1>4 DEF Chat!Deliver, Chat!Unanswered
  <2>2. ChatTypes'
    BY <2>1 DEF ChatTypes
  <2>3. \A n \in Messages : operation'[n] = IF n = m THEN "dispatched" ELSE operation[n]
    BY <2>1 DEF ChatTypes
  <2>4. ~Done(m) /\ ~Done(m)' /\ operation[m] # "succeeded" /\ operation'[m] = "dispatched"
    BY <2>1, <2>3 DEF Done
  <2>5. \A p \in Posts : m \notin post[p].of
    BY <2>1, <2>4 DEF MessageHolds, Handled
  <2>6. Heard(m)' /\ Recorded(m)'
    BY <2>1, <2>4 DEF MessageHolds, Heard, Recorded
  <2>7. Handled(m)'
    BY <2>1, <2>4, <2>5 DEF MessageHolds, Handled
  <2>8. SpokenOnce(m)'
    BY <2>1, <2>4 DEF MessageHolds, SpokenOnce, ChatTypes
  <2>9. ASSUME NEW n \in Messages, n # m PROVE MessageHolds(n)'
    BY <2>1, <2>3, <2>9, Untouched DEF Done
  <2> QED
    BY <2>2, <2>6, <2>7, <2>8, <2>9 DEF MessageHolds
<1>5. ASSUME NEW m \in Messages, NEW said \in {"applied", "pending_validation"}, Chat!Broadcast(m, said)
      PROVE  ChatInv'
  <2>1. /\ current /\ m \in command /\ receipt[m] = "none" /\ command' = command \ {m}
        /\ receipt' = [receipt EXCEPT ![m] = said]
        /\ spoken' = IF said = "applied" THEN [spoken EXCEPT ![m] = @ + 1] ELSE spoken
        /\ UNCHANGED <<record, operation, post, current, mishaps>>
    BY <1>5 DEF Chat!Broadcast
  <2>2. ChatTypes'
    BY <2>1 DEF ChatTypes, Statuses
  <2>3. \A n \in Messages : receipt'[n] = IF n = m THEN said ELSE receipt[n]
    BY <2>1 DEF ChatTypes
  <2>4. \A n \in Messages : spoken'[n] = IF n = m /\ said = "applied" THEN spoken[m] + 1 ELSE spoken[n]
    BY <2>1 DEF ChatTypes
  <2>5. MessageHolds(m) /\ spoken[m] \in Nat
    BY DEF ChatTypes
  <2>6. operation[m] # "succeeded" /\ \A p \in Posts : m \notin post[p].of
    BY <2>1, <2>5 DEF MessageHolds, Handled
  <2>7. Heard(m)'
    BY <2>1, <2>3, <2>4, <2>5, <2>6 DEF MessageHolds, Heard
  <2>8. Handled(m)' /\ Recorded(m)'
    BY <2>1, <2>3, <2>6 DEF Handled, Recorded
  <2>9. SpokenOnce(m)'
    BY <2>1, <2>3, <2>4, <2>5 DEF MessageHolds, SpokenOnce
  <2>10. ASSUME NEW n \in Messages, n # m PROVE MessageHolds(n)'
    BY <2>1, <2>3, <2>4, <2>10, Untouched DEF Done
  <2> QED
    BY <2>2, <2>7, <2>8, <2>9, <2>10 DEF MessageHolds
<1>6. ASSUME NEW m \in Messages, Chat!BroadcastUnsaved(m) PROVE ChatInv'
  <2>1. /\ m \in command /\ spoken' = [spoken EXCEPT ![m] = @ + 1]
        /\ mishaps' = <<mishaps[1] + 1, mishaps[2] \union {"unsaved"}>>
        /\ UNCHANGED <<record, operation, command, receipt, post, current>>
    BY <1>6 DEF Chat!BroadcastUnsaved, Chat!Mishap
  <2>2. ChatTypes'
    BY <2>1 DEF ChatTypes
  <2>3. mishaps[2] \subseteq mishaps'[2] /\ "unsaved" \in mishaps'[2]
    BY <2>1
  <2>4. \A n \in Messages : spoken'[n] = IF n = m THEN spoken[m] + 1 ELSE spoken[n]
    BY <2>1 DEF ChatTypes
  <2>5. MessageHolds(m) /\ spoken[m] \in Nat
    BY DEF ChatTypes
  <2>6. Heard(m)' /\ SpokenOnce(m)'
    BY <2>1, <2>3, <2>4, <2>5 DEF MessageHolds, Heard, SpokenOnce
  <2>7. Handled(m)' /\ Recorded(m)'
    BY <2>1, <2>3, <2>5 DEF MessageHolds, Handled, Recorded, Done
  <2>8. ASSUME NEW n \in Messages, n # m PROVE MessageHolds(n)'
    BY <2>1, <2>3, <2>4, <2>8, Untouched DEF Done
  <2> QED
    BY <2>2, <2>6, <2>7, <2>8 DEF MessageHolds
<1>7. ASSUME NEW p \in Posts, NEW m \in Messages, Chat!PostReceipt(p, m) PROVE ChatInv'
  <2> DEFINE h == [step |-> "operation", of |-> {m}, status |-> receipt[m]]
  <2>1. /\ post[p] = Chat!Quiet /\ receipt[m] # "none" /\ post' = [post EXCEPT ![p] = h]
        /\ UNCHANGED <<record, operation, command, receipt, spoken, current, mishaps>>
    BY <1>7 DEF Chat!PostReceipt
  <2>2. h \in Handed /\ h.of = {m} /\ h.status = receipt[m] /\ h.step = "operation"
    BY DEF Handed, ChatTypes
  <2> HIDE DEF h
  <2>3. /\ post' \in [Posts -> Handed] /\ \A q \in Posts : post'[q] = IF q = p THEN h ELSE post[q]
        /\ \A q \in Posts : \A x, y \in post'[q].of : x = y
    BY <2>1, <2>2, OnePostMoves
  <2>4. ChatTypes'
    BY <2>1, <2>3 DEF ChatTypes
  <2>5. post[p].of = {} /\ MessageHolds(m)
    BY <2>1, QuietPost
  <2>6. Heard(m)' /\ SpokenOnce(m)'
    BY <2>1, <2>2, <2>3, <2>5 DEF MessageHolds, Heard, SpokenOnce, Done
  <2>7. Handled(m)'
    BY <2>1, <2>2, <2>3, <2>5 DEF MessageHolds, Handled, Done
  <2>8. Recorded(m)'
    BY <2>1, <2>2, <2>3, <2>5 DEF MessageHolds, Recorded
  <2>9. ASSUME NEW n \in Messages, n # m PROVE MessageHolds(n)'
    BY <2>1, <2>2, <2>3, <2>5, <2>9, Untouched DEF Done
  <2> QED
    BY <2>4, <2>6, <2>7, <2>8, <2>9 DEF MessageHolds
<1>8. ASSUME NEW p \in Posts, Chat!Close(p) PROVE ChatInv'
  <2>1. PICK m \in post[p].of :
          IF ~current \/ Chat!Final(m, post[p].status)
          THEN post' = [post EXCEPT ![p].step = "answer"] /\ UNCHANGED operation
          ELSE /\ operation' = [operation EXCEPT ![m] = Chat!State(post[p].status)]
               /\ post' = [post EXCEPT ![p].step = "record"]
    BY <1>8 DEF Chat!Close
  <2>2. /\ post[p].step = "operation" /\ UNCHANGED <<record, command, receipt, spoken, current, mishaps>>
        /\ post[p] \in Handed /\ m \in Messages /\ MessageHolds(m) /\ \A n \in post[p].of : n = m
    BY <1>8 DEF Chat!Close, ChatTypes, Handed
  <2> DEFINE s == IF ~current \/ Chat!Final(m, post[p].status) THEN "answer" ELSE "record"
             h == [post[p] EXCEPT !.step = s]
  <2>3. h \in Handed /\ h.of = post[p].of /\ h.status = post[p].status /\ h.step = s
    BY <2>2 DEF Handed
  <2>4. post' = [post EXCEPT ![p] = h]
    BY <2>1
  <2>5. /\ operation[m] = "succeeded" => operation'[m] = "succeeded"
        /\ operation'[m] = "succeeded" => operation[m] = "succeeded" \/ (post[p].status = "applied" /\ s = "record")
        /\ Done(m)'
        /\ \A n \in Messages : n # m => operation'[n] = operation[n]
    BY <2>1, <2>2 DEF ChatTypes, Chat!Final, Chat!State, Done
  <2>6. operation' \in [Messages -> {"none", "pending", "dispatched", "succeeded",
                                    "reconciliation_required", "world_superseded"}]
    BY <2>1, <2>2 DEF ChatTypes, Chat!State
  <2>7. s \in {"answer", "record"}
    OBVIOUS
  <2> HIDE DEF s, h
  <2>8. /\ post' \in [Posts -> Handed] /\ \A q \in Posts : post'[q] = IF q = p THEN h ELSE post[q]
        /\ \A q \in Posts : \A x, y \in post'[q].of : x = y
    BY <2>2, <2>3, <2>4, OnePostMoves
  <2>9. ChatTypes'
    BY <2>2, <2>6, <2>8 DEF ChatTypes
  <2>10. \A q \in Posts : post'[q].of = post[q].of /\ post'[q].status = post[q].status
    BY <2>3, <2>8
  <2>11. Heard(m)' /\ SpokenOnce(m)'
    BY <2>2, <2>5, <2>10 DEF MessageHolds, Heard, SpokenOnce
  <2>12. Handled(m)'
    BY <2>2, <2>5, <2>10 DEF MessageHolds, Handled
  <2>13. Recorded(m)'
    BY <2>2, <2>3, <2>5, <2>8, <2>10 DEF MessageHolds, Recorded
  <2>14. ASSUME NEW n \in Messages, n # m PROVE MessageHolds(n)'
    <3>1. n \notin post[p].of
      BY <2>2, <2>14
    <3>2. \A q \in Posts : n \in post'[q].of \/ n \in post[q].of => post'[q] = post[q]
      BY <2>3, <2>8, <3>1
    <3>3. operation'[n] = operation[n] /\ (Done(n) => Done(n)')
      BY <2>2, <2>5, <2>14 DEF Done
    <3> QED
      BY <2>2, <3>2, <3>3, Untouched
  <2> QED
    BY <2>9, <2>11, <2>12, <2>13, <2>14 DEF MessageHolds
<1>9. ASSUME NEW p \in Posts, Chat!CloseRecord(p) PROVE ChatInv'
  <2> DEFINE h == [post[p] EXCEPT !.step = "answer"]
  <2>1. /\ post[p].step = "record" /\ post' = [post EXCEPT ![p] = h]
        /\ record' = [m \in Messages |->
             IF m \notin post[p].of THEN record[m]
             ELSE IF post[p].status = "applied" THEN "delivered" ELSE "not_delivered"]
        /\ UNCHANGED <<operation, command, receipt, spoken, current, mishaps>>
    BY <1>9 DEF Chat!CloseRecord
  <2>2. h \in Handed /\ h.of = post[p].of /\ h.status = post[p].status /\ h.step = "answer"
    BY DEF ChatTypes, Handed
  <2>3. \A x, y \in h.of : x = y
    BY <2>2 DEF ChatTypes
  <2> HIDE DEF h
  <2>4. /\ post' \in [Posts -> Handed] /\ \A q \in Posts : post'[q] = IF q = p THEN h ELSE post[q]
        /\ \A q \in Posts : \A x, y \in post'[q].of : x = y
    BY <2>1, <2>2, <2>3, OnePostMoves
  <2>5. ChatTypes'
    BY <2>1, <2>4 DEF ChatTypes
  <2>6. \A q \in Posts : post'[q].of = post[q].of /\ post'[q].status = post[q].status
    BY <2>2, <2>4
  <2>7. ASSUME NEW m \in Messages, m \in post[p].of PROVE MessageHolds(m)'
    <3>1. /\ MessageHolds(m) /\ Done(m)
          /\ record'[m] = IF post[p].status = "applied" THEN "delivered" ELSE "not_delivered"
      BY <2>1, <2>7 DEF MessageHolds, Handled
    <3>2. Heard(m)' /\ SpokenOnce(m)'
      BY <2>1, <2>6, <2>7, <3>1 DEF MessageHolds, Heard, SpokenOnce, Done
    <3>3. Handled(m)'
      BY <2>1, <2>6, <3>1 DEF MessageHolds, Handled, Done
    <3>4. Recorded(m)'
      BY <2>1, <2>7, <3>1 DEF MessageHolds, Handled, Recorded
    <3> QED
      BY <3>2, <3>3, <3>4 DEF MessageHolds
  <2>8. ASSUME NEW n \in Messages, n \notin post[p].of PROVE MessageHolds(n)'
    <3>1. \A q \in Posts : n \in post'[q].of \/ n \in post[q].of => post'[q] = post[q]
      BY <2>2, <2>4, <2>8
    <3>2. record'[n] = record[n] /\ (Done(n) => Done(n)')
      BY <2>1, <2>8 DEF Done
    <3> QED
      BY <2>1, <3>1, <3>2, Untouched
  <2> QED
    BY <2>5, <2>7, <2>8
<1>10. ASSUME NEW p \in Posts, post' = [post EXCEPT ![p] = Chat!Quiet]
       PROVE  /\ post' \in [Posts -> Handed] /\ \A q \in Posts : \A x, y \in post'[q].of : x = y
              /\ \A q \in Posts : post'[q] = IF q = p THEN Chat!Quiet ELSE post[q]
  <2> DEFINE h == Chat!Quiet
  <2>1. h \in Handed /\ \A x, y \in h.of : x = y
    BY QuietPost
  <2>2. post' = [post EXCEPT ![p] = h]
    BY <1>10
  <2> HIDE DEF h
  <2>3. /\ post' \in [Posts -> Handed] /\ \A q \in Posts : post'[q] = IF q = p THEN h ELSE post[q]
        /\ \A q \in Posts : \A m, n \in post'[q].of : m = n
    BY <2>1, <2>2, OnePostMoves
  <2> QED
    BY <2>3 DEF h
<1>11. ASSUME NEW p \in Posts, Chat!Acknowledge(p) PROVE ChatInv'
  <2>1. /\ post[p].step = "answer" /\ post' = [post EXCEPT ![p] = Chat!Quiet]
        /\ receipt' = [m \in Messages |-> IF m \in post[p].of THEN "none" ELSE receipt[m]]
        /\ UNCHANGED <<record, operation, command, spoken, current, mishaps>>
    BY <1>11 DEF Chat!Acknowledge
  <2>2. /\ post' \in [Posts -> Handed] /\ \A q \in Posts : \A x, y \in post'[q].of : x = y
        /\ \A q \in Posts : post'[q] = IF q = p THEN Chat!Quiet ELSE post[q]
    BY <1>10, <2>1
  <2>3. ChatTypes'
    BY <2>1, <2>2 DEF ChatTypes, Statuses
  <2>4. \A n : \A q \in Posts : n \in post'[q].of => post'[q] = post[q] /\ n \in post[q].of
    BY <2>2, QuietPost
  <2>5. ASSUME NEW m \in Messages, m \in post[p].of PROVE MessageHolds(m)'
    <3>1. MessageHolds(m) /\ Done(m) /\ receipt'[m] = "none" /\ m \notin command
      BY <2>1, <2>5 DEF MessageHolds, Handled
    <3>2. Heard(m)' /\ SpokenOnce(m)'
      BY <2>1, <2>4, <3>1 DEF MessageHolds, Heard, SpokenOnce, Done
    <3>3. Handled(m)'
      BY <2>1, <2>4, <3>1 DEF MessageHolds, Handled, Done
    <3>4. Recorded(m)'
      BY <2>1, <2>2, <3>1 DEF MessageHolds, Recorded
    <3> QED
      BY <3>2, <3>3, <3>4 DEF MessageHolds
  <2>6. ASSUME NEW n \in Messages, n \notin post[p].of PROVE MessageHolds(n)'
    <3>1. \A q \in Posts : n \in post[q].of => post'[q] = post[q]
      BY <2>2, <2>6
    <3>2. receipt'[n] = receipt[n] /\ (Done(n) => Done(n)')
      BY <2>1, <2>6 DEF Done
    <3> QED
      BY <2>1, <2>4, <3>1, <3>2, Untouched
  <2> QED
    BY <2>3, <2>5, <2>6
<1>12. ASSUME NEW p \in Posts, Chat!CentralFails(p) PROVE ChatInv'
  <2>1. /\ post' = [post EXCEPT ![p] = Chat!Quiet]
        /\ mishaps' = <<mishaps[1] + 1,
              mishaps[2] \union {IF post[p].step = "record" THEN "half_closed" ELSE "lost_answer"}>>
        /\ UNCHANGED <<record, operation, command, receipt, spoken, current>>
    BY <1>12 DEF Chat!CentralFails, Chat!Mishap
  <2>2. /\ post' \in [Posts -> Handed] /\ \A q \in Posts : \A x, y \in post'[q].of : x = y
        /\ \A q \in Posts : post'[q] = IF q = p THEN Chat!Quiet ELSE post[q]
    BY <1>10, <2>1
  <2>3. ChatTypes'
    BY <2>1, <2>2 DEF ChatTypes
  <2>4. mishaps[2] \subseteq mishaps'[2] /\ (post[p].step = "record" => "half_closed" \in mishaps'[2])
    BY <2>1
  <2>5. \A n \in Messages : Done(n) => Done(n)'
    BY <2>1 DEF Done
  <2>6. \A n \in Messages : \A q \in Posts :
          /\ n \in post'[q].of => post'[q] = post[q]
          /\ n \in post[q].of /\ post[q].step = "record" => post'[q] = post[q] \/ "half_closed" \in mishaps'[2]
    BY <2>2, <2>4, QuietPost
  <2> QED
    BY <2>1, <2>3, <2>4, <2>5, <2>6, Untouched
<1>13. CASE Chat!ReplaceWorld
  <2>1. /\ ~current' /\ UNCHANGED <<record, command, receipt, spoken, post, mishaps>>
        /\ operation' = [m \in Messages |-> IF operation[m] \in {"pending", "dispatched"}
                                             THEN "world_superseded" ELSE operation[m]]
    BY <1>13 DEF Chat!ReplaceWorld
  <2>2. ChatTypes'
    BY <1>13, <2>1 DEF ChatTypes, Chat!ReplaceWorld
  <2>3. \A n \in Messages : (operation'[n] = "succeeded" <=> operation[n] = "succeeded") /\ Done(n)'
    BY <2>1 DEF Done
  <2> QED
    BY <2>1, <2>2, <2>3, Untouched
<1>14. ASSUME NEW m \in Messages, Chat!BotStops(m) \/ Chat!Redeliver(m) \/ Chat!RejectWrongWorld(m)
       PROVE  ChatInv'
  <2>1. command' \subseteq command /\ mishaps[2] \subseteq mishaps'[2]
    BY <1>14 DEF Chat!BotStops, Chat!Redeliver, Chat!RejectWrongWorld, Chat!Mishap
  <2> QED
    BY <1>3, <1>14, <2>1 DEF Chat!BotStops, Chat!Redeliver, Chat!RejectWrongWorld
<1>15. CASE UNCHANGED Chat!chatVars
  BY <1>3, <1>15 DEF Chat!chatVars
<1> QED
  BY <1>1, <1>2, <1>4, <1>5, <1>6, <1>7, <1>8, <1>9, <1>11, <1>12, <1>13, <1>14, <1>15 DEF Chat!Next

(* However posts and deliveries of a message are repeated, lost or cut     *)
(* short, it is marked delivered only if it was broadcast, is broadcast    *)
(* twice only if the game could not save its receipt, and its record and   *)
(* its operation agree once nobody handles it, unless central stopped      *)
(* between the two writes (ChatService, processChatCommand).               *)
THEOREM ChatIsAlwaysTrue == Chat!Spec => []ChatIsTrue
<1>1. Chat!Init => ChatInv
  BY InitChat
<1>2. ChatInv /\ [Chat!Next]_(Chat!chatVars) => ChatInv'
  BY NextChat
<1>3. ChatInv => ChatIsTrue
  <2> SUFFICES ASSUME ChatInv, NEW m \in Messages
               PROVE  /\ record[m] = "delivered" => spoken[m] > 0
                      /\ spoken[m] > 1 => "unsaved" \in mishaps[2]
                      /\ operation[m] = "succeeded" /\ (\A p \in Posts : m \notin post[p].of) =>
                           record[m] = "delivered" \/ "half_closed" \in mishaps[2]
    BY DEF ChatIsTrue, Chat!ChatIsTrue
  <2>1. MessageHolds(m) /\ spoken[m] \in Nat
    BY DEF ChatInv, ChatTypes
  <2> QED
    BY <2>1 DEF MessageHolds, Heard, Recorded, SpokenOnce
<1> QED
  BY <1>1, <1>2, <1>3, PTL DEF Chat!Spec

-------------------------------------------------------------------------------
(* BankBalance                                                             *)

BankMove == [after : Int, since : SUBSET Int, done : Nat]
BalanceTypes ==
  /\ now \in Nat /\ running \in BOOLEAN /\ cash \in Int /\ moves \in Seq(BankMove)
  /\ file \in [value : Int, covers : Nat, at : Nat]
  /\ upload \subseteq [value : Int, covers : Nat, sent : Nat]
  /\ stored \subseteq [value : Int, covers : Nat, received : Nat]

\* s reflects the moves it covers, by a value the farm had since each of them.
Covers(s) ==
  /\ s.covers <= Len(moves)
  /\ \A i \in 1..Len(moves) : i <= s.covers => s.value \in moves[i].since

\* The clocks: nothing is late while the game runs.
Timely ==
  /\ file.at <= now /\ (running => now <= file.at + Period)
  /\ \A u \in upload : u.sent <= now /\ now <= u.sent + Transit
  /\ \A s \in stored : s.received <= now

\* What does not cover a settled move was written, sent and received soon
\* enough after it.
Bounded(i) ==
  moves[i].done > 0 =>
    /\ file.covers < i => file.at <= moves[i].done
    /\ \A u \in upload : u.covers < i => u.sent <= moves[i].done + Period
    /\ \A s \in stored : s.covers < i => s.received <= moves[i].done + Period + Transit

BalanceInv ==
  /\ BalanceTypes /\ Timely
  /\ Covers(file) /\ (\A u \in upload : Covers(u)) /\ (\A s \in stored : Covers(s))
  /\ \A i \in 1..Len(moves) : moves[i].after \in moves[i].since /\ cash \in moves[i].since
  /\ running => \A i \in 1..Len(moves) : Bounded(i)

LEMMA InitBalance == Balance!BalanceAssumption /\ Balance!Init => BalanceInv
<1> SUFFICES ASSUME Balance!BalanceAssumption, Balance!Init PROVE BalanceInv
  OBVIOUS
<1>1. BalanceTypes /\ Len(moves) = 0
  BY DEF Balance!Init, BalanceTypes
<1> QED
  BY <1>1 DEF Balance!BalanceAssumption, Balance!Init, BalanceInv, Timely, Covers

\* What the farm is worth is noted at every move there was.
LEMMA SeenMoves ==
  ASSUME BalanceTypes, NEW v \in Int
  PROVE  /\ Balance!Seen(v) \in Seq(BankMove) /\ Len(Balance!Seen(v)) = Len(moves)
         /\ \A i \in 1..Len(moves) :
              /\ Balance!Seen(v)[i].after = moves[i].after /\ Balance!Seen(v)[i].done = moves[i].done
              /\ Balance!Seen(v)[i].since = moves[i].since \union {v}
<1>1. Balance!Seen(v) = [i \in 1..Len(moves) |-> [moves[i] EXCEPT !.since = @ \union {v}]]
  BY DEF Balance!Seen
<1>2. ASSUME NEW i \in 1..Len(moves)
      PROVE  /\ [moves[i] EXCEPT !.since = @ \union {v}] \in BankMove
             /\ [moves[i] EXCEPT !.since = @ \union {v}].after = moves[i].after
             /\ [moves[i] EXCEPT !.since = @ \union {v}].done = moves[i].done
             /\ [moves[i] EXCEPT !.since = @ \union {v}].since = moves[i].since \union {v}
  <2>1. moves[i] \in BankMove
    BY DEF BalanceTypes
  <2> QED
    BY <2>1 DEF BankMove
<1> DEFINE b == Balance!Seen(v)
<1>3. b \in [1..Len(moves) -> BankMove]
  BY <1>1, <1>2
<1>4. \A i \in 1..Len(moves) : b[i] = [moves[i] EXCEPT !.since = @ \union {v}]
  BY <1>1
<1>5. Len(moves) \in Nat
  BY DEF BalanceTypes
<1> HIDE DEF b
<1>6. b \in Seq(BankMove) /\ Len(b) = Len(moves)
  BY <1>3, <1>5
<1>7. \A i \in 1..Len(moves) :
        /\ b[i].after = moves[i].after /\ b[i].done = moves[i].done
        /\ b[i].since = moves[i].since \union {v}
  BY <1>2, <1>4
<1> QED
  BY <1>6, <1>7 DEF b

\* Money moves: the moves there were stay, with one more value seen since.
LEMMA MoneyMoves ==
  ASSUME BalanceInv, NEW v \in Int, cash' = v, UNCHANGED <<now, running, file, upload, stored>>,
         moves' \in Seq(BankMove), Len(moves') >= Len(moves),
         \A i \in 1..Len(moves) : /\ moves'[i].after = moves[i].after /\ moves'[i].done = moves[i].done
                                  /\ moves'[i].since = moves[i].since \union {v},
         \A i \in 1..Len(moves') : i > Len(moves) =>
             moves'[i].after = v /\ moves'[i].since = {v} /\ moves'[i].done = 0
  PROVE  BalanceInv'
<1>1. Len(moves) \in Nat /\ Len(moves') \in Nat
  BY DEF BalanceInv, BalanceTypes
<1>2. BalanceTypes' /\ Timely'
  BY DEF BalanceInv, BalanceTypes, Timely
<1>3. ASSUME NEW s, Covers(s), s.covers \in Nat
      PROVE  /\ s.covers <= Len(moves')
             /\ \A i \in 1..Len(moves') : i <= s.covers => s.value \in moves'[i].since
  BY <1>1, <1>3 DEF Covers
<1>4. Covers(file)' /\ (\A u \in upload : Covers(u))' /\ (\A s \in stored : Covers(s))'
  BY <1>3 DEF BalanceInv, BalanceTypes, Covers
<1>5. \A i \in 1..Len(moves') : moves'[i].after \in moves'[i].since /\ cash' \in moves'[i].since
  BY <1>1 DEF BalanceInv
<1>6. ASSUME running', NEW i \in 1..Len(moves') PROVE Bounded(i)'
  BY <1>1, <1>6 DEF BalanceInv, Bounded
<1> QED
  BY <1>2, <1>4, <1>5, <1>6 DEF BalanceInv

LEMMA NextBalance ==
  Balance!BalanceAssumption /\ BalanceInv /\ [Balance!Next]_(Balance!balanceVars) => BalanceInv'
<1> SUFFICES ASSUME Balance!BalanceAssumption, BalanceInv, [Balance!Next]_(Balance!balanceVars)
             PROVE  BalanceInv'
  OBVIOUS
<1>1. /\ BalanceTypes /\ Timely /\ Len(moves) \in Nat /\ now \in Nat /\ cash \in Int
      /\ \A i \in 1..Len(moves) : moves[i] \in BankMove
      /\ Grace \in Nat /\ Fresh \in Nat /\ Period \in Nat /\ Transit \in Nat
  BY DEF BalanceInv, BalanceTypes, Balance!BalanceAssumption
<1>2. ASSUME NEW v, Balance!Earn(v) PROVE BalanceInv'
  <2>1. /\ v \in Int /\ cash' = v /\ moves' = Balance!Seen(v)
        /\ UNCHANGED <<now, running, file, upload, stored>>
    BY <1>1, <1>2 DEF Balance!Earn
  <2>2. /\ moves' \in Seq(BankMove) /\ Len(moves') = Len(moves)
        /\ \A i \in 1..Len(moves) : /\ moves'[i].after = moves[i].after /\ moves'[i].done = moves[i].done
                                     /\ moves'[i].since = moves[i].since \union {v}
    BY <1>1, <2>1, SeenMoves
  <2> QED
    BY <1>1, <2>1, <2>2, MoneyMoves
<1>3. ASSUME NEW v, Balance!Move(v) PROVE BalanceInv'
  <2> DEFINE b == Balance!Seen(v)
             e == [after |-> v, since |-> {v}, done |-> 0]
  <2>1. /\ v \in Int /\ cash' = v /\ moves' = Append(b, e)
        /\ UNCHANGED <<now, running, file, upload, stored>>
    BY <1>1, <1>3 DEF Balance!Move
  <2>2. /\ b \in Seq(BankMove) /\ Len(b) = Len(moves)
        /\ \A i \in 1..Len(moves) : /\ b[i].after = moves[i].after /\ b[i].done = moves[i].done
                                     /\ b[i].since = moves[i].since \union {v}
    BY <1>1, <2>1, SeenMoves
  <2>3. e \in BankMove /\ e.after = v /\ e.since = {v} /\ e.done = 0
    BY <2>1 DEF BankMove
  <2> HIDE DEF b, e
  <2>4. /\ moves' \in Seq(BankMove) /\ Len(moves') = Len(moves) + 1
        /\ \A i \in 1..Len(moves') : moves'[i] = IF i = Len(moves) + 1 THEN e ELSE b[i]
    BY <1>1, <2>1, <2>2, <2>3
  <2>5. \A i \in 1..Len(moves) : /\ moves'[i].after = moves[i].after /\ moves'[i].done = moves[i].done
                                 /\ moves'[i].since = moves[i].since \union {v}
    BY <1>1, <2>2, <2>4
  <2>6. /\ Len(moves') >= Len(moves)
        /\ \A i \in 1..Len(moves') : i > Len(moves) =>
             moves'[i].after = v /\ moves'[i].since = {v} /\ moves'[i].done = 0
    BY <1>1, <2>3, <2>4
  <2> QED
    BY <2>1, <2>4, <2>5, <2>6, MoneyMoves
<1>4. CASE Balance!ExportSnapshot
  <2> DEFINE f == [value |-> cash, covers |-> Len(moves), at |-> now]
  <2>1. file' = f /\ UNCHANGED <<now, running, cash, moves, upload, stored>>
    BY <1>4 DEF Balance!ExportSnapshot
  <2>2. f.value = cash /\ f.covers = Len(moves) /\ f.at = now
        /\ f \in [value : Int, covers : Nat, at : Nat]
    BY <1>1
  <2> HIDE DEF f
  <2>3. BalanceTypes'
    BY <2>1, <2>2 DEF BalanceInv, BalanceTypes
  <2>4. Timely'
    BY <1>1, <2>1, <2>2 DEF Timely
  <2>5. Covers(file)' /\ (\A u \in upload : Covers(u))' /\ (\A s \in stored : Covers(s))'
    BY <1>1, <2>1, <2>2 DEF BalanceInv, Covers
  <2>6. (\A i \in 1..Len(moves) : moves[i].after \in moves[i].since /\ cash \in moves[i].since)'
    BY <2>1 DEF BalanceInv
  <2>7. ASSUME running', NEW i \in 1..Len(moves) PROVE Bounded(i)'
    BY <1>1, <2>1, <2>2, <2>7 DEF BalanceInv, Bounded
  <2> QED
    BY <2>1, <2>3, <2>4, <2>5, <2>6, <2>7 DEF BalanceInv
<1>5. CASE Balance!Stop
  BY <1>5 DEF Balance!Stop, BalanceInv, BalanceTypes, Timely, Covers
<1>6. CASE Balance!Post
  <2> DEFINE u == [value |-> file.value, covers |-> file.covers, sent |-> now]
  <2>1. upload' = {u} /\ UNCHANGED <<now, running, cash, moves, file, stored>>
    BY <1>6 DEF Balance!Post
  <2>2. /\ u.value = file.value /\ u.covers = file.covers /\ u.sent = now
        /\ u \in [value : Int, covers : Nat, sent : Nat]
    BY <1>1 DEF BalanceTypes
  <2> HIDE DEF u
  <2>3. BalanceTypes'
    BY <2>1, <2>2 DEF BalanceInv, BalanceTypes
  <2>4. Timely'
    BY <1>1, <2>1, <2>2 DEF Timely
  <2>5. Covers(file)' /\ (\A x \in upload : Covers(x))' /\ (\A s \in stored : Covers(s))'
    BY <2>1, <2>2 DEF BalanceInv, Covers
  <2>6. (\A i \in 1..Len(moves) : moves[i].after \in moves[i].since /\ cash \in moves[i].since)'
    BY <2>1 DEF BalanceInv
  <2>7. ASSUME running', NEW i \in 1..Len(moves) PROVE Bounded(i)'
    <3>1. Bounded(i) /\ moves[i].done \in Nat /\ file.at \in Nat /\ now <= file.at + Period
      BY <1>1, <2>1, <2>7 DEF BalanceInv, BalanceTypes, Timely, BankMove
    <3>2. moves[i].done > 0 /\ file.covers < i => now <= moves[i].done + Period
      BY <1>1, <3>1 DEF Bounded
    <3> QED
      BY <2>1, <2>2, <3>1, <3>2 DEF Bounded
  <2> QED
    BY <2>1, <2>3, <2>4, <2>5, <2>6, <2>7 DEF BalanceInv
<1>7. CASE Balance!Receive
  <2>1. /\ upload' = {} /\ stored' = {[value |-> u.value, covers |-> u.covers, received |-> now] : u \in upload}
        /\ UNCHANGED <<now, running, cash, moves, file>>
    BY <1>7 DEF Balance!Receive
  <2>2. ASSUME NEW s \in stored'
        PROVE  \E u \in upload : /\ s.value = u.value /\ s.covers = u.covers /\ s.received = now
                                 /\ s \in [value : Int, covers : Nat, received : Nat]
    <3>1. PICK u \in upload : s = [value |-> u.value, covers |-> u.covers, received |-> now]
      BY <2>1
    <3> QED
      BY <1>1, <3>1 DEF BalanceTypes
  <2>3. BalanceTypes'
    BY <2>1, <2>2 DEF BalanceInv, BalanceTypes
  <2>4. Timely'
    BY <1>1, <2>1, <2>2 DEF Timely
  <2>5. Covers(file)' /\ (\A x \in upload : Covers(x))' /\ (\A s \in stored : Covers(s))'
    BY <2>1, <2>2 DEF BalanceInv, Covers
  <2>6. (\A i \in 1..Len(moves) : moves[i].after \in moves[i].since /\ cash \in moves[i].since)'
    BY <2>1 DEF BalanceInv
  <2>7. ASSUME running', NEW i \in 1..Len(moves) PROVE Bounded(i)'
    <3>1. Bounded(i) /\ moves[i].done \in Nat
      BY <1>1, <2>1, <2>7 DEF BalanceInv, BankMove
    <3>2. ASSUME NEW s \in stored', s.covers < i, moves[i].done > 0
          PROVE  s.received <= moves[i].done + Period + Transit
      <4>1. PICK u \in upload : s.covers = u.covers /\ s.received = now
        BY <2>2
      <4>2. u.sent <= moves[i].done + Period /\ now <= u.sent + Transit /\ u.sent \in Nat
        BY <1>1, <3>1, <3>2, <4>1 DEF Bounded, Timely, BalanceTypes
      <4> QED
        BY <1>1, <3>1, <4>1, <4>2
    <3> QED
      BY <2>1, <3>1, <3>2 DEF Bounded
  <2> QED
    BY <2>1, <2>3, <2>4, <2>5, <2>6, <2>7 DEF BalanceInv
<1>8. CASE Balance!Lose
  BY <1>8 DEF Balance!Lose, BalanceInv, BalanceTypes, Timely, Covers, Bounded
<1>9. ASSUME NEW i \in 1..Len(moves), Balance!Complete(i) PROVE BalanceInv'
  <2>1. moves' = [moves EXCEPT ![i].done = now] /\ UNCHANGED <<now, running, cash, file, upload, stored>>
    BY <1>9 DEF Balance!Complete
  <2>2. [moves[i] EXCEPT !.done = now] \in BankMove
    BY <1>1 DEF BankMove
  <2>3. /\ moves' \in Seq(BankMove) /\ Len(moves') = Len(moves)
        /\ \A j \in 1..Len(moves) : moves'[j] = IF j = i THEN [moves[i] EXCEPT !.done = now] ELSE moves[j]
    BY <1>1, <2>1, <2>2 DEF BalanceTypes
  <2>4. \A j \in 1..Len(moves) :
          /\ moves'[j].after = moves[j].after /\ moves'[j].since = moves[j].since
          /\ moves'[j].done = IF j = i THEN now ELSE moves[j].done
    BY <1>1, <2>3 DEF BankMove
  <2>5. BalanceTypes' /\ Timely'
    BY <2>1, <2>3 DEF BalanceInv, BalanceTypes, Timely
  <2>6. Covers(file)' /\ (\A x \in upload : Covers(x))' /\ (\A s \in stored : Covers(s))'
    BY <2>1, <2>3, <2>4 DEF BalanceInv, Covers
  <2>7. (\A j \in 1..Len(moves) : moves[j].after \in moves[j].since /\ cash \in moves[j].since)'
    BY <2>1, <2>3, <2>4 DEF BalanceInv
  <2>8. ASSUME running', NEW j \in 1..Len(moves) PROVE Bounded(j)'
    <3>1. CASE j = i
      <4>1. /\ file.at <= now /\ \A u \in upload : u.sent <= now + Period
            /\ \A s \in stored : s.received <= now + Period + Transit
        BY <1>1 DEF Timely, BalanceTypes
      <4> QED
        BY <2>1, <2>4, <3>1, <4>1 DEF Bounded
    <3>2. CASE j # i
      <4>1. Bounded(j) /\ moves'[j].done = moves[j].done
        BY <2>1, <2>4, <2>8, <3>2 DEF BalanceInv
      <4> QED
        BY <2>1, <4>1 DEF Bounded
    <3> QED
      BY <3>1, <3>2
  <2> QED
    BY <2>1, <2>3, <2>5, <2>6, <2>7, <2>8 DEF BalanceInv
<1>10. CASE Balance!Tick
  <2>1. /\ now' = now + 1 /\ UNCHANGED <<running, cash, moves, file, upload, stored>>
        /\ (running => file.at + Period > now) /\ \A u \in upload : u.sent + Transit > now
    BY <1>10 DEF Balance!Tick
  <2>2. BalanceTypes'
    BY <1>1, <2>1 DEF BalanceTypes
  <2>3. Timely'
    BY <1>1, <2>1 DEF Timely, BalanceTypes
  <2> QED
    BY <2>1, <2>2, <2>3 DEF BalanceInv, Covers, Bounded
<1>11. CASE UNCHANGED Balance!balanceVars
  BY <1>11 DEF Balance!balanceVars, BalanceInv, BalanceTypes, Timely, Covers, Bounded
<1> QED
  BY <1>2, <1>3, <1>4, <1>5, <1>6, <1>7, <1>8, <1>9, <1>10, <1>11
  DEF Balance!Next, Balance!GameSide, Balance!AgentSide

(* In whatever order snapshots and receipts reach central: while the game  *)
(* runs, the balance shown is one the farm had since the latest settled    *)
(* transfer, and /equity misses no transfer settled longer ago than its    *)
(* snapshot may be old (account_summary, equity_summary), given that the   *)
(* period of the snapshot and its transit fit in the grace.                *)
THEOREM BalancesAreAlwaysCurrent ==
  ASSUME Balance!BalanceAssumption
  PROVE  Balance!Spec => []BalancesAreCurrent
<1>1. Balance!Init => BalanceInv
  BY InitBalance
<1>2. BalanceInv /\ [Balance!Next]_(Balance!balanceVars) => BalanceInv'
  BY NextBalance
<1>3. BalanceInv => BalancesAreCurrent
  <2> SUFFICES ASSUME BalanceInv, running, NEW s \in stored, NEW i \in 1..Len(moves), moves[i].done > 0
               PROVE  /\ Balance!Updating(s, i) \/ s.value \in moves[i].since
                      /\ Balance!Usable(s) /\ s.covers < i => moves[i].done + Fresh + Transit + Period >= now
    BY DEF BalancesAreCurrent, Balance!ShownIsCurrent, Balance!EquityForgetsNothingOld,
           Balance!Latest, Balance!Completed
  <2>1. /\ s.received \in Nat /\ s.covers \in Nat /\ moves[i].done \in Nat /\ now \in Nat
        /\ Grace \in Nat /\ Fresh \in Nat /\ Period \in Nat /\ Transit \in Nat /\ Period + Transit <= Grace
    <3>1. moves[i] \in BankMove
      BY DEF BalanceInv, BalanceTypes
    <3>2. s.received \in Nat /\ s.covers \in Nat /\ now \in Nat
      BY DEF BalanceInv, BalanceTypes
    <3> QED
      BY <3>1, <3>2 DEF BankMove, Balance!BalanceAssumption
  <2>2. s.covers < i => s.received <= moves[i].done + Period + Transit
    BY DEF BalanceInv, Bounded
  <2>3. ~(s.covers < i) => s.value \in moves[i].since
    BY <2>1 DEF BalanceInv, Covers
  <2>4. moves[i].after \in moves[i].since
    BY DEF BalanceInv
  <2>5. Balance!Updating(s, i) \/ s.value \in moves[i].since
    BY <2>1, <2>2, <2>3, <2>4 DEF Balance!Updating
  <2>6. Balance!Usable(s) /\ s.covers < i => moves[i].done + Fresh + Transit + Period >= now
    BY <2>1, <2>2 DEF Balance!Usable
  <2> QED
    BY <2>5, <2>6
<1> QED
  BY <1>1, <1>2, <1>3, PTL DEF Balance!Spec
-------------------------------------------------------------------------------
(* Types and bounds                                                        *)

(* A code is typed in once it was issued, pairs one server at most, and    *)
(* whoever holds a credential was given one.                               *)
PairBounds ==
  /\ issuedCodes <= MaxCodes /\ requests \subseteq 1..issuedCodes
  /\ row.credential # None => row.code = None
  /\ row.credential \in 1..paired \union {None} /\ row.code \in 1..issuedCodes \union {None}
  /\ paired + (IF row.code = None THEN 0 ELSE 1) <= issuedCodes
  /\ response \in 1..paired \union {None} /\ binding \in 1..paired \union {None}
  /\ \A c \in Claims : /\ claim[c].credential \in 1..paired \union {None}
                       /\ claim[c].step \in {"found", "claim"} => claim[c].code # None

LEMMA NextPairBounds ==
  ASSUME Pairing!PairingAssumption, PairInv, PairBounds, [Pairing!Next]_(Pairing!pairVars)
  PROVE  PairBounds'
<1> USE DEF PairBounds
<1>1. /\ issuedCodes \in Nat /\ paired \in Nat /\ MaxCodes \in Nat /\ None \notin Nat
      /\ claim \in [Claims -> Request]
      /\ row \in [credential : Credential, code : Credential, expired : BOOLEAN]
  BY DEF PairInv, PairTypes, Pairing!PairingAssumption
<1>2. CASE UNCHANGED <<row, issuedCodes, paired, requests, claim, response, binding>>
  BY <1>2
<1>3. CASE Pairing!IssueCode
  BY <1>1, <1>3 DEF Pairing!IssueCode
<1>4. CASE Pairing!Expire
  BY <1>1, <1>4 DEF Pairing!Expire
<1>5. ASSUME NEW k \in 1..issuedCodes, Pairing!TypeCode(k) PROVE PairBounds'
  BY <1>1, <1>5 DEF Pairing!TypeCode
<1>6. ASSUME NEW c \in Claims, NEW k \in requests, Pairing!Post(c, k) PROVE PairBounds'
  BY <1>1, <1>6 DEF Pairing!Post
<1>7. ASSUME NEW c \in Claims, Pairing!FindAgain(c) PROVE PairBounds'
  BY <1>1, <1>7 DEF Pairing!FindAgain, Pairing!Idle, Request
<1>8. ASSUME NEW c \in Claims, Pairing!Claim(c) PROVE PairBounds'
  <2>1. CASE ~ Pairing!Claimable(claim[c].code)
    BY <1>1, <1>8, <2>1 DEF Pairing!Claim, Pairing!Idle
  <2>2. CASE Pairing!Claimable(claim[c].code)
    <3>1. /\ paired' = paired + 1 /\ row.code # None
          /\ row' = [credential |-> paired', code |-> None, expired |-> FALSE]
          /\ claim' = [claim EXCEPT ![c].step = "answer", ![c].credential = paired']
          /\ UNCHANGED <<issuedCodes, requests, response, binding>>
      BY <1>8, <2>2 DEF Pairing!Claim, Pairing!Claimable
    <3>2. \A d \in Claims : /\ claim'[d].credential = IF d = c THEN paired' ELSE claim[d].credential
                            /\ claim'[d].step = IF d = c THEN "answer" ELSE claim[d].step
                            /\ claim'[d].code = claim[d].code
      BY <1>1, <3>1 DEF Request
    <3>3. paired' \in Nat /\ paired' <= issuedCodes
      BY <1>1, <3>1
    <3> QED
      BY <1>1, <3>1, <3>2, <3>3
  <2> QED
    BY <2>1, <2>2
<1>9. ASSUME NEW c \in Claims, NEW removed \in BOOLEAN, Pairing!Deliver(c, removed) PROVE PairBounds'
  BY <1>1, <1>9 DEF Pairing!Deliver, Pairing!Idle
<1>10. ASSUME NEW c \in Claims, Pairing!LoseAnswer(c) PROVE PairBounds'
  BY <1>1, <1>10 DEF Pairing!LoseAnswer, Pairing!Idle
<1>11. CASE Pairing!Bind
  BY <1>1, <1>11 DEF Pairing!Bind
<1> QED
  BY <1>2, <1>3, <1>4, <1>5, <1>6, <1>7, <1>8, <1>9, <1>10, <1>11
  DEF Pairing!Next, Pairing!StaffSide, Pairing!AgentSide, Pairing!pairVars,
      Pairing!RegisterRead, Pairing!Preserve

LEMMA PairingTyped ==
  ASSUME Pairing!PairingAssumption
  PROVE  Pairing!Spec => []Pairing!TypeOK
<1>1. Pairing!Init => PairInv /\ PairBounds
  <2>1. Pairing!Init => PairBounds
    BY DEF Pairing!Init, Pairing!Idle, PairBounds, Pairing!PairingAssumption
  <2> QED
    BY <2>1, InitPairing
<1>2. PairInv /\ PairBounds /\ [Pairing!Next]_(Pairing!pairVars) => PairInv' /\ PairBounds'
  BY NextPairing, NextPairBounds
<1>3. PairInv /\ PairBounds => Pairing!TypeOK
  BY DEF PairInv, PairTypes, PairBounds, Pairing!TypeOK, Pairing!Credentials, Pairing!PairingCodes,
     Pairing!PairingAssumption, Credential
<1> QED
  BY <1>1, <1>2, <1>3, PTL DEF Pairing!Spec

(* Worlds and active worlds are loads there were.                          *)
RuntimeBounds ==
  /\ runs.load \in 1..MaxLoad
  /\ \A s \in Saves : world[s] \in 1..MaxLoad /\ active[s] \in 0..MaxLoad
  /\ \A m \in flight : m.world \in 1..MaxLoad
  /\ \A t \in Handlers : thread[t].step # "free" => thread[t].post.world \in 1..MaxLoad

LEMMA NextRuntimeBounds ==
  ASSUME Runtime!RuntimeAssumption, RuntimeInv, RuntimeBounds, [Runtime!Next]_(Runtime!runtimeVars)
  PROVE  RuntimeBounds'
<1> USE DEF RuntimeBounds
<1>1. /\ MaxLoad \in Nat \ {0} /\ RuntimeTypes
      /\ \A t \in Handlers : thread[t].step # "free" => thread[t].post # None
  BY DEF RuntimeInv, Runtime!RuntimeAssumption, ThreadHolds
<1>2. ASSUME NEW s \in Saves, NEW unreadable, NEW replaced, Runtime!Load(s, unreadable, replaced)
      PROVE  RuntimeBounds'
  BY <1>1, <1>2 DEF Runtime!Load, RuntimeTypes
<1>3. CASE Runtime!ExportSnapshot
  BY <1>1, <1>3 DEF Runtime!ExportSnapshot, RuntimeTypes
<1>4. CASE Runtime!Post
  BY <1>1, <1>4 DEF Runtime!Post, RuntimeTypes
<1>5. ASSUME NEW t \in Handlers, NEW m \in flight, Runtime!Take(t, m) PROVE RuntimeBounds'
  BY <1>1, <1>5 DEF Runtime!Take, RuntimeTypes
<1>6. ASSUME NEW t \in Handlers, Runtime!Record(t) PROVE RuntimeBounds'
  <2>1. thread[t].step = "record" /\ thread[t].post.world \in 1..MaxLoad
    BY <1>6 DEF Runtime!Record
  <2>2. \A u \in Handlers : thread'[u].post = thread[u].post /\ (u # t => thread'[u].step = thread[u].step)
    BY <1>1, <1>6 DEF Runtime!Record, RuntimeTypes, Work
  <2>3. \A s \in Saves : active'[s] \in {active[s], thread[t].post.world}
    BY <1>1, <1>6 DEF Runtime!Record, RuntimeTypes
  <2> QED
    BY <1>1, <1>6, <2>1, <2>2, <2>3 DEF Runtime!Record
<1>7. ASSUME NEW t \in Handlers, Runtime!ActivateRuntime(t) \/ Runtime!Fail(t) PROVE RuntimeBounds'
  BY <1>1, <1>7 DEF Runtime!ActivateRuntime, Runtime!Fail, Runtime!Resting, RuntimeTypes
<1>8. CASE UNCHANGED Runtime!runtimeVars
  BY <1>8 DEF Runtime!runtimeVars
<1> QED
  BY <1>2, <1>3, <1>4, <1>5, <1>6, <1>7, <1>8 DEF Runtime!Next

LEMMA RuntimeCardinality == \A S : Runtime!Cardinality(S) = Cardinality(S)
  BY DEF Runtime!Cardinality, Cardinality

\* A set of which any two members are the same has at most one.
LEMMA AtMostOne ==
  ASSUME NEW S, \A a, b \in S : a = b
  PROVE  Cardinality(S) \in Nat /\ Cardinality(S) <= 1
<1>1. CASE S = {}
  BY <1>1, FS_EmptySet
<1>2. ASSUME NEW a \in S PROVE Cardinality(S) = 1
  <2>1. S = {a}
    OBVIOUS
  <2> QED
    BY <2>1, FS_Singleton
<1> QED
  BY <1>1, <1>2

LEMMA RuntimeTyped ==
  ASSUME Runtime!RuntimeAssumption
  PROVE  Runtime!Spec => []Runtime!TypeOK
<1>1. Runtime!Init => RuntimeInv /\ RuntimeBounds
  <2>1. Runtime!Init => RuntimeBounds
    BY DEF Runtime!Init, Runtime!Start, Runtime!Resting, RuntimeBounds, Runtime!RuntimeAssumption
  <2> QED
    BY <2>1, InitRuntime
<1>2. RuntimeInv /\ RuntimeBounds /\ [Runtime!Next]_(Runtime!runtimeVars) => RuntimeInv' /\ RuntimeBounds'
  BY NextRuntime, NextRuntimeBounds
<1>3. RuntimeInv /\ RuntimeBounds => Runtime!TypeOK
  <2> SUFFICES ASSUME RuntimeInv, RuntimeBounds PROVE Runtime!TypeOK
    OBVIOUS
  <2>1. Runtime!Cardinality({t \in Handlers : thread[t].step # "free"}) <= 1
    BY AtMostOne, RuntimeCardinality DEF RuntimeInv
  <2>2. runs.generation \in {0, runs.load} /\ runs.save \in Saves
    BY DEF RuntimeInv, RuntimeTypes, Dated
  <2>3. \A t \in Handlers : thread[t].step \in {"free", "record", "activate"}
    BY DEF RuntimeInv, RuntimeTypes, Work
  <2> QED
    BY <2>1, <2>2, <2>3 DEF RuntimeBounds, Runtime!TypeOK
<1> QED
  BY <1>1, <1>2, <1>3, PTL DEF Runtime!Spec

\* The state of the operation and the faults there were.
SystemBounds ==
  /\ ensured \in {"none", "pending", "succeeded", "reconciliation_required"}
  /\ ensuring \in BOOLEAN /\ setbacks \in 0..MaxSetbacks

LEMMA SystemTyped ==
  ASSUME System!SystemAssumption
  PROVE  System!Spec => []System!TypeOK
<1>1. MaxSetbacks \in Nat
  BY DEF System!SystemAssumption
<1>2. System!Init => SystemInv /\ SystemBounds
  <2>1. ASSUME System!Init PROVE SystemBounds
    <3>1. ensuring \in BOOLEAN
      BY <2>1 DEF System!Init
    <3>2. ensured = "none" /\ setbacks = 0
      BY <2>1 DEF System!Init
    <3> QED
      BY <1>1, <3>1, <3>2 DEF SystemBounds
  <2> QED
    BY <2>1, InitSystem
<1>3. SystemInv /\ SystemBounds /\ [System!Next]_(System!vars) => SystemInv' /\ SystemBounds'
  <2>1. ASSUME SystemBounds, [System!Next]_(System!vars) PROVE SystemBounds'
    <3>1. \/ UNCHANGED setbacks
          \/ setbacks < MaxSetbacks /\ setbacks' = setbacks + 1
      BY <2>1 DEF System!Next, System!RecordSnapshot, System!Ensure, System!ReadSnapshot,
         System!Adopt, System!NoteAdoption, System!QueueOperation, System!AcceptReceipt,
         System!ReadExisting, System!Map, System!Answer, System!Dispatch, System!ProcessCommand,
         System!Namesake, System!Save, System!Crash, System!Stop, System!vars
    <3>2. ensured' \in {ensured, "pending", "succeeded", "reconciliation_required"}
      BY <2>1 DEF System!Next, System!RecordSnapshot, System!Ensure, System!ReadSnapshot,
         System!Adopt, System!NoteAdoption, System!QueueOperation, System!AcceptReceipt,
         System!ReadExisting, System!Map, System!Answer, System!Dispatch, System!ProcessCommand,
         System!Namesake, System!Save, System!Crash, System!Stop, System!vars
    <3>3. ensuring' \in {ensuring, TRUE, FALSE}
      BY <2>1 DEF System!Next, System!RecordSnapshot, System!Ensure, System!ReadSnapshot,
         System!Adopt, System!NoteAdoption, System!QueueOperation, System!AcceptReceipt,
         System!ReadExisting, System!Map, System!Answer, System!Dispatch, System!ProcessCommand,
         System!Namesake, System!Save, System!Crash, System!Stop, System!vars, System!mailbox
    <3>4. setbacks' \in 0..MaxSetbacks
      BY <1>1, <2>1, <3>1 DEF SystemBounds
    <3>5. ensuring' \in BOOLEAN
      BY <2>1, <3>3 DEF SystemBounds
    <3> QED
      BY <2>1, <3>2, <3>4, <3>5 DEF SystemBounds
  <2> QED
    BY <2>1, NextSystem
<1>4. SystemInv /\ SystemBounds => System!TypeOK
  BY DEF SystemInv, SystemTypes, SystemBounds, System!TypeOK, Frame, Steps
<1> QED
  BY <1>2, <1>3, <1>4, PTL DEF System!Spec

\* Whose land is seen and who overlapped are members.
CarryBounds == standing \subseteq Members /\ crossed \subseteq Members

LEMMA CarryTyped ==
  ASSUME Carry!ContinuityAssumption
  PROVE  Carry!Spec => []Carry!TypeOK
<1>1. Carry!Init => CarryInv /\ CarryBounds
  <2>1. Carry!Init => CarryBounds
    BY DEF Carry!Init, CarryBounds
  <2> QED
    BY <2>1, InitCarry
<1>2. CarryInv /\ CarryBounds /\ [Carry!Next]_(Carry!vars) => CarryInv' /\ CarryBounds'
  <2>1. CarryBounds /\ [Carry!Next]_(Carry!vars) => CarryBounds'
    BY DEF CarryBounds, Carry!Next, Carry!Begin, Carry!Rerun, Carry!RequestFarm, Carry!Migrate,
       Carry!Review, Carry!Observe, Carry!vars
  <2> QED
    BY <2>1, NextCarry
<1>3. CarryInv /\ CarryBounds => Carry!TypeOK
  <2> SUFFICES ASSUME CarryInv, CarryBounds PROVE Carry!TypeOK
    OBVIOUS
  <2>1. \A c \in Carry!Open : open[c].member \in Members /\ open[c].source \in Sources \union {None}
    BY OpenIsTyped DEF Carry!Open
  <2> QED
    BY <2>1 DEF CarryInv, CarryTypes, CarryBounds, Carry!TypeOK, Owns
<1> QED
  BY <1>1, <1>2, <1>3, PTL DEF Carry!Spec

\* A message has a record before its operation, and an operation before a
\* command, a receipt and a request to post it.
Preceded(m) ==
  /\ queue[m] = "operation" \/ operation[m] # "none" => record[m] # "none"
  /\ m \in command \/ receipt[m] # "none" \/ (\E p \in Posts : m \in post[p].of) =>
       operation[m] # "none"
ChatOrder ==
  /\ queue \in [Messages -> {"record", "operation", "over"}]
  /\ \A m \in Messages : Preceded(m)

LEMMA NextChatOrder ==
  ASSUME ChatInv, ChatOrder, [Chat!Next]_(Chat!chatVars)
  PROVE  ChatOrder'
<1> USE DEF ChatOrder, Preceded
<1>1. ChatTypes
  BY DEF ChatInv
<1>2. ASSUME NEW m \in Messages,
             Chat!QueueRecord(m) \/ Chat!QueueOperation(m) \/ Chat!BotStops(m) \/ Chat!Redeliver(m)
      PROVE  ChatOrder'
  BY <1>1, <1>2 DEF Chat!QueueRecord, Chat!QueueOperation, Chat!BotStops, Chat!Redeliver, ChatTypes
<1>3. ASSUME NEW m \in Messages, Chat!Deliver(m) PROVE ChatOrder'
  BY <1>1, <1>3 DEF Chat!Deliver, ChatTypes
<1>4. ASSUME NEW m \in Messages, NEW s \in {"applied", "pending_validation"}, Chat!Broadcast(m, s)
      PROVE  ChatOrder'
  BY <1>1, <1>4 DEF Chat!Broadcast, ChatTypes
<1>5. ASSUME NEW m \in Messages, Chat!BroadcastUnsaved(m) \/ Chat!RejectWrongWorld(m) PROVE ChatOrder'
  BY <1>1, <1>5 DEF Chat!BroadcastUnsaved, Chat!RejectWrongWorld
<1>6. ASSUME NEW m \in Messages, NEW p \in Posts, Chat!PostReceipt(p, m) PROVE ChatOrder'
  BY <1>1, <1>6 DEF Chat!PostReceipt, ChatTypes
<1>7. ASSUME NEW p \in Posts, Chat!Close(p) PROVE ChatOrder'
  <2>1. \A q \in Posts : post'[q].of = post[q].of
    BY <1>1, <1>7 DEF Chat!Close, ChatTypes, Handed
  <2>2. \A n \in Messages : operation[n] # "none" => operation'[n] # "none"
    BY <1>1, <1>7 DEF Chat!Close, ChatTypes, Chat!State
  <2>3. \A n \in Messages : operation'[n] # "none" => operation[n] # "none"
    BY <1>1, <1>7 DEF Chat!Close, ChatTypes, Handed
  <2> QED
    BY <1>7, <2>1, <2>2, <2>3 DEF Chat!Close
<1>8. ASSUME NEW p \in Posts, Chat!CloseRecord(p) PROVE ChatOrder'
  <2>1. \A q \in Posts : post'[q].of = post[q].of
    BY <1>1, <1>8 DEF Chat!CloseRecord, ChatTypes, Handed
  <2>2. \A n \in Messages : record[n] # "none" => record'[n] # "none"
    BY <1>1, <1>8 DEF Chat!CloseRecord, ChatTypes
  <2> QED
    BY <1>8, <2>1, <2>2 DEF Chat!CloseRecord
<1>9. ASSUME NEW p \in Posts, Chat!Acknowledge(p) \/ Chat!CentralFails(p) PROVE ChatOrder'
  <2>1. \A q \in Posts : post'[q].of \subseteq post[q].of
    BY <1>1, <1>9, QuietPost DEF Chat!Acknowledge, Chat!CentralFails, ChatTypes
  <2>2. \A n \in Messages : receipt'[n] # "none" => receipt[n] # "none"
    BY <1>9 DEF Chat!Acknowledge, Chat!CentralFails
  <2> QED
    BY <1>9, <2>1, <2>2 DEF Chat!Acknowledge, Chat!CentralFails
<1>10. CASE Chat!ReplaceWorld
  BY <1>1, <1>10 DEF Chat!ReplaceWorld
<1>11. CASE UNCHANGED Chat!chatVars
  BY <1>11 DEF Chat!chatVars
<1> QED
  BY <1>2, <1>3, <1>4, <1>5, <1>6, <1>7, <1>8, <1>9, <1>10, <1>11 DEF Chat!Next

LEMMA ChatTyped == Chat!Spec => []Chat!TypeOK
<1>1. Chat!Init => ChatInv /\ ChatOrder
  <2>1. Chat!Init => ChatOrder
    BY QuietPost DEF Chat!Init, ChatOrder, Preceded
  <2> QED
    BY <2>1, InitChat
<1>2. ChatInv /\ ChatOrder /\ [Chat!Next]_(Chat!chatVars) => ChatInv' /\ ChatOrder'
  BY NextChat, NextChatOrder
<1>3. ChatInv /\ ChatOrder => Chat!TypeOK
  BY DEF ChatInv, ChatTypes, ChatOrder, Preceded, Chat!TypeOK, Statuses, Handed
<1> QED
  BY <1>1, <1>2, <1>3, PTL DEF Chat!Spec

\* What a handler of the event keeps while it runs.
Statused == {"absent", "scheduled"} \union Party!Ended
Creating == [step : {"idle", "publish", "store"}]
Errand == [step : {"idle", "apply", "reread", "reply"}, op : {"join", "leave"} \union Party!Ended,
           player : Guests, card : BOOLEAN, record : [status : Statused, roster : SUBSET Guests]]
Handling == Creating \union Errand
PartyTypes ==
  /\ status \in Statused /\ roster \subseteq Guests
  /\ boarded \in BOOLEAN /\ answering \in BOOLEAN
  /\ board.count \in 0..Cardinality(Guests) /\ joining \in [Tasks -> Handling]

LEMMA IdleHandler == Party!Idle \in Handling
  BY DEF Party!Idle, Handling, Creating

LEMMA OnErrand ==
  ASSUME PartyTypes, NEW h \in Tasks, joining[h].step \in {"apply", "reread", "reply"}
  PROVE  joining[h] \in Errand
  BY DEF PartyTypes, Handling, Creating

\* A card shows a count of guests.
LEMMA GuestsCounted ==
  ASSUME Party!BoardAssumption, NEW S \in SUBSET Guests
  PROVE  Party!Cardinality(S) \in 0..Cardinality(Guests)
<1>1. IsFiniteSet(Guests)
  BY Zenon DEF Party!BoardAssumption, Party!IsFiniteSet, IsFiniteSet
<1>2. IsFiniteSet(S) /\ Cardinality(S) <= Cardinality(Guests)
  BY <1>1, FS_Subset
<1>3. Cardinality(S) \in Nat /\ Cardinality(Guests) \in Nat
  BY <1>1, <1>2, FS_CardinalityType
<1> QED
  BY <1>2, <1>3, PartyCardinality

LEMMA NextParty ==
  ASSUME Party!BoardAssumption, PartyTypes, [Party!Next]_(Party!eventVars)
  PROVE  PartyTypes'
<1> USE DEF PartyTypes
<1>1. ASSUME NEW h \in Tasks, Party!CreateEvent(h) PROVE PartyTypes'
  <2>1. [step |-> "publish"] \in Handling
    BY DEF Handling, Creating
  <2> QED
    BY <1>1, <2>1 DEF Party!CreateEvent, Statused
<1>2. ASSUME NEW h \in Tasks, Party!Publish(h) PROVE PartyTypes'
  <2>1. [step |-> "store"] \in Handling
    BY DEF Handling, Creating
  <2>2. board'.count \in 0..Cardinality(Guests)
    BY <1>2, GuestsCounted, FS_EmptySet, PartyCardinality DEF Party!Publish
  <2> QED
    BY <1>2, <2>1, <2>2, IdleHandler DEF Party!Publish
<1>3. ASSUME NEW h \in Tasks, Party!Store(h) PROVE PartyTypes'
  BY <1>3, IdleHandler DEF Party!Store
<1>4. ASSUME NEW h \in Tasks, NEW p \in Guests, NEW card \in BOOLEAN,
             NEW op \in {"join", "leave"} \union Party!Ended, Party!Call(h, op, p, card)
      PROVE  PartyTypes'
  <2> DEFINE e == [step |-> IF op = "join" /\ p \in roster THEN "reply" ELSE "apply",
                   op |-> op, player |-> p, card |-> card, record |-> Party!Record]
  <2>1. Party!Record \in [status : Statused, roster : SUBSET Guests]
    BY DEF Party!Record
  <2>2. e \in Handling
    BY <2>1 DEF Handling, Errand
  <2>3. joining' = [joining EXCEPT ![h] = e]
    BY <1>4 DEF Party!Call
  <2> HIDE DEF e
  <2> QED
    BY <1>4, <2>2, <2>3 DEF Party!Call
<1>5. ASSUME NEW h \in Tasks, Party!Apply(h) PROVE PartyTypes'
  <2>1. joining[h] \in Errand
    BY <1>5, OnErrand DEF Party!Apply
  <2>2. \A s \in {"reread", "idle"} : [joining[h] EXCEPT !.step = s] \in Handling
    BY <2>1 DEF Handling, Errand
  <2>3. joining' \in [Tasks -> Handling]
    <3>1. \E e \in Handling : joining' = [joining EXCEPT ![h] = e]
      <4>1. CASE joining' = [joining EXCEPT ![h] = Party!Idle]
        BY <4>1, IdleHandler
      <4>2. ASSUME NEW s \in {"reread", "idle"}, joining' = [joining EXCEPT ![h].step = s]
            PROVE  \E e \in Handling : joining' = [joining EXCEPT ![h] = e]
        <5>1. joining' = [joining EXCEPT ![h] = [joining[h] EXCEPT !.step = s]]
          BY <4>2
        <5> QED
          BY <2>2, <5>1
      <4> QED
        BY <1>5, <4>1, <4>2 DEF Party!Apply
    <3> QED
      BY <3>1
  <2>4. roster' \subseteq Guests /\ status' \in Statused
    BY <1>5, <2>1 DEF Party!Apply, Errand, Statused
  <2> QED
    BY <1>5, <2>3, <2>4 DEF Party!Apply
<1>6. ASSUME NEW h \in Tasks, Party!ReadBack(h) PROVE PartyTypes'
  <2>1. joining[h] \in Errand
    BY <1>6, OnErrand DEF Party!ReadBack
  <2>2. Party!Record \in [status : Statused, roster : SUBSET Guests]
    BY DEF Party!Record
  <2>3. [joining[h] EXCEPT !.step = "reply", !.record = Party!Record] \in Handling
    BY <2>1, <2>2 DEF Handling, Errand
  <2>4. joining' = [joining EXCEPT ![h] = [joining[h] EXCEPT !.step = "reply", !.record = Party!Record]]
    BY <1>6 DEF Party!ReadBack
  <2> QED
    BY <1>6, <2>3, <2>4 DEF Party!ReadBack
<1>7. ASSUME NEW h \in Tasks, Party!Reply(h) PROVE PartyTypes'
  <2>1. joining[h].record.roster \in SUBSET Guests
    BY <1>7, OnErrand DEF Party!Reply, Errand
  <2>2. board'.count \in 0..Cardinality(Guests)
    BY <1>7, <2>1, GuestsCounted DEF Party!Reply, Party!Card
  <2> QED
    BY <1>7, <2>2, IdleHandler DEF Party!Reply
<1>8. CASE Party!RestartBot
  BY <1>8, IdleHandler DEF Party!RestartBot
<1>9. CASE UNCHANGED Party!eventVars
  BY <1>9 DEF Party!eventVars
<1> QED
  BY <1>1, <1>2, <1>3, <1>4, <1>5, <1>6, <1>7, <1>8, <1>9 DEF Party!Next

LEMMA PartyTyped ==
  ASSUME Party!BoardAssumption
  PROVE  Party!Spec => []Party!TypeOK
<1>1. Party!Init => PartyTypes
  <2>1. Party!Cardinality({}) = 0 /\ Party!Cardinality({}) \in 0..Cardinality(Guests)
    BY GuestsCounted, FS_EmptySet, PartyCardinality
  <2>2. Party!Init => board.count = 0 /\ status = "absent" /\ roster = {}
    BY DEF Party!Init
  <2>3. Party!Init => boarded \in BOOLEAN /\ answering \in BOOLEAN /\ joining \in [Tasks -> Handling]
    BY IdleHandler DEF Party!Init
  <2> QED
    BY <2>1, <2>2, <2>3 DEF PartyTypes, Statused
<1>2. PartyTypes /\ [Party!Next]_(Party!eventVars) => PartyTypes'
  BY NextParty
<1>3. PartyTypes => Party!TypeOK
  BY PartyCardinality DEF PartyTypes, Party!TypeOK, Statused
<1> QED
  BY <1>1, <1>2, <1>3, PTL DEF Party!Spec

\* How far clock, cash and transfers go, and that one post is under way and one
\* snapshot stored at most.
BalanceBounds ==
  /\ now \in 1..Horizon /\ cash \in 0..MaxCash /\ Len(moves) <= MaxTransfers
  /\ file.value \in 0..MaxCash /\ file.covers \in 0..MaxTransfers /\ file.at \in 1..Horizon
  /\ \A i \in 1..Len(moves) : moves[i].done \in 0..now
  /\ (\A u, v \in upload : u = v) /\ (\A s, r \in stored : s = r)

LEMMA InitBalanceBounds ==
  ASSUME Balance!BalanceAssumption, Balance!Init
  PROVE  BalanceBounds
<1>1. /\ now = 1 /\ cash = 1 /\ Len(moves) = 0 /\ upload = {} /\ stored = {}
      /\ file = [value |-> 1, covers |-> 0, at |-> 1]
  BY DEF Balance!Init
<1>2. MaxCash \in Nat \ {0} /\ Horizon \in Nat \ {0} /\ MaxTransfers \in Nat
  BY DEF Balance!BalanceAssumption
<1> QED
  BY <1>1, <1>2 DEF BalanceBounds

LEMMA NextBalanceBounds ==
  ASSUME Balance!BalanceAssumption, BalanceInv, BalanceBounds, [Balance!Next]_(Balance!balanceVars)
  PROVE  BalanceBounds'
<1> USE DEF BalanceBounds
<1>1. /\ BalanceTypes /\ Len(moves) \in Nat /\ Horizon \in Nat /\ MaxCash \in Nat /\ MaxTransfers \in Nat
      /\ \A i \in 1..Len(moves) : moves[i] \in BankMove
  BY DEF BalanceInv, BalanceTypes, Balance!BalanceAssumption
<1>2. ASSUME NEW v \in 0..MaxCash, Balance!Earn(v) PROVE BalanceBounds'
  <2>1. Len(moves') = Len(moves) /\ \A i \in 1..Len(moves) : moves'[i].done = moves[i].done
    BY <1>1, <1>2, SeenMoves DEF Balance!Earn
  <2> QED
    BY <1>2, <2>1 DEF Balance!Earn
<1>3. ASSUME NEW v \in 0..MaxCash, Balance!Move(v) PROVE BalanceBounds'
  <2> DEFINE new == [after |-> v, since |-> {v}, done |-> 0]
             seen == Balance!Seen(v)
  <2>1. v \in Int /\ new.done = 0 /\ new \in BankMove
    BY DEF BankMove
  <2>2. /\ seen \in Seq(BankMove) /\ Len(seen) = Len(moves)
        /\ \A i \in 1..Len(moves) : seen[i].done = moves[i].done
    BY <1>1, <2>1, SeenMoves
  <2>3. moves' = Append(seen, new) /\ Len(moves) < MaxTransfers /\ cash' = v
        /\ UNCHANGED <<now, file, upload, stored>>
    BY <1>3 DEF Balance!Move
  <2> HIDE DEF new, seen
  <2>4. Len(moves') = Len(moves) + 1
    BY <2>1, <2>2, <2>3
  <2>5. \A i \in 1..Len(moves') : moves'[i].done \in 0..now
    BY <1>1, <2>1, <2>2, <2>3, <2>4
  <2> QED
    BY <1>1, <2>3, <2>4, <2>5
<1>4. CASE Balance!ExportSnapshot
  BY <1>1, <1>4 DEF Balance!ExportSnapshot
<1>5. CASE Balance!Stop
  BY <1>5 DEF Balance!Stop
<1>6. CASE Balance!Post
  BY <1>6 DEF Balance!Post
<1>7. CASE Balance!Receive
  BY <1>7 DEF Balance!Receive
<1>8. CASE Balance!Lose
  BY <1>8 DEF Balance!Lose
<1>9. ASSUME NEW i \in 1..Len(moves), Balance!Complete(i) PROVE BalanceBounds'
  <2>1. moves' = [moves EXCEPT ![i].done = now]
    BY <1>9 DEF Balance!Complete
  <2>2. /\ Len(moves') = Len(moves)
        /\ \A j \in 1..Len(moves) : moves'[j] = IF j = i THEN [moves[i] EXCEPT !.done = now] ELSE moves[j]
    BY <1>1, <2>1 DEF BalanceTypes
  <2>3. \A j \in 1..Len(moves) : moves'[j].done = IF j = i THEN now ELSE moves[j].done
    BY <1>1, <2>2 DEF BankMove
  <2> QED
    BY <1>1, <1>9, <2>2, <2>3 DEF Balance!Complete
<1>10. CASE Balance!Tick
  BY <1>1, <1>10 DEF Balance!Tick
<1>11. CASE UNCHANGED Balance!balanceVars
  BY <1>11 DEF Balance!balanceVars
<1> QED
  BY <1>2, <1>3, <1>4, <1>5, <1>6, <1>7, <1>8, <1>9, <1>10, <1>11
  DEF Balance!Next, Balance!GameSide, Balance!AgentSide

LEMMA BalanceCardinality == \A S : Balance!Cardinality(S) = Cardinality(S)
  BY DEF Balance!Cardinality, Cardinality

LEMMA BalanceTyped ==
  ASSUME Balance!BalanceAssumption
  PROVE  Balance!Spec => []Balance!TypeOK
<1>1. Balance!Init => BalanceInv /\ BalanceBounds
  BY InitBalance, InitBalanceBounds
<1>2. BalanceInv /\ BalanceBounds /\ [Balance!Next]_(Balance!balanceVars) => BalanceInv' /\ BalanceBounds'
  BY NextBalance, NextBalanceBounds
<1>3. ASSUME BalanceInv, BalanceBounds PROVE Balance!TypeOK
  <2>1. Balance!Cardinality(upload) <= 1 /\ Balance!Cardinality(stored) <= 1
    BY <1>3, AtMostOne, BalanceCardinality DEF BalanceBounds
  <2>2. file \in [value : 0..MaxCash, covers : 0..MaxTransfers, at : 1..Horizon]
    BY <1>3 DEF BalanceInv, BalanceTypes, BalanceBounds
  <2>3. \A i \in 1..Len(moves) : moves[i].after \in moves[i].since
    BY <1>3 DEF BalanceInv
  <2>4. running \in BOOLEAN
    BY <1>3 DEF BalanceInv, BalanceTypes
  <2> QED
    BY <1>3, <2>1, <2>2, <2>3, <2>4 DEF BalanceBounds, Balance!TypeOK
<1> QED
  BY <1>1, <1>2, <1>3, PTL DEF Balance!Spec

(* Each service stays within its types and bounds; among them that a chat  *)
(* message has its record before its operation, that the Agent has one     *)
(* post under way and central one snapshot stored, and that one thread     *)
(* handles a snapshot at a time.                                           *)
THEOREM ServicesTyped ==
  ASSUME ServicesAssumption
  PROVE  /\ Payments!Spec /\ Balance!Spec /\ Party!Spec /\ Chat!Spec /\ Pairing!Spec
         /\ Runtime!Spec /\ Code!Spec /\ System!Spec /\ Carry!Spec
         => []TypesOK
<1>1. Payments!Spec => []Payments!TypeOK
  <2>1. PayInv => Payments!TypeOK
    BY DEF PayInv
  <2> QED
    BY <2>1, PayHolds, PTL DEF ServicesAssumption
<1>2. Code!Spec => []Code!TypeOK
  <2>1. Code!Init => CodeInv
    BY InitCodes DEF ServicesAssumption
  <2>2. CodeInv /\ [Code!Next]_(Code!vars) => CodeInv'
    BY NextCodes DEF ServicesAssumption
  <2>3. CodeInv => Code!TypeOK
    BY DEF CodeInv
  <2> QED
    BY <2>1, <2>2, <2>3, PTL DEF Code!Spec
<1>3. /\ Balance!Spec => []Balance!TypeOK
      /\ Party!Spec => []Party!TypeOK
      /\ Pairing!Spec => []Pairing!TypeOK
      /\ Runtime!Spec => []Runtime!TypeOK
      /\ System!Spec => []System!TypeOK
      /\ Carry!Spec => []Carry!TypeOK
  BY BalanceTyped, PartyTyped, PairingTyped, RuntimeTyped, SystemTyped, CarryTyped
  DEF ServicesAssumption
<1> QED
  BY <1>1, <1>2, <1>3, ChatTyped, PTL DEF TypesOK
===============================================================================
