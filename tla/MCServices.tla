------------------------------ MODULE MCServices ------------------------------
(***************************************************************************)
(* Safety of the services that share no state: one behaviour exercises the *)
(* component named by focus while the others rest.  ActivityIntake is      *)
(* extended, with two sessions of one player; the others are instances.    *)
(***************************************************************************)
EXTENDS ActivityIntake, Services

VARIABLES
  focus,                                                      \* the component exercised
  item, lock, source, archived, retrieval, leased, op, transfer, queueing, seen,
  fetched, commands, slip, failed, journal, newer, live, saved, deleting, deferred,
  loads, moved, sold, soldSaved, garageFaults                 \* VehicleGarage

MCOwner == [s \in Sessions |-> "ann"]

\* Ann can just pay her invoice, or one payment to Bob; Cy is not linked.  Two
\* commands share a payment ID with different amounts.
Commands == [
  pay1   |-> [kind |-> "pay", id |-> 1, payer |-> "ann", payee |-> "bob", amount |-> 1],
  pay2   |-> [kind |-> "pay", id |-> 1, payer |-> "ann", payee |-> "bob", amount |-> 2],
  other  |-> [kind |-> "pay", id |-> 2, payer |-> "bob", payee |-> "cy", amount |-> 1],
  back   |-> [kind |-> "pay", id |-> 3, payer |-> "bob", payee |-> "ann", amount |-> 2],
  credit |-> [kind |-> "credit", id |-> 1, payer |-> "cy", payee |-> "ann", amount |-> 1],
  bill   |-> [kind |-> "invoice", invoice |-> "i1", actor |-> "ann"],
  bill2  |-> [kind |-> "invoice", invoice |-> "i1", actor |-> "ann"],
  withdraw |-> [kind |-> "cancel", invoice |-> "i1", actor |-> "bob", staff |-> FALSE]]
Bills == [i1 |-> [issuer |-> "bob", recipient |-> "ann", amount |-> 2]]
Balances == [ann |-> 2, bob |-> 1, cy |-> 1]

\* Commands of the two parts that are about payments; the second has one to
\* somebody who is not linked.
PayCalls  == {"pay1", "pay2", "credit", "back"}
BillCalls == {"pay1", "other", "bill", "bill2", "withdraw"}

\* The digests of the first two vehicles start alike, the third has no prefix
\* of its own.
Prefixes == [v1 |-> <<"a", "b">>, v2 |-> <<"a", "c">>, v3 |-> <<"a", "b">>]

\* Ann is proven in two historical worlds, and Bob in one of them.
Receipted == [s1 |-> {"ann", "bob"}, s2 |-> {"ann"}]

\* Two retrievals race for one stored vehicle while a transfer of it is queued.
Garage == INSTANCE VehicleGarage WITH
  Farms <- {1, 2, 3}, Account <- [f \in {1, 2, 3} |-> IF f = 3 THEN "other" ELSE "member"],
  Garages <- {"g1"}, Retrieves <- {"r1", "r2"}, Transfers <- {"t1"},
  Destination <- [r1 |-> 2, r2 |-> 2, t1 |-> 2], Home <- 1, MaxFaults <- 1, Nothing <- None,
  Hazards <- {"crash", "save_failure", "lost_answer", "half_write", "queue_race", "sale"},
  current <- fetched, receipt <- slip, quarantined <- failed, pending <- deferred,
  faults <- garageFaults

\* The vehicle is stored, retrieved and stored again with a fault of any kind.
Cycle == INSTANCE VehicleGarage WITH
  Farms <- {1, 2, 3}, Account <- [f \in {1, 2, 3} |-> IF f = 3 THEN "other" ELSE "member"],
  Garages <- {"g1", "g2"}, Retrieves <- {"r1"}, Transfers <- {"t1"},
  Destination <- [r1 |-> 2, t1 |-> 2], Home <- 1, MaxFaults <- 1, Nothing <- None,
  Hazards <- {"crash", "save_failure", "lost_answer", "half_write"},
  current <- fetched, receipt <- slip, quarantined <- failed, pending <- deferred,
  faults <- garageFaults
-------------------------------------------------------------------------------
intakeVars  == vars
paymentVars == <<wallet, ledger, transfers, credits, invoice, phase, view>>
balanceVars == <<now, running, cash, moves, file, upload, stored>>
eventVars   == <<status, roster, boarded, board, answering, joining>>
chatVars    == <<queue, record, operation, command, receipt, spoken, post, current, mishaps>>
pairingVars == <<row, issuedCodes, paired, staff, told, requests, claim, response, binding,
                 overlapped, slips>>
runtimeVars == <<runs, world, flight, thread, pointer, snapshots, active, lapses>>
codeVars    == <<rows, task, step, length, answer>>
garageVars  == <<item, lock, source, archived, retrieval, leased, op, transfer, queueing, seen,
                 fetched, commands, slip, failed, journal, newer, live, saved, deleting,
                 deferred, loads, moved, sold, soldSaved, garageFaults>>
systemVars  == <<here, nativeSave, lost, ensuring, found, named, ensured, mapped, handler,
                 overlaps, setbacks>>
carryVars   == <<own, carried, audit, standing, open, crossed>>

Payment == {"payments", "bill"}
Custody == {"garage", "cycle"}
Continuity == {"carry", "share"}
Components == Payment \cup Custody \cup Continuity \cup
  {"intake", "balance", "event", "chat", "pairing", "runtime", "codes", "system"}

AllInit ==
  /\ focus \in Components
  /\ Init
  /\ Payments!Init /\ Balance!Init /\ Party!Init /\ Chat!Init /\ Pairing!Init /\ Runtime!Init
  /\ Code!Init
  /\ IF focus = "cycle" THEN Cycle!Init ELSE Garage!Init
  /\ System!Init /\ Carry!Init
  /\ (focus # "runtime" => runs.save = 1)

\* The component c has the floor and the others rest.
Only(c) ==
  /\ focus = c
  /\ UNCHANGED focus
  /\ IF c = "intake" THEN TRUE ELSE UNCHANGED intakeVars
  /\ IF c \in Payment THEN TRUE ELSE UNCHANGED paymentVars
  /\ IF c = "balance" THEN TRUE ELSE UNCHANGED balanceVars
  /\ IF c = "event" THEN TRUE ELSE UNCHANGED eventVars
  /\ IF c = "chat" THEN TRUE ELSE UNCHANGED chatVars
  /\ IF c = "pairing" THEN TRUE ELSE UNCHANGED pairingVars
  /\ IF c = "runtime" THEN TRUE ELSE UNCHANGED runtimeVars
  /\ IF c = "codes" THEN TRUE ELSE UNCHANGED codeVars
  /\ IF c \in Custody THEN TRUE ELSE UNCHANGED garageVars
  /\ IF c = "system" THEN TRUE ELSE UNCHANGED systemVars
  /\ IF c \in Continuity THEN TRUE ELSE UNCHANGED carryVars

\* Two parts of one instance each: some of the commands are given; and either
\* Bob keeps out, or there is one source and Bob has no request of his own.
Given(calls) == \A c \in Orders \ calls : phase'[c] = "idle"
WithoutBob == own' = [own' EXCEPT !["bob"] = "none"] /\ "bob" \in standing' /\ Carry!OpenFor("bob")' = {}
OneSource == \A c \in Transactions : open'[c] # Carry!Idle =>
  open'[c].source # "s2" /\ (open'[c].member = "bob" => open'[c].source # None)

\* The game writes the files of both sessions; one handler of an event is of
\* its card's buttons and the other of the commands.
BothTold == game' # game => mailbox' # mailbox
ClickAndCommand == \A h \in Tasks : joining'[h].step \in {"apply", "reread", "reply"} =>
  (joining'[h].card <=> h = 1 /\ joining'[h].op \in {"join", "leave"})

AllNext ==
  \/ Only("intake") /\ Next /\ BothTold
  \/ Only("payments") /\ Payments!Next /\ Given(PayCalls)
  \/ Only("bill") /\ Payments!Next /\ Given(BillCalls)
  \/ Only("balance") /\ Balance!Next
  \/ Only("event") /\ Party!Next /\ ClickAndCommand
  \/ Only("chat") /\ Chat!Next
  \/ Only("pairing") /\ Pairing!Next
  \/ Only("runtime") /\ Runtime!Next
  \/ Only("codes") /\ Code!Next
  \/ Only("garage") /\ Garage!Next
  \/ Only("cycle") /\ Cycle!Next
  \/ Only("system") /\ System!Next
  \/ Only("carry") /\ Carry!Next /\ WithoutBob
  \/ Only("share") /\ Carry!Next /\ OneSource

allVars == <<focus, intakeVars, paymentVars, balanceVars, eventVars, chatVars, pairingVars,
             runtimeVars, codeVars, garageVars, systemVars, carryVars>>
AllSpec == AllInit /\ [][AllNext]_allVars
-------------------------------------------------------------------------------
\* With crashes and two retrievals of one archive at once, the vehicle is
\* always somewhere and is loaded from an archive at most once; and where
\* nobody races or sells it, every step keeps the promise of VehicleCustody.
GarageHolds ==
  /\ [](focus = "garage" => Garage!GarageHolds)
  /\ [][focus = "cycle" => Cycle!Promise!Next \/ UNCHANGED <<Cycle!Custody, Len(live)>>]_garageVars
===============================================================================
