--------------------------- MODULE LiveServicesProofs --------------------------
(***************************************************************************)
(* Theorems about the services of LiveServices, for any values of their    *)
(* constants.                                                              *)
(***************************************************************************)
EXTENDS LiveServices, FiniteSetTheorems, WellFoundedInduction, TLAPS

-------------------------------------------------------------------------------
(* ContractMarket                                                          *)

ContractRecord ==
  [status : {"absent", "open", "accepted", "completed", "cancelled"},
   acceptor : Users \union {NoOne}, world : Nat]
ContractCall ==
  [step : {"idle", "send", "locate", "update", "reread", "answer"},
   op : {"none", "post", "accept", "cancel", "complete"}, card : BOOLEAN,
   k : Market!Contracts, user : Users \union {NoOne}, record : ContractRecord]

\* What a record read, a card shown or a row restored has been told stays so.
Follows(r, k) ==
  /\ r.acceptor # NoOne => r.acceptor = contract[k].acceptor
  /\ r.status \in Market!Terminal => r.status = contract[k].status

ContractsFit ==
  /\ contract \in [Market!Contracts -> ContractRecord] /\ world \in Nat
  /\ located \subseteq Market!Contracts
  /\ \A k \in Market!Contracts :
       /\ contract[k].acceptor # Creator[k]
       /\ contract[k].status = "open" => contract[k].acceptor = NoOne
       /\ contract[k].status \in {"accepted", "completed"} => contract[k].acceptor # NoOne
CallsFit ==
  /\ handler \in [Interactions -> ContractCall]
  /\ \A h \in Interactions :
       handler[h].step = "update" => handler[h].user # NoOne /\ handler[h].op \in {"accept", "cancel", "complete"}
CallsFollow == \A h \in Interactions : Follows(handler[h].record, handler[h].k)
CardsFollow ==
  /\ card = [k \in Market!Contracts |-> card[k]]
  /\ \A k \in Market!Contracts : Follows(card[k], k)
RowsFollow ==
  /\ restoring \subseteq [k : Market!Contracts, record : ContractRecord]
  /\ \A r \in restoring : Follows(r.record, r.k)
MarketInv == ContractsFit /\ CallsFit /\ CallsFollow /\ CardsFollow /\ RowsFollow

LEMMA InitMarket == Market!MarketAssumption /\ Market!Init => MarketInv
<1> SUFFICES ASSUME Market!MarketAssumption, Market!Init PROVE MarketInv
  OBVIOUS
<1>1. Market!Absent \in ContractRecord /\ Market!Absent.acceptor = NoOne /\ Market!Absent.status = "absent"
  BY DEF Market!Absent, ContractRecord
<1>2. /\ Market!Nothing \in ContractCall /\ Market!Nothing.record = Market!Absent
      /\ Market!Nothing.step = "idle"
  BY <1>1 DEF Market!Nothing, ContractCall, Market!Contracts, Market!MarketAssumption
<1>3. \A k : Follows(Market!Absent, k) /\ Follows(Market!NoCard, k)
  BY DEF Follows, Market!Absent, Market!NoCard, Market!Terminal
<1>4. ContractsFit
  BY <1>1 DEF Market!Init, ContractsFit, Market!MarketAssumption
<1>5. CallsFit /\ CallsFollow
  BY <1>2, <1>3 DEF Market!Init, CallsFit, CallsFollow
<1>6. CardsFollow /\ RowsFollow
  BY <1>3 DEF Market!Init, CardsFollow, RowsFollow
<1> QED
  BY <1>4, <1>5, <1>6 DEF MarketInv

\* What one step may do to the contracts.
Keeps(k) ==
  /\ contract[k].acceptor # NoOne => contract'[k].acceptor = contract[k].acceptor
  /\ contract[k].status \in Market!Terminal => contract'[k] = contract[k]

LEMMA ContractsStep ==
  ASSUME Market!MarketAssumption, MarketInv, [Market!Next]_(Market!vars)
  PROVE  ContractsFit' /\ \A k \in Market!Contracts : Keeps(k)
<1> USE DEF MarketInv
<1>0. located' \subseteq Market!Contracts
  <2>1. \A h \in Interactions : handler[h].k \in Market!Contracts
    BY DEF CallsFit, ContractCall
  <2> QED
    BY <2>1
    DEF ContractsFit, Market!Next, Market!vars, Market!Create, Market!Handle, Market!Ask, Market!Send, Market!Locate,
        Market!Update, Market!Reread, Market!Answer, Market!Restart, Market!ReplaceWorld, Market!Restore,
        Market!RestoreFails
<1>1. CASE \E h \in Interactions, k \in Market!Contracts : Market!Create(h, k)
  <2>1. PICK h \in Interactions, k \in Market!Contracts : Market!Create(h, k)
    BY <1>1
  <2>2. /\ contract[k].acceptor = NoOne /\ contract[k].status = "absent" /\ world' = world
        /\ contract' = [contract EXCEPT ![k] = [status |-> "open", acceptor |-> NoOne, world |-> world]]
    BY <2>1 DEF Market!Create, Market!Absent
  <2>3. [status |-> "open", acceptor |-> NoOne, world |-> world] \in ContractRecord
    BY DEF ContractRecord, ContractsFit
  <2>4. NoOne # Creator[k]
    BY DEF Market!MarketAssumption
  <2>5. ContractsFit'
    BY <1>0, <2>2, <2>3, <2>4 DEF ContractsFit
  <2>6. \A j \in Market!Contracts : Keeps(j)
    BY <2>2 DEF Keeps, ContractsFit, Market!Terminal
  <2> QED
    BY <2>5, <2>6
<1>2. CASE \E h \in Interactions : Market!Update(h)
  <2>1. PICK h \in Interactions : Market!Update(h)
    BY <1>2
  <2> DEFINE k == handler[h].k  u == handler[h].user  old == contract[k]
  <2>2. /\ k \in Market!Contracts /\ u \in Users /\ handler[h].op \in {"accept", "cancel", "complete"}
        /\ old \in ContractRecord /\ world' = world
    BY <2>1 DEF Market!Update, CallsFit, ContractCall, ContractsFit
  <2>3. CASE ~Market!Matches(h)
    <3>1. contract' = contract
      BY <2>1, <2>3 DEF Market!Update
    <3> QED
      BY <1>0, <2>2, <3>1 DEF ContractsFit, Keeps
  <2>4. CASE Market!Matches(h)
    <3>1. contract' = [contract EXCEPT ![k] = Market!Updated(h)]
      BY <2>1, <2>4 DEF Market!Update
    <3>2. /\ Market!Updated(h) \in ContractRecord
          /\ Market!Updated(h).acceptor # Creator[k]
          /\ Market!Updated(h).status # "open"
          /\ Market!Updated(h).status \in {"accepted", "completed"} => Market!Updated(h).acceptor # NoOne
          /\ old.status \notin Market!Terminal
          /\ old.acceptor # NoOne => Market!Updated(h).acceptor = old.acceptor
      <4>1. CASE handler[h].op = "accept"
        <5>1. /\ Market!Updated(h) = [old EXCEPT !.status = "accepted", !.acceptor = u]
              /\ old.status = "open" /\ Creator[k] # u
          BY <2>4, <4>1 DEF Market!Updated, Market!Matches
        <5> QED
          BY <2>2, <5>1 DEF ContractRecord, ContractsFit, Market!Terminal, Market!MarketAssumption
      <4>2. CASE handler[h].op = "cancel"
        <5>1. /\ Market!Updated(h) = [old EXCEPT !.status = "cancelled"]
              /\ old.status \notin Market!Terminal
          BY <2>4, <4>2 DEF Market!Updated, Market!Matches
        <5> QED
          BY <2>2, <5>1 DEF ContractRecord, ContractsFit
      <4>3. CASE handler[h].op = "complete"
        <5>1. /\ Market!Updated(h) = [old EXCEPT !.status = "completed"]
              /\ old.status = "accepted"
          BY <2>4, <4>3 DEF Market!Updated, Market!Matches
        <5> QED
          BY <2>2, <5>1 DEF ContractRecord, ContractsFit, Market!Terminal
      <4> QED
        BY <2>2, <4>1, <4>2, <4>3
    <3> HIDE DEF k, u, old
    <3>3. ContractsFit'
      BY <1>0, <2>2, <3>1, <3>2 DEF ContractsFit
    <3>4. \A j \in Market!Contracts : Keeps(j)
      BY <2>2, <3>1, <3>2 DEF Keeps, ContractsFit, old
    <3> QED
      BY <3>3, <3>4
  <2> QED
    BY <2>3, <2>4
<1>3. CASE Market!ReplaceWorld
  BY <1>0, <1>3 DEF Market!ReplaceWorld, ContractsFit, Keeps
<1>4. CASE UNCHANGED <<contract, world>>
  BY <1>0, <1>4 DEF ContractsFit, Keeps
<1> QED
  BY <1>1, <1>2, <1>3, <1>4
  DEF Market!Next, Market!vars, Market!Handle, Market!Ask, Market!Send, Market!Locate, Market!Reread,
      Market!Answer, Market!Restart, Market!Restore, Market!RestoreFails

\* What followed a contract goes on to do so.
LEMMA FollowsStays ==
  ASSUME \A k \in Market!Contracts : Keeps(k), NEW r, NEW k \in Market!Contracts, Follows(r, k)
  PROVE  /\ r.acceptor # NoOne => r.acceptor = contract'[k].acceptor
         /\ r.status \in Market!Terminal => r.status = contract'[k].status
BY DEF Keeps, Follows

\* A step in which a call only moves on, and perhaps reads its contract.
LEMMA CallMoves ==
  ASSUME MarketInv, \A k \in Market!Contracts : Keeps(k), NEW h \in Interactions, NEW c \in ContractCall,
         handler' = [handler EXCEPT ![h] = c],
         c.step = "update" => c.user # NoOne /\ c.op \in {"accept", "cancel", "complete"},
         \/ c.record = handler[h].record /\ c.k = handler[h].k
         \/ c.record.acceptor = NoOne /\ c.record.status \notin Market!Terminal
         \/ c.record = contract'[c.k]
  PROVE  CallsFit' /\ CallsFollow'
<1>1. CallsFit'
  BY DEF CallsFit, MarketInv
<1>2. ASSUME NEW g \in Interactions PROVE Follows(handler[g].record, handler[g].k)'
  <2>1. handler[g].k \in Market!Contracts
    BY DEF MarketInv, CallsFit, ContractCall
  <2>2. Follows(handler[g].record, handler[g].k)
    BY DEF MarketInv, CallsFollow
  <2>3. CASE g # h
    <3>1. handler'[g] = handler[g]
      BY <2>3 DEF MarketInv, CallsFit
    <3> QED
      BY <2>1, <2>2, <3>1, FollowsStays DEF Follows
  <2>4. CASE g = h
    <3>1. handler'[g] = c
      BY <2>4 DEF MarketInv, CallsFit
    <3>2. CASE c.record = handler[h].record /\ c.k = handler[h].k
      BY <2>1, <2>2, <2>4, <3>1, <3>2, FollowsStays DEF Follows
    <3>3. CASE c.record.acceptor = NoOne /\ c.record.status \notin Market!Terminal
      BY <3>1, <3>3 DEF Follows
    <3>4. CASE c.record = contract'[c.k]
      BY <3>1, <3>4 DEF Follows
    <3> QED
      BY <3>2, <3>3, <3>4
  <2> QED
    BY <2>3, <2>4
<1> QED
  BY <1>1, <1>2 DEF CallsFollow

LEMMA CallsKeep ==
  ASSUME MarketInv, \A k \in Market!Contracts : Keeps(k), handler' = handler
  PROVE  CallsFit' /\ CallsFollow'
<1>1. \A h \in Interactions : handler[h].k \in Market!Contracts
  BY DEF MarketInv, CallsFit, ContractCall
<1> QED
  BY <1>1, FollowsStays DEF MarketInv, CallsFit, CallsFollow, Follows

LEMMA CardsKeep ==
  ASSUME MarketInv, \A k \in Market!Contracts : Keeps(k), card' = card
  PROVE  CardsFollow'
BY FollowsStays DEF MarketInv, CardsFollow, Follows

LEMMA RowsKeep ==
  ASSUME MarketInv, \A k \in Market!Contracts : Keeps(k), restoring' \subseteq restoring
  PROVE  RowsFollow'
<1>1. ASSUME NEW r \in restoring PROVE r.k \in Market!Contracts /\ Follows(r.record, r.k)
  BY DEF MarketInv, RowsFollow
<1> QED
  BY <1>1, FollowsStays DEF MarketInv, RowsFollow, Follows

\* A card shows a record that was read earlier.
LEMMA CardShows ==
  ASSUME MarketInv, \A k \in Market!Contracts : Keeps(k), NEW k \in Market!Contracts, NEW r, Follows(r, k), NEW b,
         card' = [card EXCEPT ![k] = Market!Shows(r, b)]
  PROVE  CardsFollow'
<1>1. \A j \in Market!Contracts : card'[j] = IF j = k THEN Market!Shows(r, b) ELSE card[j]
  BY DEF MarketInv, CardsFollow
<1>2. card' = [j \in Market!Contracts |-> card'[j]]
  BY DEF MarketInv, CardsFollow
<1>3. ASSUME NEW j \in Market!Contracts PROVE Follows(card[j], j)'
  <2>1. Follows(Market!Shows(r, b), k)
    BY DEF Follows, Market!Shows
  <2>2. Follows(card[j], j)
    BY DEF MarketInv, CardsFollow
  <2> QED
    BY <1>1, <2>1, <2>2, FollowsStays DEF Follows
<1> QED
  BY <1>2, <1>3 DEF CardsFollow

LEMMA NextMarket ==
  ASSUME Market!MarketAssumption, MarketInv, [Market!Next]_(Market!vars)
  PROVE  MarketInv'
<1>1. ContractsFit' /\ \A k \in Market!Contracts : Keeps(k)
  BY ContractsStep
<1>2. /\ \A h \in Interactions : handler[h] \in ContractCall
      /\ \A k \in Market!Contracts : contract[k] \in ContractRecord
      /\ \A k \in Market!Contracts : contract'[k] \in ContractRecord
  BY <1>1 DEF MarketInv, CallsFit, ContractsFit
<1>3. /\ Market!Nothing \in ContractCall /\ Market!Nothing.step = "idle"
      /\ Market!Nothing.record.acceptor = NoOne /\ Market!Nothing.record.status \notin Market!Terminal
  BY DEF Market!Nothing, Market!Absent, ContractCall, ContractRecord, Market!Contracts,
         Market!MarketAssumption, Market!Terminal
<1>4. ASSUME NEW h \in Interactions, Market!Stop(h) PROVE CallsFit' /\ CallsFollow'
  BY <1>1, <1>3, <1>4, CallMoves DEF Market!Stop
<1>5. ASSUME NEW h \in Interactions, NEW s \in {"locate", "reread"}, Market!Go(h, s)
      PROVE CallsFit' /\ CallsFollow'
  <2> DEFINE c == [handler[h] EXCEPT !.step = s]
  <2>1. c \in ContractCall /\ c.step = s /\ c.record = handler[h].record /\ c.k = handler[h].k
    BY <1>2 DEF ContractCall
  <2>2. handler' = [handler EXCEPT ![h] = c] /\ c.step # "update"
    BY <1>2, <1>5 DEF Market!Go, ContractCall
  <2> HIDE DEF c
  <2> QED
    BY <1>1, <2>1, <2>2, CallMoves
<1>6. CASE \E h \in Interactions, k \in Market!Contracts : Market!Create(h, k)
  <2>1. PICK h \in Interactions, k \in Market!Contracts : Market!Create(h, k)
    BY <1>6
  <2> DEFINE r == [status |-> "open", acceptor |-> NoOne, world |-> world]
             c == [step |-> "send", op |-> "post", card |-> TRUE, k |-> k, user |-> Creator[k], record |-> r]
  <2>2. /\ handler' = [handler EXCEPT ![h] = c] /\ card' = card /\ restoring' = restoring
    BY <2>1 DEF Market!Create
  <2>3. c \in ContractCall /\ c.step = "send" /\ c.record.acceptor = NoOne /\ c.record.status \notin Market!Terminal
    BY DEF ContractCall, ContractRecord, Market!MarketAssumption, MarketInv, ContractsFit, Market!Terminal
  <2> HIDE DEF c
  <2>4. CallsFit' /\ CallsFollow'
    BY <1>1, <2>2, <2>3, CallMoves
  <2> QED
    BY <1>1, <2>2, <2>4, CardsKeep, RowsKeep DEF MarketInv
<1>7. CASE \E h \in Interactions, k \in Market!Contracts, u \in Users, act \in {"accept", "cancel", "complete"},
              onCard \in BOOLEAN : Market!Ask(h, act, k, u, onCard)
  <2>1. PICK h \in Interactions, k \in Market!Contracts, u \in Users, act \in {"accept", "cancel", "complete"},
             onCard \in BOOLEAN : Market!Ask(h, act, k, u, onCard)
    BY <1>7
  <2> DEFINE c == [step |-> "update", op |-> act, card |-> onCard, k |-> k, user |-> u, record |-> contract[k]]
  <2>2. /\ handler' = [handler EXCEPT ![h] = c] /\ card' = card /\ restoring' = restoring /\ contract' = contract
    BY <2>1 DEF Market!Ask
  <2>3. c \in ContractCall /\ c.user # NoOne /\ c.op = act /\ c.k = k /\ c.record = contract'[k]
    BY <1>2, <2>2 DEF ContractCall, Market!MarketAssumption
  <2> HIDE DEF c
  <2>4. CallsFit' /\ CallsFollow'
    BY <1>1, <2>2, <2>3, CallMoves
  <2> QED
    BY <1>1, <2>2, <2>4, CardsKeep, RowsKeep DEF MarketInv
<1>8. CASE \E h \in Interactions : Market!Send(h)
  <2>1. PICK h \in Interactions : Market!Send(h)
    BY <1>8
  <2>2. restoring' = restoring
    BY <2>1 DEF Market!Send
  <2>3. CallsFit' /\ CallsFollow'
    BY <2>1, <1>4, <1>5 DEF Market!Send
  <2>4. CardsFollow'
    <3>1. CASE card' = card
      BY <1>1, <3>1, CardsKeep
    <3>2. CASE card' # card
      <4>1. card' = [card EXCEPT ![handler[h].k] =
                       Market!Shows(handler[h].record, Market!Buttons(handler[h].record))]
        BY <2>1, <3>2 DEF Market!Send
      <4>2. handler[h].k \in Market!Contracts /\ Follows(handler[h].record, handler[h].k)
        BY <1>2 DEF ContractCall, MarketInv, CallsFollow
      <4> QED
        BY <1>1, <4>1, <4>2, CardShows
    <3> QED
      BY <3>1, <3>2
  <2> QED
    BY <1>1, <2>2, <2>3, <2>4, RowsKeep DEF MarketInv
<1>9. CASE \E h \in Interactions : Market!Locate(h)
  <2>1. PICK h \in Interactions : Market!Locate(h)
    BY <1>9
  <2>2. Market!Stop(h) /\ card' = card /\ restoring' = restoring
    BY <2>1 DEF Market!Locate
  <2> QED
    BY <1>1, <1>4, <2>2, CardsKeep, RowsKeep DEF MarketInv
<1>10. CASE \E h \in Interactions : Market!Update(h)
  <2>1. PICK h \in Interactions : Market!Update(h)
    BY <1>10
  <2>2. (Market!Go(h, "reread") \/ Market!Stop(h)) /\ card' = card /\ restoring' = restoring
    BY <2>1 DEF Market!Update
  <2> QED
    BY <1>1, <1>4, <1>5, <2>2, CardsKeep, RowsKeep DEF MarketInv
<1>11. CASE \E h \in Interactions : Market!Reread(h)
  <2>1. PICK h \in Interactions : Market!Reread(h)
    BY <1>11
  <2> DEFINE c == [handler[h] EXCEPT !.step = "answer", !.record = contract[handler[h].k]]
  <2>2. /\ handler' = [handler EXCEPT ![h] = c] /\ card' = card /\ restoring' = restoring /\ contract' = contract
    BY <2>1 DEF Market!Reread
  <2>3. c \in ContractCall /\ c.step = "answer" /\ c.record = contract'[c.k]
    BY <1>2, <2>2 DEF ContractCall
  <2> HIDE DEF c
  <2>4. CallsFit' /\ CallsFollow'
    BY <1>1, <2>2, <2>3, CallMoves
  <2> QED
    BY <1>1, <2>2, <2>4, CardsKeep, RowsKeep DEF MarketInv
<1>12. CASE \E h \in Interactions : Market!Answer(h)
  <2>1. PICK h \in Interactions : Market!Answer(h)
    BY <1>12
  <2>2. Market!Stop(h) /\ restoring' = restoring
    BY <2>1 DEF Market!Answer
  <2>3. CardsFollow'
    <3>1. CASE card' = card
      BY <1>1, <3>1, CardsKeep
    <3>2. CASE card' # card
      <4>1. card' = [card EXCEPT ![handler[h].k] = Market!Shows(handler[h].record, Market!Left(h))]
        BY <2>1, <3>2 DEF Market!Answer, Market!Shown
      <4>2. handler[h].k \in Market!Contracts /\ Follows(handler[h].record, handler[h].k)
        BY <1>2 DEF ContractCall, MarketInv, CallsFollow
      <4> QED
        BY <1>1, <4>1, <4>2, CardShows
    <3> QED
      BY <3>1, <3>2
  <2> QED
    BY <1>1, <1>4, <2>2, <2>3, RowsKeep DEF MarketInv
<1>13. CASE Market!Restart
  <2>1. /\ handler' = [h \in Interactions |-> Market!Nothing] /\ card' = card /\ contract' = contract
        /\ restoring' = {[k |-> k, record |-> contract[k]] : k \in Market!Marketplace}
    BY <1>13 DEF Market!Restart
  <2>2. CallsFit' /\ CallsFollow'
    BY <1>3, <2>1 DEF CallsFit, CallsFollow, Follows
  <2>3. RowsFollow'
    <3>1. Market!Marketplace \subseteq Market!Contracts
      BY DEF Market!Marketplace, MarketInv, ContractsFit
    <3>2. ASSUME NEW r \in restoring'
          PROVE  r \in [k : Market!Contracts, record : ContractRecord] /\ Follows(r.record, r.k)'
      <4>1. PICK k \in Market!Contracts : r = [k |-> k, record |-> contract[k]]
        BY <2>1, <3>1
      <4> QED
        BY <1>2, <2>1, <4>1 DEF Follows
    <3> QED
      BY <3>2 DEF RowsFollow
  <2> QED
    BY <1>1, <2>1, <2>2, <2>3, CardsKeep DEF MarketInv
<1>14. CASE \E r \in restoring : Market!Restore(r) \/ Market!RestoreFails(r)
  <2>1. PICK r \in restoring : Market!Restore(r) \/ Market!RestoreFails(r)
    BY <1>14
  <2>2. restoring' = restoring \ {r} /\ handler' = handler
    BY <2>1 DEF Market!Restore, Market!RestoreFails
  <2>3. CallsFit' /\ CallsFollow'
    BY <1>1, <2>2, CallsKeep
  <2>4. CardsFollow'
    <3>1. CASE Market!Restore(r)
      <4>1. card' = [card EXCEPT ![r.k] = Market!Shows(r.record, Market!Buttons(r.record))]
        BY <3>1 DEF Market!Restore
      <4>2. r.k \in Market!Contracts /\ Follows(r.record, r.k)
        BY DEF MarketInv, RowsFollow
      <4> QED
        BY <1>1, <4>1, <4>2, CardShows
    <3>2. CASE Market!RestoreFails(r)
      BY <1>1, <3>2, CardsKeep DEF Market!RestoreFails
    <3> QED
      BY <2>1, <3>1, <3>2
  <2> QED
    BY <1>1, <2>2, <2>3, <2>4, RowsKeep DEF MarketInv
<1>15. CASE Market!ReplaceWorld \/ UNCHANGED Market!vars
  <2>1. handler' = handler /\ card' = card /\ restoring' = restoring
    BY <1>15 DEF Market!ReplaceWorld, Market!vars
  <2> QED
    BY <1>1, <2>1, CallsKeep, CardsKeep, RowsKeep DEF MarketInv
<1> QED
  BY <1>6, <1>7, <1>8, <1>9, <1>10, <1>11, <1>12, <1>13, <1>14, <1>15 DEF Market!Next, Market!Handle

LEMMA AcceptorStays ==
  ASSUME Market!MarketAssumption, MarketInv, [Market!Next]_(Market!vars)
  PROVE  \A k \in Market!Contracts :
           /\ contract[k].acceptor # NoOne => contract'[k].acceptor = contract[k].acceptor
           /\ contract[k].status \in Market!Terminal => contract'[k] = contract[k]
           /\ contract'[k].acceptor # Creator[k]
           /\ contract'[k].status = "completed" => contract'[k].acceptor # NoOne
BY ContractsStep DEF Keeps, ContractsFit

\* A contract has one acceptor for good, and its card tells no more than that.
LEMMA MarketIsFair ==
  ASSUME Market!MarketAssumption
  PROVE  Market!Spec => Market!OneAcceptor /\ []Market!CardNeverAhead
<1>1. Market!Init => MarketInv
  BY InitMarket
<1>2. MarketInv /\ [Market!Next]_(Market!vars) => MarketInv'
  BY NextMarket
<1>3. MarketInv => Market!CardNeverAhead
  BY DEF MarketInv, CardsFollow, Follows, Market!CardNeverAhead
<1>4. Market!Spec => []MarketInv
  BY <1>1, <1>2, PTL DEF Market!Spec
<1>5. MarketInv /\ [Market!Next]_(Market!vars) =>
        [\A k \in Market!Contracts :
           /\ contract[k].acceptor # NoOne => contract'[k].acceptor = contract[k].acceptor
           /\ contract[k].status \in Market!Terminal => contract'[k] = contract[k]
           /\ contract'[k].acceptor # Creator[k]
           /\ contract'[k].status = "completed" => contract'[k].acceptor # NoOne]_(Market!vars)
  BY AcceptorStays
<1> QED
  BY <1>3, <1>4, <1>5, PTL DEF Market!Spec, Market!OneAcceptor

-------------------------------------------------------------------------------
(* Registration                                                            *)

\* Nobody is told "registered", on the way or on the screen, without a link.
Tells(a) == a.status = "registered" => owner # Nobody
Serves(c) ==
  /\ "result" \in DOMAIN c
  /\ Tells(c.result)
\* The same after a step, of a call made before it.
ServesNext(c) ==
  /\ "result" \in DOMAIN c
  /\ c.result.status = "registered" => owner' # Nobody
LinkInv ==
  /\ Tells(screen) /\ Tells(answerFile)
  /\ serving = [h \in Handlers |-> serving[h]]
  /\ \A h \in Handlers : Serves(serving[h])

LEMMA InitLink == Link!Init => LinkInv
<1>1. Tells(Link!NoAnswer)
  BY DEF Tells, Link!NoAnswer
<1>2. Link!Idle.result = Link!NoAnswer /\ Serves(Link!Idle)
  BY <1>1 DEF Link!Idle, Serves
<1> QED
  BY <1>1, <1>2 DEF Link!Init, LinkInv

\* A link is made once.
LEMMA OwnerStays ==
  ASSUME LinkInv, [Link!Next]_(Link!registrationVars)
  PROVE  /\ owner # Nobody => owner' = owner
         /\ screen'.status = "registered" => owner # Nobody
<1>1. owner # Nobody => owner' = owner
  BY DEF Link!Next, Link!registrationVars, Link!Apply, Link!Decide, Link!Register, Link!Linkable, Link!QueueRequest,
         Link!ReadAnswer, Link!Restart, Link!GiveUp, Link!Post, Link!Answer, Link!Enroll, Link!Look,
         Link!Put, Link!Tick, Link!Expire
<1>2. screen' \in {screen, answerFile, Link!NoAnswer}
  BY DEF Link!Next, Link!registrationVars, Link!Apply, Link!Decide, Link!Register, Link!QueueRequest,
         Link!ReadAnswer, Link!Restart, Link!GiveUp, Link!Post, Link!Answer, Link!Enroll, Link!Look,
         Link!Put, Link!Tick, Link!Expire
<1>3. Tells(screen) /\ Tells(answerFile) /\ Tells(Link!NoAnswer)
  BY DEF LinkInv, Tells, Link!NoAnswer
<1> QED
  BY <1>1, <1>2, <1>3 DEF Tells

\* A handler that goes on: what it answers is so, and the others are left alone.
LEMMA HandlerMoves ==
  ASSUME LinkInv, owner # Nobody => owner' = owner, NEW h \in Handlers, NEW c,
         serving' = [serving EXCEPT ![h] = c], ServesNext(c),
         screen' \in {screen, answerFile, Link!NoAnswer},
         answerFile' \in {answerFile, Link!NoAnswer, serving[h].result}
  PROVE  LinkInv'
<1>1. \A a : Tells(a) => (a.status = "registered" => owner' # Nobody)
  BY DEF Tells
<1>2. Tells(screen)' /\ Tells(answerFile)'
  <2>1. Tells(screen) /\ Tells(answerFile) /\ Tells(serving[h].result) /\ Tells(Link!NoAnswer)
    BY DEF LinkInv, Tells, Link!NoAnswer, Serves
  <2> QED
    BY <1>1, <2>1 DEF Tells
<1>3. ASSUME NEW g \in Handlers PROVE Serves(serving[g])'
  <2>1. CASE g = h
    BY <2>1 DEF LinkInv, Serves, ServesNext, Tells
  <2>2. CASE g # h
    <3>1. serving'[g] = serving[g] /\ Serves(serving[g])
      BY <2>2 DEF LinkInv
    <3> QED
      BY <1>1, <3>1 DEF Serves, Tells
  <2> QED
    BY <2>1, <2>2
<1>4. serving' = [g \in Handlers |-> serving'[g]]
  BY DEF LinkInv
<1> QED
  BY <1>2, <1>3, <1>4 DEF LinkInv

LEMMA NextLink ==
  ASSUME Link!LinkAssumption, LinkInv, [Link!Next]_(Link!registrationVars)
  PROVE  LinkInv'
<1>1. /\ owner # Nobody => owner' = owner
      /\ screen'.status = "registered" => owner # Nobody
  BY OwnerStays
<1>2. \A a : Tells(a) => (a.status = "registered" => owner' # Nobody)
  BY <1>1 DEF Tells
<1>3. Tells(Link!NoAnswer)' /\ ServesNext(Link!Idle)
  BY DEF Tells, ServesNext, Link!Idle, Link!NoAnswer
<1>4. CASE \E h \in Handlers : Link!Post(h)
  <2>1. PICK h \in Handlers : Link!Post(h)
    BY <1>4
  <2>2. /\ serving[h] = Link!Idle /\ serving' = [serving EXCEPT ![h].at = "enroll"]
        /\ screen' = screen /\ answerFile' = answerFile
    BY <2>1 DEF Link!Post
  <2>3. serving' = [serving EXCEPT ![h] = [Link!Idle EXCEPT !.at = "enroll"]]
    BY <2>2
  <2>4. ServesNext([Link!Idle EXCEPT !.at = "enroll"])
    BY DEF ServesNext, Link!Idle, Link!NoAnswer
  <2> QED
    BY <1>1, <2>2, <2>3, <2>4, HandlerMoves
<1>5. CASE \E h \in Handlers : Link!Answer(h)
  <2>1. PICK h \in Handlers : Link!Answer(h)
    BY <1>5
  <2>2. /\ serving' = [serving EXCEPT ![h] = Link!Idle] /\ screen' = screen
        /\ answerFile' \in {answerFile, serving[h].result}
    BY <2>1 DEF Link!Answer
  <2> QED
    BY <1>1, <1>3, <2>2, HandlerMoves
<1>6. CASE \E h \in Handlers : Link!Enroll(h)
  <2>1. PICK h \in Handlers : Link!Enroll(h)
    BY <1>6
  <2>2. screen' = screen /\ answerFile' = answerFile
    BY <2>1 DEF Link!Enroll
  <2>3. CASE serving' = [serving EXCEPT ![h] = Link!Registered] /\ owner' # Nobody
    <3>1. "result" \in DOMAIN Link!Registered
      BY DEF Link!Registered, Link!Idle
    <3>2. ServesNext(Link!Registered)
      BY <2>3, <3>1 DEF ServesNext
    <3> QED
      BY <1>1, <2>2, <2>3, <3>2, HandlerMoves
  <2>4. CASE \E at \in {"look", "refused"} : serving' = [serving EXCEPT ![h].at = at]
    <3>1. PICK at \in {"look", "refused"} : serving' = [serving EXCEPT ![h].at = at]
      BY <2>4
    <3>2. serving' = [serving EXCEPT ![h] = [serving[h] EXCEPT !.at = at]]
      BY <3>1
    <3>3. Serves(serving[h])
      BY DEF LinkInv
    <3>4. ServesNext([serving[h] EXCEPT !.at = at])
      BY <1>2, <3>3 DEF Serves, Tells, ServesNext
    <3> QED
      BY <1>1, <2>2, <3>2, <3>4, HandlerMoves
  <2> QED
    BY <2>1, <2>3, <2>4 DEF Link!Enroll, Link!LinkAssumption
<1>7. CASE \E h \in Handlers : Link!Look(h) \/ Link!Put(h)
  <2>1. PICK h \in Handlers : Link!Look(h) \/ Link!Put(h)
    BY <1>7
  <2>2. screen' = screen /\ answerFile' = answerFile
    BY <2>1 DEF Link!Look, Link!Put
  <2>3. CASE \E s : serving' = [serving EXCEPT ![h] = Link!Required(s)]
    <3>1. PICK s : serving' = [serving EXCEPT ![h] = Link!Required(s)]
      BY <2>3
    <3>2. /\ "result" \in DOMAIN Link!Required(s)
          /\ Link!Required(s).result = [status |-> "registration_required", shown |-> s]
      BY DEF Link!Required, Link!Idle
    <3>3. ServesNext(Link!Required(s))
      BY <3>2 DEF ServesNext
    <3> QED
      BY <1>1, <2>2, <3>1, <3>3, HandlerMoves
  <2>4. CASE \E b, f : serving' = [serving EXCEPT ![h] = [Link!Idle EXCEPT !.at = "put", !.began = b, !.found = f]]
    <3>1. PICK b, f : serving' = [serving EXCEPT ![h] = [Link!Idle EXCEPT !.at = "put", !.began = b, !.found = f]]
      BY <2>4
    <3> DEFINE c == [Link!Idle EXCEPT !.at = "put", !.began = b, !.found = f]
    <3>2. "result" \in DOMAIN c /\ c.result = Link!NoAnswer
      BY DEF Link!Idle
    <3>3. ServesNext(c)
      BY <3>2 DEF ServesNext, Link!NoAnswer
    <3> HIDE DEF c
    <3> QED
      BY <1>1, <2>2, <3>1, <3>3, HandlerMoves DEF c
  <2>5. CASE serving' = [serving EXCEPT ![h].at = "failed"]
    <3>1. serving' = [serving EXCEPT ![h] = [serving[h] EXCEPT !.at = "failed"]]
      BY <2>5
    <3>2. Serves(serving[h])
      BY DEF LinkInv
    <3>3. ServesNext([serving[h] EXCEPT !.at = "failed"])
      BY <1>2, <3>2 DEF Serves, Tells, ServesNext
    <3> QED
      BY <1>1, <2>2, <3>1, <3>3, HandlerMoves
  <2>6. CASE Link!Look(h)
    BY <2>3, <2>4, <2>6 DEF Link!Look
  <2>7. CASE Link!Put(h)
    BY <2>3, <2>5, <2>7 DEF Link!Put
  <2> QED
    BY <2>1, <2>6, <2>7
<1>8. CASE /\ serving' = serving
           /\ screen' \in {screen, answerFile, Link!NoAnswer} /\ answerFile' \in {answerFile, Link!NoAnswer}
  <2>1. Tells(screen)' /\ Tells(answerFile)'
    BY <1>2, <1>3, <1>8 DEF LinkInv, Tells
  <2>2. \A h \in Handlers : Serves(serving[h])'
    BY <1>2, <1>8 DEF LinkInv, Serves, Tells
  <2> QED
    BY <1>8, <2>1, <2>2 DEF LinkInv
<1> QED
  BY <1>4, <1>5, <1>6, <1>7, <1>8
  DEF Link!Next, Link!registrationVars, Link!Apply, Link!Decide, Link!Register, Link!QueueRequest,
      Link!ReadAnswer, Link!Restart, Link!GiveUp, Link!Tick, Link!Expire

\* A player is linked to one member for good, and told so only then.
LEMMA LinkIsKept ==
  ASSUME Link!LinkAssumption
  PROVE  Link!Spec => Link!LinkStays
<1>1. Link!Init => LinkInv
  BY InitLink
<1>2. LinkInv /\ [Link!Next]_(Link!registrationVars) => LinkInv'
  BY NextLink
<1>3. LinkInv /\ [Link!Next]_(Link!registrationVars) =>
        [/\ owner # Nobody => owner' = owner
         /\ screen'.status = "registered" => owner # Nobody]_(Link!registrationVars)
  BY OwnerStays
<1> QED
  BY <1>1, <1>2, <1>3, PTL DEF Link!Spec, Link!LinkStays

-------------------------------------------------------------------------------
(* MapRegistry                                                             *)

\* A delivery that no other overlaps has read the map that is still stored.
MapInv ==
  /\ start \in Map!Starts /\ worldOf \in [Map!Starts -> Map!Starts]
  /\ maps \in [Map!Starts -> 0..start]
  /\ kept \subseteq 1..start /\ files \subseteq 1..start
  /\ request = [t \in Threads |-> request[t]]
  /\ \A t \in Threads : \A x \in request[t] : x.event \in 1..start /\ request[t] = {x}
  /\ "overlap" \notin slips =>
       /\ \A n \in kept : maps[worldOf[n]] >= n
       /\ \A t, u \in Threads : request[t] # {} /\ request[u] # {} => t = u
       /\ \A t \in Threads : \A x \in request[t] : x.read = maps[worldOf[x.event]]

LEMMA InitMap == Map!MapAssumption /\ Map!Init => MapInv
BY DEF Map!MapAssumption, Map!Init, MapInv, Map!Starts

LEMMA NextMap ==
  ASSUME Map!MapAssumption, MapInv, [Map!Next]_(Map!mapVars)
  PROVE  MapInv'
<1> USE DEF Map!Starts
<1>1. MaxStart \in Nat \ {0} /\ start \in 1..MaxStart
  BY DEF Map!MapAssumption, MapInv
<1>2. CASE \E w \in Map!Starts : Map!Restart(w)
  <2>1. PICK w \in Map!Starts : Map!Restart(w)
    BY <1>2
  <2>2. /\ start' = start + 1 /\ start < MaxStart
        /\ worldOf' = [worldOf EXCEPT ![start + 1] = w] /\ files' = files \union {start + 1}
        /\ UNCHANGED <<kept, maps, request, slips>>
    BY <2>1 DEF Map!Restart
  <2>3. start' \in 1..MaxStart /\ \A n \in 1..start : n \in 1..start' /\ worldOf'[n] = worldOf[n]
    BY <1>1, <2>2 DEF MapInv
  <2>4. \A i \in 0..start : i \in 0..start'
    BY <1>1, <2>2
  <2>5. worldOf' \in [Map!Starts -> Map!Starts] /\ maps' \in [Map!Starts -> 0..start']
    BY <1>1, <2>2, <2>4 DEF MapInv
  <2>6. kept' \subseteq 1..start' /\ files' \subseteq 1..start'
    BY <1>1, <2>2, <2>3 DEF MapInv
  <2> QED
    BY <2>2, <2>3, <2>5, <2>6 DEF MapInv
<1>3. CASE \E n \in files, t \in Threads : Map!Deliver(t, n)
  <2>1. PICK n \in files, t \in Threads : Map!Deliver(t, n)
    BY <1>3
  <2> DEFINE x == [event |-> n, read |-> maps[worldOf[n]]]
  <2>2. /\ request[t] = {} /\ request' = [request EXCEPT ![t] = {x}]
        /\ slips' = slips \union (IF \E u \in Threads : request[u] # {} THEN {"overlap"} ELSE {})
        /\ UNCHANGED <<start, worldOf, files, kept, maps>>
    BY <2>1 DEF Map!Deliver
  <2>3. x.event = n /\ x.read = maps[worldOf[n]] /\ n \in 1..start
    BY DEF MapInv
  <2> HIDE DEF x
  <2>4. \A u \in Threads : request'[u] = IF u = t THEN {x} ELSE request[u]
    BY <2>2 DEF MapInv
  <2>5. "overlap" \notin slips' => "overlap" \notin slips /\ \A u \in Threads : request[u] = {}
    BY <2>2
  <2>6. request' = [u \in Threads |-> request'[u]]
    BY <2>2 DEF MapInv
  <2>7. \A u \in Threads : \A y \in request'[u] : y.event \in 1..start /\ request'[u] = {y}
    BY <2>3, <2>4 DEF MapInv
  <2>8. "overlap" \notin slips' =>
          /\ \A u, v \in Threads : request'[u] # {} /\ request'[v] # {} => u = v
          /\ \A u \in Threads : \A y \in request'[u] : y.read = maps[worldOf[y.event]]
    BY <2>3, <2>4, <2>5 DEF MapInv
  <2> QED
    BY <2>2, <2>5, <2>6, <2>7, <2>8 DEF MapInv
<1>4. ASSUME NEW t \in Threads, NEW x \in request[t], request' = [request EXCEPT ![t] = {}],
             \/ maps' = maps
             \/ ~Map!Stale(x) /\ maps' = [maps EXCEPT ![worldOf[x.event]] = x.event],
             \/ kept' = kept
             \/ /\ kept' = kept \union {x.event}
                /\ maps' # maps \/ Map!Stale(x) \/ maps[worldOf[x.event]] = x.event,
             files' \subseteq files, UNCHANGED <<start, worldOf, slips>>
      PROVE  MapInv'
  <2>1. x.event \in 1..start /\ request[t] = {x} /\ worldOf[x.event] \in Map!Starts
    BY <1>1 DEF MapInv
  <2>2. \A u \in Threads : request'[u] = IF u = t THEN {} ELSE request[u]
    BY <1>4 DEF MapInv
  <2>3. request' = [u \in Threads |-> request'[u]]
    BY <1>4 DEF MapInv
  <2>4. maps' \in [Map!Starts -> 0..start] /\ kept' \subseteq 1..start
    BY <1>1, <1>4, <2>1 DEF MapInv
  <2>5. ASSUME "overlap" \notin slips
        PROVE  /\ \A n \in kept' : maps'[worldOf[n]] >= n
               /\ \A u, v \in Threads : request'[u] # {} /\ request'[v] # {} => u = v
               /\ \A u \in Threads : request'[u] = {}
    <3>1. \A u \in Threads : request'[u] = {}
      BY <2>1, <2>2, <2>5 DEF MapInv
    <3>2. x.read = maps[worldOf[x.event]] /\ \A n \in kept : maps[worldOf[n]] >= n
      BY <2>5 DEF MapInv
    <3>3. \A w \in Map!Starts : maps'[w] \in Int /\ maps[w] \in Int /\ maps'[w] >= maps[w]
      BY <1>1, <1>4, <2>1, <2>4, <3>2 DEF MapInv, Map!Stale
    <3>4. \A n \in kept : n \in Int /\ worldOf[n] \in Map!Starts
      BY <1>1 DEF MapInv
    <3>5. kept' # kept => maps'[worldOf[x.event]] >= x.event
      BY <1>1, <1>4, <2>1, <2>4, <3>2, <3>3 DEF MapInv, Map!Stale
    <3>6. \A n \in kept' : maps'[worldOf[n]] >= n
      BY <1>4, <3>2, <3>3, <3>4, <3>5
    <3> QED
      BY <3>1, <3>6
  <2> QED
    BY <1>4, <2>1, <2>2, <2>3, <2>4, <2>5 DEF MapInv
<1>5. CASE \E t \in Threads : Map!Persist(t) \/ Map!Drop(t)
  <2>1. PICK t \in Threads : Map!Persist(t) \/ Map!Drop(t)
    BY <1>5
  <2>2. CASE Map!Persist(t)
    <3>1. PICK x \in request[t] :
            /\ request' = [request EXCEPT ![t] = {}]
            /\ maps' = IF Map!Stale(x) THEN maps ELSE [maps EXCEPT ![worldOf[x.event]] = x.event]
            /\ files' = files \ {x.event} /\ kept' = kept \union {x.event}
            /\ UNCHANGED <<start, worldOf, slips>>
      BY <2>2 DEF Map!Persist
    <3>2. worldOf[x.event] \in Map!Starts /\ maps = [w \in Map!Starts |-> maps[w]]
      BY <1>1 DEF MapInv
    <3>3. maps' = maps => Map!Stale(x) \/ maps[worldOf[x.event]] = x.event
      BY <3>1, <3>2
    <3> QED
      BY <1>4, <3>1, <3>3
  <2>3. CASE Map!Drop(t)
    <3>1. PICK x \in request[t], s \in BOOLEAN :
            /\ request' = [request EXCEPT ![t] = {}]
            /\ maps' = IF Map!Stale(x) \/ ~s THEN maps ELSE [maps EXCEPT ![worldOf[x.event]] = x.event]
            /\ UNCHANGED <<start, worldOf, files, kept, slips>>
      BY <2>3 DEF Map!Drop
    <3> QED
      BY <1>4, <3>1
  <2> QED
    BY <2>1, <2>2, <2>3
<1>6. CASE /\ UNCHANGED <<start, worldOf, kept, maps, request>> /\ files' \subseteq files
           /\ slips \subseteq slips'
  BY <1>6 DEF MapInv
<1> QED
  BY <1>2, <1>3, <1>5, <1>6
  DEF Map!Next, Map!mapVars, Map!Central, Map!ActivateWorld, Map!ActivateRuntime, Map!Refuse, Map!Read, Map!Register

\* An accepted map is not replaced by an older one.
LEMMA NewerMapIsKept ==
  ASSUME Map!MapAssumption
  PROVE  Map!Spec => []Map!NewerMapStays
<1>1. Map!Init => MapInv
  BY InitMap
<1>2. MapInv /\ [Map!Next]_(Map!mapVars) => MapInv'
  BY NextMap
<1>3. MapInv => Map!NewerMapStays
  BY DEF MapInv, Map!NewerMapStays
<1> QED
  BY <1>1, <1>2, <1>3, PTL DEF Map!Spec

(* However users race for a contract, one is its acceptor and stays it; a  *)
(* linked player stays linked, whoever enters the code later; and whatever *)
(* posts are late or lost, an accepted map gives way to a newer one only   *)
(* (ContractService.accept, register_identity, MapService).                *)
THEOREM FirstAlwaysStays ==
  ASSUME Market!MarketAssumption, Link!LinkAssumption, Map!MapAssumption
  PROVE  Market!Spec /\ Link!Spec /\ Map!Spec => FirstStays
<1>1. Market!Spec => Market!OneAcceptor
  BY MarketIsFair
<1>2. Link!Spec => Link!LinkStays
  BY LinkIsKept
<1>3. Map!Spec => []Map!NewerMapStays
  BY NewerMapIsKept
<1> QED
  BY <1>1, <1>2, <1>3, PTL DEF FirstStays

-------------------------------------------------------------------------------
(* BankReplies                                                             *)

ReplyTypes ==
  /\ outcome \in [Wishes -> {"none", "pending", "settled"}]
  /\ noted \in [Wishes -> {"absent", "pending", "sent", "status_only"}]
  /\ command \in [Wishes -> {"queue", "say", "track", "over"}]
  /\ reply \in [Wishes -> {"thinking", "submitted", "settled"}]
  /\ publisher \in [step : {"scan", "edit", "mark"}, of : SUBSET Wishes]

\* What publisher and command may still do to the reply of one wish: the
\* publisher is at work only on a settled one whose command is over.
ReplyFits(r) ==
  /\ r \in tracked => command[r] = "over"
  /\ r \in publisher.of => command[r] = "over" /\ outcome[r] = "settled"
  /\ r \in publisher.of /\ publisher.step = "mark" => reply[r] = "settled"
  /\ command[r] = "queue" => outcome[r] = "none"
  /\ command[r] # "over" => reply[r] # "settled"
  /\ reply[r] = "settled" => outcome[r] = "settled"
  /\ noted[r] = "sent" => reply[r] = "settled"
  /\ noted[r] = "status_only" /\ command[r] \in {"say", "track"} => r \in aged

ReplyInv == ReplyTypes /\ \A r \in Wishes : ReplyFits(r)

LEMMA InitReply == Replies!Init => ReplyInv
BY DEF Replies!Init, Replies!Resting, ReplyInv, ReplyTypes, ReplyFits

\* What a step promises of one wish.
ReplyStaysTrue(r) ==
  /\ reply'[r] = "settled" => outcome'[r] = "settled"
  /\ reply[r] = "settled" => reply'[r] = "settled"
  /\ noted'[r] = "sent" => reply'[r] = "settled"
  /\ noted'[r] = "status_only" /\ command'[r] \in {"say", "track"} => r \in aged'

LEMMA NextReply ==
  ASSUME ReplyInv, [Replies!Next]_(Replies!replyVars)
  PROVE  ReplyInv' /\ \A r \in Wishes : ReplyStaysTrue(r)
<1> USE DEF ReplyInv
<1>1. ASSUME NEW r \in Wishes, Replies!Queue(r) \/ Replies!Say(r) \/ Replies!Track(r)
      PROVE  ReplyInv' /\ \A q \in Wishes : ReplyStaysTrue(q)
  <2>1. ReplyTypes'
    BY <1>1 DEF Replies!Queue, Replies!Say, Replies!Track, ReplyTypes
  <2>2. ASSUME NEW q \in Wishes PROVE ReplyFits(q)' /\ ReplyStaysTrue(q)
    <3>1. CASE Replies!Queue(r)
      BY <3>1 DEF Replies!Queue, ReplyTypes, ReplyFits, ReplyStaysTrue
    <3>2. CASE Replies!Say(r)
      BY <3>2 DEF Replies!Say, ReplyTypes, ReplyFits, ReplyStaysTrue
    <3>3. CASE Replies!Track(r)
      BY <3>3 DEF Replies!Track, ReplyTypes, ReplyFits, ReplyStaysTrue
    <3> QED
      BY <1>1, <3>1, <3>2, <3>3
  <2> QED
    BY <2>1, <2>2
<1>2. ASSUME NEW r \in Wishes, Replies!Settle(r) \/ Replies!Age(r) \/ Replies!Expire(r)
      PROVE  ReplyInv' /\ \A q \in Wishes : ReplyStaysTrue(q)
  BY <1>2 DEF Replies!Settle, Replies!Age, Replies!Expire, ReplyTypes, ReplyFits, ReplyStaysTrue
<1>3. ASSUME NEW r \in Wishes, Replies!GiveUp(r) \/ Replies!TooLate(r)
      PROVE  ReplyInv' /\ \A q \in Wishes : ReplyStaysTrue(q)
  <2>1. noted' = [noted EXCEPT ![r] = IF noted[r] = "pending" THEN "status_only" ELSE noted[r]]
    BY <1>3 DEF Replies!GiveUp, Replies!TooLate, Replies!StatusOnly
  <2>2. r \in aged \/ r \in tracked
    BY <1>3 DEF Replies!GiveUp, Replies!TooLate, Replies!Late
  <2>3. /\ tracked' \subseteq tracked
        /\ UNCHANGED <<outcome, command, reply, aged, publisher>>
    BY <1>3 DEF Replies!GiveUp, Replies!TooLate
  <2>4. ReplyTypes'
    BY <2>1, <2>3 DEF ReplyTypes
  <2>5. ASSUME NEW q \in Wishes PROVE ReplyFits(q)' /\ ReplyStaysTrue(q)
    BY <2>1, <2>2, <2>3 DEF ReplyTypes, ReplyFits, ReplyStaysTrue
  <2> QED
    BY <2>4, <2>5
<1>4. ASSUME NEW r \in Wishes, Replies!Publish(r)
      PROVE  ReplyInv' /\ \A q \in Wishes : ReplyStaysTrue(q)
  <2>1. /\ r \in tracked /\ outcome[r] = "settled" /\ publisher' = [step |-> "edit", of |-> {r}]
        /\ UNCHANGED <<outcome, noted, command, reply, tracked, aged>>
    BY <1>4 DEF Replies!Publish, Replies!Due
  <2>2. publisher'.step = "edit" /\ publisher'.of = {r}
    BY <2>1
  <2> QED
    BY <2>1, <2>2 DEF ReplyTypes, ReplyFits, ReplyStaysTrue
<1>5. ASSUME NEW r \in Wishes, Replies!Edit(r)
      PROVE  ReplyInv' /\ \A q \in Wishes : ReplyStaysTrue(q)
  <2>1. /\ publisher = [step |-> "edit", of |-> {r}] /\ publisher' = [publisher EXCEPT !.step = "mark"]
        /\ reply' = [reply EXCEPT ![r] = "settled"]
        /\ UNCHANGED <<outcome, noted, command, tracked, aged>>
    BY <1>5 DEF Replies!Edit
  <2>2. publisher.of = {r} /\ publisher'.step = "mark" /\ publisher'.of = {r}
    BY <2>1
  <2>3. ReplyTypes'
    BY <2>1 DEF ReplyTypes
  <2>4. ASSUME NEW q \in Wishes PROVE ReplyFits(q)' /\ ReplyStaysTrue(q)
    BY <2>1, <2>2 DEF ReplyTypes, ReplyFits, ReplyStaysTrue
  <2> QED
    BY <2>3, <2>4
<1>6. ASSUME NEW r \in Wishes, Replies!EditRefused(r) \/ Replies!EditFails(r) \/ Replies!Mark(r)
      PROVE  ReplyInv' /\ \A q \in Wishes : ReplyStaysTrue(q)
  <2>1. /\ publisher'.of = {} /\ publisher'.step = "scan" /\ publisher' = Replies!Resting
        /\ tracked' \subseteq tracked /\ r \in publisher.of
        /\ UNCHANGED <<outcome, command, reply, aged>>
    BY <1>6 DEF Replies!EditRefused, Replies!EditFails, Replies!Mark, Replies!Resting
  <2>2. CASE Replies!EditRefused(r) \/ Replies!EditFails(r)
    <3>1. \/ noted' = noted
          \/ noted' = [noted EXCEPT ![r] = IF noted[r] = "pending" THEN "status_only" ELSE noted[r]]
      BY <2>2 DEF Replies!EditRefused, Replies!EditFails, Replies!StatusOnly
    <3>2. ReplyTypes'
      BY <2>1, <3>1 DEF ReplyTypes, Replies!Resting
    <3>3. ASSUME NEW q \in Wishes PROVE ReplyFits(q)' /\ ReplyStaysTrue(q)
      BY <2>1, <3>1 DEF ReplyTypes, ReplyFits, ReplyStaysTrue
    <3> QED
      BY <3>2, <3>3
  <2>3. CASE Replies!Mark(r)
    <3>1. /\ noted' = [noted EXCEPT ![r] = IF noted[r] = "pending" THEN "sent" ELSE noted[r]]
          /\ publisher.step = "mark"
      BY <2>3 DEF Replies!Mark
    <3>2. ReplyTypes'
      BY <2>1, <3>1 DEF ReplyTypes, Replies!Resting
    <3>3. ASSUME NEW q \in Wishes PROVE ReplyFits(q)' /\ ReplyStaysTrue(q)
      BY <2>1, <3>1 DEF ReplyTypes, ReplyFits, ReplyStaysTrue
    <3> QED
      BY <3>2, <3>3
  <2> QED
    BY <1>6, <2>2, <2>3
<1>7. CASE Replies!RestartBot
  <2>1. publisher' = Replies!Resting /\ publisher'.of = {} /\ publisher'.step = "scan"
    BY <1>7 DEF Replies!RestartBot, Replies!Resting
  <2>2. /\ tracked' = {} /\ UNCHANGED <<outcome, noted, reply, aged>>
        /\ command' = [r \in Wishes |-> IF command[r] = "queue" THEN "queue" ELSE "over"]
    BY <1>7 DEF Replies!RestartBot
  <2>3. ReplyTypes'
    BY <2>1, <2>2 DEF ReplyTypes, Replies!Resting
  <2>4. ASSUME NEW q \in Wishes PROVE ReplyFits(q)' /\ ReplyStaysTrue(q)
    BY <2>1, <2>2 DEF ReplyTypes, ReplyFits, ReplyStaysTrue
  <2> QED
    BY <2>3, <2>4
<1>8. CASE UNCHANGED Replies!replyVars
  BY <1>8 DEF Replies!replyVars, ReplyTypes, ReplyFits, ReplyStaysTrue
<1> QED
  BY <1>1, <1>2, <1>3, <1>4, <1>5, <1>6, <1>7, <1>8 DEF Replies!Next, Replies!Announce

\* A reply tells an outcome that is there, and keeps it.
LEMMA RepliesStayTrue == Replies!Spec => Replies!RepliesAreTrue
<1>1. ReplyInv /\ [Replies!Next]_(Replies!replyVars) => ReplyInv'
  BY NextReply
<1>2. ReplyInv /\ [Replies!Next]_(Replies!replyVars) =>
        [\A r \in Wishes :
           /\ reply'[r] = "settled" => outcome'[r] = "settled"
           /\ reply[r] = "settled" => reply'[r] = "settled"
           /\ noted'[r] = "sent" => reply'[r] = "settled"
           /\ noted'[r] = "status_only" /\ command'[r] \in {"say", "track"} => r \in aged']_(Replies!replyVars)
  BY NextReply DEF ReplyStaysTrue
<1> QED
  BY <1>1, <1>2, InitReply, PTL DEF Replies!Spec, Replies!RepliesAreTrue

-------------------------------------------------------------------------------
(* SuggestionBoard                                                         *)

Balanced == seeds \in {{}, Board!Both} \/ "seed" \in lost

\* A handler that is seeding or retracting knows the bot's own reactions, and
\* one that is not has left them balanced, unless something went amiss since.
BoardInv ==
  /\ seeds \subseteq Board!Both
  /\ \A w \in worker :
       /\ worker = {w}
       /\ "step" \in DOMAIN w /\ "seeded" \in DOMAIN w
       /\ IF w.step \in {"seed", "retract"} THEN w.seeded = seeds \/ "seed" \in lost ELSE Balanced
  /\ worker = {} => Balanced

LEMMA NextBoard ==
  ASSUME BoardInv, [Board!Next]_(Board!boardVars)
  PROVE  BoardInv'
<1> USE DEF BoardInv
<1>1. CASE UNCHANGED <<seeds, worker, lost>>
  BY <1>1 DEF Balanced
<1>2. CASE \E asked \in waiting : Board!Begin(asked)
  <2>1. PICK asked \in waiting : Board!Begin(asked)
    BY <1>2
  <2> DEFINE w == [task |-> asked, step |-> IF asked = "prepare" THEN "tag" ELSE "count",
                   tags |-> tags, seeded |-> {}, votes |-> votes]
  <2>2. worker = {} /\ worker' = {w} /\ seeds' = seeds /\ lost' = lost
    BY <2>1 DEF Board!Begin, Board!Free
  <2>3. w.step \notin {"seed", "retract"} /\ "step" \in DOMAIN w /\ "seeded" \in DOMAIN w
    OBVIOUS
  <2> HIDE DEF w
  <2> QED
    BY <2>2, <2>3 DEF Balanced
<1>3. ASSUME NEW w \in worker
      PROVE  /\ worker = {w} /\ "step" \in DOMAIN w /\ "seeded" \in DOMAIN w
             /\ w.step \in {"seed", "retract"} => w.seeded = seeds \/ "seed" \in lost
             /\ w.step \notin {"seed", "retract"} => Balanced
  BY <1>3
<1>4. CASE \E w \in worker : Board!Tag(w)
  <2>1. PICK w \in worker : Board!Tag(w)
    BY <1>4
  <2> DEFINE x == [w EXCEPT !.step = "seed", !.seeded = seeds]
  <2>2. worker' = {x} /\ seeds' = seeds
    BY <1>3, <2>1 DEF Board!Tag, Board!Becomes
  <2>3. x.step = "seed" /\ x.seeded = seeds /\ "step" \in DOMAIN x /\ "seeded" \in DOMAIN x
    BY <1>3
  <2> HIDE DEF x
  <2> QED
    BY <2>2, <2>3
<1>5. CASE \E w \in worker : Board!Seed(w)
  <2>1. PICK w \in worker : Board!Seed(w)
    BY <1>5
  <2> DEFINE x == [w EXCEPT !.seeded = w.seeded \union {Board!Missing(w)}]
  <2>2. worker' = {x} /\ seeds' = seeds \union {Board!Missing(w)} /\ w.step = "seed" /\ lost' = lost
    BY <1>3, <2>1 DEF Board!Seed, Board!Becomes
  <2>3. /\ x.step = w.step /\ x.seeded = w.seeded \union {Board!Missing(w)}
        /\ "step" \in DOMAIN x /\ "seeded" \in DOMAIN x
    BY <1>3
  <2>4. Board!Missing(w) \in Board!Both
    BY DEF Board!Missing, Board!Both
  <2> HIDE DEF x
  <2> QED
    BY <1>3, <2>2, <2>3, <2>4
<1>6. CASE \E w \in worker : Board!SeedFails(w)
  <2>1. PICK w \in worker : Board!SeedFails(w)
    BY <1>6
  <2> DEFINE x == [w EXCEPT !.step = "retract"]
  <2>2. /\ worker' = {x} /\ w.step = "seed"
        /\ \/ seeds' = seeds /\ lost' = lost
           \/ seeds' = seeds \union {Board!Missing(w)} /\ lost' = lost \union {"seed"}
    BY <1>3, <2>1 DEF Board!SeedFails, Board!Becomes
  <2>3. /\ x.step = "retract" /\ x.seeded = w.seeded
        /\ "step" \in DOMAIN x /\ "seeded" \in DOMAIN x
    BY <1>3
  <2>4. Board!Missing(w) \in Board!Both
    BY DEF Board!Missing, Board!Both
  <2> HIDE DEF x
  <2> QED
    BY <1>3, <2>2, <2>3, <2>4
<1>7. CASE \E w \in worker : Board!Retract(w)
  <2>1. PICK w \in worker : Board!Retract(w)
    BY <1>7
  <2>2. /\ worker' = {} /\ (w.seeded = seeds \/ "seed" \in lost) /\ lost \subseteq lost'
        /\ seeds' = seeds \ w.seeded \/ (seeds' = seeds /\ "seed" \in lost')
    BY <1>3, <2>1 DEF Board!Retract, Board!Withdraw, Board!Ends
  <2> QED
    BY <2>2 DEF Balanced
<1>8. CASE \E w \in worker : Board!Count(w)
  <2>1. PICK w \in worker : Board!Count(w)
    BY <1>8
  <2> DEFINE x == [w EXCEPT !.step = "title", !.votes = Board!MemberVotes]
  <2>2. worker' = {x} /\ seeds' = seeds /\ lost' = lost /\ Balanced
    BY <1>3, <2>1 DEF Board!Count, Board!Counting, Board!Becomes, Balanced
  <2>3. x.step = "title" /\ "step" \in DOMAIN x /\ "seeded" \in DOMAIN x
    BY <1>3
  <2> HIDE DEF x
  <2> QED
    BY <2>2, <2>3 DEF Balanced
<1>9. CASE \E w \in worker : Board!Retitle(w) \/ Board!CallFails(w)
  <2>1. PICK w \in worker : Board!Retitle(w) \/ Board!CallFails(w)
    BY <1>9
  <2>2. worker' = {} /\ seeds' = seeds /\ ("seed" \in lost => "seed" \in lost') /\ Balanced
    BY <1>3, <2>1 DEF Board!Retitle, Board!CallFails, Board!Counting, Board!Ends, Balanced
  <2> QED
    BY <1>3, <2>2 DEF Balanced
<1>10. CASE Board!BotStops
  BY <1>3, <1>10 DEF Board!BotStops, Balanced
<1>11. ASSUME NEW cs, Board!Clear(cs) PROVE BoardInv'
  <2>1. worker' = worker /\ seeds' = seeds \ cs /\ "seed" \in lost'
    BY <1>11 DEF Board!Clear
  <2> QED
    BY <1>3, <2>1 DEF Balanced
<1> QED
  BY <1>1, <1>2, <1>4, <1>5, <1>6, <1>7, <1>8, <1>9, <1>10, <1>11
  DEF Board!Next, Board!boardVars, Board!Discord, Board!Bot, Board!Trouble, Board!Vote, Board!Replay, Board!Decide

\* Between handlers the bot's own votes stand together, but for what went amiss
\* since the last preparation.
LEMMA SeedsStayBalanced == Board!Spec => []Board!SeedsAreBalanced
<1>1. Board!Init => BoardInv
  BY DEF Board!Init, BoardInv, Balanced
<1>2. BoardInv => Board!SeedsAreBalanced
  BY DEF BoardInv, Balanced, Board!SeedsAreBalanced
<1> QED
  BY <1>1, <1>2, NextBoard, PTL DEF Board!Spec

(* Whatever handlers, workers and loops interleave, and whichever calls of *)
(* Discord fail: no contract card is ahead of its contract, a bank reply   *)
(* tells an outcome that is there and keeps it, and on a suggestion the    *)
(* bot's own two votes stand together, unless since the last preparation a *)
(* call's effect stayed unknown, a retraction failed, the bot stopped or a *)
(* moderator cleared them (contract cards, bank_notifications.py,          *)
(* mod_suggestions.py).                                                    *)
THEOREM ShownIsAlwaysTrue ==
  ASSUME Market!MarketAssumption
  PROVE  Market!Spec /\ Replies!Spec /\ Board!Spec => ShownIsTrue
<1>1. Market!Spec => []Market!CardNeverAhead
  BY MarketIsFair
<1>2. Replies!Spec => Replies!RepliesAreTrue
  BY RepliesStayTrue
<1>3. Board!Spec => []Board!SeedsAreBalanced
  BY SeedsStayBalanced
<1> QED
  BY <1>1, <1>2, <1>3, PTL DEF ShownIsTrue

-------------------------------------------------------------------------------
(* CropLifecycle                                                           *)

\* Numbers are well ordered: the recursions below are followed to their least
\* counterexample.
Below == {p \in Nat \X Nat : p[1] < p[2]}

LEMMA SmallestNumber ==
  ASSUME NEW S \in SUBSET Nat, S # {}
  PROVE  \E n \in S : \A m \in S : n <= m
<1>1. IsWellFoundedOn(Below, Nat)
  BY NatLessThanWellFounded DEF Below, OpToRel
<1>2. PICK n \in S : \A m \in S : ~(<<m, n>> \in Below)
  BY <1>1, WFMin
<1>3. ASSUME NEW m \in S, m < n PROVE FALSE
  <2>1. <<m, n>> \in Nat \X Nat /\ <<m, n>>[1] = m /\ <<m, n>>[2] = n
    OBVIOUS
  <2> QED
    BY <1>2, <1>3, <2>1 DEF Below
<1> QED
  BY <1>3

LEMMA LeastIs ==
  ASSUME NEW S \in SUBSET Nat, S # {}
  PROVE  Crop!Least(S) \in S
BY SmallestNumber DEF Crop!Least

LEMMA LargestIs ==
  ASSUME NEW b \in Nat, NEW S \in SUBSET (0..b), S # {}
  PROVE  Crop!Largest(S) \in S /\ \A x \in S : Crop!Largest(S) >= x
<1> DEFINE D == {n \in Nat : b - n \in S}
<1>1. D # {}
  <2>1. PICK x \in S : TRUE
    OBVIOUS
  <2>2. b - x \in Nat /\ b - (b - x) = x
    OBVIOUS
  <2> QED
    BY <2>1, <2>2
<1>2. PICK n \in D : \A m \in D : n <= m
  BY <1>1, SmallestNumber
<1>3. ASSUME NEW x \in S PROVE b - n >= x
  <2>1. b - x \in Nat /\ b - (b - x) = x
    OBVIOUS
  <2>2. b - x \in D
    BY <2>1
  <2>3. n <= b - x /\ n \in Nat /\ x \in Nat
    BY <1>2, <2>2
  <2> QED
    BY <2>3
<1> QED
  BY <1>2, <1>3 DEF Crop!Largest

\* The recursion of Lengths.
LengthAt(g, f, s) ==
  IF s = Stages THEN 1
  ELSE LET on == {f[t] : t \in Crop!Ahead(g, s)} \ {0} IN IF on = {} THEN 0 ELSE 1 + Crop!Largest(on)
Measures(g, f, first) == f = [s \in first..Stages |-> LengthAt(g, f, s)]

LEMMA LengthsMeasure == ASSUME NEW g PROVE Crop!Lengths(g) = CHOOSE f : Measures(g, f, 1)
BY DEF Crop!Lengths, Measures, LengthAt

LEMMA LengthLooksAhead ==
  ASSUME NEW g, NEW f, NEW h, NEW s, \A t \in s + 1..Stages : f[t] = h[t]
  PROVE  LengthAt(g, f, s) = LengthAt(g, h, s)
<1>1. {f[t] : t \in Crop!Ahead(g, s)} = {h[t] : t \in Crop!Ahead(g, s)}
  BY DEF Crop!Ahead
<1> QED
  BY <1>1 DEF LengthAt

LEMMA LengthsExist ==
  ASSUME Crop!CropAssumption, NEW g
  PROVE  \E f : Measures(g, f, 1)
<1> DEFINE Bad == {n \in Nat : n <= Stages /\ ~ \E f : Measures(g, f, Stages - n + 1)}
<1>1. Stages \in Nat /\ Stages - Stages + 1 = 1
  BY DEF Crop!CropAssumption
<1>2. SUFFICES ASSUME Bad # {} PROVE FALSE
  <2>1. Stages <= Stages
    BY <1>1
  <2>2. Stages \notin Bad => \E f : Measures(g, f, Stages - Stages + 1)
    BY <1>1, <2>1
  <2> QED
    BY <1>1, <2>2
<1>3. PICK n \in Bad : \A m \in Bad : n <= m
  <2> HIDE DEF Bad
  <2>1. Bad \in SUBSET Nat
    BY DEF Bad
  <2> QED
    BY <1>2, <2>1, SmallestNumber
<1>4. n # 0
  <2>1. Measures(g, [s \in Stages + 1..Stages |-> 0], Stages + 1)
    BY <1>1 DEF Measures
  <2> QED
    BY <1>1, <1>3, <2>1
<1> DEFINE first == Stages - n + 1
<1>5. first \in 1..Stages
  BY <1>1, <1>3, <1>4
<1>6. PICK f : Measures(g, f, first + 1)
  <2>1. n - 1 \in Nat /\ n - 1 <= Stages /\ ~(n <= n - 1) /\ Stages - (n - 1) + 1 = first + 1
    BY <1>1, <1>3, <1>4
  <2> QED
    BY <1>3, <2>1
<1> DEFINE h == [s \in first..Stages |-> IF s = first THEN LengthAt(g, f, s) ELSE f[s]]
<1>7. \A s \in first..Stages : \A t \in s + 1..Stages : f[t] = h[t]
  BY <1>1, <1>5
<1>8. \A s \in first..Stages : h[s] = LengthAt(g, f, s)
  <2>1. \A s \in first + 1..Stages : f[s] = LengthAt(g, f, s)
    BY <1>6 DEF Measures
  <2>2. \A s \in first..Stages : s = first \/ s \in first + 1..Stages
    BY <1>1, <1>5
  <2> QED
    BY <2>1, <2>2
<1>9. \A s \in first..Stages : h[s] = LengthAt(g, h, s)
  <2> HIDE DEF h, first
  <2> QED
    BY <1>7, <1>8, LengthLooksAhead
<1>10. h = [s \in first..Stages |-> h[s]]
  OBVIOUS
<1>11. Measures(g, h, first)
  <2> HIDE DEF h, first
  <2> QED
    BY <1>9, <1>10 DEF Measures
<1> QED
  BY <1>3, <1>11

\* A length is a number, and one more than that of some stage ahead.
LEMMA LengthsStep ==
  ASSUME Crop!CropAssumption, NEW g
  PROVE  /\ \A s \in 1..Stages : Crop!Lengths(g)[s] \in 0..Stages - s + 1
         /\ Crop!Lengths(g)[Stages] = 1
         /\ \A s \in 1..Stages : Crop!Lengths(g)[s] > 1 =>
              \E t \in Crop!Ahead(g, s) : Crop!Lengths(g)[t] = Crop!Lengths(g)[s] - 1
<1> DEFINE len == Crop!Lengths(g)
           On(s) == {len[t] : t \in Crop!Ahead(g, s)} \ {0}
<1>1. Stages \in Nat \ {0}
  BY DEF Crop!CropAssumption
<1>2. Measures(g, len, 1)
  BY LengthsMeasure, LengthsExist
<1>3. \A s \in 1..Stages :
        len[s] = IF s = Stages THEN 1 ELSE IF On(s) = {} THEN 0 ELSE 1 + Crop!Largest(On(s))
  <2>1. \A s \in 1..Stages : len[s] = LengthAt(g, len, s)
    <3> HIDE DEF len
    <3> QED
      BY <1>2 DEF Measures
  <2> QED
    BY <2>1 DEF LengthAt
<1> HIDE DEF len
<1>4. ASSUME NEW s \in 1..Stages, s # Stages, \A t \in s + 1..Stages : len[t] \in 0..Stages - t + 1
      PROVE  /\ len[s] \in 0..Stages - s + 1
             /\ len[s] > 1 => \E t \in Crop!Ahead(g, s) : len[t] = len[s] - 1
  <2>1. On(s) \in SUBSET (0..Stages - s)
    <3>1. \A t \in Crop!Ahead(g, s) : len[t] \in 0..Stages - s
      BY <1>1, <1>4 DEF Crop!Ahead
    <3> QED
      BY <3>1
  <2>2. CASE On(s) = {}
    <3>1. len[s] = 0
      BY <1>3, <1>4, <2>2
    <3> QED
      BY <1>1, <3>1
  <2>3. CASE On(s) # {}
    <3>1. Crop!Largest(On(s)) \in On(s)
      <4>1. Stages - s \in Nat
        BY <1>1
      <4> HIDE DEF On
      <4> QED
        BY <2>1, <2>3, <4>1, LargestIs
    <3>2. len[s] = 1 + Crop!Largest(On(s))
      BY <1>3, <1>4, <2>3
    <3>3. PICK t \in Crop!Ahead(g, s) : len[t] = Crop!Largest(On(s))
      BY <3>1
    <3>4. Crop!Largest(On(s)) \in 0..Stages - s
      BY <2>1, <3>1
    <3> HIDE DEF On
    <3> QED
      BY <1>1, <3>2, <3>3, <3>4
  <2> QED
    BY <2>2, <2>3
<1>5. len[Stages] = 1
  <2>1. Stages \in 1..Stages
    BY <1>1
  <2> QED
    BY <1>3, <2>1
<1>6. \A s \in 1..Stages : len[s] \in 0..Stages - s + 1
  <2> DEFINE Bad == {n \in 0..Stages - 1 : len[Stages - n] \notin 0..n + 1}
  <2>1. CASE Bad = {}
    <3>1. ASSUME NEW s \in 1..Stages PROVE len[s] \in 0..Stages - s + 1
      <4>1. Stages - s \in 0..Stages - 1 /\ Stages - (Stages - s) = s
        BY <1>1
      <4> QED
        BY <2>1, <4>1
    <3> QED
      BY <3>1
  <2>2. CASE Bad # {}
    <3>1. PICK n \in Bad : \A m \in Bad : n <= m
      <4>1. Bad \in SUBSET Nat
        BY <1>1
      <4> HIDE DEF Bad
      <4> QED
        BY <2>2, <4>1, SmallestNumber
    <3>2. n \in 0..Stages - 1 /\ Stages - n \in 1..Stages /\ len[Stages - n] \notin 0..n + 1
      BY <1>1, <3>1
    <3>3. n # 0
      <4>1. Stages - 0 = Stages /\ 1 \in 0..0 + 1
        BY <1>1
      <4> QED
        BY <1>5, <3>2, <4>1
    <3>4. ASSUME NEW t \in Stages - n + 1..Stages PROVE len[t] \in 0..Stages - t + 1
      <4>1. Stages - t \in 0..Stages - 1 /\ Stages - (Stages - t) = t /\ ~(n <= Stages - t)
        BY <1>1, <3>2
      <4> QED
        BY <3>1, <4>1
    <3>5. Stages - n # Stages /\ Stages - (Stages - n) = n
      BY <1>1, <3>2, <3>3
    <3> QED
      BY <1>4, <3>2, <3>4, <3>5
  <2> QED
    BY <2>1, <2>2
<1>7. ASSUME NEW s \in 1..Stages, len[s] > 1 PROVE \E t \in Crop!Ahead(g, s) : len[t] = len[s] - 1
  <2>1. s # Stages
    BY <1>5, <1>7
  <2>2. \A t \in s + 1..Stages : t \in 1..Stages
    BY <1>1
  <2> QED
    BY <1>4, <1>6, <1>7, <2>1, <2>2
<1> QED
  BY <1>6, <1>5, <1>7 DEF len

\* The recursion of NativePath, as far as position n.
NextStage(g, i, s) ==
  Crop!Least({t \in Crop!Ahead(g, s) : Crop!Lengths(g)[t] = Crop!Lengths(g)[1] - i + 1})
Paves(g, f, n) == f = [i \in 1..n |-> IF i = 1 THEN 1 ELSE NextStage(g, i, f[i - 1])]
Leads(g, f, n) ==
  \A i \in 1..n : f[i] \in 1..Stages /\ Crop!Lengths(g)[f[i]] = Crop!Lengths(g)[1] - i + 1

LEMMA PathPaves ==
  ASSUME NEW g
  PROVE  Crop!NativePath(g) = CHOOSE f : Paves(g, f, Crop!Lengths(g)[1])
BY DEF Crop!NativePath, Paves, NextStage

LEMMA StageAhead ==
  ASSUME Crop!CropAssumption, NEW g, NEW i \in 2..Crop!Lengths(g)[1], NEW s \in 1..Stages,
         Crop!Lengths(g)[s] = Crop!Lengths(g)[1] - (i - 1) + 1
  PROVE  NextStage(g, i, s) \in 1..Stages /\ Crop!Lengths(g)[NextStage(g, i, s)] = Crop!Lengths(g)[1] - i + 1
<1> DEFINE len == Crop!Lengths(g)
           On == {t \in Crop!Ahead(g, s) : len[t] = len[1] - i + 1}
<1>1. Stages \in Nat \ {0} /\ 1 \in 1..Stages
  BY DEF Crop!CropAssumption
<1>2. len[1] \in Nat /\ len[s] \in Nat
  BY <1>1, LengthsStep
<1>3. PICK t \in Crop!Ahead(g, s) : len[t] = len[s] - 1
  <2>1. len[s] > 1
    BY <1>2
  <2> QED
    BY <2>1, LengthsStep
<1>4. On # {} /\ On \in SUBSET Nat /\ On \subseteq 1..Stages
  BY <1>1, <1>2, <1>3 DEF Crop!Ahead
<1>5. Crop!Least(On) \in On
  <2> HIDE DEF On
  <2> QED
    BY <1>4, LeastIs
<1> QED
  BY <1>4, <1>5 DEF NextStage

\* The longest way through the native pairs exists, and stays on the stages.
LEMMA PathExists ==
  ASSUME Crop!CropAssumption, NEW g, Crop!Lengths(g)[1] >= 1
  PROVE  \E f : Paves(g, f, Crop!Lengths(g)[1]) /\ Leads(g, f, Crop!Lengths(g)[1])
<1> DEFINE size == Crop!Lengths(g)[1]
           Bad == {n \in Nat : n \in 1..size /\ ~ \E f : Paves(g, f, n) /\ Leads(g, f, n)}
<1>1. size \in Nat /\ size >= 1 /\ 1 \in 1..Stages
  <2>1. 1 \in 1..Stages
    BY DEF Crop!CropAssumption
  <2> QED
    BY <2>1, LengthsStep
<1>2. SUFFICES ASSUME Bad # {} PROVE FALSE
  BY <1>1
<1> HIDE DEF size
<1>3. PICK n \in Bad : \A m \in Bad : n <= m
  <2>1. Bad \in SUBSET Nat
    OBVIOUS
  <2> HIDE DEF Bad
  <2> QED
    BY <1>2, <2>1, SmallestNumber
<1>4. n \in 1..size /\ ~ \E f : Paves(g, f, n) /\ Leads(g, f, n)
  BY <1>3
<1>5. CASE n = 1
  <2> DEFINE f == [i \in 1..1 |-> 1]
  <2>1. f = [i \in 1..1 |-> IF i = 1 THEN 1 ELSE NextStage(g, i, f[i - 1])]
    OBVIOUS
  <2>2. \A i \in 1..1 : f[i] = 1 /\ i = 1
    OBVIOUS
  <2>3. size - 1 + 1 = size
    BY <1>1
  <2> HIDE DEF f
  <2>4. Paves(g, f, 1) /\ Leads(g, f, 1)
    BY <1>1, <2>1, <2>2, <2>3 DEF Paves, Leads, size
  <2> QED
    BY <1>4, <1>5, <2>4
<1>6. CASE n # 1
  <2>1. PICK f : Paves(g, f, n - 1) /\ Leads(g, f, n - 1)
    <3>1. n - 1 \in 1..size /\ n - 1 \in Nat /\ ~(n <= n - 1)
      BY <1>1, <1>4, <1>6
    <3> QED
      BY <1>3, <3>1
  <2> DEFINE h == [i \in 1..n |-> IF i = n THEN NextStage(g, i, f[i - 1]) ELSE f[i]]
  <2>2. \A i \in 1..n : i = n \/ i \in 1..n - 1
    BY <1>1, <1>4
  <2>3. \A i \in 1..n - 1 : h[i] = f[i] /\ i \in 1..n
    BY <1>1, <1>4
  <2>4. h[n] = NextStage(g, n, f[n - 1]) /\ n - 1 \in 1..n - 1 /\ n \in 2..size
    BY <1>1, <1>4, <1>6
  <2>5. h = [i \in 1..n |-> h[i]]
    OBVIOUS
  <2> HIDE DEF h
  <2>6. \A i \in 1..n - 1 : f[i] = IF i = 1 THEN 1 ELSE NextStage(g, i, f[i - 1])
    BY <2>1 DEF Paves
  <2>7. ASSUME NEW i \in 1..n PROVE h[i] = IF i = 1 THEN 1 ELSE NextStage(g, i, h[i - 1])
    <3>1. CASE i = n
      BY <1>6, <2>3, <2>4, <3>1
    <3>2. CASE i \in 1..n - 1
      <4>1. i # 1 => i - 1 \in 1..n - 1
        BY <1>1, <1>4, <3>2
      <4> QED
        BY <2>3, <2>6, <3>2, <4>1
    <3> QED
      BY <2>2, <3>1, <3>2
  <2>8. Paves(g, h, n)
    BY <2>5, <2>7 DEF Paves
  <2>9. f[n - 1] \in 1..Stages /\ Crop!Lengths(g)[f[n - 1]] = Crop!Lengths(g)[1] - (n - 1) + 1
    BY <2>1, <2>4 DEF Leads
  <2>10. h[n] \in 1..Stages /\ Crop!Lengths(g)[h[n]] = Crop!Lengths(g)[1] - n + 1
    BY <2>4, <2>9, StageAhead DEF size
  <2>11. Leads(g, h, n)
    BY <2>1, <2>2, <2>3, <2>10 DEF Leads
  <2> QED
    BY <1>4, <2>8, <2>11
<1> QED
  BY <1>5, <1>6

LEMMA PathIsOne ==
  ASSUME NEW g, NEW n \in Nat, NEW f, NEW h, Paves(g, f, n), Paves(g, h, n)
  PROVE  f = h
<1> DEFINE Bad == {i \in Nat : i \in 1..n /\ f[i] # h[i]}
<1>1. /\ \A i \in 1..n : f[i] = IF i = 1 THEN 1 ELSE NextStage(g, i, f[i - 1])
      /\ \A i \in 1..n : h[i] = IF i = 1 THEN 1 ELSE NextStage(g, i, h[i - 1])
  BY DEF Paves
<1>2. Bad = {}
  <2>1. SUFFICES ASSUME Bad # {} PROVE FALSE
    OBVIOUS
  <2>2. PICK i \in Bad : \A j \in Bad : i <= j
    <3>1. Bad \in SUBSET Nat
      OBVIOUS
    <3> HIDE DEF Bad
    <3> QED
      BY <2>1, <3>1, SmallestNumber
  <2>3. i \in 1..n /\ f[i] # h[i]
    BY <2>2
  <2>4. i # 1
    BY <1>1, <2>3
  <2>5. i - 1 \in Nat /\ i - 1 \in 1..n /\ ~(i <= i - 1)
    BY <2>3, <2>4
  <2>6. f[i - 1] = h[i - 1]
    BY <2>2, <2>5
  <2> QED
    BY <1>1, <2>3, <2>4, <2>6
<1>3. \A i \in 1..n : f[i] = h[i]
  BY <1>2
<1>4. f = [i \in 1..n |-> f[i]] /\ h = [i \in 1..n |-> h[i]]
  <2>1. \A F : Paves(g, F, n) => F = [i \in 1..n |-> F[i]]
    BY DEF Paves
  <2> QED
    BY <2>1
<1> QED
  BY <1>3, <1>4

\* A path is a sequence of stages.
LEMMA PathOfStages ==
  ASSUME Crop!CropAssumption, NEW g, Crop!Lengths(g)[1] >= 1
  PROVE  /\ DOMAIN Crop!NativePath(g) = 1..Crop!Lengths(g)[1]
         /\ \A i \in 1..Crop!Lengths(g)[1] : Crop!NativePath(g)[i] \in 1..Stages
         /\ Crop!NativePath(g)[1] = 1
<1> DEFINE size == Crop!Lengths(g)[1]
           path == Crop!NativePath(g)
<1>1. size \in Nat /\ 1 \in 1..size
  <2>1. 1 \in 1..Stages
    BY DEF Crop!CropAssumption
  <2> QED
    BY <2>1, LengthsStep
<1>2. PICK f : Paves(g, f, size) /\ Leads(g, f, size)
  BY PathExists
<1>3. Paves(g, path, size)
  BY <1>2, PathPaves
<1>4. path = f
  <2> HIDE DEF path, size
  <2> QED
    BY <1>1, <1>2, <1>3, PathIsOne
<1>5. DOMAIN f = 1..size /\ f[1] = 1
  BY <1>1, <1>2 DEF Paves
<1>6. \A i \in 1..size : f[i] \in 1..Stages
  BY <1>2 DEF Leads
<1> QED
  BY <1>4, <1>5, <1>6

\* Living stages of the policy: what a field sown under it can carry.
Carried == Crop!Known \ {Crop!Second}

\* What the table may say of a stage of the path.
LEMMA StageInYields ==
  ASSUME NEW p, NEW h, NEW path, NEW k, NEW i
  PROVE  /\ i = Crop!Cardinality(DOMAIN path) =>
              Crop!StageIn(p, h, path, k, i) \in {Crop!Dead, Stages}
         /\ i # Crop!Cardinality(DOMAIN path) =>
              Crop!StageIn(p, h, path, k, i) \in {Stages, path[i + 1], path[i]}
<1>1. CASE i = Crop!Cardinality(DOMAIN path)
  <2>1. Crop!StageIn(p, h, path, k, i) = Crop!Dead \/ Crop!StageIn(p, h, path, k, i) = Stages
    BY <1>1 DEF Crop!StageIn
  <2> QED
    BY <1>1, <2>1
<1>2. CASE i # Crop!Cardinality(DOMAIN path)
  <2>1. \/ Crop!StageIn(p, h, path, k, i) = Stages
        \/ Crop!StageIn(p, h, path, k, i) = path[i + 1]
        \/ Crop!StageIn(p, h, path, k, i) = path[i]
    BY <1>2, Zenon DEF Crop!StageIn
  <2> QED
    BY <1>2, <2>1
<1> QED
  BY <1>1, <1>2

LEMMA CropCardinality == \A S : Crop!Cardinality(S) = Cardinality(S)
BY DEF Crop!Cardinality, Cardinality

\* The table never yields the state the policy does not plan with, and what is
\* dead stays dead.
LEMMA TableHolds ==
  ASSUME Crop!CropAssumption, NEW p, NEW h, NEW g, Crop!Lengths(g)[1] >= 1, NEW m \in Crop!Months
  PROVE  /\ Crop!Table(p, h, g)[m][Crop!Dead] = Crop!Dead
         /\ \A s \in Carried : Crop!Table(p, h, g)[m][s] \in Carried
<1> DEFINE path == Crop!NativePath(g)
           size == Crop!Lengths(g)[1]
           t == Crop!Table(p, h, g)
<1>1. /\ Stages \in Nat \ {0} /\ 1..Stages \subseteq Carried /\ Crop!Seed \in Carried /\ Crop!Dead \in Carried
      /\ Stages \in 1..Stages
  BY DEF Crop!CropAssumption, Carried, Crop!Known, Crop!Second, Crop!Seed, Crop!Dead
<1>2. size \in Nat /\ size >= 1
  BY <1>1, LengthsStep
<1>3. DOMAIN path = 1..size /\ path[1] = 1 /\ \A i \in 1..size : path[i] \in 1..Stages
  BY PathOfStages
<1>4. Crop!Cardinality(DOMAIN path) = size
  BY <1>2, <1>3, FS_Interval, CropCardinality
<1>5. \A s \in Crop!Known :
        t[m][s] = IF s = Crop!Seed THEN Crop!SeedIn(p, h, path, m)
                  ELSE Crop!InMonth(p, h, path, Crop!Shifted(m), s)
  BY DEF Crop!Table
<1> HIDE DEF t, path, size
<1>6. Crop!OnPath(path) \subseteq 1..Stages
  BY <1>3 DEF Crop!OnPath
<1>7. t[m][Crop!Dead] = Crop!Dead
  <2>1. Crop!Dead \in Crop!Known /\ Crop!Dead # Crop!Seed /\ Crop!Dead \notin Crop!NativeReady
        /\ Crop!Dead \notin 1..Stages
    BY <1>1 DEF Crop!Dead, Crop!Known, Crop!Second, Crop!Seed, Crop!NativeReady
  <2>2. Crop!InMonth(p, h, path, Crop!Shifted(m), Crop!Dead) = Crop!Dead
    BY <1>6, <2>1 DEF Crop!InMonth
  <2> QED
    BY <1>5, <2>1, <2>2
<1>8. ASSUME NEW i \in 1..size, NEW k PROVE Crop!StageIn(p, h, path, k, i) \in Carried
  <2>1. path[i] \in Carried
    BY <1>1, <1>3
  <2>2. i # size => path[i + 1] \in Carried
    BY <1>1, <1>2, <1>3
  <2>3. Crop!StageIn(p, h, path, k, i) \in {Crop!Dead, Stages} \/ i # size
    BY <1>4, StageInYields
  <2>4. Crop!StageIn(p, h, path, k, i) \in {Stages, path[i + 1], path[i]} \/ i = size
    BY <1>4, StageInYields
  <2> QED
    BY <1>1, <2>1, <2>2, <2>3, <2>4
<1>9. ASSUME NEW s \in Carried PROVE t[m][s] \in Carried
  <2>1. s \in Crop!Known
    BY DEF Carried
  <2>2. CASE s = Crop!Seed
    <3>1. Crop!SeedIn(p, h, path, m) \in Carried
      BY <1>1, <1>2, <1>3 DEF Crop!SeedIn
    <3> QED
      BY <1>5, <2>1, <2>2, <3>1
  <2>3. CASE s # Crop!Seed
    <3>1. s \in Crop!OnPath(path) => Crop!Position(path, s) \in 1..size
      BY <1>3 DEF Crop!OnPath, Crop!Position
    <3>2. Crop!InMonth(p, h, path, Crop!Shifted(m), s) \in
            {Crop!Dead, s} \union
            (IF s \in Crop!OnPath(path)
             THEN {Crop!StageIn(p, h, path, Crop!Shifted(m), Crop!Position(path, s))} ELSE {})
      BY DEF Crop!InMonth
    <3>3. Crop!InMonth(p, h, path, Crop!Shifted(m), s) \in Carried
      BY <1>1, <1>8, <3>1, <3>2
    <3> QED
      BY <1>5, <2>1, <2>3, <3>3
  <2> QED
    BY <2>2, <2>3
<1> QED
  BY <1>7, <1>9 DEF t

\* The crop sown in one month, followed through the table.
Grows(t, first, f, n) ==
  f = [i \in 0..n |-> IF i = 0 THEN Crop!Seed ELSE t[Crop!After(first, i - 1)][f[i - 1]]]
Grown(t, first) == CHOOSE f : Grows(t, first, f, 12)

LEMMA GrowthExists == ASSUME NEW t, NEW first PROVE \E f : Grows(t, first, f, 12)
<1> DEFINE Bad == {n \in Nat : ~ \E f : Grows(t, first, f, n)}
<1>1. SUFFICES ASSUME Bad # {} PROVE FALSE
  OBVIOUS
<1>2. PICK n \in Bad : \A m \in Bad : n <= m
  <2>1. Bad \in SUBSET Nat
    OBVIOUS
  <2> HIDE DEF Bad
  <2> QED
    BY <1>1, <2>1, SmallestNumber
<1>3. n \in Nat /\ ~ \E f : Grows(t, first, f, n)
  BY <1>2
<1>4. CASE n = 0
  <2> DEFINE f == [i \in 0..0 |-> Crop!Seed]
  <2>1. f = [i \in 0..0 |-> IF i = 0 THEN Crop!Seed ELSE t[Crop!After(first, i - 1)][f[i - 1]]]
    OBVIOUS
  <2> HIDE DEF f
  <2> QED
    BY <1>3, <1>4, <2>1 DEF Grows
<1>5. CASE n # 0
  <2>1. PICK f : Grows(t, first, f, n - 1)
    <3>1. n - 1 \in Nat /\ ~(n <= n - 1)
      BY <1>3, <1>5
    <3> QED
      BY <1>2, <3>1
  <2> DEFINE h == [i \in 0..n |-> IF i = n THEN t[Crop!After(first, n - 1)][f[n - 1]] ELSE f[i]]
  <2>2. \A i \in 0..n : i = n \/ i \in 0..n - 1
    BY <1>3
  <2>3. \A i \in 0..n - 1 : h[i] = f[i]
    BY <1>3
  <2>4. h[n] = t[Crop!After(first, n - 1)][f[n - 1]] /\ n - 1 \in 0..n - 1
    BY <1>3, <1>5
  <2>5. h = [i \in 0..n |-> h[i]]
    OBVIOUS
  <2> HIDE DEF h
  <2>6. \A i \in 0..n - 1 : f[i] = IF i = 0 THEN Crop!Seed ELSE t[Crop!After(first, i - 1)][f[i - 1]]
    BY <2>1 DEF Grows
  <2>7. ASSUME NEW i \in 0..n
        PROVE  h[i] = IF i = 0 THEN Crop!Seed ELSE t[Crop!After(first, i - 1)][h[i - 1]]
    <3>1. CASE i = n
      BY <1>5, <2>3, <2>4, <3>1
    <3>2. CASE i \in 0..n - 1
      <4>1. i # 0 => i - 1 \in 0..n - 1
        BY <1>3, <3>2
      <4> QED
        BY <2>3, <2>6, <3>2, <4>1
    <3> QED
      BY <2>2, <3>1, <3>2
  <2>8. Grows(t, first, h, n)
    BY <2>5, <2>7 DEF Grows
  <2> QED
    BY <1>3, <2>8
<1> QED
  BY <1>4, <1>5

LEMMA GrownStep ==
  ASSUME NEW t, NEW first
  PROVE  /\ Grown(t, first)[0] = Crop!Seed
         /\ \A n \in 0..11 : Grown(t, first)[n + 1] = t[Crop!After(first, n)][Grown(t, first)[n]]
<1> DEFINE f == Grown(t, first)
<1>1. Grows(t, first, f, 12)
  BY GrowthExists DEF Grown
<1> HIDE DEF f
<1>2. \A i \in 0..12 : f[i] = IF i = 0 THEN Crop!Seed ELSE t[Crop!After(first, i - 1)][f[i - 1]]
  BY <1>1 DEF Grows
<1>3. ASSUME NEW n \in 0..11 PROVE f[n + 1] = t[Crop!After(first, n)][f[n]]
  <2>1. n + 1 \in 0..12 /\ n + 1 # 0 /\ (n + 1) - 1 = n
    OBVIOUS
  <2> QED
    BY <1>2, <2>1
<1>4. f[0] = Crop!Seed
  BY <1>2
<1> QED
  BY <1>3, <1>4 DEF f

\* The months from a sowing to the end of the harvest.
LastOf(p, h, first) ==
  Crop!Largest({Crop!Since(k, Crop!Least(p)) : k \in h}) - Crop!Since(first, Crop!Least(p))

\* What the rehearsal of a sowing month has shown.
LEMMA RehearsalShows ==
  ASSUME NEW p \in SUBSET Crop!Months, p # {}, NEW h \in SUBSET Crop!Months, h # {}, NEW t, NEW first \in p,
         Crop!Rehearsed(p, h, t, first)
  PROVE  /\ LastOf(p, h, first) \in 1..11
         /\ \A n \in 1..LastOf(p, h, first) : Grown(t, first)[n] = Stages => Crop!After(first, n) \in h
         /\ t[Crop!After(first, LastOf(p, h, first))][Grown(t, first)[LastOf(p, h, first)]] = Crop!Dead
<1> DEFINE last == LastOf(p, h, first)
           f == Grown(t, first)
           offsets == {Crop!Since(k, Crop!Least(p)) : k \in h}
<1>1. Crop!Least(p) \in Crop!Months
  <2>1. p \in SUBSET Nat
    BY DEF Crop!Months
  <2>2. Crop!Least(p) \in p
    BY <2>1, LeastIs
  <2> QED
    BY <2>2
<1>2. \A k \in Crop!Months : Crop!Since(k, Crop!Least(p)) \in 0..11
  BY <1>1 DEF Crop!Months, Crop!Since
<1>3. offsets \in SUBSET (0..11) /\ offsets # {}
  BY <1>2
<1>4. Crop!Largest(offsets) \in 0..11
  <2> HIDE DEF offsets
  <2> QED
    BY <1>3, LargestIs
<1>5. last >= 1 /\ last <= 11 /\ last \in Int
  <2>1. last >= 1
    BY DEF Crop!Rehearsed, LastOf
  <2>2. last = Crop!Largest(offsets) - Crop!Since(first, Crop!Least(p))
    BY DEF LastOf
  <2> HIDE DEF offsets, last
  <2> QED
    BY <1>2, <1>4, <2>1, <2>2
<1>6. /\ \A n \in {n \in 1..last : f[n] = Stages} : Crop!After(first, n) \in h
      /\ t[Crop!After(first, last)][f[last]] = Crop!Dead
  BY DEF Crop!Rehearsed, LastOf, Grown, Grows
<1> QED
  BY <1>5, <1>6

\* While a crop sown under the policy lives, it is as old as the calendar says.
InTheGround(first, n) ==
  /\ n \in 0..LastOf(plant, reap, first)
  /\ month = Crop!After(first, n) /\ crop = Grown(table, first)[n]
CropInv ==
  table # Crop!NoTable =>
    /\ plant \in SUBSET Crop!Months /\ plant # {} /\ reap \in SUBSET Crop!Months /\ reap # {}
    /\ Crop!Lengths(growth)[1] >= 1 /\ table = Crop!Table(plant, reap, growth)
    /\ \A first \in plant : Crop!Rehearsed(plant, reap, table, first)
    /\ month \in Crop!Months
    /\ sown => crop \in Carried /\ (crop = Crop!Dead \/ \E first \in plant : \E n \in 0..11 : InTheGround(first, n))

LEMMA InitCrop == Crop!CropAssumption /\ Crop!Init => CropInv
<1> SUFFICES ASSUME Crop!CropAssumption, Crop!Init, table # Crop!NoTable PROVE CropInv
  BY DEF CropInv
<1>1. /\ plant \in SUBSET Crop!Months /\ reap \in SUBSET Crop!Months
      /\ table = Crop!Plan(plant, reap, growth) /\ month \in Crop!Months /\ sown = FALSE
  BY DEF Crop!Init, Crop!CropAssumption
<1>2. ~(plant = {} \/ reap = {} \/ Crop!Lengths(growth)[1] < 2 \/ ~Crop!Aligned(plant, reap))
  BY <1>1 DEF Crop!Plan
<1>3. table = Crop!Table(plant, reap, growth) /\ Crop!Completes(plant, reap, table)
  BY <1>1, <1>2 DEF Crop!Plan
<1>4. Crop!Lengths(growth)[1] \in Nat
  <2>1. 1 \in 1..Stages /\ Stages \in Nat
    BY DEF Crop!CropAssumption
  <2> QED
    BY <2>1, LengthsStep
<1> QED
  BY <1>1, <1>2, <1>3, <1>4 DEF CropInv, Crop!Completes

LEMMA NextCrop ==
  ASSUME Crop!CropAssumption, CropInv, [Crop!Next]_(Crop!cropVars)
  PROVE  CropInv'
<1>1. UNCHANGED <<plant, reap, growth, table>>
  BY DEF Crop!Next, Crop!Sow, Crop!Harvest, Crop!Plough, Crop!NextMonth, Crop!cropVars
<1> SUFFICES ASSUME table # Crop!NoTable PROVE CropInv'
  BY <1>1 DEF CropInv
<1>2. /\ plant \in SUBSET Crop!Months /\ plant # {} /\ reap \in SUBSET Crop!Months /\ reap # {}
      /\ Crop!Lengths(growth)[1] >= 1 /\ table = Crop!Table(plant, reap, growth)
      /\ \A first \in plant : Crop!Rehearsed(plant, reap, table, first)
      /\ month \in Crop!Months
      /\ sown => crop \in Carried /\ (crop = Crop!Dead \/ \E first \in plant : \E n \in 0..11 : InTheGround(first, n))
  BY DEF CropInv
<1>3. Stages \in Nat \ {0} /\ Crop!Seed \in Carried /\ Crop!Bare \notin Carried
  BY DEF Crop!CropAssumption, Carried, Crop!Known, Crop!Second, Crop!Seed, Crop!Bare
<1>4. SUFFICES /\ month' \in Crop!Months
               /\ sown' => /\ crop' \in Carried
                           /\ crop' = Crop!Dead \/ \E first \in plant : \E n \in 0..11 : InTheGround(first, n)'
  BY <1>1, <1>2 DEF CropInv
<1>5. CASE Crop!Sow
  <2>1. month \in plant /\ month' = month /\ crop' = Crop!Seed
    BY <1>5 DEF Crop!Sow
  <2>2. LastOf(plant, reap, month) \in 1..11
    BY <1>2, <2>1, RehearsalShows
  <2>3. Crop!After(month, 0) = month
    BY <1>2 DEF Crop!Months, Crop!After
  <2>4. Grown(table, month)[0] = Crop!Seed
    BY GrownStep
  <2>5. InTheGround(month, 0)'
    BY <1>1, <2>1, <2>2, <2>3, <2>4 DEF InTheGround
  <2> QED
    BY <1>2, <1>3, <2>1, <2>5
<1>6. CASE Crop!Harvest \/ Crop!Plough
  BY <1>2, <1>6 DEF Crop!Harvest, Crop!Plough
<1>7. CASE Crop!NextMonth
  <2>1. month' = Crop!After(month, 1) /\ sown' = sown /\ crop' = IF crop = Crop!Bare THEN Crop!Bare ELSE table[month][crop]
    BY <1>7 DEF Crop!NextMonth
  <2>2. month' \in Crop!Months
    BY <1>2, <2>1 DEF Crop!After, Crop!Months
  <2>3. SUFFICES ASSUME sown
                 PROVE  /\ crop' \in Carried
                        /\ crop' = Crop!Dead \/ \E first \in plant : \E n \in 0..11 : InTheGround(first, n)'
    BY <2>1, <2>2
  <2>4. crop' = table[month][crop] /\ crop' \in Carried /\ table[month][Crop!Dead] = Crop!Dead
    BY <1>2, <1>3, <2>1, <2>3, TableHolds
  <2>5. CASE crop # Crop!Dead
    <3>1. PICK first \in plant, n \in 0..11 : InTheGround(first, n)
      BY <1>2, <2>3, <2>5
    <3>2. /\ LastOf(plant, reap, first) \in 1..11
          /\ table[Crop!After(first, LastOf(plant, reap, first))][Grown(table, first)[LastOf(plant, reap, first)]] = Crop!Dead
      BY <1>2, RehearsalShows
    <3>3. CASE n = LastOf(plant, reap, first)
      <4>1. crop' = Crop!Dead
        BY <2>4, <3>1, <3>2, <3>3 DEF InTheGround
      <4> QED
        BY <2>4, <4>1
    <3>4. CASE n # LastOf(plant, reap, first)
      <4>1. n + 1 \in 0..LastOf(plant, reap, first) /\ n + 1 \in 0..11
        BY <3>1, <3>2, <3>4 DEF InTheGround
      <4>2. crop' = Grown(table, first)[n + 1]
        BY <2>4, <3>1, GrownStep DEF InTheGround
      <4>3. Crop!After(Crop!After(first, n), 1) = Crop!After(first, n + 1)
        <5>1. first \in 1..12
          BY <1>2 DEF Crop!Months
        <5> QED
          BY <5>1 DEF Crop!After
      <4>4. month' = Crop!After(first, n + 1)
        BY <2>1, <3>1, <4>3 DEF InTheGround
      <4>5. InTheGround(first, n + 1)'
        BY <1>1, <4>1, <4>2, <4>4 DEF InTheGround
      <4> QED
        BY <2>4, <4>1, <4>5
    <3> QED
      BY <3>3, <3>4
  <2> QED
    BY <2>4, <2>5
<1>8. CASE UNCHANGED Crop!cropVars
  <2>1. UNCHANGED <<month, crop, sown>>
    BY <1>8 DEF Crop!cropVars
  <2>2. \A first, n : InTheGround(first, n) => InTheGround(first, n)'
    BY <1>1, <2>1 DEF InTheGround
  <2> QED
    BY <1>2, <2>1, <2>2
<1> QED
  BY <1>5, <1>6, <1>7, <1>8 DEF Crop!Next

(* Whatever stages, growth and windows a policy names: what is sown under  *)
(* it is ready for harvest in harvest months only (apply_policy, shifted   *)
(* mapping, rehearsal of every planting month).                            *)
THEOREM SownRipensInSeason ==
  ASSUME Crop!CropAssumption
  PROVE  Crop!Spec => []RipeInSeason
<1>1. Crop!Init => CropInv
  BY InitCrop
<1>2. CropInv /\ [Crop!Next]_(Crop!cropVars) => CropInv'
  BY NextCrop
<1>3. CropInv => RipeInSeason
  <2> SUFFICES ASSUME CropInv, table # Crop!NoTable, sown, crop \in Crop!NativeReady PROVE month \in reap
    BY DEF RipeInSeason, Crop!RipeInSeason
  <2>1. /\ crop = Stages /\ Stages # Crop!Dead /\ Stages # Crop!Seed
    BY DEF CropInv, Carried, Crop!NativeReady, Crop!Second, Crop!Dead, Crop!Seed, Crop!CropAssumption
  <2>2. PICK first \in plant, n \in 0..11 : InTheGround(first, n)
    BY <2>1 DEF CropInv
  <2>3. n # 0
    BY <2>1, <2>2, GrownStep DEF InTheGround
  <2>4. /\ LastOf(plant, reap, first) \in 1..11
        /\ \A k \in 1..LastOf(plant, reap, first) : Grown(table, first)[k] = Stages => Crop!After(first, k) \in reap
    BY RehearsalShows DEF CropInv
  <2> QED
    BY <2>1, <2>2, <2>3, <2>4 DEF InTheGround
<1> QED
  BY <1>1, <1>2, <1>3, PTL DEF Crop!Spec
-------------------------------------------------------------------------------
(* ContractorGrants                                                        *)

\* What the row, the newest job and the file of a membership say of each other.
GrantFits(p) ==
  /\ row[p] # Grant!Blank => p[1] \in approved
  /\ job[p] = "pending" => row[p].state = "pending"
  /\ slip[p] = "command" => job[p] = "pending"
  /\ row[p].desired = "contractor" /\ (row[p].state = "active" \/ (slip[p] = "applied" /\ job[p] = "pending"))
       => p[2] \in contracting \/ Grant!Shared(p)
\* The game's file and its native roles name farms with a membership only.
ListFits == \A m \in Members : authority[m] # NoFarm => row[<<m, authority[m]>>] # Grant!Blank
FarmsFit == \A f \in contracting : \E m \in Members : row[<<m, f>>] # Grant!Blank
GrantInv == Grant!TypeOK /\ (\A p \in Grant!Pairs : GrantFits(p)) /\ ListFits /\ FarmsFit

\* What a step promises of one membership.
GrantSteps(p) ==
  /\ \/ row'[p].desired # row[p].desired
     \/ job'[p] = "pending" /\ job[p] # "pending"
     => job[p] # "pending" /\ slip[p] # "command"
  /\ job[p] = "pending" /\ job'[p] # "pending"
     => slip[p] \in Grant!Receipts /\ job'[p] = Grant!JobAfter(slip[p])
  /\ row[p].state = "pending" /\ row'[p].state # "pending"
     => /\ slip[p] \in Grant!Receipts /\ job[p] = "pending"
        /\ row'[p].state = Grant!RowAfter(p, slip[p])
  /\ Grant!Closed(p) =>
       /\ p[2] \notin contracting'
       /\ Grant!Closed(p)' \/ Grant!Is(p, "contractor", {"pending"})' \/ Grant!Shared(p)'

LEMMA RowsAreRecords ==
  ASSUME Grant!TypeOK, NEW p \in Grant!Pairs
  PROVE  /\ p[1] \in Members /\ p[2] \in Farms /\ p = <<p[1], p[2]>>
         /\ row[p] = Grant!Blank \/ (row[p].desired \in {"contractor", "revoked"} /\ row[p].state \in Grant!States)
         /\ row[p] = Grant!Blank => row[p].desired = "none" /\ row[p].state = "none"
BY DEF Grant!TypeOK, Grant!Pairs, Grant!Blank

LEMMA SharedFarm == ASSUME NEW p \in Grant!Pairs, NEW m \in Members PROVE <<m, p[2]>> \in Grant!Pairs
BY DEF Grant!Pairs

LEMMA InitGrant == Grant!GrantAssumption /\ Grant!Init => GrantInv
BY DEF Grant!GrantAssumption, Grant!Init, GrantInv, Grant!TypeOK, GrantFits, ListFits, FarmsFit, Grant!Pairs,
       Grant!Places, Grant!Blank

\* A new revision is begun only when the last one is settled and no command of it
\* is left.
LEMMA FreshIsFree ==
  ASSUME Grant!GrantAssumption, GrantInv, NEW p \in Grant!Pairs, Grant!Fresh(p)
  PROVE  /\ row[p].state # "pending" /\ job[p] # "pending" /\ slip[p] # "command" /\ p[1] \in approved
         /\ Grant!Is(p, "revoked", {"revoked"}) => Grant!Granted(p)
<1>1. row[p].state # "pending"
  BY DEF Grant!Fresh, Grant!Granted, Grant!Withdrawn, Grant!Is
<1>2. GrantFits(p)
  BY DEF GrantInv
<1>3. p[1] \in approved
  <2>1. CASE Grant!Granted(p)
    BY <2>1, RowsAreRecords
    DEF Grant!Granted, Grant!Wanted, Grant!Eligible, Grant!GrantAssumption, GrantInv
  <2>2. CASE Grant!Withdrawn(p)
    BY <1>2, <2>2 DEF Grant!Withdrawn, Grant!Is, Grant!Blank, GrantFits
  <2> QED
    BY <2>1, <2>2 DEF Grant!Fresh
<1>4. Grant!Is(p, "revoked", {"revoked"}) => ~Grant!Withdrawn(p)
  BY DEF Grant!Is, Grant!Withdrawn
<1> QED
  BY <1>1, <1>2, <1>3, <1>4 DEF GrantFits, Grant!Fresh

\* Central's reconciliation leaves a membership alone or begins a revision.
LEMMA Reconciled ==
  ASSUME Grant!GrantAssumption, GrantInv, Grant!Reconcile
  PROVE  /\ row' \in [Grant!Pairs -> {Grant!Blank} \union [desired : {"contractor", "revoked"}, state : Grant!States]]
         /\ job' \in [Grant!Pairs -> {"none", "pending", "applied", "reconciliation_required"}]
         /\ late \union Grant!LeftOver \subseteq Grant!Pairs \X {"applied", "refused"}
         /\ \A p \in Grant!Pairs :
              \/ /\ Grant!Fresh(p) /\ job'[p] = "pending" /\ row'[p].state = "pending"
                 /\ row'[p].desired \in {"contractor", "revoked"} /\ row'[p] # Grant!Blank
                 /\ Grant!Granted(p) => row'[p].desired = "contractor"
              \/ ~Grant!Fresh(p) /\ job'[p] = job[p] /\ row'[p] = row[p]
<1>1. Grant!TypeOK
  BY DEF GrantInv
<1>2. Grant!LeftOver \subseteq Grant!Pairs \X {"applied", "refused"}
  BY <1>1, FreshIsFree DEF Grant!LeftOver, Grant!TypeOK
<1> QED
  BY <1>1, <1>2 DEF Grant!Reconcile, Grant!TypeOK, Grant!Fresh, Grant!States, Grant!Blank

\* Every request of the Agent reconciles; what it does with the answer is a
\* matter of files.
LEMMA PollKeeps ==
  ASSUME Grant!GrantAssumption, GrantInv, Grant!Reconcile,
         UNCHANGED <<farm, online, contracting, observed, approved, moves>>, lapses' \in 0..MaxLapses,
         slip' \in [Grant!Pairs -> {"none", "command", "applied", "refused"}],
         late' = late \union Grant!LeftOver,
         \A p \in Grant!Pairs : \/ slip'[p] = (IF Grant!Fresh(p) THEN "none" ELSE slip[p])
                                 \/ (slip'[p] = "command" /\ job'[p] = "pending"),
         authority' \in [Members -> Grant!Places],
         \A m \in Members :
           \/ authority'[m] = authority[m] \/ authority'[m] = NoFarm
           \/ /\ authority'[m] \in Farms /\ row'[<<m, authority'[m]>>].desired = "contractor"
              /\ row'[<<m, authority'[m]>>].state \in {"pending", "active"}
  PROVE  GrantInv' /\ \A p \in Grant!Pairs : GrantSteps(p)
<1>1. Grant!TypeOK /\ Grant!TypeOK'
  BY Reconciled DEF GrantInv, Grant!TypeOK
<1>2. \A p \in Grant!Pairs : row[p] # Grant!Blank => row'[p] # Grant!Blank
  BY Reconciled
<1>3. \A p \in Grant!Pairs : Grant!Shared(p) => Grant!Shared(p)'
  BY <1>1, <1>2, RowsAreRecords, SharedFarm DEF Grant!Shared
<1>4. ASSUME NEW p \in Grant!Pairs PROVE GrantFits(p)'
  <2>1. GrantFits(p) /\ (row[p] = Grant!Blank => row[p].state = "none")
    BY <1>1, RowsAreRecords DEF GrantInv
  <2>2. CASE Grant!Fresh(p)
    BY <2>2, FreshIsFree, Reconciled DEF GrantFits
  <2>3. CASE ~Grant!Fresh(p)
    BY <1>3, <2>1, <2>3, Reconciled DEF GrantFits
  <2> QED
    BY <2>2, <2>3
<1>5. ListFits'
  <2> SUFFICES ASSUME NEW m \in Members, authority'[m] # NoFarm PROVE row'[<<m, authority'[m]>>] # Grant!Blank
    BY DEF ListFits
  <2>1. <<m, authority'[m]>> \in Grant!Pairs
    BY DEF Grant!Pairs, Grant!Places
  <2>2. CASE authority'[m] = authority[m]
    BY <1>2, <2>1, <2>2 DEF GrantInv, ListFits
  <2> QED
    BY <2>1, <2>2 DEF Grant!Blank
<1>6. FarmsFit'
  <2> SUFFICES ASSUME NEW f \in contracting PROVE \E m \in Members : row'[<<m, f>>] # Grant!Blank
    BY DEF FarmsFit
  <2>1. PICK m \in Members : row[<<m, f>>] # Grant!Blank
    BY DEF GrantInv, FarmsFit
  <2>2. <<m, f>> \in Grant!Pairs
    BY <1>1 DEF Grant!TypeOK, Grant!Pairs
  <2> QED
    BY <1>2, <2>1, <2>2
<1>7. ASSUME NEW p \in Grant!Pairs PROVE GrantSteps(p)
  <2>1. CASE Grant!Fresh(p)
    <3>1. Grant!Closed(p) => Grant!Is(p, "contractor", {"pending"})'
      BY <2>1, FreshIsFree, Reconciled DEF Grant!Closed, Grant!Is
    <3> QED
      BY <2>1, <3>1, FreshIsFree DEF GrantSteps, Grant!Closed
  <2>2. CASE ~Grant!Fresh(p)
    <3>1. row'[p] = row[p] /\ job'[p] = job[p]
      BY <2>2, Reconciled
    <3>2. ASSUME Grant!Closed(p) PROVE authority'[p[1]] # p[2]
      <4>1. /\ p[1] \in Members /\ p[2] # NoFarm /\ p = <<p[1], p[2]>> /\ authority[p[1]] # p[2]
            /\ row'[p].desired = "revoked"
        BY <1>1, <3>1, <3>2, RowsAreRecords DEF Grant!Closed, Grant!Is, Grant!GrantAssumption
      <4> QED
        BY <4>1
    <3> QED
      BY <3>1, <3>2 DEF GrantSteps, Grant!Closed, Grant!Is
  <2> QED
    BY <2>1, <2>2
<1> QED
  BY <1>1, <1>4, <1>5, <1>6, <1>7 DEF GrantInv

LEMMA PollsKeep ==
  ASSUME Grant!GrantAssumption, GrantInv, Grant!Operations \/ Grant!AnswerLost \/ Grant!Authority
  PROVE  GrantInv' /\ \A p \in Grant!Pairs : GrantSteps(p)
<1>1. Grant!TypeOK /\ Grant!Reconcile /\ late' = late \union Grant!LeftOver
  BY DEF GrantInv, Grant!Operations, Grant!AnswerLost, Grant!Authority
<1> USE DEF Grant!Unserved
<1>2. CASE Grant!Operations
  BY <1>1, <1>2, PollKeeps DEF Grant!Operations, Grant!game, Grant!TypeOK
<1>3. CASE Grant!AnswerLost
  <2>1. lapses' \in 0..MaxLapses
    BY <1>1, <1>3 DEF Grant!AnswerLost, Grant!TypeOK, Grant!GrantAssumption
  <2> QED
    BY <1>1, <1>3, <2>1, PollKeeps DEF Grant!AnswerLost, Grant!game, Grant!TypeOK
<1>4. CASE Grant!Authority
  BY <1>1, <1>4, PollKeeps DEF Grant!Authority, Grant!Projected, Grant!game, Grant!TypeOK
<1> QED
  BY <1>2, <1>3, <1>4

\* Steps that leave rows, jobs, files and the list alone: roles that go or come
\* do so for farms with a membership.
LEMMA RoamKeeps ==
  ASSUME Grant!GrantAssumption, GrantInv, Grant!TypeOK', UNCHANGED <<row, job, slip, late, authority>>,
         approved \subseteq approved', contracting \subseteq contracting',
         \A f \in contracting' \ contracting : \E m \in Members : authority[m] = f
  PROVE  GrantInv' /\ \A p \in Grant!Pairs : GrantSteps(p)
<1>1. Grant!TypeOK
  BY DEF GrantInv
<1>2. ASSUME NEW f \in contracting' \ contracting PROVE \E m \in Members : authority[m] = f /\ row[<<m, f>>] # Grant!Blank
  BY <1>2 DEF GrantInv, ListFits, Grant!TypeOK, Grant!GrantAssumption
<1>3. \A p \in Grant!Pairs : Grant!Shared(p) <=> Grant!Shared(p)'
  BY DEF Grant!Shared
<1>4. ASSUME NEW p \in Grant!Pairs PROVE GrantFits(p)'
  BY <1>3 DEF GrantInv, GrantFits
<1>5. FarmsFit'
  BY <1>2 DEF GrantInv, FarmsFit
<1>6. ASSUME NEW p \in Grant!Pairs, Grant!Closed(p) PROVE p[2] \notin contracting'
  BY <1>1, <1>2, <1>6 DEF Grant!Closed, Grant!Shared
<1>7. ASSUME NEW p \in Grant!Pairs PROVE GrantSteps(p)
  BY <1>3, <1>6 DEF GrantSteps, Grant!Closed, Grant!Is
<1> QED
  BY <1>4, <1>5, <1>7 DEF GrantInv, ListFits

LEMMA RoamsKeep ==
  ASSUME Grant!GrantAssumption, GrantInv, NEW m \in Members,
         Grant!Enforce(m) \/ Grant!Connection(m) \/ Grant!Observe(m) \/ Grant!Approve(m)
           \/ \E f \in Grant!Places : Grant!Move(m, f)
  PROVE  GrantInv' /\ \A p \in Grant!Pairs : GrantSteps(p)
<1>1. Grant!TypeOK
  BY DEF GrantInv
<1>2. /\ contracting \subseteq contracting' /\ approved \subseteq approved'
      /\ \A f \in contracting' \ contracting : f # NoFarm /\ \E n \in Members : authority[n] = f
  BY DEF Grant!Enforce, Grant!Enforced, Grant!Connection, Grant!Observe, Grant!Approve, Grant!Move, Grant!game
<1>3. UNCHANGED <<row, job, slip, late, authority>>
  BY DEF Grant!Enforce, Grant!Connection, Grant!Observe, Grant!Approve, Grant!Move
<1>4. Grant!TypeOK'
  <2>1. contracting' \subseteq Farms
    BY <1>1, <1>2 DEF Grant!TypeOK, Grant!Places
  <2>2. farm' \in [Members -> Grant!Places] /\ observed' \in [Members -> Grant!Places]
    BY <1>1 DEF Grant!TypeOK, Grant!Enforce, Grant!Connection, Grant!Observe, Grant!Approve, Grant!Move, Grant!game
  <2>3. online' \subseteq Members /\ approved' \subseteq Members
    BY <1>1 DEF Grant!TypeOK, Grant!Enforce, Grant!Connection, Grant!Observe, Grant!Approve, Grant!Move, Grant!game
  <2>4. moves' \in 0..MaxMoves /\ lapses' \in 0..MaxLapses
    BY <1>1 DEF Grant!TypeOK, Grant!GrantAssumption, Grant!Enforce, Grant!Connection, Grant!Observe, Grant!Approve,
                Grant!Move
  <2> QED
    BY <1>1, <1>3, <2>1, <2>2, <2>3, <2>4 DEF Grant!TypeOK
<1> QED
  BY <1>2, <1>3, <1>4, RoamKeeps

LEMMA ProcessKeeps ==
  ASSUME Grant!GrantAssumption, GrantInv, NEW q \in Grant!Pairs, Grant!Process(q)
  PROVE  GrantInv' /\ \A p \in Grant!Pairs : GrantSteps(p)
<1>1. Grant!TypeOK /\ GrantFits(q) /\ q[1] \in Members /\ q[2] \in Farms /\ q = <<q[1], q[2]>>
  BY RowsAreRecords DEF GrantInv
<1>2. /\ slip[q] = "command" /\ UNCHANGED <<farm, online, observed, approved, row, job, late, authority, moves>>
      /\ slip' = [slip EXCEPT ![q] = slip'[q]] /\ slip'[q] \in {"applied", "refused"} /\ lapses' \in 0..MaxLapses
      /\ \/ contracting' = contracting \union {q[2]}
         \/ contracting' = contracting /\ slip'[q] = "refused"
         \/ contracting' = contracting \ {q[2]} /\ row[q].desired = "revoked"
  BY <1>1 DEF Grant!Process, Grant!TypeOK, Grant!GrantAssumption
<1>3. row[q].state = "pending" /\ job[q] = "pending" /\ row[q] # Grant!Blank
  BY <1>1, <1>2 DEF GrantFits, Grant!Blank
<1>4. Grant!TypeOK'
  BY <1>1, <1>2 DEF Grant!TypeOK
<1>5. \A p \in Grant!Pairs : (Grant!Shared(p) <=> Grant!Shared(p)') /\ (p # q /\ p[2] = q[2] => Grant!Shared(p))
  BY <1>1, <1>2, <1>3, RowsAreRecords DEF Grant!Shared
<1>6. ASSUME NEW p \in Grant!Pairs PROVE GrantFits(p)'
  <2>1. GrantFits(p)
    BY DEF GrantInv
  <2>2. p # q => slip'[p] = slip[p]
    BY <1>1, <1>2 DEF Grant!TypeOK
  <2>3. CASE p = q
    BY <1>2, <1>3, <2>1, <2>3 DEF GrantFits
  <2>4. CASE p # q
    BY <1>2, <1>5, <2>1, <2>2, <2>4 DEF GrantFits
  <2> QED
    BY <2>3, <2>4
<1>7. FarmsFit'
  BY <1>1, <1>2, <1>3 DEF GrantInv, FarmsFit
<1>8. ASSUME NEW p \in Grant!Pairs PROVE GrantSteps(p)
  <2>1. Grant!Closed(p) => p # q /\ p[2] # q[2]
    BY <1>3, <1>5 DEF Grant!Closed, Grant!Is
  <2> QED
    BY <1>2, <1>5, <2>1 DEF GrantSteps, Grant!Closed, Grant!Is
<1> QED
  BY <1>2, <1>4, <1>6, <1>7, <1>8 DEF GrantInv, ListFits

\* A receipt that finds no open job changes neither rows nor jobs.
LEMMA LatePosts ==
  ASSUME Grant!GrantAssumption, GrantInv, Grant!TypeOK', UNCHANGED <<farm, online, contracting, observed, approved>>,
         UNCHANGED <<row, job, authority>>, NEW q \in Grant!Pairs, slip' = [slip EXCEPT ![q] = slip'[q]],
         slip'[q] \in {"none", slip[q]}
  PROVE  GrantInv' /\ \A p \in Grant!Pairs : GrantSteps(p)
<1>1. Grant!TypeOK
  BY DEF GrantInv
<1>2. \A p \in Grant!Pairs : slip'[p] \in {"none", slip[p]} /\ (Grant!Shared(p) <=> Grant!Shared(p)')
  BY <1>1 DEF Grant!TypeOK, Grant!Shared
<1>3. ASSUME NEW p \in Grant!Pairs PROVE GrantFits(p)'
  BY <1>2 DEF GrantInv, GrantFits
<1>4. ASSUME NEW p \in Grant!Pairs PROVE GrantSteps(p)
  BY <1>2 DEF GrantSteps, Grant!Closed, Grant!Is
<1> QED
  BY <1>3, <1>4 DEF GrantInv, ListFits, FarmsFit

LEMMA PostKeeps ==
  ASSUME Grant!GrantAssumption, GrantInv, NEW q \in Grant!Pairs, Grant!Post(q)
  PROVE  GrantInv' /\ \A p \in Grant!Pairs : GrantSteps(p)
<1>1. Grant!TypeOK /\ GrantFits(q)
  BY DEF GrantInv
<1>2. /\ slip[q] \in Grant!Receipts
      /\ UNCHANGED <<farm, online, contracting, observed, approved, late, authority, moves>>
      /\ slip' = [slip EXCEPT ![q] = slip'[q]] /\ slip'[q] \in {"none", slip[q]}
      /\ lapses' \in 0..MaxLapses
  <2>1. slip = [slip EXCEPT ![q] = slip[q]]
    BY <1>1 DEF Grant!TypeOK
  <2>2. slip' = slip \/ slip' = [slip EXCEPT ![q] = "none"]
    BY DEF Grant!Post
  <2>3. slip' = [slip EXCEPT ![q] = slip'[q]] /\ slip'[q] \in {"none", slip[q]}
    BY <1>1, <2>1, <2>2 DEF Grant!TypeOK
  <2>4. lapses' \in 0..MaxLapses
    <3>1. lapses' = lapses \/ (lapses < MaxLapses /\ lapses' = lapses + 1)
      BY DEF Grant!Post
    <3> QED
      BY <1>1, <3>1 DEF Grant!TypeOK, Grant!GrantAssumption
  <2> QED
    BY <2>3, <2>4 DEF Grant!Post, Grant!game
<1>3. CASE job[q] # "pending"
  <2>1. UNCHANGED <<row, job>>
    BY <1>3 DEF Grant!Post, Grant!Acknowledge, Grant!Finds
  <2>2. Grant!TypeOK'
    BY <1>1, <1>2, <2>1 DEF Grant!TypeOK
  <2> QED
    BY <1>2, <2>1, <2>2, LatePosts
<1>4. SUFFICES ASSUME job[q] = "pending" PROVE GrantInv' /\ \A p \in Grant!Pairs : GrantSteps(p)
  BY <1>3
<1>5. /\ job' = [job EXCEPT ![q] = Grant!JobAfter(slip[q])]
      /\ \/ row' = [row EXCEPT ![q].state = Grant!RowAfter(q, slip[q])]
         \/ slip[q] = "refused" /\ row' = row
  BY <1>4 DEF Grant!Post, Grant!Acknowledge, Grant!Finds
<1>6. /\ row[q].state = "pending" /\ row[q].desired \in {"contractor", "revoked"}
      /\ job'[q] = Grant!JobAfter(slip[q]) /\ job'[q] \in {"applied", "reconciliation_required"}
      /\ row'[q].state \in {"pending", Grant!RowAfter(q, slip[q])}
      /\ row'[q].state = "pending" => slip[q] = "refused"
  BY <1>1, <1>2, <1>4, <1>5, RowsAreRecords
  DEF GrantFits, Grant!TypeOK, Grant!JobAfter, Grant!RowAfter, Grant!Receipts, Grant!Blank
<1>7. row'[q].desired = row[q].desired /\ row'[q] # Grant!Blank /\ row[q] # Grant!Blank
      /\ row' \in [Grant!Pairs -> {Grant!Blank} \union [desired : {"contractor", "revoked"}, state : Grant!States]]
  BY <1>1, <1>5, <1>6 DEF Grant!TypeOK, Grant!Blank, Grant!RowAfter, Grant!States
<1>8. \A p \in Grant!Pairs : p # q => row'[p] = row[p] /\ job'[p] = job[p] /\ slip'[p] = slip[p]
  BY <1>1, <1>2, <1>5 DEF Grant!TypeOK
<1>9. \A p \in Grant!Pairs : row[p] # Grant!Blank <=> row'[p] # Grant!Blank
  BY <1>7, <1>8
<1>10. \A p \in Grant!Pairs : Grant!Shared(p) <=> Grant!Shared(p)'
  BY <1>9, SharedFarm DEF Grant!Shared
<1>11. Grant!TypeOK'
  <2>1. job' \in [Grant!Pairs -> {"none", "pending", "applied", "reconciliation_required"}]
    BY <1>1, <1>5, <1>6 DEF Grant!TypeOK
  <2>2. slip' \in [Grant!Pairs -> {"none", "command", "applied", "refused"}]
    BY <1>1, <1>2 DEF Grant!TypeOK
  <2> QED
    BY <1>1, <1>2, <1>7, <2>1, <2>2 DEF Grant!TypeOK
<1>12. ASSUME NEW p \in Grant!Pairs PROVE GrantFits(p)'
  <2>1. CASE p = q
    BY <1>1, <1>2, <1>4, <1>6, <1>7, <1>10, <2>1 DEF GrantFits, Grant!RowAfter, Grant!Receipts
  <2>2. CASE p # q
    BY <1>2, <1>8, <1>10, <2>2 DEF GrantInv, GrantFits
  <2> QED
    BY <2>1, <2>2
<1>13. ListFits' /\ FarmsFit'
  <2>1. \A m \in Members, f \in Farms : <<m, f>> \in Grant!Pairs
    BY DEF Grant!Pairs
  <2>2. \A f \in contracting : f \in Farms
    BY <1>1 DEF Grant!TypeOK
  <2>3. \A m \in Members : authority[m] # NoFarm => authority[m] \in Farms
    BY <1>1 DEF Grant!TypeOK, Grant!Places
  <2> QED
    BY <1>2, <1>9, <2>1, <2>2, <2>3 DEF GrantInv, ListFits, FarmsFit
<1>14. ASSUME NEW p \in Grant!Pairs PROVE GrantSteps(p)
  <2>1. CASE p = q
    BY <1>2, <1>4, <1>6, <1>7, <2>1 DEF GrantSteps, Grant!Closed, Grant!Is
  <2>2. CASE p # q
    BY <1>2, <1>8, <1>10, <2>2 DEF GrantSteps, Grant!Closed, Grant!Is
  <2> QED
    BY <2>1, <2>2
<1> QED
  BY <1>11, <1>12, <1>13, <1>14 DEF GrantInv

LEMMA PostLateKeeps ==
  ASSUME Grant!GrantAssumption, GrantInv, NEW q \in Grant!Pairs, NEW a \in Grant!Receipts, Grant!PostLate(q, a)
  PROVE  GrantInv' /\ \A p \in Grant!Pairs : GrantSteps(p)
<1>1. Grant!TypeOK
  BY DEF GrantInv
<1>2. /\ UNCHANGED <<farm, online, contracting, observed, approved, row, job, slip, authority, moves, lapses>>
      /\ late' \subseteq late
  BY DEF Grant!PostLate, Grant!Acknowledge, Grant!Finds, Grant!game
<1>3. Grant!TypeOK' /\ slip' = [slip EXCEPT ![q] = slip'[q]] /\ slip'[q] \in {"none", slip[q]}
  BY <1>1, <1>2 DEF Grant!TypeOK
<1> QED
  BY <1>2, <1>3, LatePosts

LEMMA NextGrant ==
  ASSUME Grant!GrantAssumption, GrantInv, [Grant!Next]_(Grant!vars)
  PROVE  GrantInv' /\ \A p \in Grant!Pairs : GrantSteps(p)
<1>1. CASE UNCHANGED Grant!vars
  <2>1. Grant!TypeOK'
    BY <1>1 DEF GrantInv, Grant!TypeOK, Grant!vars
  <2> QED
    BY <1>1, <2>1, RoamKeeps DEF Grant!vars
<1>2. CASE Grant!Next
  BY <1>2, PollsKeep, RoamsKeep, ProcessKeeps, PostKeeps, PostLateKeeps DEF Grant!Next
<1> QED
  BY <1>1, <1>2

(* For any members, farms and bounds, whatever answers, receipts and       *)
(* setters are lost and whoever moves or leaves: who works for SiN Harvest *)
(* has, or had, a grant; an active grant is in force unless another member *)
(* of the farm was revoked; grants and revocations of a membership follow  *)
(* one by one, each settled as its own receipt says, however late receipts *)
(* of earlier ones are posted; and what was revoked and left the file      *)
(* stays closed (_reconcile_contractors, acknowledge,                      *)
(* processPermissionCommand).                                              *)
THEOREM RolesAlwaysFollowGrants ==
  ASSUME Grant!GrantAssumption
  PROVE  Grant!Spec => RolesFollowGrants
<1>1. Grant!Init => GrantInv
  BY InitGrant
<1>2. GrantInv /\ [Grant!Next]_(Grant!vars) => GrantInv' /\ \A p \in Grant!Pairs : GrantSteps(p)
  BY NextGrant
<1>3. GrantInv => Grant!RolesAreGranted
  <2> SUFFICES ASSUME GrantInv PROVE Grant!RolesAreGranted
    OBVIOUS
  <2>1. \A f \in contracting, m \in Members : <<m, f>> \in Grant!Pairs
    BY DEF GrantInv, Grant!TypeOK, Grant!Pairs
  <2>2. \A f \in contracting : \E m \in approved : row[<<m, f>>] # Grant!Blank
    BY <2>1 DEF GrantInv, FarmsFit, GrantFits
  <2> QED
    BY <2>2 DEF GrantInv, GrantFits, Grant!RolesAreGranted, Grant!Is
<1>4. (\A p \in Grant!Pairs : GrantSteps(p)) =>
         /\ \A p \in Grant!Pairs :
              /\ \/ row'[p].desired # row[p].desired
                 \/ job'[p] = "pending" /\ job[p] # "pending"
                 => job[p] # "pending" /\ slip[p] # "command"
              /\ job[p] = "pending" /\ job'[p] # "pending"
                 => slip[p] \in Grant!Receipts /\ job'[p] = Grant!JobAfter(slip[p])
              /\ row[p].state = "pending" /\ row'[p].state # "pending"
                 => /\ slip[p] \in Grant!Receipts /\ job[p] = "pending"
                    /\ row'[p].state = Grant!RowAfter(p, slip[p])
         /\ \A p \in Grant!Pairs : Grant!Closed(p) =>
              /\ p[2] \notin contracting'
              /\ Grant!Closed(p)' \/ Grant!Is(p, "contractor", {"pending"})' \/ Grant!Shared(p)'
  BY DEF GrantSteps
<1> QED
  BY <1>1, <1>2, <1>3, <1>4, PTL
  DEF Grant!Spec, Grant!OneJobAtATime, Grant!ClosedStaysClosed, RolesFollowGrants
===============================================================================
