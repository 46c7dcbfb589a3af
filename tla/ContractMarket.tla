----------------------------- MODULE ContractMarket ----------------------------
(***************************************************************************)
(* Farm-work contracts between players (ContractService) and their cards   *)
(* in the jobs channel (publish_contract_card, ContractView).              *)
(*                                                                         *)
(* A handler reads the contract, updates it under a filter on its status,  *)
(* reads it again and answers; every one of these is an await, so handlers *)
(* of buttons and slash commands interleave, and a restart of the bot      *)
(* drops them.  Buttons edit the card, slash commands do not.  After a     *)
(* restart a card answers again when its view was restored.                *)
(***************************************************************************)
EXTENDS Naturals, FiniteSets

CONSTANTS
  MaxContract,    \* contracts 1..MaxContract, in the order of created_at
  Creator,        \* Creator[k]: who posts contract k
  Users,
  Handlers,       \* handlers running at the same time
  RestoreLimit,   \* cards a restart restores, the oldest first (200 in the code)
  MaxWorld,       \* worlds 1..MaxWorld of the save
  NoOne

Contracts == 1..MaxContract

(* Every contract is posted by a player. *)
MarketAssumption == MaxContract \in Nat \ {0} /\ NoOne \notin Users /\ \A k \in Contracts : Creator[k] \in Users

VARIABLES
  contract,   \* contract[k]: [status, acceptor, world]
  located,    \* contracts whose card location is stored
  card,       \* card[k]: what the message shows, and its enabled buttons
  listening,  \* listening[k]: enabled buttons of the view this process registered
  handler,    \* handler[h]
  restoring,  \* records read at start whose cards are still to be restored
  world       \* active world generation

vars == <<contract, located, card, listening, handler, restoring, world>>

Absent  == [status |-> "absent", acceptor |-> NoOne, world |-> 1]
NoCard  == [posted |-> FALSE, status |-> "absent", acceptor |-> NoOne, buttons |-> {}]
Nothing == [step |-> "idle", op |-> "none", card |-> FALSE, k |-> 1, user |-> NoOne, record |-> Absent]

Init ==
  /\ contract = [k \in Contracts |-> Absent] /\ located = {}
  /\ card = [k \in Contracts |-> NoCard] /\ listening = [k \in Contracts |-> {}]
  /\ handler = [h \in Handlers |-> Nothing] /\ restoring = {} /\ world = 1

Terminal == {"completed", "cancelled"}
(* contract_view: the buttons a record leaves enabled *)
Buttons(record) ==
  (IF record.status = "open" THEN {"accept"} ELSE {})
  \union (IF record.status \in Terminal THEN {} ELSE {"cancel"})
Shows(record, buttons) ==
  [posted |-> TRUE, status |-> record.status, acceptor |-> record.acceptor, buttons |-> buttons]
Stop(h) == handler' = [handler EXCEPT ![h] = Nothing]
Go(h, step) == handler' = [handler EXCEPT ![h].step = step]

-----------------------------------------------------------------------------
(* contract_create: the record first, then its card. *)
Create(h, k) ==
  LET record == [status |-> "open", acceptor |-> NoOne, world |-> world] IN
  /\ handler[h].step = "idle" /\ contract[k] = Absent
  /\ k > 1 => contract[k - 1] # Absent
  /\ contract' = [contract EXCEPT ![k] = record]
  /\ handler' = [handler EXCEPT ![h] =
       [step |-> "send", op |-> "post", card |-> TRUE, k |-> k, user |-> Creator[k], record |-> record]]
  /\ UNCHANGED <<located, card, listening, restoring, world>>

(* The card is posted with the record the command created, whatever became *)
(* of it; without a channel the contract stays without a card.             *)
Send(h) ==
  LET k == handler[h].k IN
  /\ handler[h].step = "send"
  /\ \/ Stop(h) /\ UNCHANGED <<card, listening>>
     \/ /\ card' = [card EXCEPT ![k] = Shows(handler[h].record, Buttons(handler[h].record))]
        /\ listening' = [listening EXCEPT ![k] = Buttons(handler[h].record)]
        /\ Go(h, "locate")
  /\ UNCHANGED <<contract, located, restoring, world>>

Locate(h) ==
  /\ handler[h].step = "locate"
  /\ located' = located \union {handler[h].k} /\ Stop(h)
  /\ UNCHANGED <<contract, card, listening, restoring, world>>

-----------------------------------------------------------------------------
(* What the first read of accept, cancel or complete lets through. *)
Allowed(op, k, u) ==
  /\ contract[k].world = world
  /\ CASE op = "accept" -> Creator[k] # u
       [] op = "cancel" -> Creator[k] = u /\ contract[k].status \notin Terminal
       [] OTHER -> /\ u \in {Creator[k], contract[k].acceptor}
                   /\ contract[k].status = "accepted"
Clickable(k) == card[k].buttons \intersect listening[k]

Ask(h, op, k, u, onCard) ==
  /\ handler[h].step = "idle" /\ contract[k] # Absent
  /\ onCard => op \in Clickable(k)
  /\ Allowed(op, k, u)
  /\ handler' = [handler EXCEPT ![h] =
       [step |-> "update", op |-> op, card |-> onCard, k |-> k, user |-> u, record |-> contract[k]]]
  /\ UNCHANGED <<contract, located, card, listening, restoring, world>>

(* WRONG: the status was tested when the contract was read *)
StatusReadBefore(h) ==
  LET k == handler[h].k  u == handler[h].user IN
  CASE handler[h].op = "accept" -> handler[h].record.status = "open" /\ Creator[k] # u
    [] handler[h].op = "cancel" -> handler[h].record.status \notin Terminal
    [] OTHER -> handler[h].record.status = "accepted"
(* The filter of update_one. *)
Matches(h) ==
  LET k == handler[h].k  u == handler[h].user IN
  CASE handler[h].op = "accept" -> contract[k].status = "open" /\ Creator[k] # u
    [] handler[h].op = "cancel" -> contract[k].status \notin Terminal
    [] OTHER -> contract[k].status = "accepted"

Updated(h) ==
  LET old == contract[handler[h].k] IN
  CASE handler[h].op = "accept" -> [old EXCEPT !.status = "accepted", !.acceptor = handler[h].user]
    [] handler[h].op = "cancel" -> [old EXCEPT !.status = "cancelled"]
    [] OTHER -> [old EXCEPT !.status = "completed"]

Update(h) ==
  /\ handler[h].step = "update"
  /\ IF Matches(h)
     THEN contract' = [contract EXCEPT ![handler[h].k] = Updated(h)] /\ Go(h, "reread")
     ELSE Stop(h) /\ UNCHANGED contract
  /\ UNCHANGED <<located, card, listening, restoring, world>>

Reread(h) ==
  /\ handler[h].step = "reread"
  /\ handler' = [handler EXCEPT ![h].step = "answer", ![h].record = contract[handler[h].k]]
  /\ UNCHANGED <<contract, located, card, listening, restoring, world>>

(* WRONG: the card shows what was wished, not what was read again *)
ShowWish(h) ==
  [card EXCEPT ![handler[h].k].status = "accepted", ![handler[h].k].acceptor = handler[h].user]
(* A click disables buttons of the one view object all clicks share. *)
Left(h) == IF handler[h].op = "accept" THEN listening[handler[h].k] \ {"accept"} ELSE {}
Shown(h) == [card EXCEPT ![handler[h].k] = Shows(handler[h].record, Left(h))]

Answer(h) ==
  /\ handler[h].step = "answer" /\ Stop(h)
  /\ IF handler[h].card
     THEN card' = Shown(h) /\ listening' = [listening EXCEPT ![handler[h].k] = Left(h)]
     ELSE UNCHANGED <<card, listening>>
  /\ UNCHANGED <<contract, located, restoring, world>>

-----------------------------------------------------------------------------
(* The oldest located contracts, of every status. *)
(* WRONG: only open contracts are restored *)
OpenOnly == {k \in located : contract[k].status = "open"}
Marketplace == {k \in located : Cardinality({j \in located : j < k}) < RestoreLimit}

(* The bot stops and starts: handlers and views are gone, the records of   *)
(* the cards are read once.                                                *)
Restart ==
  /\ handler' = [h \in Handlers |-> Nothing] /\ listening' = [k \in Contracts |-> {}]
  /\ restoring' = {[k |-> k, record |-> contract[k]] : k \in Marketplace}
  /\ UNCHANGED <<contract, located, card, world>>

Restore(row) ==
  /\ row \in restoring /\ restoring' = restoring \ {row}
  /\ listening' = [listening EXCEPT ![row.k] = Buttons(row.record)]
  /\ card' = [card EXCEPT ![row.k] = Shows(row.record, Buttons(row.record))]
  /\ UNCHANGED <<contract, located, handler, world>>

(* Discord does not find the message, or not now. *)
RestoreFails(row) ==
  /\ row \in restoring /\ restoring' = restoring \ {row}
  /\ UNCHANGED <<contract, located, card, listening, handler, world>>

ReplaceWorld ==
  /\ world < MaxWorld /\ world' = world + 1
  /\ UNCHANGED <<contract, located, card, listening, handler, restoring>>

Handle(h) == Send(h) \/ Locate(h) \/ Update(h) \/ Reread(h) \/ Answer(h)
Next ==
  \/ \E h \in Handlers, k \in Contracts : Create(h, k)
  \/ \E h \in Handlers, k \in Contracts, u \in Users :
       \/ Ask(h, "accept", k, u, TRUE) \/ Ask(h, "cancel", k, u, TRUE)
       \/ Ask(h, "accept", k, u, FALSE) \/ Ask(h, "complete", k, u, FALSE)
  \/ \E h \in Handlers : Handle(h)
  \/ Restart \/ ReplaceWorld
  \/ \E row \in restoring : Restore(row) \/ RestoreFails(row)
Spec == Init /\ [][Next]_vars

(* Handlers end; a card is restored within some attempt to, for Discord is *)
(* not for ever out of reach.                                              *)
RestoreCard(k) == \E row \in restoring : row.k = k /\ Restore(row)
Fairness ==
  /\ \A h \in Handlers : WF_vars(Handle(h))
  /\ \A k \in Contracts : SF_vars(RestoreCard(k))
LiveSpec == Spec /\ Fairness

-----------------------------------------------------------------------------
TypeOK ==
  /\ located \subseteq Contracts /\ world \in 1..MaxWorld
  /\ \A k \in Contracts :
       /\ contract[k].status \in {"absent", "open", "accepted"} \union Terminal
       /\ contract[k].acceptor \in Users \union {NoOne}
       /\ card[k].buttons \union listening[k] \subseteq {"accept", "cancel"}

(* Of all the players and commands that act on a contract at once exactly  *)
(* one is its acceptor, never its creator, and for good; and a completed   *)
(* or cancelled contract is not revived (business_workflows.py 287-340).   *)
OneAcceptor ==
  [][\A k \in Contracts :
       /\ contract[k].acceptor # NoOne => contract'[k].acceptor = contract[k].acceptor
       /\ contract[k].status \in Terminal => contract'[k] = contract[k]
       /\ contract'[k].acceptor # Creator[k]
       /\ contract'[k].status = "completed" => contract'[k].acceptor # NoOne]_vars

(* A card may lag behind, but it never shows what is not so: it names no   *)
(* one but the acceptor and no end the contract did not come to.           *)
CardNeverAhead ==
  \A k \in Contracts :
    /\ card[k].acceptor # NoOne => card[k].acceptor = contract[k].acceptor
    /\ card[k].status \in Terminal => card[k].status = contract[k].status

(* "Startup is a bounded reconciliation point" (bot_frontend.py 2310): if  *)
(* the bot is restarted again and again, the located card of an ended      *)
(* contract comes to show the end, unless 200 older ones are before it.    *)
EndedCardsAreRepaired ==
  \A k \in Contracts :
    ([]<><<Restart>>_vars) =>
      (contract[k].status \in Terminal /\ k \in located /\ k <= RestoreLimit
         ~> card[k].status = contract[k].status)
=============================================================================
