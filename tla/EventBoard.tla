------------------------------- MODULE EventBoard ------------------------------
(***************************************************************************)
(* Community events (CommunityEventService): players join and leave by the *)
(* buttons of the event's card or by command, staff ends the event.  As in *)
(* ContractMarket a handler reads, updates under a filter, reads again and *)
(* answers, and handlers interleave.  One event is modelled.               *)
(***************************************************************************)
EXTENDS Naturals, FiniteSets

CONSTANTS
  Players,
  Tasks,      \* handlers running at the same time
  Maximum     \* max_participants; NoLimit: the event has none

NoLimit == 0
BoardAssumption == Maximum \in Nat /\ IsFiniteSet(Players)

VARIABLES
  status,     \* "absent", "scheduled", "completed" or "cancelled"
  roster,     \* participants
  boarded,    \* the card's location is stored
  board,      \* what the card shows: [status, count], or [status |-> "none", ...]
  answering,  \* this process answers the card's buttons
  task        \* task[h]

eventVars == <<status, roster, boarded, board, answering, task>>

Idle == [step |-> "idle"]
Ended == {"completed", "cancelled"}

Init ==
  /\ status = "absent" /\ roster = {} /\ boarded = FALSE /\ answering = FALSE
  /\ board = [status |-> "none", count |-> 0] /\ task = [h \in Tasks |-> Idle]

Full(who) == Maximum # NoLimit /\ Cardinality(who) >= Maximum
Free(h) == task[h].step = "idle"
Card(record) == [status |-> record.status, count |-> Cardinality(record.roster)]
Record == [status |-> status, roster |-> roster]

(* event_create: the record, then publish_event_card. *)
CreateEvent(h) ==
  /\ Free(h) /\ status = "absent" /\ status' = "scheduled"
  /\ task' = [task EXCEPT ![h] = [step |-> "publish"]]
  /\ UNCHANGED <<roster, boarded, board, answering>>

Publish(h) ==
  /\ task[h].step = "publish"
  /\ \/ task' = [task EXCEPT ![h] = Idle] /\ UNCHANGED <<board, answering>>
     \/ /\ board' = [status |-> "scheduled", count |-> 0] /\ answering' = TRUE
        /\ task' = [task EXCEPT ![h] = [step |-> "store"]]
  /\ UNCHANGED <<status, roster, boarded>>

Store(h) ==
  /\ task[h].step = "store" /\ boarded' = TRUE /\ task' = [task EXCEPT ![h] = Idle]
  /\ UNCHANGED <<status, roster, board, answering>>

(* The first read of join, leave and finish; onCard: a click, which will   *)
(* edit the card.  Who is in the roster already is answered at once.       *)
Call(h, op, p, onCard) ==
  /\ Free(h) /\ status # "absent" /\ (onCard => answering)
  /\ op = "join" => status \notin Ended
  /\ task' = [task EXCEPT ![h] =
       [step |-> IF op = "join" /\ p \in roster THEN "reply" ELSE "apply",
        op |-> op, player |-> p, card |-> onCard, record |-> Record]]
  /\ UNCHANGED <<status, roster, boarded, board, answering>>

(* WRONG: room and status were tested when the event was read *)
RoomWhenRead(h) == task[h].record.status \notin Ended /\ ~Full(task[h].record.roster)
(* "The capacity check must be part of the update predicate." *)
Joinable(h) == status \notin Ended /\ ~Full(roster)

Apply(h) ==
  LET p == task[h].player IN
  /\ task[h].step = "apply"
  /\ CASE task[h].op = "join" ->
            /\ roster' = IF Joinable(h) THEN roster \union {p} ELSE roster
            /\ task' = [task EXCEPT ![h].step = IF Joinable(h) \/ p \in roster THEN "reread" ELSE "idle"]
            /\ UNCHANGED status
       [] task[h].op = "leave" ->
            /\ roster' = roster \ {p} /\ task' = [task EXCEPT ![h].step = "reread"]
            /\ UNCHANGED status
       [] OTHER ->
            /\ status' = IF status \in Ended THEN status ELSE task[h].op
            /\ task' = [task EXCEPT ![h] = Idle] /\ UNCHANGED roster
  /\ UNCHANGED <<boarded, board, answering>>

ReadBack(h) ==
  /\ task[h].step = "reread"
  /\ task' = [task EXCEPT ![h].step = "reply", ![h].record = Record]
  /\ UNCHANGED <<status, roster, boarded, board, answering>>

Reply(h) ==
  /\ task[h].step = "reply" /\ task' = [task EXCEPT ![h] = Idle]
  /\ board' = IF task[h].card THEN Card(task[h].record) ELSE board
  /\ UNCHANGED <<status, roster, boarded, answering>>

(* restore_event_views: buttons answer again, the card is not edited. *)
RestartBot ==
  /\ task' = [h \in Tasks |-> Idle] /\ answering' = (boarded /\ status \notin Ended)
  /\ UNCHANGED <<status, roster, boarded, board>>

Next ==
  \/ \E h \in Tasks :
       \/ CreateEvent(h) \/ Publish(h) \/ Store(h) \/ Apply(h) \/ ReadBack(h) \/ Reply(h)
       \/ \E p \in Players, onCard \in BOOLEAN, op \in {"join", "leave"} : Call(h, op, p, onCard)
       \/ \E p \in Players, op \in Ended : Call(h, op, p, FALSE)
  \/ RestartBot
Spec == Init /\ [][Next]_eventVars

-----------------------------------------------------------------------------
TypeOK ==
  /\ status \in {"absent", "scheduled"} \union Ended /\ roster \subseteq Players
  /\ board.count \in 0..Cardinality(Players) /\ boarded \in BOOLEAN /\ answering \in BOOLEAN

(* However many players compete for the last place the roster keeps to the *)
(* maximum, nobody enters an event that was ended meanwhile, and the first *)
(* end stays (business_workflows.py 437-477).                              *)
RosterHolds ==
  [][/\ Maximum # NoLimit => Cardinality(roster') <= Maximum
     /\ status \in Ended => status' = status /\ roster' \subseteq roster]_eventVars
=============================================================================
