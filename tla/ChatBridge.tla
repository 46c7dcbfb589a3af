-------------------------------- MODULE ChatBridge -----------------------------
(***************************************************************************)
(* Discord to game chat (business_workflows.py ChatService): a message     *)
(* becomes a chat record and an operation, the Agent leaves a command in   *)
(* the mailbox, the mod broadcasts it and answers with a receipt, and the  *)
(* receipt closes the operation and then the record, in two writes.        *)
(***************************************************************************)
EXTENDS Naturals, FiniteSets

CONSTANTS
  Messages,     \* Discord messages of the Activity channel
  Posts,        \* receipt requests under way at central
  MaxMishaps    \* bound on crashes and failed writes

VARIABLES
  queue,      \* queue[m]: what on_message still does: "record", "operation", "over"
  record,     \* record[m]: chat_messages state
  operation,  \* operation[m]: farm_operations state
  command,    \* messages with a command file in the mailbox
  receipt,    \* receipt[m]: the receipt file: "none", "applied", "pending_validation"
  spoken,     \* spoken[m]: how often the game broadcast it
  post,       \* post[p]: [step, of, status] of a receipt request
  current,    \* the world the messages belong to is still the active one
  mishaps     \* what went wrong: bounded, and named in the properties
chatVars == <<queue, record, operation, command, receipt, spoken, post, current, mishaps>>

Quiet == [step |-> "idle", of |-> {}, status |-> "none"]
Init ==
  /\ queue = [m \in Messages |-> "record"] /\ record = [m \in Messages |-> "none"]
  /\ operation = [m \in Messages |-> "none"] /\ command = {}
  /\ receipt = [m \in Messages |-> "none"] /\ spoken = [m \in Messages |-> 0]
  /\ post = [p \in Posts |-> Quiet] /\ current = TRUE /\ mishaps = <<0, {}>>

Mishap(kind) == mishaps[1] < MaxMishaps /\ mishaps' = <<mishaps[1] + 1, mishaps[2] \union {kind}>>

-----------------------------------------------------------------------------
(* queue_to_fs25: two upserts under the Discord message's ID *)
QueueRecord(m) ==
  /\ queue[m] = "record" /\ current /\ queue' = [queue EXCEPT ![m] = "operation"]
  /\ record' = [record EXCEPT ![m] = IF @ = "none" THEN "pending" ELSE @]
  /\ UNCHANGED <<operation, command, receipt, spoken, post, current, mishaps>>

QueueOperation(m) ==
  /\ queue[m] = "operation" /\ queue' = [queue EXCEPT ![m] = "over"]
  /\ operation' = [operation EXCEPT ![m] = IF @ = "none" THEN "pending" ELSE @]
  /\ UNCHANGED <<record, command, receipt, spoken, post, current, mishaps>>

(* The bot stops in between; the gateway may deliver a message again. *)
BotStops(m) ==
  /\ queue[m] = "operation" /\ queue' = [queue EXCEPT ![m] = "over"] /\ Mishap("bot")
  /\ UNCHANGED <<record, operation, command, receipt, spoken, post, current>>
Redeliver(m) ==
  /\ queue[m] = "over" /\ queue' = [queue EXCEPT ![m] = "record"] /\ Mishap("replay")
  /\ UNCHANGED <<record, operation, command, receipt, spoken, post, current>>

(* process_operations_once, with operations_for: a receipt on disk stops it *)
Always(m) == operation[m] # "none"   \* WRONG: the receipt directory is not looked at
Unanswered(m) == receipt[m] = "none"
Deliver(m) ==
  /\ current /\ operation[m] \in {"pending", "dispatched"} /\ Unanswered(m)
  /\ operation' = [operation EXCEPT ![m] = "dispatched"] /\ command' = command \union {m}
  /\ UNCHANGED <<queue, record, receipt, spoken, post, current, mishaps>>

-----------------------------------------------------------------------------
(* processChatCommand: broadcast, or not; then the receipt; then the command
   is removed.  A receipt that cannot be saved leaves the command behind.    *)
Broadcast(m, status) ==
  /\ current /\ m \in command /\ receipt[m] = "none" /\ command' = command \ {m}
  /\ receipt' = [receipt EXCEPT ![m] = status]
  /\ spoken' = IF status = "applied" THEN [spoken EXCEPT ![m] = @ + 1] ELSE spoken
  /\ UNCHANGED <<queue, record, operation, post, current, mishaps>>

BroadcastUnsaved(m) ==
  /\ current /\ m \in command /\ receipt[m] = "none" /\ Mishap("unsaved")
  /\ spoken' = [spoken EXCEPT ![m] = @ + 1]
  /\ UNCHANGED <<queue, record, operation, command, receipt, post, current>>

(* rejectWrongWorldCommand; what central answers then quarantines the receipt *)
RejectWrongWorld(m) ==
  /\ ~current /\ m \in command /\ command' = command \ {m}
  /\ UNCHANGED <<queue, record, operation, receipt, spoken, post, current, mishaps>>

PostReceipt(p, m) ==
  /\ post[p] = Quiet /\ receipt[m] # "none"
  /\ post' = [post EXCEPT ![p] = [step |-> "operation", of |-> {m}, status |-> receipt[m]]]
  /\ UNCHANGED <<queue, record, operation, command, receipt, spoken, current, mishaps>>

(* accept_receipt: the operation first *)
State(status) == IF status = "applied" THEN "succeeded" ELSE "reconciliation_required"
Final(m, status) ==
  \/ operation[m] = "succeeded"
  \/ operation[m] = "reconciliation_required" /\ status # "applied"
Close(p) ==
  /\ post[p].step = "operation"
  /\ \E m \in post[p].of :
       IF ~current \/ Final(m, post[p].status)
       THEN post' = [post EXCEPT ![p].step = "answer"] /\ UNCHANGED operation
       ELSE /\ operation' = [operation EXCEPT ![m] = State(post[p].status)]
            /\ post' = [post EXCEPT ![p].step = "record"]
  /\ UNCHANGED <<queue, record, command, receipt, spoken, current, mishaps>>

(* then the record *)
CloseRecord(p) ==
  /\ post[p].step = "record" /\ post' = [post EXCEPT ![p].step = "answer"]
  /\ record' = [m \in Messages |->
       IF m \notin post[p].of THEN record[m]
       ELSE IF post[p].status = "applied" THEN "delivered" ELSE "not_delivered"]
  /\ UNCHANGED <<queue, operation, command, receipt, spoken, current, mishaps>>

(* The Agent removes the receipt, or quarantines it, when the answer comes. *)
Acknowledge(p) ==
  /\ post[p].step = "answer" /\ post' = [post EXCEPT ![p] = Quiet]
  /\ receipt' = [m \in Messages |-> IF m \in post[p].of THEN "none" ELSE receipt[m]]
  /\ UNCHANGED <<queue, record, operation, command, spoken, current, mishaps>>

CentralFails(p) ==
  /\ post[p] # Quiet /\ post' = [post EXCEPT ![p] = Quiet]
  /\ Mishap(IF post[p].step = "record" THEN "half_closed" ELSE "lost_answer")
  /\ UNCHANGED <<queue, record, operation, command, receipt, spoken, current>>

(* worlds.activate supersedes what was not finished *)
ReplaceWorld ==
  /\ current /\ current' = FALSE
  /\ operation' = [m \in Messages |-> IF operation[m] \in {"pending", "dispatched"}
                                      THEN "world_superseded" ELSE operation[m]]
  /\ UNCHANGED <<queue, record, command, receipt, spoken, post, mishaps>>

Next ==
  \/ \E m \in Messages :
       \/ QueueRecord(m) \/ QueueOperation(m) \/ BotStops(m) \/ Redeliver(m) \/ Deliver(m)
       \/ \E status \in {"applied", "pending_validation"} : Broadcast(m, status)
       \/ BroadcastUnsaved(m) \/ RejectWrongWorld(m)
       \/ \E p \in Posts : PostReceipt(p, m)
  \/ \E p \in Posts : Close(p) \/ CloseRecord(p) \/ Acknowledge(p) \/ CentralFails(p)
  \/ ReplaceWorld
Spec == Init /\ [][Next]_chatVars

-----------------------------------------------------------------------------
TypeOK ==
  /\ \A m \in Messages :
       /\ queue[m] \in {"record", "operation", "over"}
       /\ record[m] \in {"none", "pending", "delivered", "not_delivered"}
       /\ operation[m] \in {"none", "pending", "dispatched", "succeeded",
                            "reconciliation_required", "world_superseded"}
       /\ receipt[m] \in {"none", "applied", "pending_validation"}
       /\ operation[m] # "none" => record[m] # "none"
  /\ command \subseteq Messages
  /\ \A p \in Posts : post[p].step \in {"idle", "operation", "record", "answer"}

(* A message marked delivered was broadcast; none is broadcast twice, whatever
   is posted, served or delivered again, unless the game could not save its
   receipt; and once nobody handles it, its record says what its operation
   says, unless central stopped between the two writes.                       *)
ChatIsTrue ==
  \A m \in Messages :
    /\ record[m] = "delivered" => spoken[m] > 0
    /\ spoken[m] > 1 => "unsaved" \in mishaps[2]
    /\ operation[m] = "succeeded" /\ (\A p \in Posts : m \notin post[p].of) =>
         record[m] = "delivered" \/ "half_closed" \in mishaps[2]
=============================================================================
