------------------------------- MODULE BankReplies -----------------------------
(***************************************************************************)
(* The private replies to /deposit and /withdraw (bot_frontend.py,         *)
(* BankNotificationPublisher).  The command creates the request, publishes *)
(* "submitted", then registers the interaction; the publisher scans for    *)
(* settled requests and edits the registered reply.  All these steps are   *)
(* awaits and interleave; interactions are in memory only and short-lived. *)
(***************************************************************************)
EXTENDS Naturals, FiniteSets

CONSTANT Wishes     \* deposits and withdrawals asked for

VARIABLES
  outcome,    \* outcome[r]: "none", "pending" or "settled" (completed, failed, refunded)
  noted,      \* noted[r]: notification_state: "absent", "pending", "sent", "status_only"
  command,    \* command[r]: what the command still does: "queue", "say", "track", "over"
  reply,      \* reply[r]: what its user reads: "thinking", "submitted", "settled"
  tracked,    \* requests with a registered interaction
  aged,       \* requests older than 30 seconds
  expired,    \* requests whose interaction token has expired
  publisher   \* [step, of]: the record being published

replyVars == <<outcome, noted, command, reply, tracked, aged, expired, publisher>>

Resting == [step |-> "scan", of |-> {}]
Init ==
  /\ outcome = [r \in Wishes |-> "none"] /\ noted = [r \in Wishes |-> "absent"]
  /\ command = [r \in Wishes |-> "queue"] /\ reply = [r \in Wishes |-> "thinking"]
  /\ tracked = {} /\ aged = {} /\ expired = {} /\ publisher = Resting

-----------------------------------------------------------------------------
(* request_deposit, request_withdrawal *)
Queue(r) ==
  /\ command[r] = "queue" /\ command' = [command EXCEPT ![r] = "say"]
  /\ outcome' = [outcome EXCEPT ![r] = "pending"] /\ noted' = [noted EXCEPT ![r] = "pending"]
  /\ UNCHANGED <<reply, tracked, aged, expired, publisher>>

Say(r) ==
  /\ command[r] = "say" /\ command' = [command EXCEPT ![r] = "track"]
  /\ reply' = [reply EXCEPT ![r] = "submitted"]
  /\ UNCHANGED <<outcome, noted, tracked, aged, expired, publisher>>

Track(r) ==
  /\ command[r] = "track" /\ command' = [command EXCEPT ![r] = "over"]
  /\ tracked' = tracked \union {r}
  /\ UNCHANGED <<outcome, noted, reply, aged, expired, publisher>>

(* A receipt settles the request (MoneyBridge). *)
Settle(r) ==
  /\ outcome[r] = "pending" /\ outcome' = [outcome EXCEPT ![r] = "settled"]
  /\ UNCHANGED <<noted, command, reply, tracked, aged, expired, publisher>>

Age(r) ==
  /\ outcome[r] # "none" /\ r \notin aged /\ aged' = aged \union {r}
  /\ UNCHANGED <<outcome, noted, command, reply, tracked, expired, publisher>>
Expire(r) ==
  /\ r \in aged \ expired /\ expired' = expired \union {r}
  /\ UNCHANGED <<outcome, noted, command, reply, tracked, aged, publisher>>

-----------------------------------------------------------------------------
Due(r) == publisher = Resting /\ outcome[r] = "settled" /\ noted[r] = "pending"
StatusOnly(r) == noted' = [noted EXCEPT ![r] = IF @ = "pending" THEN "status_only" ELSE @]

(* WRONG: a request without interaction is late at once *)
(* WRONG: requests without an interaction are skipped *)
Skipped(r) == FALSE
(* No interaction to edit: a late receipt, or a command still on its way,  *)
(* which is given thirty seconds.                                          *)
Late(r) == Due(r) /\ r \notin tracked /\ r \in aged

GiveUp(r) ==
  /\ Late(r) /\ StatusOnly(r)
  /\ UNCHANGED <<outcome, command, reply, tracked, aged, expired, publisher>>

TooLate(r) ==
  /\ Due(r) /\ r \in tracked \intersect expired
  /\ StatusOnly(r) /\ tracked' = tracked \ {r}
  /\ UNCHANGED <<outcome, command, reply, aged, expired, publisher>>

(* The record was read; the summary of the account is being read. *)
Publish(r) ==
  /\ Due(r) /\ r \in tracked \ expired /\ publisher' = [step |-> "edit", of |-> {r}]
  /\ UNCHANGED <<outcome, noted, command, reply, tracked, aged, expired>>

Edit(r) ==
  /\ publisher = [step |-> "edit", of |-> {r}]
  /\ reply' = [reply EXCEPT ![r] = "settled"] /\ publisher' = [publisher EXCEPT !.step = "mark"]
  /\ UNCHANGED <<outcome, noted, command, tracked, aged, expired>>
(* Forbidden or NotFound; any other error leaves all for the next scan. *)
EditRefused(r) ==
  /\ publisher = [step |-> "edit", of |-> {r}] /\ publisher' = Resting
  /\ StatusOnly(r) /\ tracked' = tracked \ {r}
  /\ UNCHANGED <<outcome, command, reply, aged, expired>>
EditFails(r) ==
  /\ publisher = [step |-> "edit", of |-> {r}] /\ publisher' = Resting
  /\ UNCHANGED <<outcome, noted, command, reply, tracked, aged, expired>>
Mark(r) ==
  /\ publisher = [step |-> "mark", of |-> {r}] /\ publisher' = Resting
  /\ noted' = [noted EXCEPT ![r] = IF @ = "pending" THEN "sent" ELSE @] /\ tracked' = tracked \ {r}
  /\ UNCHANGED <<outcome, command, reply, aged, expired>>

RestartBot ==
  /\ publisher' = Resting /\ tracked' = {}
  /\ command' = [r \in Wishes |-> IF command[r] = "queue" THEN "queue" ELSE "over"]
  /\ UNCHANGED <<outcome, noted, reply, aged, expired>>

Announce(r) == GiveUp(r) \/ TooLate(r) \/ Publish(r) \/ Edit(r) \/ EditRefused(r) \/ Mark(r)
Next ==
  \/ \E r \in Wishes :
       \/ Queue(r) \/ Say(r) \/ Track(r) \/ Settle(r) \/ Age(r) \/ Expire(r)
       \/ Announce(r) \/ EditFails(r)
  \/ RestartBot
Spec == Init /\ [][Next]_replyVars

(* Time passes and the publisher scans every two seconds; an edit that     *)
(* keeps failing is cut short by the expiry of the interaction.            *)
Ages(r) == Age(r) \/ Expire(r)
Closes(r) == GiveUp(r) \/ TooLate(r)
Finishes(r) == Edit(r) \/ EditRefused(r) \/ Mark(r)
Fairness ==
  \A r \in Wishes : WF_replyVars(Ages(r)) /\ SF_replyVars(Closes(r)) /\ WF_replyVars(Finishes(r))
LiveSpec == Spec /\ Fairness

-----------------------------------------------------------------------------
TypeOK ==
  /\ \A r \in Wishes : outcome[r] \in {"none", "pending", "settled"}
                       /\ noted[r] \in {"absent", "pending", "sent", "status_only"}
                       /\ reply[r] \in {"thinking", "submitted", "settled"}
  /\ tracked \union aged \union expired \subseteq Wishes

(* A reply tells an outcome only when there is one, "submitted" never      *)
(* comes after it, the record says "sent" only when the user can read it,  *)
(* and a receipt faster than the command does not cost the user the reply: *)
(* with the command on its way it is given up after thirty seconds only.   *)
RepliesAreTrue ==
  [][\A r \in Wishes :
       /\ reply'[r] = "settled" => outcome'[r] = "settled"
       /\ reply[r] = "settled" => reply'[r] = "settled"
       /\ noted'[r] = "sent" => reply'[r] = "settled"
       /\ noted'[r] = "status_only" /\ command'[r] \in {"say", "track"} => r \in aged']_replyVars

(* Whatever fails, expires or restarts, every settled request leaves the   *)
(* publisher's queue of at most 25 records.                                *)
Owed == {r \in Wishes : outcome[r] = "settled" /\ noted[r] \notin {"sent", "status_only"}}
EveryOutcomeIsNoted == Owed # {} ~> Owed = {}
=============================================================================
