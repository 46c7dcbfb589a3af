---------------------------- MODULE FarmProvisioning ----------------------------
(***************************************************************************)
(* How a member gets a farm: request and field reservation, staff review,  *)
(* the farm, its land and its manager, each confirmed by a game receipt    *)
(* (farm_lifecycle.py, authorization.py, NetworkLocal.lua) in one world.   *)
(*                                                                         *)
(* request_farm, assign and acknowledge are transactions.  The other       *)
(* handlers write several documents one after the other and may be         *)
(* overtaken or stopped between two writes: such a handler is a call in    *)
(* progress, and each of its writes a step.  One request per player and    *)
(* world (its ID is their hash) lets all rows be indexed by player.        *)
(*                                                                         *)
(* The mailbox is MoneyBridge's: here an operation is executed at most     *)
(* once and its receipt is posted until Central has answered it.           *)
(*                                                                         *)
(* A WRONG variant that nothing uses stands before the definition it would *)
(* replace; PROJECT.json names the property that notices it.               *)
(***************************************************************************)
EXTENDS Naturals, FiniteSets

CONSTANTS
  Players,       \* approved members; one farm name, hence one farm, each
  Fields,        \* farmlands on the map that are cheap enough to start with
  Calls,         \* handler threads of Central
  Hazards,       \* which of HazardNames this instance lets happen
  MaxAttempts,   \* bound on land operations per request
  MaxRevisions,  \* bound on manager jobs per player
  MaxFaults,     \* bound on Central stops and Agent timeouts together
  NoPlayer, NoField, NoOp, NoCall,
  Other          \* a native farm of nobody's request

(***************************************************************************)
(*   crash          Central stops with calls in progress                   *)
(*   overlap        a receipt or repair is handled while another call on   *)
(*                  the same request still runs: one the Agent timed out   *)
(*                  on, or a review                                        *)
(*   review_race    two reviews of a request, or a review and a new        *)
(*                  request, at once                                       *)
(***************************************************************************)
HazardNames == {"crash", "overlap", "review_race"}

ASSUME BoundAssumption ==
  /\ MaxAttempts \in Nat \ {0}
  /\ MaxRevisions \in Nat \ {0}
  /\ MaxFaults \in Nat
  /\ Hazards \subseteq HazardNames
ASSUME NullAssumption ==
  /\ NoPlayer \notin Players
  /\ Other \notin Players \cup {NoPlayer}
  /\ NoField \notin Fields
  /\ NoCall \notin Calls

VARIABLES
  (* Central *)
  request,      \* request[p]: state of the farm_requests row
  field,        \* its starting_field
  attempt,      \* its land_attempt
  permission,   \* its permission_operation_id: a revision, 0 for none
  confirmed,    \* its land_confirmed
  reserved,     \* reserved[f]: whose request holds the reservation row
  mapping,      \* mapping[p]: state of the member's sin_farms row
  op,           \* op[o]: state of the farm_operations or permission_jobs row
  member,       \* member[p]: the farm_manager membership
  registered,   \* players with a linked game identity
  seenOwner,    \* farmland owners in the latest snapshot
  call,         \* call[c]: the handler running in thread c
  (* Agent and mailbox *)
  waiting,      \* the call whose answer the Agent waits for
  receipt,      \* receipt[o]: status in the receipt file
  marked,       \* operations with a quarantined receipt
  (* Game *)
  owner,        \* owner[f]: native farmland owner
  founded,      \* players whose named farm exists
  faults

requestVars == <<request, field, attempt, permission, confirmed>>
mailboxVars == <<waiting, receipt, marked>>
gameVars == <<owner, founded>>
vars == <<requestVars, reserved, mapping, op, member, registered, seenOwner, call,
          mailboxVars, gameVars, faults>>

Attempts == 1..MaxAttempts
Revisions == 1..MaxRevisions

Provision(p)  == [kind |-> "provision", player |-> p, field |-> NoField, number |-> 0]
Land(p, f, n) == [kind |-> "land", player |-> p, field |-> f, number |-> n]
Manager(p, n) == [kind |-> "manager", player |-> p, field |-> NoField, number |-> n]
Ops == {Provision(p) : p \in Players}
         \cup {Land(p, f, n) : p \in Players, f \in Fields, n \in Attempts}
         \cup {Manager(p, n) : p \in Players, n \in Revisions}

ManagerStates == {"awaiting_manager", "manager_authorization_required"}
LiveStates == {"pending", "provisioning", "land_pending", "land_assigning", "active"}
                \cup ManagerStates
OpenOp(o) == op[o] \in {"pending", "dispatched"}

Idle == [step |-> "idle", from |-> "nobody", player |-> NoPlayer, op |-> NoOp,
         field |-> NoField, number |-> 0]

Init ==
  /\ request = [p \in Players |-> "none"]
  /\ field = [p \in Players |-> NoField]
  /\ attempt = [p \in Players |-> 0]
  /\ permission = [p \in Players |-> 0]
  /\ confirmed = [p \in Players |-> FALSE]
  /\ reserved = [f \in Fields |-> NoPlayer]
  /\ mapping = [p \in Players |-> "none"]
  /\ op = [o \in Ops |-> "absent"]
  /\ member = [p \in Players |-> [state |-> "none", revision |-> 0]]
  /\ registered = {}
  /\ seenOwner = [f \in Fields |-> NoPlayer]
  /\ call = [c \in Calls |-> Idle]
  /\ waiting = NoCall
  /\ receipt = [o \in Ops |-> "none"]
  /\ marked = {}
  /\ owner = [f \in Fields |-> NoPlayer]
  /\ founded = {}
  /\ faults = 0

-------------------------------------------------------------------------------
(* Members                                                                 *)

HandledBy(who, p) == \E c \in Calls : call[c].from = who /\ call[c].player = p
Undisturbed(p) == "review_race" \in Hazards \/ ~HandledBy("staff", p)
NoOverlap(who, p) == "overlap" \in Hazards \/ ~HandledBy(who, p)

NobodyChecked(f, p) == TRUE
FieldFree(f, p) == seenOwner[f] = NoPlayer /\ reserved[f] \in {NoPlayer, p}

(* request_farm, one transaction.  A rejected request is replaced.         *)
RequestFarm(p, f) ==
  /\ request[p] \in {"none", "rejected"}
  /\ mapping[p] # "active"
  /\ FieldFree(f, p)
  /\ Undisturbed(p)
  /\ reserved' = [reserved EXCEPT ![f] = p]
  /\ request' = [request EXCEPT ![p] = "pending"]
  /\ field' = [field EXCEPT ![p] = f]
  /\ attempt' = [attempt EXCEPT ![p] = 0]
  /\ permission' = [permission EXCEPT ![p] = 0]
  /\ confirmed' = [confirmed EXCEPT ![p] = FALSE]
  /\ UNCHANGED <<mapping, op, member, registered, seenOwner, call, mailboxVars, gameVars, faults>>

(* register_identity links the game identity assign looks for.             *)
Register(p) ==
  /\ p \notin registered
  /\ registered' = registered \cup {p}
  /\ UNCHANGED <<requestVars, reserved, mapping, op, member, seenOwner, call, mailboxVars,
                 gameVars, faults>>

-------------------------------------------------------------------------------
(* Calls in progress                                                       *)

Free(c) == call[c].step = "idle"
At(c, step) == call[c].step = step
Goto(c, step) == call' = [call EXCEPT ![c].step = step]

StaffCall(c, p, step, f, n) ==
  /\ Free(c)
  /\ Undisturbed(p) /\ NoOverlap("agent", p)
  /\ call' = [call EXCEPT ![c] = [step |-> step, from |-> "staff", player |-> p, op |-> NoOp,
                                  field |-> f, number |-> n]]
  /\ UNCHANGED mailboxVars

AgentCall(c, p, o, step) ==
  /\ Free(c)
  /\ waiting = NoCall
  /\ NoOverlap("agent", p) /\ NoOverlap("staff", p)
  /\ waiting' = c
  /\ call' = [call EXCEPT ![c] = [step |-> step, from |-> "agent", player |-> p, op |-> o,
                                  field |-> NoField, number |-> 0]]
  /\ UNCHANGED <<receipt, marked>>

End(c) ==
  /\ call' = [call EXCEPT ![c] = Idle]
  /\ waiting' = IF waiting = c THEN NoCall ELSE waiting

(* A 200 lets the waiting Agent unlink the receipt it posted.              *)
Accept(c) ==
  /\ End(c)
  /\ receipt' = IF waiting = c /\ call[c].op # NoOp
                THEN [receipt EXCEPT ![call[c].op] = "none"] ELSE receipt
  /\ UNCHANGED marked

Reply(c) ==
  /\ At(c, "reply")
  /\ Accept(c)
  /\ UNCHANGED <<requestVars, reserved, mapping, op, member, registered, seenOwner, gameVars,
                 faults>>

(* A 400 lets the waiting Agent quarantine it.                             *)
Refuse(c) ==
  /\ At(c, "refuse")
  /\ End(c)
  /\ receipt' = IF waiting = c THEN [receipt EXCEPT ![call[c].op] = "none"] ELSE receipt
  /\ marked' = IF waiting = c THEN marked \cup {call[c].op} ELSE marked
  /\ UNCHANGED <<requestVars, reserved, mapping, op, member, registered, seenOwner, gameVars,
                 faults>>

(* The Agent's request times out, or its answer is lost; the call goes on. *)
Timeout ==
  /\ faults < MaxFaults
  /\ waiting # NoCall
  /\ waiting' = NoCall
  /\ faults' = faults + 1
  /\ UNCHANGED <<requestVars, reserved, mapping, op, member, registered, seenOwner, call,
                 receipt, marked, gameVars>>

Crash ==
  /\ "crash" \in Hazards
  /\ faults < MaxFaults
  /\ \E c \in Calls : ~Free(c)
  /\ call' = [c \in Calls |-> Idle]
  /\ waiting' = NoCall
  /\ faults' = faults + 1
  /\ UNCHANGED <<requestVars, reserved, mapping, op, member, registered, seenOwner,
                 receipt, marked, gameVars>>

-------------------------------------------------------------------------------
(* Staff: approve_request and reject_request                               *)

centralRest == <<member, registered, seenOwner>>

ReusedAttempt(p) == IF attempt[p] = 0 THEN 1 ELSE attempt[p]
NextAttempt(p) == attempt[p] + 1

Approve(c, p) ==
  /\ \/ /\ request[p] = "pending"
        /\ seenOwner[field[p]] = NoPlayer
        /\ StaffCall(c, p, "queue_provision", NoField, 0)
     \/ /\ request[p] = "land_pending"
        /\ attempt[p] < MaxAttempts
        /\ StaffCall(c, p, "queue_land", field[p], NextAttempt(p))
  /\ UNCHANGED <<requestVars, reserved, mapping, op, centralRest, gameVars, faults>>

(* _queue_operation inserts the row unless its ID exists.                  *)
Queue(o) == op' = [op EXCEPT ![o] = IF @ = "absent" THEN "pending" ELSE @]

QueueProvision(c) ==
  /\ At(c, "queue_provision")
  /\ Queue(Provision(call[c].player))
  /\ Goto(c, "mark_provisioning")
  /\ UNCHANGED <<requestVars, reserved, mapping, centralRest, mailboxVars, gameVars, faults>>

(* Updates a row still pending; whether one matched is not looked at.      *)
MarkProvisioning(c) ==
  LET p == call[c].player IN
  /\ At(c, "mark_provisioning")
  /\ request' = [request EXCEPT ![p] = IF @ = "pending" THEN "provisioning" ELSE @]
  /\ Goto(c, "reply")
  /\ UNCHANGED <<field, attempt, permission, confirmed, reserved, mapping, op, centralRest,
                 mailboxVars, gameVars, faults>>

AnyRequest(p) == request[p] \in {"pending", "provisioning"}
Unreviewed(p) == request[p] = "pending"

Reject(c, p) ==
  /\ Unreviewed(p)
  /\ StaffCall(c, p, "release", NoField, 0)
  /\ request' = [request EXCEPT ![p] = "rejected"]
  /\ UNCHANGED <<field, attempt, permission, confirmed, reserved, mapping, op, centralRest,
                 gameVars, faults>>

HeldBy(f, p) == reserved[f] = p

(* delete_one by request ID: a reservation of that request, if any.        *)
DeleteReservation(p) ==
  \/ \E f \in Fields : HeldBy(f, p) /\ reserved' = [reserved EXCEPT ![f] = NoPlayer]
  \/ (\A f \in Fields : ~HeldBy(f, p)) /\ UNCHANGED reserved

Release(c) ==
  /\ At(c, "release")
  /\ DeleteReservation(call[c].player)
  /\ Goto(c, "reply")
  /\ UNCHANGED <<requestVars, mapping, op, centralRest, mailboxVars, gameVars, faults>>

-------------------------------------------------------------------------------
(* _queue_requested_farmland, called by approve_request on land_pending    *)
(* and by accept_receipt with a copy of the request it had read            *)

Claimable(f, p) == seenOwner[f] \in {NoPlayer, p}

QueueLand(c) ==
  LET p == call[c].player
      f == call[c].field
      safe == Claimable(f, p) /\ mapping[p] # "none"
  IN
  /\ At(c, "queue_land")
  /\ \/ safe /\ Queue(Land(p, f, call[c].number)) /\ Goto(c, "mark_assigning")
     \/ ~safe /\ UNCHANGED op /\ Goto(c, "reply")
  /\ UNCHANGED <<requestVars, reserved, mapping, centralRest, mailboxVars, gameVars, faults>>

(* No match raises; accept_receipt then only notes a failure reason.       *)
MarkAssigning(c) ==
  LET p == call[c].player
      matched == request[p] = "land_pending"
  IN
  /\ At(c, "mark_assigning")
  /\ request' = [request EXCEPT ![p] = IF matched THEN "land_assigning" ELSE @]
  /\ attempt' = [attempt EXCEPT ![p] = IF matched THEN call[c].number ELSE @]
  /\ Goto(c, "reply")
  /\ UNCHANGED <<field, permission, confirmed, reserved, mapping, op, centralRest,
                 mailboxVars, gameVars, faults>>

-------------------------------------------------------------------------------
(* accept_receipt: the farm                                                *)

FarmExists(o) == receipt[o] = "applied"

PostProvision(c, p) ==
  LET o == Provision(p) IN
  /\ receipt[o] # "none"
  /\ \/ /\ op[o] = "succeeded"
        /\ AgentCall(c, p, o, IF confirmed[p] THEN "assign" ELSE "reply")
        /\ UNCHANGED op
     \/ /\ op[o] # "succeeded" /\ ~FarmExists(o)
        /\ AgentCall(c, p, o, "reply")
        /\ op' = [op EXCEPT ![o] = "reconciliation_required"]
     \/ /\ op[o] # "succeeded" /\ FarmExists(o)
        /\ AgentCall(c, p, o, "map_farm")
        /\ UNCHANGED op
  /\ UNCHANGED <<requestVars, reserved, mapping, centralRest, gameVars, faults>>

MapFarm(c) ==
  LET p == call[c].player IN
  /\ At(c, "map_farm")
  /\ mapping' = [mapping EXCEPT ![p] = IF @ = "none" THEN "provisioned" ELSE @]
  /\ Goto(c, "succeed_provision")
  /\ UNCHANGED <<requestVars, reserved, op, centralRest, mailboxVars, gameVars, faults>>

SucceedProvision(c) ==
  /\ At(c, "succeed_provision")
  /\ op' = [op EXCEPT ![call[c].op] = "succeeded"]
  /\ Goto(c, "await_land")
  /\ UNCHANGED <<requestVars, reserved, mapping, centralRest, mailboxVars, gameVars, faults>>

(* The request is read, then marked if it is provisioning.  Whatever state *)
(* was read, the copy handed on says land_pending.                         *)
AwaitLand(c) ==
  LET p == call[c].player IN
  /\ At(c, "await_land")
  /\ attempt[p] < MaxAttempts
  /\ request' = [request EXCEPT ![p] = IF @ = "provisioning" THEN "land_pending" ELSE @]
  /\ confirmed' = [confirmed EXCEPT ![p] = IF request[p] = "provisioning" THEN FALSE ELSE @]
  /\ call' = [call EXCEPT ![c].step = "queue_land", ![c].field = field[p],
                          ![c].number = NextAttempt(p)]
  /\ UNCHANGED <<field, attempt, permission, reserved, mapping, op, centralRest, mailboxVars,
                 gameVars, faults>>

-------------------------------------------------------------------------------
(* _accept_farmland_receipt                                                *)

OwnerReadBack(o) == receipt[o] = "applied"

RawState(o) == receipt[o]
RefusedState(o) == IF receipt[o] \in {"rejected", "failed"} THEN "failed"
                   ELSE "reconciliation_required"

PostLand(c, o) ==
  LET p == o.player IN
  /\ o.kind = "land" /\ receipt[o] # "none"
  /\ \/ /\ ~OwnerReadBack(o)
        /\ AgentCall(c, p, o, "return_land")
        /\ op' = [op EXCEPT ![o] = RefusedState(o)]
     \/ /\ OwnerReadBack(o) /\ op[o] = "succeeded"
        /\ AgentCall(c, p, o, "reply")
        /\ UNCHANGED op
     \/ /\ OwnerReadBack(o) /\ op[o] # "succeeded" /\ request[p] # "land_assigning"
        /\ AgentCall(c, p, o, "reply")
        /\ op' = [op EXCEPT ![o] = "reconciliation_required"]
     \/ /\ OwnerReadBack(o) /\ op[o] # "succeeded" /\ request[p] = "land_assigning"
        /\ AgentCall(c, p, o, "succeed_land")
        /\ UNCHANGED op
  /\ UNCHANGED <<requestVars, reserved, mapping, centralRest, gameVars, faults>>

(* Keyed by request and state only, not by the land operation.             *)
ReturnLand(c) ==
  LET p == call[c].player IN
  /\ At(c, "return_land")
  /\ request' = [request EXCEPT ![p] = IF @ = "land_assigning" THEN "land_pending" ELSE @]
  /\ Goto(c, "reply")
  /\ UNCHANGED <<field, attempt, permission, confirmed, reserved, mapping, op, centralRest,
                 mailboxVars, gameVars, faults>>

SucceedLand(c) ==
  LET o == call[c].op IN
  /\ At(c, "succeed_land")
  /\ op' = [op EXCEPT ![o] = IF OpenOp(o) THEN "succeeded" ELSE @]
  /\ Goto(c, "assign")
  /\ UNCHANGED <<requestVars, reserved, mapping, centralRest, mailboxVars, gameVars, faults>>

(* The last write of the handler.  A request already active is not matched.*)
ConfirmLand(c) ==
  LET p == call[c].player
      matched == request[p] \in {"land_assigning"} \cup ManagerStates
      job == call[c].number
  IN
  /\ At(c, "confirm")
  /\ request' = [request EXCEPT ![p] = IF ~matched THEN @
                   ELSE IF job > 0 THEN "awaiting_manager" ELSE "manager_authorization_required"]
  /\ confirmed' = [confirmed EXCEPT ![p] = matched \/ @]
  /\ permission' = [permission EXCEPT ![p] = IF matched THEN job ELSE @]
  /\ Goto(c, "reply")
  /\ UNCHANGED <<field, attempt, reserved, mapping, op, centralRest, mailboxVars, gameVars, faults>>

-------------------------------------------------------------------------------
(* _ensure_manager_authorization: assign, read the membership, write       *)

Reusable(m) == m.state \in {"pending", "active"}

(* AuthorizationManager.assign(idempotent=True), one transaction.          *)
Assign(c) ==
  LET p == call[c].player
      n == member[p].revision
      Handoff(k) == call' = [call EXCEPT ![c].step = "read_membership", ![c].number = k]
  IN
  /\ At(c, "assign")
  /\ p \in registered
  /\ \/ Reusable(member[p]) /\ Handoff(n) /\ UNCHANGED <<member, op>>
     \/ /\ ~Reusable(member[p])
        /\ n < MaxRevisions
        /\ member' = [member EXCEPT ![p] = [state |-> "pending", revision |-> n + 1]]
        /\ op' = [op EXCEPT ![Manager(p, n + 1)] = "pending"]
        /\ Handoff(n + 1)
  /\ UNCHANGED <<requestVars, reserved, mapping, registered, seenOwner, mailboxVars, gameVars,
                 faults>>

AfterHandoff(c) == IF call[c].op # NoOp /\ call[c].op.kind = "land" THEN "confirm" ELSE "reply"

(* _manager_authorization_error: no identity is registered yet.            *)
AssignFails(c) ==
  LET p == call[c].player IN
  /\ At(c, "assign")
  /\ p \notin registered
  /\ request' = [request EXCEPT ![p] = "manager_authorization_required"]
  /\ call' = [call EXCEPT ![c].step = AfterHandoff(c), ![c].number = 0]
  /\ UNCHANGED <<field, attempt, permission, confirmed, reserved, mapping, op, centralRest,
                 mailboxVars, gameVars, faults>>

AnyMember(p) == member[p].state # "none"
IsManager(p) == member[p].state = "active"

ReadMembership(c) ==
  /\ At(c, "read_membership")
  /\ Goto(c, IF IsManager(call[c].player) THEN "hand_over" ELSE "hand_off")
  /\ UNCHANGED <<requestVars, reserved, mapping, op, centralRest, mailboxVars, gameVars, faults>>

(* Updates by request ID alone, from the membership read a step before.    *)
HandOff(c) ==
  LET p == call[c].player
      active == At(c, "hand_over")
  IN
  /\ At(c, "hand_over") \/ At(c, "hand_off")
  /\ request' = [request EXCEPT ![p] = IF active THEN "active" ELSE "awaiting_manager"]
  /\ permission' = [permission EXCEPT ![p] = call[c].number]
  /\ Goto(c, IF active THEN "activate_farm" ELSE AfterHandoff(c))
  /\ UNCHANGED <<field, attempt, confirmed, reserved, mapping, op, centralRest, mailboxVars,
                 gameVars, faults>>

ActivateFarm(c) ==
  /\ At(c, "activate_farm")
  /\ mapping' = [mapping EXCEPT ![call[c].player] = "active"]
  /\ Goto(c, AfterHandoff(c))
  /\ UNCHANGED <<requestVars, reserved, op, centralRest, mailboxVars, gameVars, faults>>

LandOnly == {"manager_authorization_required"}
Repairable == ManagerStates

(* _repair_manager_authorizations, one request of an operations poll.      *)
Repair(c, p) ==
  /\ request[p] \in Repairable
  /\ op[Provision(p)] = "succeeded"
  /\ AgentCall(c, p, NoOp, "assign")
  /\ UNCHANGED <<requestVars, reserved, mapping, op, centralRest, gameVars, faults>>

-------------------------------------------------------------------------------
(* AuthorizationManager.acknowledge                                        *)

CurrentJob(p, n) == member[p].state = "pending" /\ member[p].revision = n

PostManager(c, p, n) ==
  LET o == Manager(p, n)
      applies == receipt[o] = "applied" /\ op[o] # "succeeded" /\ CurrentJob(p, n)
      active == applies /\ permission[p] = n /\ request[p] = "awaiting_manager"
  IN
  /\ receipt[o] # "none"
  /\ \/ /\ applies
        /\ AgentCall(c, p, o, "reply")
        /\ op' = [op EXCEPT ![o] = "succeeded"]
        /\ member' = [member EXCEPT ![p].state = "active"]
     \/ /\ receipt[o] = "applied" /\ op[o] = "succeeded"
        /\ AgentCall(c, p, o, "reply")
        /\ UNCHANGED <<op, member>>
     \/ /\ receipt[o] = "applied" /\ op[o] # "succeeded" /\ ~applies
        /\ AgentCall(c, p, o, "refuse")
        /\ UNCHANGED <<op, member>>
     \/ /\ receipt[o] # "applied" /\ OpenOp(o)
        /\ AgentCall(c, p, o, "suspend")
        /\ op' = [op EXCEPT ![o] = "reconciliation_required"]
        /\ UNCHANGED member
     \/ /\ receipt[o] # "applied" /\ ~OpenOp(o)
        /\ AgentCall(c, p, o, "refuse")
        /\ UNCHANGED <<op, member>>
  /\ request' = [request EXCEPT ![p] = IF active THEN "active" ELSE @]
  /\ mapping' = [mapping EXCEPT ![p] = IF active THEN "active" ELSE @]
  /\ UNCHANGED <<field, attempt, permission, confirmed, reserved, registered, seenOwner,
                 gameVars, faults>>

(* The rejected job's membership, if it still is that job's.               *)
Suspend(c) ==
  LET p == call[c].player
      mine == member[p].revision = call[c].op.number /\ member[p].state \in {"pending", "active"}
  IN
  /\ At(c, "suspend")
  /\ member' = [member EXCEPT ![p].state = IF mine THEN "reconciliation_required" ELSE @]
  /\ Goto(c, "refuse")
  /\ UNCHANGED <<requestVars, reserved, mapping, op, registered, seenOwner, mailboxVars,
                 gameVars, faults>>

-------------------------------------------------------------------------------
(* operations_for, Agent and Game                                          *)

(* Farm operations are marked when served; permission jobs never are.      *)
Dispatch(o) ==
  /\ o.kind # "manager"
  /\ op[o] = "pending"
  /\ op' = [op EXCEPT ![o] = "dispatched"]
  /\ UNCHANGED <<requestVars, reserved, mapping, centralRest, call, mailboxVars, gameVars, faults>>

Deliverable(o) == receipt[o] = "none" /\ o \notin marked

Answer(o, status) == receipt' = [receipt EXCEPT ![o] = status]

restOfExecution == <<requestVars, reserved, mapping, op, centralRest, call, waiting, marked,
                     faults>>

(* processFarmProvisionCommand creates or adopts the named farm, or fails. *)
ExecuteProvision(p) ==
  LET o == Provision(p) IN
  /\ op[o] = "dispatched" /\ Deliverable(o)
  /\ \/ Answer(o, "applied") /\ founded' = founded \cup {p}
     \/ Answer(o, "failed") /\ UNCHANGED founded
  /\ UNCHANGED <<restOfExecution, owner>>

(* processLandCommand: claim unowned land, refuse a foreign owner's.       *)
ExecuteLand(o) ==
  LET p == o.player
      f == o.field
  IN
  /\ o.kind = "land" /\ op[o] = "dispatched" /\ Deliverable(o)
  /\ \/ owner[f] \in {NoPlayer, p} /\ Answer(o, "applied") /\ owner' = [owner EXCEPT ![f] = p]
     \/ owner[f] = NoPlayer /\ Answer(o, "failed") /\ UNCHANGED owner
     \/ owner[f] \notin {NoPlayer, p} /\ Answer(o, "rejected") /\ UNCHANGED owner
  /\ UNCHANGED <<restOfExecution, founded>>

(* The permission branch of processPermissionCommands only reads whether   *)
(* the player is on the farm and its manager.                              *)
ExecuteManager(p, n) ==
  LET o == Manager(p, n) IN
  /\ op[o] = "pending" /\ Deliverable(o)
  /\ \/ Answer(o, "applied")
     \/ n < MaxRevisions /\ Answer(o, "pending_validation")
  /\ UNCHANGED <<restOfExecution, gameVars>>

(* A farm of the game buys the farmland for itself.                        *)
BuyNatively(f) ==
  /\ owner[f] = NoPlayer
  /\ \E q \in founded \cup {Other} : owner' = [owner EXCEPT ![f] = q]
  /\ UNCHANGED <<restOfExecution, receipt, founded>>

Snapshot ==
  /\ seenOwner # owner
  /\ seenOwner' = owner
  /\ UNCHANGED <<requestVars, reserved, mapping, op, member, registered, call, mailboxVars,
                 gameVars, faults>>

-------------------------------------------------------------------------------
CallStep(c) ==
  \/ Reply(c) \/ Refuse(c)
  \/ QueueProvision(c) \/ MarkProvisioning(c) \/ Release(c)
  \/ QueueLand(c) \/ MarkAssigning(c)
  \/ MapFarm(c) \/ SucceedProvision(c) \/ AwaitLand(c)
  \/ ReturnLand(c) \/ SucceedLand(c) \/ ConfirmLand(c)
  \/ Assign(c) \/ AssignFails(c) \/ ReadMembership(c) \/ HandOff(c) \/ ActivateFarm(c)
  \/ Suspend(c)

Post(c, o) ==
  \/ o = Provision(o.player) /\ PostProvision(c, o.player)
  \/ PostLand(c, o)
  \/ o.kind = "manager" /\ PostManager(c, o.player, o.number)

Execute(o) ==
  \/ o = Provision(o.player) /\ ExecuteProvision(o.player)
  \/ ExecuteLand(o)
  \/ o.kind = "manager" /\ ExecuteManager(o.player, o.number)

Next ==
  \/ \E p \in Players : Register(p) \/ \E f \in Fields : RequestFarm(p, f)
  \/ \E c \in Calls, p \in Players : Approve(c, p) \/ Reject(c, p) \/ Repair(c, p)
  \/ \E c \in Calls, o \in Ops : Post(c, o)
  \/ \E c \in Calls : CallStep(c)
  \/ \E o \in Ops : Dispatch(o) \/ Execute(o)
  \/ \E f \in Fields : BuyNatively(f)
  \/ Snapshot \/ Timeout \/ Crash

Spec == Init /\ [][Next]_vars

(* The Agent's loop posts every receipt and fetches all operations once a  *)
(* pass, one request at a time; Central's threads run to their end; the    *)
(* game polls its mailbox.  Players, staff and purchases owe nothing.      *)
Fairness ==
  /\ \A c \in Calls : WF_vars(CallStep(c))
  /\ \A o \in Ops : SF_vars(\E c \in Calls : Post(c, o))
  /\ \A p \in Players : SF_vars(\E c \in Calls : Repair(c, p))
  /\ \A o \in Ops : WF_vars(Dispatch(o)) /\ WF_vars(Execute(o))
LiveSpec == Spec /\ Fairness

-------------------------------------------------------------------------------
(* Properties                                                              *)

Steps == {"idle", "reply", "refuse", "queue_provision", "mark_provisioning", "release",
          "queue_land", "mark_assigning", "map_farm", "succeed_provision", "await_land",
          "return_land", "succeed_land", "confirm", "assign", "read_membership",
          "hand_over", "hand_off", "activate_farm", "suspend"}
OpStates == {"absent", "pending", "dispatched", "succeeded", "failed", "reconciliation_required"}
CallRecords == [step : Steps, from : {"nobody", "staff", "agent"}, player : Players \cup {NoPlayer},
                op : Ops \cup {NoOp}, field : Fields \cup {NoField}, number : Nat]

(* A call in progress is always for some player.                           *)
CallType ==
  /\ call \in [Calls -> CallRecords]
  /\ \A c \in Calls : ~Free(c) => call[c].player \in Players

DataType ==
  /\ request \in [Players -> LiveStates \cup {"none", "rejected"}]
  /\ field \in [Players -> Fields \cup {NoField}]
  /\ attempt \in [Players -> Nat]
  /\ permission \in [Players -> Nat]
  /\ confirmed \in [Players -> BOOLEAN]
  /\ reserved \in [Fields -> Players \cup {NoPlayer}]
  /\ mapping \in [Players -> {"none", "provisioned", "active"}]
  /\ op \in [Ops -> OpStates]
  /\ member \in [Players -> [state : {"none", "pending", "active", "reconciliation_required"},
                              revision : Nat]]
  /\ registered \subseteq Players
  /\ seenOwner \in [Fields -> Players \cup {NoPlayer, Other}]
  /\ waiting \in Calls \cup {NoCall}
  /\ receipt \in [Ops -> {"none", "applied", "failed", "rejected", "pending_validation"}]
  /\ marked \subseteq Ops \cup {NoOp}
  /\ owner \in [Fields -> Players \cup {NoPlayer, Other}]
  /\ founded \subseteq Players
  /\ faults \in Nat

(* Type correctness, of the documents and of the calls in progress.        *)
TypeOK == DataType /\ CallType

Live(p) == request[p] \in LiveStates

(* A request that may still get land holds the reservation of its field;   *)
(* no reviewing, rejecting or crashing of others may take it away.         *)
ReservationBacksRequest == \A p \in Players : Live(p) => reserved[field[p]] = p

(* What farm_field_reservations is for: two live requests never name the   *)
(* same farmland.                                                          *)
NoFieldRequestedTwice ==
  \A p, q \in Players : p # q /\ Live(p) /\ Live(q) => field[p] # field[q]

(* A reservation is released with the rejection of its request, so that a  *)
(* field is never lost to everybody.                                       *)
NoFieldOrphaned ==
  \A f \in Fields, p \in Players :
    reserved[f] = p /\ ~HandledBy("staff", p) => Live(p) /\ field[p] = f

(* The manager handoff starts only from land the game has shown to belong  *)
(* to the player's farm.                                                   *)
LandIsGranted ==
  \A p \in Players : request[p] \in ManagerStates \cup {"active"} =>
    \E f \in Fields : owner[f] = p

(* That land is the field staff approved: a receipt is matched to its      *)
(* request by the request's state alone, never by the field.               *)
LandIsProven ==
  \A p \in Players : request[p] \in ManagerStates \cup {"active"} => owner[field[p]] = p

(* A request is active only once the game confirmed its manager.           *)
ActiveIsManaged == \A p \in Players : request[p] = "active" => member[p].state = "active"

(* Repairs, handoffs and repeated receipts never take an active farm back. *)
ActiveStaysActive ==
  [][\A p \in Players : request[p] = "active" => request'[p] = "active"]_vars

(* A manager job that can still be executed is its membership's only one:  *)
(* repeated handoffs and repairs never leave a stale one behind.           *)
OneManagerJob ==
  \A p \in Players, n \in Revisions :
    op[Manager(p, n)] = "pending" => member[p] = [state |-> "pending", revision |-> n]

(* Land is only ever queued for a farm the game has founded.               *)
FarmBeforeLand ==
  \A o \in Ops : o.kind = "land" /\ op[o] # "absent" =>
    o.player \in founded /\ mapping[o.player] # "none"

(* Land follows its request: reserved for it alone, bought for a farm that *)
(* exists, and owned before a manager is made.                             *)
RequestsAreBacked == ReservationBacksRequest /\ LandIsGranted /\ FarmBeforeLand

(* The request, the membership and its jobs agree on who is a manager.     *)
ManagersHold == ActiveIsManaged /\ OneManagerJob

(* A request staff turned down, or has not decided yet, causes no farm and *)
(* no land.                                                                *)
UnapprovedGetsNothing ==
  \A p \in Players : request[p] \in {"none", "pending", "rejected"} /\ ~HandledBy("staff", p) =>
    \A o \in Ops : o.player = p => op[o] = "absent"

(* Rejected and undecided requests leave nothing, in the game or reserved. *)
NoLeftovers == UnapprovedGetsNothing /\ NoFieldOrphaned

(* A member gets what staff approved: nothing before the decision, nothing *)
(* after a rejection, and a manager for the field that was asked for.      *)
DecisionsAreKept == NoLeftovers /\ LandIsProven

(* A request enters land_assigning with an operation the game can still    *)
(* answer, never with one that was already answered.                       *)
RetryIsFresh ==
  [][\A p \in Players : request[p] = "land_pending" /\ request'[p] = "land_assigning" =>
       OpenOp(Land(p, field[p], attempt'[p]))]_vars

(* No request falls back: not into an answered operation, not from active. *)
RequestsMoveForward == RetryIsFresh /\ ActiveStaysActive

(* The receipt that confirms a farm, once accepted, has moved its request  *)
(* on to the land, also when Central was interrupted and it was retried.   *)
FarmReceiptQueuesLand ==
  \A p \in Players :
    /\ op[Provision(p)] = "succeeded"
    /\ receipt[Provision(p)] = "none"
    /\ \A c \in Calls : call[c].player # p
    => request[p] # "provisioning"

Waiting(p) == request[p] \in {"provisioning", "land_assigning"} \cup ManagerStates
Parked(p) == \/ request[p] \in {"active", "land_pending"}
             \/ op[Provision(p)] = "reconciliation_required"
             \/ p \notin registered

(* An approved request never hangs: it becomes active, or stops where      *)
(* staff, a failed farm or the player's registration must act.             *)
ApprovedIsSettled == \A p \in Players : Waiting(p) ~> Parked(p)
===============================================================================
