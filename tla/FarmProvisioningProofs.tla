------------------------ MODULE FarmProvisioningProofs ------------------------
(***************************************************************************)
(* Theorems about FarmProvisioning for every set of players, fields and    *)
(* calls and all bounds.  They hold with crashes and overlapping calls;    *)
(* only the reservations also need reviews of one request not to race.     *)
(*                                                                         *)
(* Three inductive invariants: TypeOK, ReviewInv (why a reservation stays) *)
(* and ManagerInv (why a confirmed manager stays).                         *)
(***************************************************************************)
EXTENDS FarmProvisioning, TLAPS

-------------------------------------------------------------------------------
(* Type correctness                                                        *)

LEMMA GotoType ==
  ASSUME CallType, NEW c \in Calls, ~Free(c), NEW s \in Steps, Goto(c, s)
  PROVE  CallType'
<1>1. call[c] \in CallRecords /\ call[c].player \in Players
  BY DEF CallType
<1>2. call' = [call EXCEPT ![c] = [call[c] EXCEPT !.step = s]]
  BY DEF Goto, CallType
<1>3. [call[c] EXCEPT !.step = s] \in CallRecords
  BY <1>1 DEF CallRecords
<1>4. call' \in [Calls -> CallRecords]
  BY <1>2, <1>3 DEF CallType
<1>5. ASSUME NEW k \in Calls, call'[k].step # "idle" PROVE call'[k].player \in Players
  <2>1. CASE k = c
    BY <1>1, <1>2, <2>1 DEF CallType, CallRecords
  <2>2. CASE k # c
    BY <1>2, <1>5, <2>2 DEF CallType, Free
  <2>3. QED
    BY <2>1, <2>2
<1>6. QED
  BY <1>4, <1>5 DEF CallType, Free

LEMMA EndType == ASSUME CallType, NEW c \in Calls, End(c) PROVE CallType'
<1>1. Idle \in CallRecords /\ Idle.step = "idle"
  BY DEF Idle, CallRecords, Steps
<1>2. QED
  BY <1>1 DEF End, CallType, Free

LEMMA AgentCallType ==
  ASSUME CallType, NEW c \in Calls, NEW p \in Players, NEW o \in Ops \cup {NoOp},
         NEW s \in Steps, AgentCall(c, p, o, s)
  PROVE  CallType'
<1> DEFINE new == [step |-> s, from |-> "agent", player |-> p, op |-> o,
                   field |-> NoField, number |-> 0]
<1>1. new \in CallRecords /\ new.player = p
  BY DEF CallRecords
<1>2. call' = [call EXCEPT ![c] = new]
  BY DEF AgentCall
<1>3. QED
  BY <1>1, <1>2 DEF CallType, Free

LEMMA StaffCallType ==
  ASSUME CallType, NEW c \in Calls, NEW p \in Players, NEW s \in Steps,
         NEW f \in Fields \cup {NoField}, NEW n \in Nat, StaffCall(c, p, s, f, n)
  PROVE  CallType'
<1> DEFINE new == [step |-> s, from |-> "staff", player |-> p, op |-> NoOp,
                   field |-> f, number |-> n]
<1>1. new \in CallRecords /\ new.player = p
  BY DEF CallRecords
<1>2. call' = [call EXCEPT ![c] = new]
  BY DEF StaffCall
<1>3. QED
  BY <1>1, <1>2 DEF CallType, Free

(* A step of a call leaves it at a step of its own for the same player.    *)
LEMMA CallStepType ==
  ASSUME CallType, DataType, NEW c \in Calls, CallStep(c)
  PROVE  CallType'
<1> USE DEF At, Free
<1>1. ASSUME Reply(c) \/ Refuse(c) PROVE CallType'
  BY <1>1, EndType DEF Reply, Refuse, Accept
<1>2. CASE QueueProvision(c)
  BY <1>2, GotoType DEF QueueProvision, Steps
<1>3. CASE MarkProvisioning(c)
  BY <1>3, GotoType DEF MarkProvisioning, Steps
<1>4. CASE Release(c)
  BY <1>4, GotoType DEF Release, Steps
<1>5. CASE QueueLand(c)
  BY <1>5, GotoType DEF QueueLand, Steps
<1>6. CASE MarkAssigning(c)
  BY <1>6, GotoType DEF MarkAssigning, Steps
<1>7. CASE MapFarm(c)
  BY <1>7, GotoType DEF MapFarm, Steps
<1>8. CASE SucceedProvision(c)
  BY <1>8, GotoType DEF SucceedProvision, Steps
<1>9. CASE ReturnLand(c)
  BY <1>9, GotoType DEF ReturnLand, Steps
<1>10. CASE SucceedLand(c)
  BY <1>10, GotoType DEF SucceedLand, Steps
<1>11. CASE ConfirmLand(c)
  BY <1>11, GotoType DEF ConfirmLand, Steps
<1>12. CASE ReadMembership(c)
  BY <1>12, GotoType DEF ReadMembership, Steps
<1>13. CASE ActivateFarm(c)
  BY <1>13, GotoType DEF ActivateFarm, Steps, AfterHandoff
<1>14. CASE Suspend(c)
  BY <1>14, GotoType DEF Suspend, Steps
<1>15. CASE HandOff(c)
  BY <1>15, GotoType DEF HandOff, Steps, AfterHandoff
<1>16. CASE AwaitLand(c)
  <2>1. call' = [call EXCEPT ![c] = [call[c] EXCEPT !.step = "queue_land",
                   !.field = field[call[c].player], !.number = NextAttempt(call[c].player)]]
    BY <1>16 DEF AwaitLand, CallType
  <2>2. call[c] \in CallRecords /\ call[c].player \in Players
    BY <1>16 DEF AwaitLand, CallType
  <2>3. field[call[c].player] \in Fields \cup {NoField} /\ NextAttempt(call[c].player) \in Nat
    BY <2>2 DEF DataType, NextAttempt
  <2>4. QED
    BY <2>1, <2>2, <2>3 DEF CallType, CallRecords, Steps
<1>17. CASE Assign(c)
  <2>1. call[c] \in CallRecords /\ call[c].player \in Players
    BY <1>17 DEF Assign, CallType
  <2>2. PICK n \in Nat : call' = [call EXCEPT ![c] = [call[c] EXCEPT !.step = "read_membership",
                                                               !.number = n]]
    <3>1. member[call[c].player].revision \in Nat /\ member[call[c].player].revision + 1 \in Nat
      BY <2>1 DEF DataType
    <3>2. CASE call' = [call EXCEPT ![c].step = "read_membership",
                                    ![c].number = member[call[c].player].revision]
      BY <3>1, <3>2 DEF CallType
    <3>3. CASE call' = [call EXCEPT ![c].step = "read_membership",
                                    ![c].number = member[call[c].player].revision + 1]
      BY <3>1, <3>3 DEF CallType
    <3>4. QED
      BY <1>17, <3>2, <3>3 DEF Assign
  <2>3. [call[c] EXCEPT !.step = "read_membership", !.number = n] \in CallRecords
    BY <2>1, <2>2 DEF CallRecords, Steps
  <2>4. QED
    BY <2>1, <2>2, <2>3 DEF CallType
<1>18. CASE AssignFails(c)
  <2>1. call[c] \in CallRecords /\ call[c].player \in Players
    BY <1>18 DEF AssignFails, CallType
  <2>2. PICK s \in Steps : call' = [call EXCEPT ![c] = [call[c] EXCEPT !.step = s, !.number = 0]]
    <3>1. AfterHandoff(c) \in Steps
      BY DEF AfterHandoff, Steps
    <3>2. QED
      BY <1>18, <3>1 DEF AssignFails, CallType
  <2>3. [call[c] EXCEPT !.step = s, !.number = 0] \in CallRecords
    BY <2>1, <2>2 DEF CallRecords
  <2>4. QED
    BY <2>1, <2>2, <2>3 DEF CallType
<1>19. QED
  BY <1>1, <1>2, <1>3, <1>4, <1>5, <1>6, <1>7, <1>8, <1>9, <1>10, <1>11, <1>12, <1>13, <1>14, <1>15, <1>16, <1>17, <1>18 DEF CallStep

LEMMA CallStepData ==
  ASSUME TypeOK, NEW c \in Calls, CallStep(c)
  PROVE  DataType'
<1> USE NullAssumption DEF NullAssumption, TypeOK, DataType, requestVars, mailboxVars, gameVars,
        centralRest, LiveStates, ManagerStates, OpStates, At
<1>0. call[c].player \in Players /\ call[c] \in CallRecords
  <2>1. call[c].step # "idle"
    BY DEF CallStep, Reply, Refuse, QueueProvision, MarkProvisioning, Release, QueueLand, MarkAssigning, MapFarm, SucceedProvision,
           AwaitLand, ReturnLand, SucceedLand, ConfirmLand, Assign, AssignFails, ReadMembership, HandOff, ActivateFarm, Suspend
  <2>2. QED
    BY <2>1 DEF CallType, Free
<1>1. CASE Reply(c)
  BY <1>0, <1>1 DEF Reply, Accept, End
<1>2. CASE Refuse(c)
  BY <1>0, <1>2 DEF Refuse, End, CallRecords
<1>3. CASE QueueProvision(c)
  BY <1>0, <1>3 DEF QueueProvision, Queue
<1>4. CASE MarkProvisioning(c)
  BY <1>0, <1>4 DEF MarkProvisioning
<1>5. CASE Release(c)
  BY <1>0, <1>5 DEF Release, DeleteReservation, HeldBy
<1>6. CASE QueueLand(c)
  BY <1>0, <1>6 DEF QueueLand, Queue
<1>7. CASE MarkAssigning(c)
  BY <1>0, <1>7 DEF MarkAssigning, CallRecords
<1>8. CASE MapFarm(c)
  BY <1>0, <1>8 DEF MapFarm
<1>9. CASE SucceedProvision(c)
  BY <1>0, <1>9 DEF SucceedProvision
<1>10. CASE AwaitLand(c)
  BY <1>0, <1>10 DEF AwaitLand
<1>11. CASE ReturnLand(c)
  BY <1>0, <1>11 DEF ReturnLand
<1>12. CASE SucceedLand(c)
  BY <1>0, <1>12 DEF SucceedLand
<1>13. CASE ConfirmLand(c)
  BY <1>0, <1>13 DEF ConfirmLand, CallRecords
<1>14. CASE Assign(c)
  <2>1. member[call[c].player].revision \in Nat
    BY <1>0
  <2>2. /\ \/ member' = member
           \/ member' = [member EXCEPT ![call[c].player] =
                           [state |-> "pending", revision |-> member[call[c].player].revision + 1]]
        /\ \/ op' = op
           \/ op' = [op EXCEPT ![Manager(call[c].player, member[call[c].player].revision + 1)]
                                = "pending"]
    BY <1>14 DEF Assign
  <2>3. member' \in [Players -> [state : {"none", "pending", "active", "reconciliation_required"},
                                revision : Nat]]
    BY <1>0, <2>1, <2>2
  <2>4. op' \in [Ops -> OpStates]
    BY <2>2
  <2>5. QED
    BY <1>14, <2>3, <2>4 DEF Assign
<1>15. CASE AssignFails(c)
  BY <1>0, <1>15 DEF AssignFails
<1>16. CASE ReadMembership(c)
  BY <1>0, <1>16 DEF ReadMembership
<1>17. CASE HandOff(c)
  BY <1>0, <1>17 DEF HandOff, CallRecords
<1>18. CASE ActivateFarm(c)
  BY <1>0, <1>18 DEF ActivateFarm
<1>19. CASE Suspend(c)
  BY <1>0, <1>19 DEF Suspend
<1>20. QED
  BY <1>1, <1>2, <1>3, <1>4, <1>5, <1>6, <1>7, <1>8, <1>9, <1>10, <1>11, <1>12, <1>13, <1>14, <1>15, <1>16, <1>17, <1>18, <1>19 DEF CallStep

LEMMA InitType == Init => TypeOK
  BY NullAssumption DEF NullAssumption, Init, TypeOK, DataType, CallType, CallRecords, Idle, Free,
     Steps, OpStates

LEMMA NextType == TypeOK /\ [Next]_vars => TypeOK'
<1> SUFFICES ASSUME TypeOK, [Next]_vars PROVE TypeOK'
  OBVIOUS
<1> USE NullAssumption DEF NullAssumption, TypeOK, requestVars, mailboxVars, gameVars, centralRest,
        LiveStates, ManagerStates, OpStates
<1>1. ASSUME NEW p \in Players, NEW f \in Fields, RequestFarm(p, f) PROVE TypeOK'
  BY <1>1 DEF RequestFarm, DataType, CallType, Free
<1>2. ASSUME NEW p \in Players, Register(p) PROVE TypeOK'
  BY <1>2 DEF Register, DataType, CallType, Free
<1>3. ASSUME NEW c \in Calls, NEW p \in Players, Approve(c, p) PROVE TypeOK'
  <2>1. NextAttempt(p) \in Nat /\ field[p] \in Fields \cup {NoField}
    BY DEF DataType, NextAttempt
  <2>2. CallType'
    BY <1>3, <2>1, StaffCallType DEF Approve, Steps
  <2>3. QED
    BY <1>3, <2>2 DEF Approve, StaffCall, DataType
<1>4. ASSUME NEW c \in Calls, NEW p \in Players, Reject(c, p) PROVE TypeOK'
  <2>1. CallType'
    BY <1>4, StaffCallType DEF Reject, Steps
  <2>2. QED
    BY <1>4, <2>1 DEF Reject, StaffCall, DataType
<1>5. ASSUME NEW c \in Calls, NEW p \in Players, Repair(c, p) PROVE TypeOK'
  <2>1. CallType'
    BY <1>5, AgentCallType DEF Repair, Steps
  <2>2. QED
    BY <1>5, <2>1 DEF Repair, AgentCall, DataType
<1>6. ASSUME NEW c \in Calls, NEW p \in Players, PostProvision(c, p) PROVE TypeOK'
  <2>1. Provision(p) \in Ops
    BY DEF Ops
  <2>2. CallType'
    BY <1>6, <2>1, AgentCallType DEF PostProvision, Steps
  <2>3. QED
    BY <1>6, <2>2 DEF PostProvision, AgentCall, DataType
<1>7. ASSUME NEW c \in Calls, NEW o \in Ops, PostLand(c, o) PROVE TypeOK'
  <2>1. o.player \in Players
    BY DEF Ops, Provision, Land, Manager
  <2>2. CallType'
    BY <1>7, <2>1, AgentCallType DEF PostLand, Steps
  <2>3. QED
    BY <1>7, <2>2 DEF PostLand, RefusedState, AgentCall, DataType
<1>8. ASSUME NEW c \in Calls, NEW o \in Ops, o.kind = "manager",
             PostManager(c, o.player, o.number)
      PROVE  TypeOK'
  <2>1. o.player \in Players /\ o.number \in Revisions /\ Manager(o.player, o.number) \in Ops
    BY <1>8 DEF Ops, Provision, Land, Manager
  <2>2. CallType'
    BY <1>8, <2>1, AgentCallType DEF PostManager, Steps
  <2>3. member' \in [Players -> [state : {"none", "pending", "active", "reconciliation_required"},
                                revision : Nat]]
    <3>1. \/ member' = member
          \/ member' = [member EXCEPT ![o.player].state = "active"]
      BY <1>8 DEF PostManager
    <3>2. QED
      BY <2>1, <3>1 DEF DataType
  <2>4. op' \in [Ops -> OpStates]
    BY <1>8, <2>1 DEF PostManager, DataType
  <2>5. request' \in [Players -> LiveStates \cup {"none", "rejected"}]
        /\ mapping' \in [Players -> {"none", "provisioned", "active"}]
    BY <1>8, <2>1 DEF PostManager, DataType
  <2>6. waiting' \in Calls \cup {NoCall} /\ UNCHANGED <<receipt, marked>>
    BY <1>8 DEF PostManager, AgentCall
  <2>7. DataType'
    BY <1>8, <2>3, <2>4, <2>5, <2>6 DEF PostManager, DataType
  <2>8. QED
    BY <2>2, <2>7
<1>9. ASSUME NEW c \in Calls, CallStep(c) PROVE TypeOK'
  BY <1>9, CallStepType, CallStepData
<1>10. ASSUME NEW o \in Ops, Dispatch(o) PROVE TypeOK'
  BY <1>10 DEF Dispatch, DataType, CallType, Free
<1>11. ASSUME NEW o \in Ops, Execute(o) PROVE TypeOK'
  <2>1. o.player \in Players
    BY DEF Ops, Provision, Land, Manager
  <2>2. UNCHANGED call
    BY <1>11 DEF Execute, ExecuteProvision, ExecuteLand, ExecuteManager, restOfExecution
  <2>3. /\ receipt' \in [Ops -> {"none", "applied", "failed", "rejected", "pending_validation"}]
        /\ owner' \in [Fields -> Players \cup {NoPlayer, Other}]
        /\ founded' \subseteq Players
    <3>1. CASE ExecuteProvision(o.player)
      BY <2>1, <3>1 DEF ExecuteProvision, Answer, DataType
    <3>2. CASE ExecuteLand(o)
      <4>1. \/ owner' = owner
            \/ owner' = [owner EXCEPT ![o.field] = o.player]
        BY <3>2 DEF ExecuteLand
      <4>2. \E status \in {"applied", "failed", "rejected"} :
              receipt' = [receipt EXCEPT ![o] = status]
        BY <3>2 DEF ExecuteLand, Answer
      <4>3. founded' = founded
        BY <3>2 DEF ExecuteLand
      <4>4. QED
        BY <2>1, <4>1, <4>2, <4>3 DEF DataType
    <3>3. CASE ExecuteManager(o.player, o.number)
      BY <3>3 DEF ExecuteManager, Answer, DataType
    <3>4. QED
      BY <1>11, <3>1, <3>2, <3>3 DEF Execute
  <2>4. UNCHANGED restOfExecution
    BY <1>11 DEF Execute, ExecuteProvision, ExecuteLand, ExecuteManager
  <2>5. QED
    BY <2>2, <2>3, <2>4 DEF restOfExecution, DataType, CallType, Free
<1>12. ASSUME NEW f \in Fields, BuyNatively(f) PROVE TypeOK'
  BY <1>12 DEF BuyNatively, restOfExecution, DataType, CallType, Free
<1>13. CASE Snapshot
  BY <1>13 DEF Snapshot, DataType, CallType, Free
<1>14. CASE Timeout
  BY <1>14 DEF Timeout, DataType, CallType, Free
<1>15. CASE Crash
  BY <1>15 DEF Crash, DataType, CallType, CallRecords, Idle, Free, Steps
<1>16. CASE UNCHANGED vars
  BY <1>16 DEF vars, DataType, CallType, Free
<1>17. ASSUME NEW c \in Calls, NEW o \in Ops, Post(c, o) PROVE TypeOK'
  <2>1. o.player \in Players
    BY DEF Ops, Provision, Land, Manager
  <2>2. QED
    BY <1>6, <1>7, <1>8, <1>17, <2>1 DEF Post
<1>18. QED
  BY <1>1, <1>2, <1>3, <1>4, <1>5, <1>9, <1>10, <1>11, <1>12, <1>13, <1>14, <1>15, <1>16,
     <1>17 DEF Next

(* Every document and call of the farm lifecycle keeps its type.           *)
THEOREM TypeCorrect == Spec => []TypeOK
  BY InitType, NextType, PTL DEF Spec

-------------------------------------------------------------------------------
(* Reservations                                                            *)

(* The states a request enters only once its farm was founded.             *)
LateStates == {"land_pending", "land_assigning", "active"} \cup ManagerStates
HandoffSteps == {"succeed_land", "confirm", "assign", "read_membership", "hand_over", "hand_off",
                 "activate_farm"}

ConfirmedIsLate == \A p \in Players : confirmed[p] => request[p] \in LateStates
LiveNamesField == \A p \in Players : Live(p) => field[p] \in Fields

(* What the handler of a request may rely on: writes that name no state    *)
(* meet a late request, and a reservation is deleted for a rejected one.   *)
CallMeetsRequest(c) ==
  /\ call[c].step \in HandoffSteps => request[call[c].player] \in LateStates
  /\ call[c].step = "release" => call[c].from = "staff" /\ request[call[c].player] = "rejected"

ReviewInv ==
  /\ ReservationBacksRequest
  /\ ConfirmedIsLate
  /\ LiveNamesField
  /\ \A c \in Calls : CallMeetsRequest(c)

LEMMA ReviewFrame ==
  ASSUME ReviewInv, UNCHANGED <<request, field, confirmed, reserved>>,
         \A k \in Calls : CallMeetsRequest(k)'
  PROVE  ReviewInv'
  BY DEF ReviewInv, ReservationBacksRequest, Live, LiveNamesField, ConfirmedIsLate

LEMMA CallStepReview ==
  ASSUME TypeOK, ReviewInv, NEW c \in Calls, CallStep(c)
  PROVE  ReviewInv'
<1> USE DEF TypeOK, DataType, CallType, Free, requestVars, At, ReviewInv, ReservationBacksRequest,
        Live, LiveStates, ManagerStates, LateStates, ConfirmedIsLate, LiveNamesField, CallMeetsRequest, HandoffSteps
<1>0. call[c].player \in Players
  BY DEF CallStep, Reply, Refuse, QueueProvision, MarkProvisioning, Release, QueueLand, MarkAssigning, MapFarm, SucceedProvision,
         AwaitLand, ReturnLand, SucceedLand, ConfirmLand, Assign, AssignFails, ReadMembership, HandOff, ActivateFarm, Suspend
<1>1. CASE Reply(c)
  BY <1>0, <1>1 DEF Reply, Accept, End, Idle
<1>2. CASE Refuse(c)
  BY <1>0, <1>2 DEF Refuse, End, Idle
<1>3. CASE QueueProvision(c)
  BY <1>0, <1>3 DEF QueueProvision, Goto
<1>4. CASE MarkProvisioning(c)
  BY <1>0, <1>4 DEF MarkProvisioning, Goto
<1>5. CASE Release(c)
  <2>1. /\ call[c].step = "release" /\ request[call[c].player] = "rejected"
        /\ UNCHANGED <<request, field, confirmed>>
    BY <1>5 DEF Release
  <2>2. ASSUME NEW q \in Players, request'[q] \in LiveStates PROVE reserved'[field'[q]] = q
    <3>1. field[q] \in Fields /\ reserved[field[q]] = q /\ q # call[c].player
      BY <2>1, <2>2
    <3>2. CASE UNCHANGED reserved
      BY <2>1, <3>1, <3>2
    <3>3. ASSUME NEW f \in Fields, HeldBy(f, call[c].player),
                 reserved' = [reserved EXCEPT ![f] = NoPlayer]
          PROVE  reserved'[field'[q]] = q
      BY <2>1, <3>1, <3>3 DEF HeldBy
    <3>4. QED
      BY <1>5, <3>2, <3>3 DEF Release, DeleteReservation
  <2>3. \A k \in Calls : call'[k] = call[k] \/ call'[k].step = "reply"
    BY <1>5 DEF Release, Goto
  <2>4. QED
    BY <2>1, <2>2, <2>3
<1>6. CASE QueueLand(c)
  <2>1. \A k \in Calls : call'[k] = call[k] \/ call'[k].step \in {"mark_assigning", "reply"}
    <3>1. Goto(c, "mark_assigning") \/ Goto(c, "reply")
      BY <1>6 DEF QueueLand
    <3>2. QED
      BY <3>1 DEF Goto, CallRecords
  <2>2. UNCHANGED <<request, field, confirmed, reserved>>
    BY <1>6 DEF QueueLand
  <2>3. ASSUME NEW k \in Calls PROVE CallMeetsRequest(k)'
    <3>1. CallMeetsRequest(k) /\ UNCHANGED request
      BY <2>2
    <3>2. CASE call'[k] = call[k]
      BY <3>1, <3>2
    <3>3. CASE call'[k].step \in {"mark_assigning", "reply"}
      BY <3>3
    <3>4. QED
      BY <2>1, <3>2, <3>3
  <2>4. QED
    BY <2>2, <2>3, ReviewFrame
<1>7. CASE MarkAssigning(c)
  BY <1>0, <1>7 DEF MarkAssigning, Goto
<1>8. CASE MapFarm(c)
  BY <1>0, <1>8 DEF MapFarm, Goto
<1>9. CASE SucceedProvision(c)
  BY <1>0, <1>9 DEF SucceedProvision, Goto
<1>10. CASE AwaitLand(c)
  BY <1>0, <1>10 DEF AwaitLand, At
<1>11. CASE ReturnLand(c)
  BY <1>0, <1>11 DEF ReturnLand, Goto
<1>12. CASE SucceedLand(c)
  BY <1>0, <1>12 DEF SucceedLand, Goto
<1>13. CASE ConfirmLand(c)
  BY <1>0, <1>13 DEF ConfirmLand, Goto
<1>14. CASE Assign(c)
  <2>1. /\ request[call[c].player] \in LateStates
        /\ UNCHANGED <<request, field, confirmed, reserved>>
    BY <1>0, <1>14 DEF Assign
  <2>2. \A k \in Calls : /\ call'[k].player = call[k].player
                         /\ call'[k] = call[k] \/ (k = c /\ call'[k].step = "read_membership")
    <3>1. \/ call' = [call EXCEPT ![c].step = "read_membership",
                                   ![c].number = member[call[c].player].revision]
          \/ call' = [call EXCEPT ![c].step = "read_membership",
                                   ![c].number = member[call[c].player].revision + 1]
      BY <1>14 DEF Assign
    <3>2. QED
      BY <3>1 DEF CallRecords
  <2>3. ASSUME NEW k \in Calls PROVE CallMeetsRequest(k)'
    <3>1. CallMeetsRequest(k) /\ UNCHANGED request
      BY <2>1
    <3>2. CASE call'[k] = call[k]
      BY <3>1, <3>2
    <3>3. CASE k = c /\ call'[k].step = "read_membership"
      BY <2>1, <2>2, <3>3
    <3>4. QED
      BY <2>2, <3>2, <3>3
  <2>4. QED
    BY <2>1, <2>3, ReviewFrame
<1>15. CASE AssignFails(c)
  BY <1>0, <1>15 DEF AssignFails, AfterHandoff
<1>16. CASE ReadMembership(c)
  BY <1>0, <1>16 DEF ReadMembership, Goto
<1>17. CASE HandOff(c)
  BY <1>0, <1>17 DEF HandOff, Goto, AfterHandoff
<1>18. CASE ActivateFarm(c)
  <2>1. UNCHANGED <<request, field, confirmed, reserved>>
    BY <1>18 DEF ActivateFarm
  <2>2. request[call[c].player] \in LateStates
    BY <1>0, <1>18 DEF ActivateFarm
  <2>3. \A k \in Calls : call'[k] = call[k] \/ /\ call'[k].step \in {"confirm", "reply"}
                                               /\ call'[k].player = call[c].player
    BY <1>18 DEF ActivateFarm, Goto, AfterHandoff
  <2>4. \A k \in Calls : CallMeetsRequest(k)'
    BY <2>1, <2>2, <2>3
  <2>5. QED
    BY <2>1, <2>4, ReviewFrame
<1>19. CASE Suspend(c)
  BY <1>0, <1>19 DEF Suspend, Goto
<1>20. QED
  BY <1>1, <1>2, <1>3, <1>4, <1>5, <1>6, <1>7, <1>8, <1>9, <1>10, <1>11, <1>12, <1>13, <1>14, <1>15, <1>16, <1>17, <1>18, <1>19 DEF CallStep

LEMMA InitReview == Init => ReviewInv
  BY DEF Init, ReviewInv, ReservationBacksRequest, Live, LiveStates, ManagerStates, ConfirmedIsLate,
     LiveNamesField, CallMeetsRequest, HandoffSteps, Idle

(* A call that begins where its request stands, and nothing else changes   *)
(* that reservations depend on.                                            *)
LEMMA NewCallReview ==
  ASSUME TypeOK, ReviewInv, NEW c \in Calls, NEW new, call' = [call EXCEPT ![c] = new],
         UNCHANGED <<request, field, confirmed, reserved>>,
         new.step # "release",
         new.step \in HandoffSteps => request[new.player] \in LateStates
  PROVE  ReviewInv'
<1>1. ASSUME NEW k \in Calls PROVE CallMeetsRequest(k)'
  <2>1. CASE k = c
    BY <2>1 DEF CallMeetsRequest, TypeOK, CallType
  <2>2. CASE k # c
    <3>1. call'[k] = call[k]
      BY <2>2 DEF TypeOK, CallType
    <3>2. QED
      BY <3>1 DEF CallMeetsRequest, ReviewInv
  <2>3. QED
    BY <2>1, <2>2
<1>2. QED
  BY <1>1, ReviewFrame

LEMMA NewAgentCallReview ==
  ASSUME TypeOK, ReviewInv, NEW c \in Calls, NEW p, NEW o, NEW s, AgentCall(c, p, o, s),
         UNCHANGED <<request, field, confirmed, reserved>>,
         s # "release",
         s \in HandoffSteps => request[p] \in LateStates
  PROVE  ReviewInv'
<1> DEFINE new == [step |-> s, from |-> "agent", player |-> p, op |-> o, field |-> NoField,
                   number |-> 0]
<1>1. new.step = s /\ new.player = p /\ call' = [call EXCEPT ![c] = new]
  BY DEF AgentCall
<1> HIDE DEF new
<1>2. QED
  BY <1>1, NewCallReview

LEMMA NextReview ==
  ASSUME TypeOK, ReviewInv, "review_race" \notin Hazards, [Next]_vars
  PROVE  ReviewInv'
<1>1. ASSUME NEW p \in Players, NEW f \in Fields, RequestFarm(p, f) PROVE ReviewInv'
  <2>1. /\ request[p] \in {"none", "rejected"}
        /\ \A c \in Calls : ~(call[c].from = "staff" /\ call[c].player = p)
        /\ reserved[f] \in {NoPlayer, p}
    BY <1>1 DEF RequestFarm, FieldFree, Undisturbed, HandledBy
  <2>2. /\ reserved' = [reserved EXCEPT ![f] = p]
        /\ request' = [request EXCEPT ![p] = "pending"]
        /\ field' = [field EXCEPT ![p] = f]
        /\ confirmed' = [confirmed EXCEPT ![p] = FALSE]
        /\ call' = call
    BY <1>1 DEF RequestFarm
  <2>3. ASSUME NEW q \in Players, Live(q)' PROVE field'[q] \in Fields /\ reserved'[field'[q]] = q
    <3>1. CASE q = p
      BY <2>2, <3>1 DEF TypeOK, DataType
    <3>2. CASE q # p
      <4>1. field'[q] = field[q] /\ Live(q)
        BY <2>2, <2>3, <3>2 DEF TypeOK, DataType, Live
      <4>2. field[q] \in Fields /\ reserved[field[q]] = q
        BY <4>1 DEF ReviewInv, LiveNamesField, ReservationBacksRequest
      <4>3. field[q] # f
        BY <2>1, <3>2, <4>2, NullAssumption DEF NullAssumption
      <4>4. QED
        BY <2>2, <4>1, <4>2, <4>3 DEF TypeOK, DataType
    <3>3. QED
      BY <3>1, <3>2
  <2>4. ConfirmedIsLate'
    BY <2>1, <2>2 DEF TypeOK, DataType, ReviewInv, ConfirmedIsLate
  <2>5. ASSUME NEW c \in Calls PROVE CallMeetsRequest(c)'
    <3>1. CallMeetsRequest(c)
      BY DEF ReviewInv
    <3>2. CASE call[c].player = p
      BY <2>1, <2>2, <3>1, <3>2 DEF CallMeetsRequest, LateStates, ManagerStates
    <3>3. CASE call[c].player # p
      BY <2>2, <3>1, <3>3 DEF TypeOK, DataType, CallType, CallRecords, Free, CallMeetsRequest, HandoffSteps
    <3>4. QED
      BY <3>2, <3>3
  <2>6. QED
    BY <2>3, <2>4, <2>5 DEF ReviewInv, ReservationBacksRequest, LiveNamesField
<1>2. ASSUME NEW p \in Players, Register(p) PROVE ReviewInv'
  BY <1>2, ReviewFrame DEF Register, requestVars, ReviewInv, CallMeetsRequest
<1>3. ASSUME NEW c \in Calls, NEW p \in Players, Approve(c, p) PROVE ReviewInv'
  <2>1. UNCHANGED <<request, field, confirmed, reserved>>
    BY <1>3 DEF Approve, requestVars
  <2>2. PICK s \in {"queue_provision", "queue_land"}, f \in {NoField, field[p]},
             n \in {0, NextAttempt(p)} : StaffCall(c, p, s, f, n)
    BY <1>3 DEF Approve
  <2> DEFINE new == [step |-> s, from |-> "staff", player |-> p, op |-> NoOp, field |-> f,
                     number |-> n]
  <2>3. new.step = s /\ call' = [call EXCEPT ![c] = new]
    BY <2>2 DEF StaffCall
  <2> HIDE DEF new
  <2>4. new.step # "release" /\ new.step \notin HandoffSteps
    BY <2>2, <2>3 DEF HandoffSteps
  <2>5. QED
    BY <2>1, <2>3, <2>4, NewCallReview
<1>4. ASSUME NEW c \in Calls, NEW p \in Players, Reject(c, p) PROVE ReviewInv'
  <2>1. /\ request[p] = "pending"
        /\ request' = [request EXCEPT ![p] = "rejected"]
        /\ UNCHANGED <<field, confirmed, reserved>>
    BY <1>4 DEF Reject, Unreviewed
  <2>2. /\ call' = [call EXCEPT ![c] = [step |-> "release", from |-> "staff", player |-> p,
                                        op |-> NoOp, field |-> NoField, number |-> 0]]
    BY <1>4 DEF Reject, StaffCall
  <2>3. ReservationBacksRequest' /\ LiveNamesField' /\ ConfirmedIsLate'
    <3>1. ASSUME NEW q \in Players PROVE Live(q)' => Live(q)
      BY <2>1 DEF TypeOK, DataType, Live, LiveStates, ManagerStates
    <3>2. \A q \in Players : confirmed[q] => q # p /\ request'[q] = request[q]
      BY <2>1 DEF TypeOK, DataType, ReviewInv, ConfirmedIsLate, LateStates, ManagerStates
    <3>3. QED
      BY <2>1, <3>1, <3>2 DEF ReviewInv, ReservationBacksRequest, LiveNamesField, ConfirmedIsLate
  <2>4. ASSUME NEW k \in Calls PROVE CallMeetsRequest(k)'
    <3>1. CASE k = c
      BY <2>1, <2>2, <3>1 DEF TypeOK, DataType, CallType, CallMeetsRequest, HandoffSteps
    <3>2. CASE k # c
      <4>1. call'[k] = call[k] /\ CallMeetsRequest(k)
        BY <2>2, <3>2 DEF TypeOK, CallType, ReviewInv
      <4>2. CASE call[k].player = p
        BY <2>1, <4>1, <4>2 DEF CallMeetsRequest, LateStates, ManagerStates
      <4>3. CASE call[k].player # p
        BY <2>1, <4>1, <4>3 DEF TypeOK, DataType, CallType, Free, CallMeetsRequest, HandoffSteps
      <4>4. QED
        BY <4>2, <4>3
    <3>3. QED
      BY <3>1, <3>2
  <2>5. QED
    BY <2>3, <2>4 DEF ReviewInv
<1>5. ASSUME NEW c \in Calls, NEW p \in Players, Repair(c, p) PROVE ReviewInv'
  BY <1>5, NewAgentCallReview DEF Repair, Repairable, requestVars, LateStates
<1>6. ASSUME NEW c \in Calls, NEW p \in Players, PostProvision(c, p) PROVE ReviewInv'
  <2>1. UNCHANGED <<request, field, confirmed, reserved>>
    BY <1>6 DEF PostProvision, requestVars
  <2>2. PICK s \in Steps : /\ AgentCall(c, p, Provision(p), s)
                           /\ s # "release"
                           /\ s \in HandoffSteps => confirmed[p]
    BY <1>6 DEF PostProvision, Steps, HandoffSteps
  <2>3. s \in HandoffSteps => request[p] \in LateStates
    BY <2>2 DEF ReviewInv, ConfirmedIsLate
  <2>4. QED
    BY <2>1, <2>2, <2>3, NewAgentCallReview
<1>7. ASSUME NEW c \in Calls, NEW o \in Ops, PostLand(c, o) PROVE ReviewInv'
  <2>1. UNCHANGED <<request, field, confirmed, reserved>>
    BY <1>7 DEF PostLand, requestVars
  <2>2. PICK s \in Steps : /\ AgentCall(c, o.player, o, s)
                           /\ s # "release"
                           /\ s \in HandoffSteps => request[o.player] = "land_assigning"
    BY <1>7 DEF PostLand, Steps, HandoffSteps
  <2>3. QED
    BY <2>1, <2>2, NewAgentCallReview DEF LateStates
<1>8. ASSUME NEW c \in Calls, NEW o \in Ops, o.kind = "manager",
             PostManager(c, o.player, o.number)
      PROVE  ReviewInv'
  <2>1. o.player \in Players
    BY DEF Ops, Provision, Land, Manager
  <2>2. UNCHANGED <<field, confirmed, reserved>>
    BY <1>8 DEF PostManager
  <2>3. \/ request' = request
        \/ request[o.player] = "awaiting_manager" /\ request' = [request EXCEPT ![o.player] = "active"]
    BY <1>8, <2>1 DEF PostManager, TypeOK, DataType
  <2>4. PICK s \in {"reply", "refuse", "suspend"} :
          AgentCall(c, o.player, Manager(o.player, o.number), s)
    BY <1>8 DEF PostManager
  <2>5. \A q \in Players : /\ Live(q)' = Live(q)
                           /\ request[q] \in LateStates => request'[q] \in LateStates
                           /\ request[q] = "rejected" => request'[q] = "rejected"
    BY <2>1, <2>3 DEF TypeOK, DataType, Live, LiveStates, LateStates, ManagerStates
  <2>6. ReservationBacksRequest' /\ LiveNamesField' /\ ConfirmedIsLate'
    BY <2>2, <2>5 DEF ReviewInv, ReservationBacksRequest, LiveNamesField, ConfirmedIsLate
  <2>7. ASSUME NEW k \in Calls PROVE CallMeetsRequest(k)'
    <3>1. CASE k = c
      BY <2>4, <3>1 DEF AgentCall, TypeOK, CallType, CallMeetsRequest, HandoffSteps
    <3>2. CASE k # c
      <4>1. call'[k] = call[k] /\ CallMeetsRequest(k) /\ (~Free(k) => call[k].player \in Players)
        BY <2>4, <3>2 DEF AgentCall, TypeOK, CallType, ReviewInv
      <4>2. QED
        BY <2>5, <4>1 DEF CallMeetsRequest, HandoffSteps, Free
    <3>3. QED
      BY <3>1, <3>2
  <2>8. QED
    BY <2>6, <2>7 DEF ReviewInv
<1>9. ASSUME NEW c \in Calls, NEW o \in Ops, Post(c, o) PROVE ReviewInv'
  <2>1. o.player \in Players
    BY DEF Ops, Provision, Land, Manager
  <2>2. QED
    BY <1>6, <1>7, <1>8, <1>9, <2>1 DEF Post
<1>10. ASSUME NEW c \in Calls, CallStep(c) PROVE ReviewInv'
  BY <1>10, CallStepReview
<1>11. CASE Crash
  BY <1>11, ReviewFrame DEF Crash, requestVars, Idle, CallMeetsRequest, HandoffSteps
<1>12. ASSUME UNCHANGED <<request, field, confirmed, reserved, call>> PROVE ReviewInv'
  BY <1>12, ReviewFrame DEF ReviewInv, CallMeetsRequest
<1>13. ASSUME NEW o \in Ops, Dispatch(o) \/ Execute(o) PROVE ReviewInv'
  BY <1>12, <1>13 DEF Dispatch, Execute, ExecuteProvision, ExecuteLand, ExecuteManager,
     restOfExecution, requestVars
<1>14. ASSUME NEW f \in Fields, BuyNatively(f) PROVE ReviewInv'
  BY <1>12, <1>14 DEF BuyNatively, restOfExecution, requestVars
<1>15. CASE Snapshot \/ Timeout \/ UNCHANGED vars
  BY <1>12, <1>15 DEF Snapshot, Timeout, vars, requestVars
<1>16. QED
  BY <1>1, <1>2, <1>3, <1>4, <1>5, <1>9, <1>10, <1>11, <1>13, <1>14, <1>15 DEF Next

(* A live request holds the reservation of its field whatever stops and    *)
(* overlaps, as long as no request is reviewed and renewed at once.        *)
THEOREM ReservationsHold ==
  ASSUME "review_race" \notin Hazards
  PROVE  Spec => []ReservationBacksRequest
<1>1. Init => TypeOK /\ ReviewInv
  BY InitType, InitReview
<1>2. TypeOK /\ ReviewInv /\ [Next]_vars => TypeOK' /\ ReviewInv'
  BY NextType, NextReview
<1>3. ReviewInv => ReservationBacksRequest
  BY DEF ReviewInv
<1>4. QED
  BY <1>1, <1>2, <1>3, PTL DEF Spec

(* No two live requests ever name the same farmland, under the same        *)
(* assumption.                                                             *)
THEOREM FieldsAreExclusive ==
  ASSUME "review_race" \notin Hazards
  PROVE  Spec => []NoFieldRequestedTwice
<1>1. ReservationBacksRequest => NoFieldRequestedTwice
  BY DEF ReservationBacksRequest, NoFieldRequestedTwice
<1>2. QED
  BY <1>1, ReservationsHold, PTL

-------------------------------------------------------------------------------
(* Managers                                                                *)

Jobs == {Manager(p, n) : p \in Players, n \in Revisions}

RevisionsInOrder ==
  \A p \in Players :
    /\ member[p].state = "none" \/ member[p].revision \in Revisions
    /\ \A n \in Revisions : n > member[p].revision => op[Manager(p, n)] = "absent"

ActiveJobSucceeded ==
  \A p \in Players, n \in Revisions :
    member[p] = [state |-> "active", revision |-> n] => op[Manager(p, n)] = "succeeded"

ParkedIsNotApplied ==
  \A o \in Jobs : op[o] = "reconciliation_required" => receipt[o] # "applied"

CallMeetsMember(c) ==
  /\ call[c].step = "hand_over" => member[call[c].player].state = "active"
  /\ call[c].step = "suspend" =>
       /\ \E n \in Revisions : call[c].op = Manager(call[c].player, n)
       /\ op[call[c].op] = "reconciliation_required"
  /\ call[c].step \in {"map_farm", "succeed_provision"} => call[c].op = Provision(call[c].player)
  /\ call[c].step = "succeed_land" => call[c].op.kind = "land"

ManagerInv ==
  /\ ActiveIsManaged
  /\ OneManagerJob
  /\ RevisionsInOrder
  /\ ActiveJobSucceeded
  /\ ParkedIsNotApplied
  /\ \A c \in Calls : CallMeetsMember(c)

LEMMA JobsAreOps ==
  /\ Jobs \subseteq Ops
  /\ \A p \in Players, n \in Revisions : Manager(p, n) \in Jobs
  /\ \A o \in Jobs : o.kind = "manager"
  /\ \A p, q, m, n : Manager(p, m) = Manager(q, n) => p = q /\ m = n
  /\ \A p, n : Manager(p, n).kind = "manager" /\ Manager(p, n).player = p
               /\ Manager(p, n).number = n
  BY DEF Jobs, Ops, Manager

(* Members, their jobs and what calls know of them stay; requests do not   *)
(* become active and jobs get no positive receipt.                         *)
LEMMA ManagerFrame ==
  ASSUME TypeOK, ManagerInv, UNCHANGED member,
         \A o \in Jobs : op'[o] = op[o],
         \A p \in Players : request'[p] = "active" => request[p] = "active",
         \A o \in Jobs : receipt'[o] = "applied" => receipt[o] = "applied",
         \A k \in Calls : call'[k] = call[k] \/ CallMeetsMember(k)'
  PROVE  ManagerInv'
<1>1. ASSUME NEW k \in Calls PROVE CallMeetsMember(k)'
  <2>1. CASE call'[k] = call[k]
    <3>1. CallMeetsMember(k)
      BY DEF ManagerInv
    <3>2. call[k].step = "suspend" => call[k].op \in Jobs
      BY <3>1, JobsAreOps DEF CallMeetsMember, TypeOK, CallType, Free
    <3>3. QED
      BY <2>1, <3>1, <3>2 DEF CallMeetsMember
  <2>2. QED
    BY <2>1
<1>2. ActiveIsManaged'
  BY DEF ManagerInv, ActiveIsManaged
<1>3. OneManagerJob' /\ RevisionsInOrder' /\ ActiveJobSucceeded'
  BY JobsAreOps DEF ManagerInv, OneManagerJob, RevisionsInOrder, ActiveJobSucceeded
<1>4. ParkedIsNotApplied'
  BY DEF ManagerInv, ParkedIsNotApplied
<1>5. QED
  BY <1>1, <1>2, <1>3, <1>4 DEF ManagerInv

(* A new revision starts from a job number never used before.              *)
LEMMA AssignManager ==
  ASSUME TypeOK, ManagerInv, NEW c \in Calls, Assign(c)
  PROVE  ManagerInv'
<1> DEFINE p == call[c].player
           n == member[p].revision
<1>1. p \in Players /\ n \in Nat
  BY DEF Assign, At, TypeOK, CallType, Free, DataType
<1>2. UNCHANGED <<request, receipt>>
  BY DEF Assign, requestVars, mailboxVars
<1>3. \A k \in Calls : call'[k] = call[k] \/ (k = c /\ call'[k].step = "read_membership")
  <2>1. \E m \in {n, n + 1} :
          call' = [call EXCEPT ![c].step = "read_membership", ![c].number = m]
    BY DEF Assign
  <2>2. QED
    BY <2>1 DEF TypeOK, CallType, CallRecords
<1>4. \A k \in Calls : call'[k] = call[k] \/ CallMeetsMember(k)'
  BY <1>3 DEF CallMeetsMember
<1>5. CASE UNCHANGED <<member, op>>
  BY <1>2, <1>4, <1>5, ManagerFrame
<1>6. CASE /\ ~Reusable(member[p])
           /\ n < MaxRevisions
           /\ member' = [member EXCEPT ![p] = [state |-> "pending", revision |-> n + 1]]
           /\ op' = [op EXCEPT ![Manager(p, n + 1)] = "pending"]
  <2>1. n + 1 \in Revisions /\ Manager(p, n + 1) \in Jobs
    BY <1>1, <1>6, BoundAssumption, JobsAreOps DEF Revisions, BoundAssumption
  <2>2. op[Manager(p, n + 1)] = "absent"
    BY <1>1, <2>1 DEF ManagerInv, RevisionsInOrder
  <2>3. member'[p] = [state |-> "pending", revision |-> n + 1]
        /\ \A q \in Players : q # p => member'[q] = member[q]
    BY <1>1, <1>6 DEF TypeOK, DataType
  <2>4. \A o \in Jobs : op'[o] = IF o = Manager(p, n + 1) THEN "pending" ELSE op[o]
    BY <1>6, JobsAreOps DEF TypeOK, DataType
  <2>5. member[p].state \notin {"pending", "active"}
    BY <1>6 DEF Reusable
  <2>6. ActiveIsManaged'
    BY <1>2, <2>3, <2>5 DEF ManagerInv, ActiveIsManaged
  <2>7. OneManagerJob'
    <3>1. ASSUME NEW q \in Players, NEW m \in Revisions, op'[Manager(q, m)] = "pending"
          PROVE  member'[q] = [state |-> "pending", revision |-> m]
      <4>1. CASE q = p /\ m = n + 1
        BY <2>3, <4>1
      <4>2. CASE ~(q = p /\ m = n + 1)
        <5>1. op[Manager(q, m)] = "pending"
          BY <2>4, <3>1, <4>2, JobsAreOps
        <5>2. member[q] = [state |-> "pending", revision |-> m]
          BY <5>1 DEF ManagerInv, OneManagerJob
        <5>3. QED
          BY <2>3, <2>5, <5>2
      <4>3. QED
        BY <4>1, <4>2
    <3>2. QED
      BY <3>1 DEF OneManagerJob
  <2>8. RevisionsInOrder'
    <3>1. ASSUME NEW q \in Players, NEW m \in Revisions, m > member'[q].revision
          PROVE  op'[Manager(q, m)] = "absent"
      <4>1. CASE q = p
        <5>1. m > n + 1 /\ m > n
          BY <1>1, <2>3, <3>1, <4>1 DEF Revisions
        <5>2. QED
          BY <2>1, <2>4, <4>1, <5>1, JobsAreOps DEF ManagerInv, RevisionsInOrder, Revisions
      <4>2. CASE q # p
        BY <2>3, <2>4, <3>1, <4>2, JobsAreOps DEF ManagerInv, RevisionsInOrder
      <4>3. QED
        BY <4>1, <4>2
    <3>2. \A q \in Players : member'[q].state = "none" \/ member'[q].revision \in Revisions
      BY <2>1, <2>3 DEF ManagerInv, RevisionsInOrder
    <3>3. QED
      BY <3>1, <3>2 DEF RevisionsInOrder
  <2>9. ActiveJobSucceeded'
    <3>1. ASSUME NEW q \in Players, NEW m \in Revisions,
                 member'[q] = [state |-> "active", revision |-> m]
          PROVE  op'[Manager(q, m)] = "succeeded"
      <4>1. q # p /\ member[q] = [state |-> "active", revision |-> m]
        BY <2>3, <3>1
      <4>2. QED
        BY <2>4, <4>1, JobsAreOps DEF ManagerInv, ActiveJobSucceeded
    <3>2. QED
      BY <3>1 DEF ActiveJobSucceeded
  <2>10. ParkedIsNotApplied'
    BY <1>2, <2>4 DEF ManagerInv, ParkedIsNotApplied
  <2>11. ASSUME NEW k \in Calls PROVE CallMeetsMember(k)'
    <3>1. CASE call'[k] = call[k]
      <4>1. CallMeetsMember(k)
        BY DEF ManagerInv
      <4>2. call[k].step \in {"hand_over", "suspend"} => call[k].player \in Players
        BY DEF TypeOK, CallType, Free
      <4>3. call[k].step = "suspend" => call[k].op \in Jobs /\ op'[call[k].op] = op[call[k].op]
        BY <2>2, <2>4, <4>1, <4>2, JobsAreOps DEF CallMeetsMember
      <4>4. call[k].step = "hand_over" => call[k].player # p
        BY <2>5, <4>1 DEF CallMeetsMember
      <4>5. QED
        BY <2>3, <3>1, <4>1, <4>2, <4>3, <4>4 DEF CallMeetsMember
    <3>2. QED
      BY <1>4, <3>1
  <2>12. QED
    BY <2>6, <2>7, <2>8, <2>9, <2>10, <2>11 DEF ManagerInv
<1>7. QED
  BY <1>5, <1>6 DEF Assign

(* The three answers of PostManager that write: a manager is confirmed, a  *)
(* job is refused, or nothing changes but the call.                        *)
LEMMA PostManagerManager ==
  ASSUME TypeOK, ManagerInv, NEW c \in Calls, NEW p \in Players, NEW n \in Revisions,
         PostManager(c, p, n)
  PROVE  ManagerInv'
<1> DEFINE o == Manager(p, n)
<1>1. o \in Jobs /\ o \in Ops
  BY JobsAreOps
<1>2. receipt' = receipt
  BY DEF PostManager, AgentCall
<1>3. PICK s \in {"reply", "refuse", "suspend"} :
        /\ AgentCall(c, p, o, s)
        /\ s = "suspend" => op'[o] = "reconciliation_required"
  BY <1>1 DEF PostManager, TypeOK, DataType
<1>4. ASSUME NEW k \in Calls PROVE call'[k] = call[k] \/ CallMeetsMember(k)'
  <2>1. CASE k = c
    <3>1. call'[k].step = s /\ call'[k].player = p /\ call'[k].op = o
      BY <1>3, <2>1 DEF AgentCall, TypeOK, CallType
    <3>2. QED
      BY <1>3, <3>1 DEF CallMeetsMember
  <2>2. CASE k # c
    BY <1>3, <2>2 DEF AgentCall, TypeOK, CallType
  <2>3. QED
    BY <2>1, <2>2
<1>5. CASE /\ receipt[o] = "applied" /\ op[o] # "succeeded" /\ CurrentJob(p, n)
           /\ op' = [op EXCEPT ![o] = "succeeded"]
           /\ member' = [member EXCEPT ![p].state = "active"]
           /\ \/ request' = request
              \/ request' = [request EXCEPT ![p] = "active"]
  <2>1. op[o] # "reconciliation_required"
    BY <1>1, <1>5 DEF ManagerInv, ParkedIsNotApplied
  <2>2. member'[p] = [state |-> "active", revision |-> n]
        /\ \A q \in Players : q # p => member'[q] = member[q]
    BY <1>5 DEF TypeOK, DataType, CurrentJob
  <2>3. \A j \in Jobs : op'[j] = IF j = o THEN "succeeded" ELSE op[j]
    BY <1>5, JobsAreOps DEF TypeOK, DataType
  <2>4. ActiveIsManaged'
    BY <1>5, <2>2 DEF ManagerInv, ActiveIsManaged, TypeOK, DataType
  <2>5. ASSUME NEW q \in Players, NEW m \in Revisions, op'[Manager(q, m)] = "pending"
        PROVE  member'[q] = [state |-> "pending", revision |-> m]
    <3>1. ~(q = p /\ m = n) /\ op[Manager(q, m)] = "pending"
      BY <2>3, <2>5, JobsAreOps
    <3>2. member[q] = [state |-> "pending", revision |-> m]
      BY <3>1 DEF ManagerInv, OneManagerJob
    <3>3. q # p
      BY <1>5, <3>1, <3>2 DEF CurrentJob
    <3>4. QED
      BY <2>2, <3>2, <3>3
  <2>6. ASSUME NEW q \in Players
        PROVE  /\ member'[q].state = "none" \/ member'[q].revision \in Revisions
               /\ member'[q].revision = member[q].revision
    BY <1>5, <2>2 DEF ManagerInv, RevisionsInOrder, CurrentJob
  <2>7. ASSUME NEW q \in Players, NEW m \in Revisions, m > member'[q].revision
        PROVE  op'[Manager(q, m)] = "absent"
    <3>1. op[Manager(q, m)] = "absent"
      BY <2>6, <2>7 DEF ManagerInv, RevisionsInOrder
    <3>2. ~(q = p /\ m = n)
      BY <2>2, <2>7 DEF Revisions
    <3>3. QED
      BY <2>3, <3>1, <3>2, JobsAreOps
  <2>8. ActiveJobSucceeded'
    BY <2>2, <2>3, JobsAreOps DEF ManagerInv, ActiveJobSucceeded
  <2>9. ParkedIsNotApplied'
    BY <1>2, <2>3 DEF ManagerInv, ParkedIsNotApplied
  <2>10. ASSUME NEW k \in Calls PROVE CallMeetsMember(k)'
    <3>1. CASE call'[k] = call[k]
      <4>1. CallMeetsMember(k)
        BY DEF ManagerInv
      <4>2. call[k].step \in {"hand_over", "suspend"} => call[k].player \in Players
        BY DEF TypeOK, CallType, Free
      <4>3. call[k].step = "suspend" => call[k].op \in Jobs /\ op'[call[k].op] = op[call[k].op]
        BY <2>1, <2>3, <4>1, <4>2, JobsAreOps DEF CallMeetsMember
      <4>4. QED
        BY <2>2, <3>1, <4>1, <4>2, <4>3 DEF CallMeetsMember
    <3>2. QED
      BY <1>4, <3>1
  <2>11. QED
    BY <2>4, <2>5, <2>6, <2>7, <2>8, <2>9, <2>10
    DEF ManagerInv, OneManagerJob, RevisionsInOrder
<1>6. CASE /\ receipt[o] # "applied" /\ OpenOp(o)
           /\ op' = [op EXCEPT ![o] = "reconciliation_required"]
           /\ UNCHANGED <<member, request>>
  <2>1. \A j \in Jobs : op'[j] = IF j = o THEN "reconciliation_required" ELSE op[j]
    BY <1>6, JobsAreOps DEF TypeOK, DataType
  <2>2. op[o] \notin {"absent", "succeeded"}
    BY <1>6 DEF OpenOp
  <2>3. ActiveIsManaged' /\ OneManagerJob'
    BY <1>6, <2>1, JobsAreOps DEF ManagerInv, ActiveIsManaged, OneManagerJob
  <2>4. RevisionsInOrder' /\ ActiveJobSucceeded'
    BY <1>6, <2>1, <2>2, JobsAreOps DEF ManagerInv, RevisionsInOrder, ActiveJobSucceeded
  <2>5. ParkedIsNotApplied'
    BY <1>2, <1>6, <2>1 DEF ManagerInv, ParkedIsNotApplied
  <2>6. ASSUME NEW k \in Calls PROVE CallMeetsMember(k)'
    <3>1. CASE call'[k] = call[k]
      <4>1. CallMeetsMember(k)
        BY DEF ManagerInv
      <4>2. call[k].step = "suspend" => call[k].op \in Jobs
        BY <4>1, JobsAreOps DEF CallMeetsMember, TypeOK, CallType, Free
      <4>3. QED
        BY <1>6, <2>1, <3>1, <4>1, <4>2 DEF CallMeetsMember
    <3>2. QED
      BY <1>4, <3>1
  <2>7. QED
    BY <2>3, <2>4, <2>5, <2>6 DEF ManagerInv
<1>7. CASE UNCHANGED <<member, op, request>>
  BY <1>2, <1>4, <1>7, ManagerFrame
<1>8. QED
  BY <1>5, <1>6, <1>7 DEF PostManager, TypeOK, DataType

(* A suspended job never was its member's confirmed one.                   *)
LEMMA SuspendManager ==
  ASSUME TypeOK, ManagerInv, NEW c \in Calls, Suspend(c)
  PROVE  ManagerInv'
<1> DEFINE p == call[c].player
<1>1. PICK n \in Revisions : /\ p \in Players /\ call[c].op = Manager(p, n)
                             /\ op[Manager(p, n)] = "reconciliation_required"
  BY DEF Suspend, At, TypeOK, CallType, Free, ManagerInv, CallMeetsMember
<1>2. UNCHANGED <<request, op, receipt>>
  BY DEF Suspend, requestVars, mailboxVars
<1>3. \A k \in Calls : call'[k] = call[k] \/ CallMeetsMember(k)'
  <2>1. \A k \in Calls : call'[k] = call[k] \/ call'[k].step = "refuse"
    BY DEF Suspend, Goto, TypeOK, CallType, CallRecords
  <2>2. QED
    BY <2>1 DEF CallMeetsMember
<1>4. CASE UNCHANGED member
  BY <1>2, <1>3, <1>4, ManagerFrame
<1>5. CASE /\ member[p].revision = n /\ member[p].state \in {"pending", "active"}
           /\ member' = [member EXCEPT ![p].state = "reconciliation_required"]
  <2>1. member[p].state = "pending"
    <3>1. member[p] = [state |-> member[p].state, revision |-> n]
      BY <1>1, <1>5 DEF TypeOK, DataType
    <3>2. QED
      BY <1>1, <1>5, <3>1 DEF ManagerInv, ActiveJobSucceeded
  <2>2. member'[p] = [state |-> "reconciliation_required", revision |-> n]
        /\ \A q \in Players : q # p => member'[q] = member[q]
    BY <1>1, <1>5 DEF TypeOK, DataType
  <2>3. ActiveIsManaged'
    BY <1>2, <2>1, <2>2 DEF ManagerInv, ActiveIsManaged
  <2>4. OneManagerJob'
    <3>1. ASSUME NEW q \in Players, NEW m \in Revisions, op[Manager(q, m)] = "pending"
          PROVE  member'[q] = [state |-> "pending", revision |-> m]
      <4>1. member[q] = [state |-> "pending", revision |-> m]
        BY <3>1 DEF ManagerInv, OneManagerJob
      <4>2. q # p
        BY <1>1, <1>5, <3>1, <4>1
      <4>3. QED
        BY <2>2, <4>1, <4>2
    <3>2. QED
      BY <1>2, <3>1 DEF OneManagerJob
  <2>5. RevisionsInOrder' /\ ActiveJobSucceeded'
    BY <1>2, <1>5, <2>2 DEF ManagerInv, RevisionsInOrder, ActiveJobSucceeded
  <2>6. ParkedIsNotApplied'
    BY <1>2 DEF ManagerInv, ParkedIsNotApplied
  <2>7. ASSUME NEW k \in Calls PROVE CallMeetsMember(k)'
    <3>1. CASE call'[k] = call[k]
      <4>1. CallMeetsMember(k) /\ (call[k].step = "hand_over" => call[k].player \in Players)
        BY DEF ManagerInv, TypeOK, CallType, Free
      <4>2. QED
        BY <1>2, <2>1, <2>2, <3>1, <4>1 DEF CallMeetsMember
    <3>2. QED
      BY <1>3, <3>1
  <2>8. QED
    BY <2>3, <2>4, <2>5, <2>6, <2>7 DEF ManagerInv
<1>6. \/ UNCHANGED member
      \/ /\ member[p].revision = n /\ member[p].state \in {"pending", "active"}
         /\ member' = [member EXCEPT ![p].state = "reconciliation_required"]
  <2>1. call[c].op.number = n
    BY <1>1, JobsAreOps
  <2>2. CASE member[p].revision = n /\ member[p].state \in {"pending", "active"}
    BY <2>1, <2>2 DEF Suspend
  <2>3. CASE ~(member[p].revision = n /\ member[p].state \in {"pending", "active"})
    BY <1>1, <2>1, <2>3 DEF Suspend, TypeOK, DataType
  <2>4. QED
    BY <2>2, <2>3
<1>7. QED
  BY <1>4, <1>5, <1>6

LEMMA CallStepManager ==
  ASSUME TypeOK, ManagerInv, NEW c \in Calls, CallStep(c)
  PROVE  ManagerInv'
<1> DEFINE p == call[c].player
<1>0. p \in Players /\ call[c] \in CallRecords /\ CallMeetsMember(c)
  <2>1. call[c].step # "idle"
    BY DEF CallStep, Reply, Refuse, QueueProvision, MarkProvisioning, Release, QueueLand, MarkAssigning, MapFarm, SucceedProvision,
           AwaitLand, ReturnLand, SucceedLand, ConfirmLand, Assign, AssignFails, ReadMembership, HandOff, ActivateFarm, Suspend, At
  <2>2. QED
    BY <2>1 DEF TypeOK, CallType, Free, ManagerInv
<1>a. ASSUME NEW s \in Steps, Goto(c, s), s \notin {"hand_over", "suspend", "succeed_provision", "map_farm", "succeed_land"}
      PROVE  \A k \in Calls : call'[k] = call[k] \/ CallMeetsMember(k)'
  BY <1>a DEF Goto, TypeOK, CallType, CallRecords, CallMeetsMember
<1>b. ASSUME NEW o \in Ops, o \notin Jobs, NEW state, op' = [op EXCEPT ![o] = state]
      PROVE  \A j \in Jobs : op'[j] = op[j]
  BY <1>b, JobsAreOps DEF TypeOK, DataType
<1>c. AfterHandoff(c) \in {"confirm", "reply"}
  BY DEF AfterHandoff
<1>1. CASE Reply(c)
  <2>1. \A k \in Calls : call'[k] = call[k] \/ CallMeetsMember(k)'
    BY <1>1 DEF Reply, Accept, End, Idle, TypeOK, CallType, CallMeetsMember
  <2>2. \A o \in Jobs : receipt'[o] = "applied" => receipt[o] = "applied"
    BY <1>1, JobsAreOps DEF Reply, Accept, TypeOK, DataType
  <2>3. QED
    BY <1>1, <2>1, <2>2, ManagerFrame DEF Reply, requestVars
<1>2. CASE Refuse(c)
  <2>1. \A k \in Calls : call'[k] = call[k] \/ CallMeetsMember(k)'
    BY <1>2 DEF Refuse, End, Idle, TypeOK, CallType, CallMeetsMember
  <2>2. \A o \in Jobs : receipt'[o] = "applied" => receipt[o] = "applied"
    BY <1>2, JobsAreOps DEF Refuse, TypeOK, DataType
  <2>3. QED
    BY <1>2, <2>1, <2>2, ManagerFrame DEF Refuse, requestVars
<1>3. CASE QueueProvision(c)
  <2>1. Provision(p) \in Ops /\ Provision(p) \notin Jobs
    BY <1>0, JobsAreOps DEF Ops, Provision
  <2>2. \A j \in Jobs : op'[j] = op[j]
    BY <1>3, <1>b, <2>1 DEF QueueProvision, Queue
  <2>3. \A k \in Calls : call'[k] = call[k] \/ CallMeetsMember(k)'
    BY <1>3, <1>a DEF QueueProvision, Steps
  <2>4. QED
    BY <1>3, <2>2, <2>3, ManagerFrame DEF QueueProvision, centralRest, requestVars, mailboxVars
<1>4. CASE MarkProvisioning(c)
  <2>1. \A k \in Calls : call'[k] = call[k] \/ CallMeetsMember(k)'
    BY <1>4, <1>a DEF MarkProvisioning, Steps
  <2>2. \A q \in Players : request'[q] = "active" => request[q] = "active"
    BY <1>4 DEF MarkProvisioning, TypeOK, DataType
  <2>3. QED
    BY <1>4, <2>1, <2>2, ManagerFrame DEF MarkProvisioning, centralRest, mailboxVars
<1>5. CASE Release(c)
  <2>1. \A k \in Calls : call'[k] = call[k] \/ CallMeetsMember(k)'
    BY <1>5, <1>a DEF Release, Steps
  <2>2. QED
    BY <1>5, <2>1, ManagerFrame DEF Release, centralRest, requestVars, mailboxVars
<1>6. CASE QueueLand(c)
  <2>1. Goto(c, "mark_assigning") \/ Goto(c, "reply")
    BY <1>6 DEF QueueLand
  <2>2. \A k \in Calls : call'[k] = call[k] \/ CallMeetsMember(k)'
    BY <1>a, <2>1 DEF Steps
  <2>3. \A j \in Jobs : op'[j] = op[j]
    <3>1. \/ UNCHANGED op
          \/ op' = [op EXCEPT ![Land(p, call[c].field, call[c].number)] =
                      IF @ = "absent" THEN "pending" ELSE @]
      BY <1>6 DEF QueueLand, Queue
    <3>2. Land(p, call[c].field, call[c].number) \notin Jobs
      BY JobsAreOps DEF Land
    <3>3. QED
      BY <3>1, <3>2, JobsAreOps DEF TypeOK, DataType
  <2>4. UNCHANGED <<member, request, receipt>>
    BY <1>6 DEF QueueLand, centralRest, requestVars, mailboxVars
  <2>5. QED
    BY <2>2, <2>3, <2>4, ManagerFrame
<1>7. CASE MarkAssigning(c)
  <2>1. \A k \in Calls : call'[k] = call[k] \/ CallMeetsMember(k)'
    BY <1>7, <1>a DEF MarkAssigning, Steps
  <2>2. \A q \in Players : request'[q] = "active" => request[q] = "active"
    BY <1>7 DEF MarkAssigning, TypeOK, DataType
  <2>3. QED
    BY <1>7, <2>1, <2>2, ManagerFrame DEF MarkAssigning, centralRest, mailboxVars
<1>8. CASE MapFarm(c)
  <2>1. \A k \in Calls : call'[k] = call[k] \/ (k = c /\ call'[k].step = "succeed_provision"
                           /\ call'[k].op = call[c].op /\ call'[k].player = p)
    BY <1>8 DEF MapFarm, Goto, TypeOK, CallType, CallRecords
  <2>2. call[c].op = Provision(p)
    BY <1>0, <1>8 DEF MapFarm, At, CallMeetsMember
  <2>3. \A k \in Calls : call'[k] = call[k] \/ CallMeetsMember(k)'
    BY <2>1, <2>2 DEF CallMeetsMember
  <2>4. QED
    BY <1>8, <2>3, ManagerFrame DEF MapFarm, centralRest, requestVars, mailboxVars
<1>9. CASE SucceedProvision(c)
  <2>1. Provision(p) \in Ops /\ Provision(p) \notin Jobs /\ call[c].op = Provision(p)
    BY <1>0, <1>9, JobsAreOps DEF Ops, Provision, SucceedProvision, At, CallMeetsMember
  <2>2. \A j \in Jobs : op'[j] = op[j]
    BY <1>9, <1>b, <2>1 DEF SucceedProvision
  <2>3. \A k \in Calls : call'[k] = call[k] \/ CallMeetsMember(k)'
    BY <1>9, <1>a DEF SucceedProvision, Steps
  <2>4. QED
    BY <1>9, <2>2, <2>3, ManagerFrame DEF SucceedProvision, centralRest, requestVars, mailboxVars
<1>10. CASE AwaitLand(c)
  <2>1. \A k \in Calls : call'[k] = call[k] \/ call'[k].step = "queue_land"
    BY <1>10 DEF AwaitLand, TypeOK, CallType, CallRecords
  <2>2. \A k \in Calls : call'[k] = call[k] \/ CallMeetsMember(k)'
    BY <2>1 DEF CallMeetsMember
  <2>3. \A q \in Players : request'[q] = "active" => request[q] = "active"
    BY <1>10 DEF AwaitLand, TypeOK, DataType
  <2>4. QED
    BY <1>10, <2>2, <2>3, ManagerFrame DEF AwaitLand, centralRest, mailboxVars
<1>11. CASE ReturnLand(c)
  <2>1. \A k \in Calls : call'[k] = call[k] \/ CallMeetsMember(k)'
    BY <1>11, <1>a DEF ReturnLand, Steps
  <2>2. \A q \in Players : request'[q] = "active" => request[q] = "active"
    BY <1>11 DEF ReturnLand, TypeOK, DataType
  <2>3. QED
    BY <1>11, <2>1, <2>2, ManagerFrame DEF ReturnLand, centralRest, mailboxVars
<1>12. CASE SucceedLand(c)
  <2>1. call[c].op \notin Jobs
    BY <1>0, <1>12, JobsAreOps DEF SucceedLand, At, CallMeetsMember
  <2>2. \A j \in Jobs : op'[j] = op[j]
    BY <1>12, <2>1, JobsAreOps DEF SucceedLand, TypeOK, DataType
  <2>3. \A k \in Calls : call'[k] = call[k] \/ CallMeetsMember(k)'
    BY <1>12, <1>a DEF SucceedLand, Steps
  <2>4. QED
    BY <1>12, <2>2, <2>3, ManagerFrame DEF SucceedLand, centralRest, requestVars, mailboxVars
<1>13. CASE ConfirmLand(c)
  <2>1. \A k \in Calls : call'[k] = call[k] \/ CallMeetsMember(k)'
    BY <1>13, <1>a DEF ConfirmLand, Steps
  <2>2. \A q \in Players : request'[q] = "active" => request[q] = "active"
    BY <1>13 DEF ConfirmLand, TypeOK, DataType
  <2>3. QED
    BY <1>13, <2>1, <2>2, ManagerFrame DEF ConfirmLand, centralRest, mailboxVars
<1>14. CASE AssignFails(c)
  <2>1. \A k \in Calls : call'[k] = call[k] \/ call'[k].step \in {"confirm", "reply"}
    BY <1>14, <1>c DEF AssignFails, TypeOK, CallType, CallRecords
  <2>2. \A k \in Calls : call'[k] = call[k] \/ CallMeetsMember(k)'
    BY <2>1 DEF CallMeetsMember
  <2>3. \A q \in Players : request'[q] = "active" => request[q] = "active"
    BY <1>14 DEF AssignFails, TypeOK, DataType
  <2>4. QED
    BY <1>14, <2>2, <2>3, ManagerFrame DEF AssignFails, centralRest, mailboxVars
<1>15. CASE ReadMembership(c)
  <2>1. UNCHANGED <<member, op, request, receipt>>
    BY <1>15 DEF ReadMembership, centralRest, requestVars, mailboxVars
  <2>2. \A k \in Calls : call'[k] = call[k]
                           \/ (call'[k].step = "hand_over" /\ call'[k].player = p
                               /\ member[p].state = "active")
                           \/ call'[k].step = "hand_off"
    BY <1>15 DEF ReadMembership, IsManager, Goto, TypeOK, CallType, CallRecords
  <2>3. \A k \in Calls : call'[k] = call[k] \/ CallMeetsMember(k)'
    BY <2>1, <2>2 DEF CallMeetsMember
  <2>4. QED
    BY <2>1, <2>3, ManagerFrame
<1>16. CASE HandOff(c)
  <2>1. UNCHANGED <<member, op, receipt>>
    BY <1>16 DEF HandOff, centralRest, mailboxVars
  <2>2. call[c].step = "hand_over" \/ request'[p] # "active"
    BY <1>0, <1>16 DEF HandOff, At, TypeOK, DataType
  <2>3. call[c].step = "hand_over" => member[p].state = "active"
    BY <1>0 DEF CallMeetsMember
  <2>4. \A q \in Players : request'[q] = "active" => member'[q].state = "active"
    <3>1. \A q \in Players : q # p => request'[q] = request[q]
      BY <1>16 DEF HandOff, TypeOK, DataType
    <3>2. QED
      BY <2>1, <2>2, <2>3, <3>1 DEF ManagerInv, ActiveIsManaged
  <2>5. \A k \in Calls : call'[k] = call[k] \/ call'[k].step \in {"activate_farm", "confirm", "reply"}
    BY <1>16, <1>c DEF HandOff, Goto, TypeOK, CallType, CallRecords
  <2>6. \A k \in Calls : CallMeetsMember(k)'
    BY <2>1, <2>5 DEF CallMeetsMember, ManagerInv
  <2>7. QED
    BY <2>1, <2>4, <2>6 DEF ManagerInv, ActiveIsManaged, OneManagerJob, RevisionsInOrder,
       ActiveJobSucceeded, ParkedIsNotApplied
<1>17. CASE ActivateFarm(c)
  <2>1. \A k \in Calls : call'[k] = call[k] \/ call'[k].step \in {"confirm", "reply"}
    BY <1>17, <1>c DEF ActivateFarm, Goto, TypeOK, CallType, CallRecords
  <2>2. \A k \in Calls : call'[k] = call[k] \/ CallMeetsMember(k)'
    BY <2>1 DEF CallMeetsMember
  <2>3. QED
    BY <1>17, <2>2, ManagerFrame DEF ActivateFarm, centralRest, requestVars, mailboxVars
<1>18. CASE Assign(c) \/ Suspend(c)
  BY <1>18, AssignManager, SuspendManager
<1>19. QED
  BY <1>1, <1>2, <1>3, <1>4, <1>5, <1>6, <1>7, <1>8, <1>9, <1>10, <1>11, <1>12, <1>13, <1>14, <1>15, <1>16, <1>17, <1>18 DEF CallStep

LEMMA InitManager == Init => ManagerInv
  BY JobsAreOps DEF Init, ManagerInv, ActiveIsManaged, OneManagerJob, RevisionsInOrder,
     ActiveJobSucceeded, ParkedIsNotApplied, CallMeetsMember, Idle

(* A receipt or repair begins a call and may settle an operation that is   *)
(* not a manager job.                                                      *)
LEMMA NewAgentCallManager ==
  ASSUME TypeOK, ManagerInv, NEW c \in Calls, NEW p, NEW o, NEW s, AgentCall(c, p, o, s),
         UNCHANGED <<request, member>>,
         \A j \in Jobs : op'[j] = op[j],
         s \notin {"hand_over", "suspend", "succeed_provision"},
         s = "map_farm" => o = Provision(p),
         s = "succeed_land" => o.kind = "land"
  PROVE  ManagerInv'
<1>1. ASSUME NEW k \in Calls PROVE call'[k] = call[k] \/ CallMeetsMember(k)'
  <2>1. CASE k = c
    <3>1. call'[k].step = s /\ call'[k].player = p /\ call'[k].op = o
      BY <2>1 DEF AgentCall, TypeOK, CallType
    <3>2. QED
      BY <3>1 DEF CallMeetsMember
  <2>2. CASE k # c
    BY <2>2 DEF AgentCall, TypeOK, CallType
  <2>3. QED
    BY <2>1, <2>2
<1>2. receipt' = receipt
  BY DEF AgentCall
<1>3. QED
  BY <1>1, <1>2, ManagerFrame

LEMMA NewStaffCallManager ==
  ASSUME TypeOK, ManagerInv, NEW c \in Calls, NEW p, NEW f, NEW n, NEW s,
         StaffCall(c, p, s, f, n),
         UNCHANGED <<member, op>>,
         \A q \in Players : request'[q] = "active" => request[q] = "active",
         s \in {"queue_provision", "queue_land", "release"}
  PROVE  ManagerInv'
<1>1. ASSUME NEW k \in Calls PROVE call'[k] = call[k] \/ call'[k].step = s
  BY DEF StaffCall, TypeOK, CallType
<1>2. \A k \in Calls : call'[k] = call[k] \/ CallMeetsMember(k)'
  BY <1>1 DEF CallMeetsMember
<1>3. receipt' = receipt
  BY DEF StaffCall, mailboxVars
<1>4. QED
  BY <1>2, <1>3, ManagerFrame

LEMMA NextManager ==
  ASSUME TypeOK, ManagerInv, [Next]_vars
  PROVE  ManagerInv'
<1>1. ASSUME NEW p \in Players, NEW f \in Fields, RequestFarm(p, f) PROVE ManagerInv'
  <2>1. \A q \in Players : request'[q] = "active" => request[q] = "active"
    BY <1>1 DEF RequestFarm, TypeOK, DataType
  <2>2. QED
    BY <1>1, <2>1, ManagerFrame DEF RequestFarm, mailboxVars
<1>2. ASSUME NEW p \in Players, Register(p) PROVE ManagerInv'
  BY <1>2, ManagerFrame DEF Register, requestVars, mailboxVars
<1>3. ASSUME NEW c \in Calls, NEW p \in Players, Approve(c, p) PROVE ManagerInv'
  <2>1. PICK s \in {"queue_provision", "queue_land"}, f \in {NoField, field[p]},
             n \in {0, NextAttempt(p)} : StaffCall(c, p, s, f, n)
    BY <1>3 DEF Approve
  <2>2. UNCHANGED <<request, member, op>>
    BY <1>3 DEF Approve, requestVars, centralRest
  <2>3. QED
    BY <2>1, <2>2, NewStaffCallManager
<1>4. ASSUME NEW c \in Calls, NEW p \in Players, Reject(c, p) PROVE ManagerInv'
  <2>1. \A q \in Players : request'[q] = "active" => request[q] = "active"
    BY <1>4 DEF Reject, TypeOK, DataType
  <2>2. StaffCall(c, p, "release", NoField, 0) /\ UNCHANGED <<member, op>>
    BY <1>4 DEF Reject, centralRest
  <2>3. QED
    BY <2>1, <2>2, NewStaffCallManager
<1>5. ASSUME NEW c \in Calls, NEW p \in Players, Repair(c, p) PROVE ManagerInv'
  BY <1>5, NewAgentCallManager DEF Repair, requestVars, centralRest
<1>6. ASSUME NEW c \in Calls, NEW p \in Players, PostProvision(c, p) PROVE ManagerInv'
  <2>1. PICK s \in {"assign", "reply", "map_farm"} : AgentCall(c, p, Provision(p), s)
    BY <1>6 DEF PostProvision
  <2>2. \A j \in Jobs : op'[j] = op[j]
    <3>1. Provision(p) \notin Jobs
      BY JobsAreOps DEF Provision
    <3>2. QED
      BY <1>6, <3>1, JobsAreOps DEF PostProvision, TypeOK, DataType
  <2>3. UNCHANGED <<request, member>>
    BY <1>6 DEF PostProvision, requestVars, centralRest
  <2>4. QED
    BY <2>1, <2>2, <2>3, NewAgentCallManager
<1>7. ASSUME NEW c \in Calls, NEW o \in Ops, PostLand(c, o) PROVE ManagerInv'
  <2>1. o.kind = "land" /\ UNCHANGED <<request, member>>
    BY <1>7 DEF PostLand, requestVars, centralRest
  <2>2. PICK s \in {"return_land", "reply", "succeed_land"} : AgentCall(c, o.player, o, s)
    BY <1>7 DEF PostLand
  <2>3. \A j \in Jobs : op'[j] = op[j]
    <3>1. o \notin Jobs
      BY <2>1, JobsAreOps
    <3>2. QED
      BY <1>7, <3>1, JobsAreOps DEF PostLand, TypeOK, DataType
  <2>4. QED
    BY <2>1, <2>2, <2>3, NewAgentCallManager
<1>8. ASSUME NEW c \in Calls, NEW o \in Ops, Post(c, o) PROVE ManagerInv'
  <2>1. o.player \in Players /\ (o.kind = "manager" => o.number \in Revisions)
    BY DEF Ops, Provision, Land, Manager
  <2>2. QED
    BY <1>6, <1>7, <1>8, <2>1, PostManagerManager DEF Post
<1>9. ASSUME NEW c \in Calls, CallStep(c) PROVE ManagerInv'
  BY <1>9, CallStepManager
<1>10. ASSUME NEW o \in Ops, Dispatch(o) PROVE ManagerInv'
  <2>1. \A j \in Jobs : op'[j] = op[j]
    BY <1>10, JobsAreOps DEF Dispatch, TypeOK, DataType
  <2>2. QED
    BY <1>10, <2>1, ManagerFrame DEF Dispatch, requestVars, centralRest, mailboxVars
<1>11. ASSUME NEW o \in Ops, Execute(o) PROVE ManagerInv'
  <2>1. UNCHANGED <<request, member, op, call>>
    BY <1>11 DEF Execute, ExecuteProvision, ExecuteLand, ExecuteManager, restOfExecution,
       requestVars, centralRest
  <2>2. \A j \in Jobs : receipt'[j] = receipt[j] \/ op[j] = "pending"
    <3>1. CASE ExecuteProvision(o.player)
      <4>1. PICK status : receipt' = [receipt EXCEPT ![Provision(o.player)] = status]
        BY <3>1 DEF ExecuteProvision, Answer
      <4>2. Provision(o.player) \notin Jobs
        BY JobsAreOps DEF Provision
      <4>3. QED
        BY <4>1, <4>2, JobsAreOps DEF TypeOK, DataType
    <3>2. CASE ExecuteLand(o)
      <4>1. PICK status : receipt' = [receipt EXCEPT ![o] = status]
        BY <3>2 DEF ExecuteLand, Answer
      <4>2. o \notin Jobs
        BY <3>2, JobsAreOps DEF ExecuteLand
      <4>3. QED
        BY <4>1, <4>2, JobsAreOps DEF TypeOK, DataType
    <3>3. CASE ExecuteManager(o.player, o.number)
      <4>1. PICK status : receipt' = [receipt EXCEPT ![Manager(o.player, o.number)] = status]
        BY <3>3 DEF ExecuteManager, Answer
      <4>2. op[Manager(o.player, o.number)] = "pending"
        BY <3>3 DEF ExecuteManager
      <4>3. QED
        BY <4>1, <4>2, JobsAreOps DEF TypeOK, DataType
    <3>4. QED
      BY <1>11, <3>1, <3>2, <3>3 DEF Execute
  <2>3. ActiveIsManaged' /\ OneManagerJob' /\ RevisionsInOrder' /\ ActiveJobSucceeded'
    BY <2>1 DEF ManagerInv, ActiveIsManaged, OneManagerJob, RevisionsInOrder, ActiveJobSucceeded
  <2>4. ParkedIsNotApplied'
    BY <2>1, <2>2 DEF ManagerInv, ParkedIsNotApplied
  <2>5. \A k \in Calls : CallMeetsMember(k)'
    BY <2>1 DEF ManagerInv, CallMeetsMember
  <2>6. QED
    BY <2>3, <2>4, <2>5 DEF ManagerInv
<1>12. ASSUME NEW f \in Fields, BuyNatively(f) PROVE ManagerInv'
  BY <1>12, ManagerFrame DEF BuyNatively, restOfExecution, requestVars, centralRest
<1>13. CASE Crash
  <2>1. \A k \in Calls : CallMeetsMember(k)'
    BY <1>13 DEF Crash, Idle, CallMeetsMember
  <2>2. QED
    BY <1>13, <2>1, ManagerFrame DEF Crash, requestVars
<1>14. CASE Snapshot \/ Timeout \/ UNCHANGED vars
  BY <1>14, ManagerFrame DEF Snapshot, Timeout, vars, requestVars, mailboxVars
<1>15. QED
  BY <1>1, <1>2, <1>3, <1>4, <1>5, <1>8, <1>9, <1>10, <1>11, <1>12, <1>13, <1>14 DEF Next

(* What requests, memberships, manager jobs and calls in progress agree on *)
(* at every step, with every hazard let in.                                *)
THEOREM ManagersAgree == Spec => []ManagerInv
<1>1. Init => TypeOK /\ ManagerInv
  BY InitType, InitManager
<1>2. TypeOK /\ ManagerInv /\ [Next]_vars => TypeOK' /\ ManagerInv'
  BY NextType, NextManager
<1>3. QED
  BY <1>1, <1>2, PTL DEF Spec

(* A request is active only with a manager the game has confirmed.         *)
THEOREM ActiveRequestsAreManaged == Spec => []ActiveIsManaged
<1>1. ManagerInv => ActiveIsManaged
  BY DEF ManagerInv
<1>2. QED
  BY <1>1, ManagersAgree, PTL

(* No handoff, repair or repeated receipt leaves a second executable job.  *)
THEOREM OneJobPerMember == Spec => []OneManagerJob
<1>1. ManagerInv => OneManagerJob
  BY DEF ManagerInv
<1>2. QED
  BY <1>1, ManagersAgree, PTL

(* Requests, memberships and their jobs agree on who is a manager.         *)
THEOREM ManagersAreHeld == Spec => []ManagersHold
<1>1. ActiveIsManaged /\ OneManagerJob => ManagersHold
  BY DEF ManagersHold
<1>2. QED
  BY <1>1, ActiveRequestsAreManaged, OneJobPerMember, PTL
===============================================================================
