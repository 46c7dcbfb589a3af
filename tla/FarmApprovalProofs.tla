-------------------------- MODULE FarmApprovalProofs --------------------------
(***************************************************************************)
(* More theorems about FarmProvisioning: what stands behind a request      *)
(* (RequestsAreBacked), what a decision of staff leads to                  *)
(* (DecisionsAreKept), and that requests do not fall back                  *)
(* (RequestsMoveForward), for all constants.                               *)
(*                                                                         *)
(* The inductive invariants stand on ReviewInv and ManagerInv, each        *)
(* with the hazards its argument cannot bear left out of its hypotheses:   *)
(*   FoundingInv   reviews of one request do not race                      *)
(*   ApprovalInv   and Central does not stop                               *)
(*   ForwardInv    and calls on one request do not overlap                 *)
(* HandoffInv, for an active farm, only needs calls that do not overlap.   *)
(***************************************************************************)
EXTENDS FarmProvisioningProofs

-------------------------------------------------------------------------------
(* Invariants                                                              *)

(* The farm exists, is known to Central, owns some land, owns its field.   *)
Mapped(p) == p \in founded /\ mapping[p] # "none"
Landed(p) == \E f \in Fields : owner[f] = p
OwnsField(p) == owner[field[p]] = p

(* What receipts say of the game, and what Central goes on from that.      *)
ReceiptsAreTrue ==
  \A o \in Ops :
    /\ receipt[o] # "none" => op[o] # "absent"
    /\ receipt[o] = "applied" /\ o.kind = "provision" => o.player \in founded
    /\ receipt[o] = "applied" /\ o.kind = "land" => owner[o.field] = o.player

CallMeetsFarm(c) ==
  /\ call[c].step = "map_farm" => call[c].player \in founded
  /\ call[c].step \in {"succeed_provision", "await_land"} => Mapped(call[c].player)
  /\ call[c].step \in HandoffSteps => Landed(call[c].player)

FoundingInv ==
  /\ ReceiptsAreTrue
  /\ FarmBeforeLand
  /\ LandIsGranted
  /\ \A p \in Players :
       /\ mapping[p] # "none" => p \in founded
       /\ request[p] \in LateStates => Mapped(p)
       /\ confirmed[p] => Landed(p)
  /\ \A c \in Calls : CallMeetsFarm(c)

(* Without stops, a farm operation means an approval that is final.        *)
Asked(p) == op[Provision(p)] # "absent"
Decided(p) == request[p] \notin {"none", "pending", "rejected"}
Marking(p) == \E c \in Calls : call[c].step = "mark_provisioning" /\ call[c].player = p
Releasing(p) == \E c \in Calls : call[c].step = "release" /\ call[c].player = p

AskedSteps == {"mark_provisioning", "map_farm", "succeed_provision", "await_land", "queue_land"}

CallMeetsApproval(c) ==
  LET p == call[c].player IN
  /\ call[c].step \in AskedSteps => Asked(p)
  /\ call[c].step \in {"queue_provision", "mark_provisioning"} =>
       call[c].from = "staff" /\ request[p] = "pending"
  /\ call[c].step = "queue_land" => call[c].field = field[p]
  /\ call[c].step \in HandoffSteps => OwnsField(p)

OneReview ==
  \A c, d \in Calls :
    /\ ~Free(c) /\ ~Free(d) /\ c # d
    /\ call[c].from = "staff" /\ call[d].from = "staff"
    => call[c].player # call[d].player

ApprovalInv ==
  /\ LandIsProven
  /\ \A p \in Players :
       /\ Decided(p) => Asked(p)
       /\ Asked(p) => Decided(p) \/ Marking(p)
       /\ confirmed[p] => OwnsField(p)
  /\ \A o \in Ops :
       op[o] # "absent" => Asked(o.player) /\ (o.kind = "land" => o.field = field[o.player])
  /\ \A f \in Fields, p \in Players :
       reserved[f] = p => field[p] = f /\ (Live(p) \/ Releasing(p))
  /\ \A c \in Calls : CallMeetsApproval(c)

(* Without overlaps a membership read stays true until it is used, also    *)
(* across stops.                                                           *)
HandoffInv ==
  /\ \A p \in Players : member[p].state # "none" => p \in registered
  /\ \A c \in Calls : /\ ~Free(c) => call[c].from \in {"staff", "agent"}
                      /\ call[c].step = "hand_off" => member[call[c].player].state # "active"

(* With no hazard one call works on a request, and what it read holds.     *)
OneCallEach == \A c, d \in Calls : ~Free(c) /\ ~Free(d) /\ c # d => call[c].player # call[d].player
Working(p) == \E c \in Calls : call[c].step = "mark_assigning" /\ call[c].player = p

CallMeetsAttempt(c) ==
  LET p == call[c].player IN
  /\ call[c].step \in {"map_farm", "succeed_provision", "await_land"} => request[p] = "provisioning"
  /\ call[c].step = "await_land" => op[Provision(p)] = "succeeded"
  /\ call[c].step \in {"queue_land", "mark_assigning"} =>
       /\ request[p] = "land_pending"
       /\ call[c].number = attempt[p] + 1 /\ attempt[p] < MaxAttempts
  /\ call[c].step = "mark_assigning" => OpenOp(Land(p, field[p], attempt[p] + 1))
  /\ call[c].step = "succeed_land" => call[c].op.player = p

RequestMeetsAttempt(p) ==
  /\ request[p] \in LateStates => op[Provision(p)] = "succeeded"
  /\ \A o \in Ops : o.kind = "land" /\ o.player = p /\ op[o] # "absent" =>
       o.number <= attempt[p] + (IF Working(p) THEN 1 ELSE 0)

AttemptSteps == {"map_farm", "succeed_provision", "await_land", "queue_land", "mark_assigning",
                 "succeed_land"}

ForwardInv ==
  /\ \A p \in Players : RequestMeetsAttempt(p)
  /\ \A c \in Calls : CallMeetsAttempt(c)

-------------------------------------------------------------------------------
(* What stands behind a request                                            *)

(* Writes of operations, and of calls, on top of unchanged requests.       *)
LEMMA FoundingFrame ==
  ASSUME TypeOK, FoundingInv,
         UNCHANGED <<request, confirmed, mapping, founded, owner, receipt>>,
         \A o \in Ops : op[o] # "absent" => op'[o] # "absent",
         \A o \in Ops : o.kind = "land" /\ op'[o] # "absent" =>
           op[o] # "absent" \/ mapping[o.player] # "none",
         \A k \in Calls : call'[k] = call[k] \/ CallMeetsFarm(k)'
  PROVE  FoundingInv'
<1>1. \A p \in Players : mapping[p] # "none" => p \in founded
  BY DEF FoundingInv
<1>2. \A o \in Ops : o.player \in Players
  BY DEF Ops, Provision, Land, Manager
<1>3. FarmBeforeLand'
  BY <1>1, <1>2 DEF FoundingInv, FarmBeforeLand
<1>4. ReceiptsAreTrue'
  BY DEF FoundingInv, ReceiptsAreTrue
<1>5. ASSUME NEW k \in Calls PROVE CallMeetsFarm(k)'
  BY DEF FoundingInv, CallMeetsFarm, Mapped, Landed
<1>6. LandIsGranted' /\ \A p \in Players : /\ mapping'[p] # "none" => p \in founded'
                                           /\ request'[p] \in LateStates => Mapped(p)'
                                           /\ confirmed'[p] => Landed(p)'
  BY DEF FoundingInv, LandIsGranted, Mapped, Landed
<1>7. QED
  BY <1>3, <1>4, <1>5, <1>6 DEF FoundingInv

LEMMA OpFields ==
  /\ \A p \in Players : Provision(p) \in Ops
  /\ \A p \in Players, f \in Fields, n \in Attempts : Land(p, f, n) \in Ops
  /\ \A p, f, n : /\ Provision(p).kind = "provision" /\ Provision(p).player = p
                 /\ Land(p, f, n).kind = "land" /\ Land(p, f, n).player = p
                 /\ Land(p, f, n).field = f /\ Land(p, f, n).number = n
                 /\ Manager(p, n).kind = "manager" /\ Manager(p, n).player = p
  /\ \A o \in Ops : /\ o.player \in Players
                    /\ o.kind = "provision" => o = Provision(o.player)
                    /\ o.kind = "land" => /\ o = Land(o.player, o.field, o.number)
                                          /\ o.field \in Fields /\ o.number \in Attempts
                    /\ o.kind \in {"provision", "land", "manager"}
<1>1. \A p, f, n : /\ Provision(p).kind = "provision" /\ Provision(p).player = p
                   /\ Land(p, f, n).kind = "land" /\ Land(p, f, n).player = p
                   /\ Land(p, f, n).field = f /\ Land(p, f, n).number = n
                   /\ Manager(p, n).kind = "manager" /\ Manager(p, n).player = p
  BY DEF Provision, Land, Manager
<1>2. ASSUME NEW o \in Ops
      PROVE  \/ \E p \in Players : o = Provision(p)
             \/ \E p \in Players, f \in Fields, n \in Attempts : o = Land(p, f, n)
             \/ \E p \in Players, n \in Revisions : o = Manager(p, n)
  BY DEF Ops
<1>3. QED
  BY <1>1, <1>2 DEF Ops

LEMMA CallStepFounding ==
  ASSUME TypeOK, ReviewInv, ManagerInv, FoundingInv, NEW c \in Calls, CallStep(c)
  PROVE  FoundingInv'
<1> USE DEF TypeOK, DataType, CallType, Free, requestVars, mailboxVars, gameVars, centralRest, At,
        ReviewInv, CallMeetsRequest, FoundingInv, ReceiptsAreTrue, FarmBeforeLand, LandIsGranted, Mapped, Landed,
        ManagerStates, LateStates, HandoffSteps, CallMeetsFarm
<1>0. call[c].player \in Players
  BY DEF CallStep, Reply, Refuse, QueueProvision, MarkProvisioning, Release, QueueLand, MarkAssigning, MapFarm, SucceedProvision,
         AwaitLand, ReturnLand, SucceedLand, ConfirmLand, Assign, AssignFails, ReadMembership, HandOff, ActivateFarm, Suspend
<1>1. CASE Reply(c)
  BY <1>0, <1>1 DEF Reply, Accept, End, Idle
<1>2. CASE Refuse(c)
  BY <1>0, <1>2 DEF Refuse, End, Idle
<1>3. CASE QueueProvision(c)
  <2>1. UNCHANGED <<request, confirmed, mapping, founded, owner, receipt>>
    BY <1>3 DEF QueueProvision
  <2>2. \A o \in Ops : /\ op[o] # "absent" => op'[o] # "absent"
                       /\ o.kind = "land" => op'[o] = op[o]
    BY <1>3, OpFields DEF QueueProvision, Queue
  <2>3. \A k \in Calls : call'[k] = call[k] \/ CallMeetsFarm(k)'
    BY <1>0, <1>3 DEF QueueProvision, Goto
  <2>4. QED
    BY <2>1, <2>2, <2>3, FoundingFrame
<1>4. CASE MarkProvisioning(c)
  BY <1>0, <1>4 DEF MarkProvisioning, Goto
<1>5. CASE Release(c)
  BY <1>0, <1>5 DEF Release, Goto
<1>6. CASE QueueLand(c)
  <2> DEFINE p == call[c].player
             o == Land(p, call[c].field, call[c].number)
  <2>1. UNCHANGED <<request, confirmed, mapping, founded, owner, receipt>>
    BY <1>6 DEF QueueLand
  <2>2. \/ op' = op
        \/ mapping[p] # "none" /\ op' = [op EXCEPT ![o] = IF @ = "absent" THEN "pending" ELSE @]
    BY <1>6 DEF QueueLand, Queue
  <2>3. \A q \in Ops : /\ op[q] # "absent" => op'[q] # "absent"
                       /\ op'[q] # "absent" => op[q] # "absent" \/ mapping[q.player] # "none"
    <3>1. o.player = p
      BY OpFields
    <3> HIDE DEF o
    <3>2. QED
      BY <2>2, <3>1
  <2>4. \A k \in Calls : call'[k] = call[k] \/ CallMeetsFarm(k)'
    <3>1. Goto(c, "mark_assigning") \/ Goto(c, "reply")
      BY <1>6 DEF QueueLand
    <3>2. \A k \in Calls : call'[k] = call[k] \/ call'[k].step \in {"mark_assigning", "reply"}
      BY <3>1 DEF Goto, CallRecords
    <3>3. QED
      BY <3>2
  <2>5. QED
    BY <2>1, <2>3, <2>4, FoundingFrame
<1>7. CASE MarkAssigning(c)
  BY <1>0, <1>7 DEF MarkAssigning, Goto
<1>8. CASE MapFarm(c)
  BY <1>0, <1>8 DEF MapFarm, Goto
<1>9. CASE SucceedProvision(c)
  <2>1. UNCHANGED <<request, confirmed, mapping, founded, owner, receipt>>
    BY <1>9 DEF SucceedProvision
  <2>2. op' = [op EXCEPT ![Provision(call[c].player)] = "succeeded"]
    BY <1>9 DEF SucceedProvision, ManagerInv, CallMeetsMember
  <2>3. \A o \in Ops : /\ op[o] # "absent" => op'[o] # "absent"
                       /\ o.kind = "land" => op'[o] = op[o]
    BY <2>2, OpFields
  <2>4. \A k \in Calls : call'[k] = call[k] \/ CallMeetsFarm(k)'
    BY <1>0, <1>9 DEF SucceedProvision, Goto
  <2>5. QED
    BY <2>1, <2>3, <2>4, FoundingFrame
<1>10. CASE AwaitLand(c)
  BY <1>0, <1>10 DEF AwaitLand
<1>11. CASE ReturnLand(c)
  BY <1>0, <1>11 DEF ReturnLand, Goto
<1>12. CASE SucceedLand(c)
  <2>1. UNCHANGED <<request, confirmed, mapping, founded, owner, receipt>>
    BY <1>12 DEF SucceedLand
  <2>2. \A o \in Ops : op'[o] = op[o] \/ (OpenOp(o) /\ op'[o] = "succeeded")
    BY <1>12 DEF SucceedLand, OpenOp
  <2>3. \A k \in Calls : call'[k] = call[k] \/ CallMeetsFarm(k)'
    BY <1>0, <1>12 DEF SucceedLand, Goto
  <2>4. QED
    BY <2>1, <2>2, <2>3, FoundingFrame DEF OpenOp
<1>13. CASE ConfirmLand(c)
  BY <1>0, <1>13 DEF ConfirmLand, Goto
<1>14. CASE Assign(c)
  <2>1. UNCHANGED <<request, confirmed, mapping, founded, owner, receipt>>
    BY <1>14 DEF Assign
  <2>2. \/ op' = op
        \/ op' = [op EXCEPT ![Manager(call[c].player, member[call[c].player].revision + 1)] = "pending"]
    BY <1>14 DEF Assign
  <2>3. \A o \in Ops : /\ op[o] # "absent" => op'[o] # "absent"
                       /\ o.kind = "land" => op'[o] = op[o]
    BY <2>2, OpFields
  <2>4. Landed(call[c].player)
    BY <1>0, <1>14 DEF Assign
  <2>5. \A k \in Calls : call'[k] = call[k] \/ (call'[k].player = call[c].player
                                              /\ call'[k].step = "read_membership")
    <3>1. \/ call' = [call EXCEPT ![c].step = "read_membership",
                                   ![c].number = member[call[c].player].revision]
          \/ call' = [call EXCEPT ![c].step = "read_membership",
                                   ![c].number = member[call[c].player].revision + 1]
      BY <1>14 DEF Assign
    <3>2. QED
      BY <3>1 DEF CallRecords
  <2>6. \A k \in Calls : call'[k] = call[k] \/ CallMeetsFarm(k)'
    BY <2>1, <2>4, <2>5
  <2>7. QED
    BY <2>1, <2>3, <2>6, FoundingFrame
<1>15. CASE AssignFails(c)
  BY <1>0, <1>15 DEF AssignFails, AfterHandoff
<1>16. CASE ReadMembership(c)
  BY <1>0, <1>16 DEF ReadMembership, Goto
<1>17. CASE HandOff(c)
  BY <1>0, <1>17 DEF HandOff, Goto, AfterHandoff
<1>18. CASE ActivateFarm(c)
  BY <1>0, <1>18 DEF ActivateFarm, Goto, AfterHandoff
<1>19. CASE Suspend(c)
  BY <1>0, <1>19 DEF Suspend, Goto
<1>20. QED
  BY <1>1, <1>2, <1>3, <1>4, <1>5, <1>6, <1>7, <1>8, <1>9, <1>10, <1>11, <1>12, <1>13, <1>14, <1>15, <1>16, <1>17, <1>18, <1>19 DEF CallStep

LEMMA InitFounding == Init => FoundingInv
  BY DEF Init, FoundingInv, ReceiptsAreTrue, FarmBeforeLand, LandIsGranted, LateStates,
     ManagerStates, CallMeetsFarm, HandoffSteps, Idle

(* A receipt or repair begins a call where its request stands.             *)
LEMMA NewAgentCallFounding ==
  ASSUME TypeOK, FoundingInv, NEW c \in Calls, NEW p, NEW o, NEW s, AgentCall(c, p, o, s),
         UNCHANGED <<request, confirmed, mapping, founded, owner>>,
         \A q \in Ops : op[q] # "absent" => op'[q] # "absent",
         \A q \in Ops : q.kind = "land" /\ op'[q] # "absent" => op[q] # "absent",
         s = "map_farm" => p \in founded,
         s \notin {"succeed_provision", "await_land"},
         s \in HandoffSteps => Landed(p)
  PROVE  FoundingInv'
<1>1. ASSUME NEW k \in Calls PROVE call'[k] = call[k] \/ CallMeetsFarm(k)'
  <2>1. CASE k = c
    <3>1. call'[k].step = s /\ call'[k].player = p
      BY <2>1 DEF AgentCall, TypeOK, CallType
    <3>2. QED
      BY <3>1 DEF CallMeetsFarm, Landed
  <2>2. CASE k # c
    BY <2>2 DEF AgentCall, TypeOK, CallType
  <2>3. QED
    BY <2>1, <2>2
<1>2. receipt' = receipt
  BY DEF AgentCall
<1>3. QED
  BY <1>1, <1>2, FoundingFrame

LEMMA NextFounding ==
  ASSUME TypeOK, ReviewInv, ManagerInv, FoundingInv, [Next]_vars
  PROVE  FoundingInv'
<1>1. ASSUME NEW p \in Players, NEW f \in Fields, RequestFarm(p, f) PROVE FoundingInv'
  <2>1. /\ request' = [request EXCEPT ![p] = "pending"]
        /\ confirmed' = [confirmed EXCEPT ![p] = FALSE]
        /\ UNCHANGED <<mapping, op, call, receipt, gameVars>>
    BY <1>1 DEF RequestFarm, mailboxVars
  <2>2. \A q \in Players : /\ request'[q] \in LateStates => request'[q] = request[q]
                           /\ confirmed'[q] => confirmed[q]
    BY <2>1 DEF TypeOK, DataType, LateStates, ManagerStates
  <2>3. ReceiptsAreTrue' /\ FarmBeforeLand' /\ \A c \in Calls : CallMeetsFarm(c)'
    BY <2>1 DEF FoundingInv, ReceiptsAreTrue, FarmBeforeLand, CallMeetsFarm, Mapped, Landed, gameVars
  <2>4. QED
    BY <2>1, <2>2, <2>3 DEF FoundingInv, LandIsGranted, Mapped, Landed, gameVars, LateStates
<1>2. ASSUME NEW p \in Players, Register(p) PROVE FoundingInv'
  BY <1>2, FoundingFrame DEF Register, requestVars, mailboxVars, gameVars
<1>3. ASSUME NEW c \in Calls, NEW p \in Players, Approve(c, p) PROVE FoundingInv'
  <2>1. UNCHANGED <<request, confirmed, mapping, founded, owner, receipt, op>>
    BY <1>3 DEF Approve, StaffCall, requestVars, mailboxVars, gameVars
  <2>2. PICK s \in {"queue_provision", "queue_land"}, f \in {NoField, field[p]},
             n \in {0, NextAttempt(p)} : StaffCall(c, p, s, f, n)
    BY <1>3 DEF Approve
  <2>3. \A k \in Calls : call'[k] = call[k] \/ call'[k].step = s
    BY <2>2 DEF StaffCall, TypeOK, CallType
  <2>4. \A k \in Calls : call'[k] = call[k] \/ CallMeetsFarm(k)'
    BY <2>3 DEF CallMeetsFarm, HandoffSteps
  <2>5. QED
    BY <2>1, <2>4, FoundingFrame
<1>4. ASSUME NEW c \in Calls, NEW p \in Players, Reject(c, p) PROVE FoundingInv'
  <2>1. /\ request' = [request EXCEPT ![p] = "rejected"]
        /\ StaffCall(c, p, "release", NoField, 0)
        /\ UNCHANGED <<confirmed, mapping, op, receipt, founded, owner>>
    BY <1>4 DEF Reject, StaffCall, mailboxVars, gameVars
  <2>2. \A q \in Players : request'[q] \in LateStates => request'[q] = request[q]
    BY <2>1 DEF TypeOK, DataType, LateStates, ManagerStates
  <2>3. \A k \in Calls : call'[k] = call[k] \/ call'[k].step = "release"
    BY <2>1 DEF StaffCall, TypeOK, CallType
  <2>4. \A k \in Calls : CallMeetsFarm(k)'
    BY <2>1, <2>3 DEF FoundingInv, CallMeetsFarm, Mapped, Landed, HandoffSteps
  <2>5. ReceiptsAreTrue' /\ FarmBeforeLand'
    BY <2>1 DEF FoundingInv, ReceiptsAreTrue, FarmBeforeLand
  <2>6. QED
    BY <2>1, <2>2, <2>4, <2>5 DEF FoundingInv, LandIsGranted, Mapped, Landed, LateStates
<1>5. ASSUME NEW c \in Calls, NEW p \in Players, Repair(c, p) PROVE FoundingInv'
  <2>1. Landed(p)
    BY <1>5 DEF Repair, Repairable, FoundingInv, LandIsGranted, Landed
  <2>2. QED
    BY <1>5, <2>1, NewAgentCallFounding DEF Repair, requestVars, gameVars
<1>6. ASSUME NEW c \in Calls, NEW p \in Players, PostProvision(c, p) PROVE FoundingInv'
  <2>1. UNCHANGED <<request, confirmed, mapping, founded, owner>>
    BY <1>6 DEF PostProvision, requestVars, gameVars
  <2>2. PICK s \in {"assign", "reply", "map_farm"} :
          /\ AgentCall(c, p, Provision(p), s)
          /\ s = "assign" => confirmed[p]
          /\ s = "map_farm" => receipt[Provision(p)] = "applied"
    BY <1>6 DEF PostProvision, FarmExists
  <2>3. \A o \in Ops : op'[o] = op[o] \/ (o.kind = "provision" /\ op'[o] = "reconciliation_required")
    BY <1>6, OpFields DEF PostProvision, TypeOK, DataType
  <2>4. (s = "map_farm" => p \in founded) /\ (s \in HandoffSteps => Landed(p))
    BY <2>2, OpFields DEF HandoffSteps, FoundingInv, ReceiptsAreTrue
  <2>5. QED
    BY <2>1, <2>2, <2>3, <2>4, NewAgentCallFounding
<1>7. ASSUME NEW c \in Calls, NEW o \in Ops, PostLand(c, o) PROVE FoundingInv'
  <2>1. UNCHANGED <<request, confirmed, mapping, founded, owner>>
    BY <1>7 DEF PostLand, requestVars, gameVars
  <2>2. PICK s \in {"return_land", "reply", "succeed_land"} :
          /\ AgentCall(c, o.player, o, s)
          /\ s = "succeed_land" => receipt[o] = "applied"
    BY <1>7 DEF PostLand, OwnerReadBack
  <2>3. op[o] # "absent" /\ o.kind = "land"
    BY <1>7 DEF PostLand, FoundingInv, ReceiptsAreTrue
  <2>4. \A q \in Ops : op'[q] = op[q] \/ (q = o /\ op'[q] \in {"failed", "reconciliation_required"})
    BY <1>7 DEF PostLand, RefusedState, TypeOK, DataType
  <2>5. s \in HandoffSteps => Landed(o.player)
    BY <2>2, <2>3, OpFields DEF HandoffSteps, FoundingInv, ReceiptsAreTrue, Landed
  <2>6. QED
    BY <2>1, <2>2, <2>3, <2>4, <2>5, NewAgentCallFounding
<1>8. ASSUME NEW c \in Calls, NEW o \in Ops, o.kind = "manager",
             PostManager(c, o.player, o.number)
      PROVE  FoundingInv'
  <2> DEFINE p == o.player
  <2>1. p \in Players
    BY OpFields
  <2>2. UNCHANGED <<confirmed, founded, owner>>
    BY <1>8 DEF PostManager, gameVars
  <2>3. \/ UNCHANGED <<request, mapping>>
        \/ /\ request[p] = "awaiting_manager" /\ request' = [request EXCEPT ![p] = "active"]
           /\ mapping' = [mapping EXCEPT ![p] = "active"]
    BY <1>8, <2>1 DEF PostManager, TypeOK, DataType
  <2>4. PICK s \in {"reply", "refuse", "suspend"} : AgentCall(c, p, Manager(p, o.number), s)
    BY <1>8 DEF PostManager
  <2>5. \A q \in Ops : op'[q] = op[q] \/ (q.kind = "manager" /\ op'[q] # "absent")
    BY <1>8, OpFields DEF PostManager, TypeOK, DataType
  <2>6. receipt' = receipt
    BY <2>4 DEF AgentCall
  <2>7. \A q \in Players : /\ mapping[q] # "none" => mapping'[q] # "none"
                           /\ mapping'[q] # "none" => q \in founded
                           /\ request'[q] \in LateStates => request[q] \in LateStates
                           /\ request'[q] \in ManagerStates \cup {"active"}
                                => request[q] \in ManagerStates \cup {"active"}
    BY <2>1, <2>3 DEF TypeOK, DataType, FoundingInv, LateStates, ManagerStates, Mapped
  <2>8. \A k \in Calls : call'[k] = call[k] \/ call'[k].step \in {"reply", "refuse", "suspend"}
    BY <2>4 DEF AgentCall, TypeOK, CallType
  <2>9. \A k \in Calls : CallMeetsFarm(k)'
    <3>1. \A k \in Calls : call[k].step # "idle" => call[k].player \in Players
      BY DEF TypeOK, CallType, Free
    <3>2. QED
      BY <2>2, <2>7, <2>8, <3>1 DEF FoundingInv, CallMeetsFarm, Mapped, Landed, HandoffSteps
  <2>10. ReceiptsAreTrue' /\ FarmBeforeLand'
    BY <2>2, <2>5, <2>6, <2>7, OpFields DEF FoundingInv, ReceiptsAreTrue, FarmBeforeLand
  <2>11. LandIsGranted' /\ \A q \in Players : /\ request'[q] \in LateStates => Mapped(q)'
                                              /\ confirmed'[q] => Landed(q)'
    BY <2>2, <2>7 DEF FoundingInv, LandIsGranted, Mapped, Landed
  <2>12. QED
    BY <2>2, <2>7, <2>9, <2>10, <2>11 DEF FoundingInv
<1>9. ASSUME NEW c \in Calls, NEW o \in Ops, Post(c, o) PROVE FoundingInv'
  BY <1>6, <1>7, <1>8, <1>9, OpFields DEF Post
<1>10. ASSUME NEW c \in Calls, CallStep(c) PROVE FoundingInv'
  BY <1>10, CallStepFounding
<1>11. ASSUME NEW o \in Ops, Dispatch(o) PROVE FoundingInv'
  <2>1. \A q \in Ops : op'[q] = op[q] \/ (op[q] = "pending" /\ op'[q] = "dispatched")
    BY <1>11 DEF Dispatch
  <2>2. QED
    BY <1>11, <2>1, FoundingFrame DEF Dispatch, requestVars, mailboxVars, gameVars
<1>12. ASSUME NEW o \in Ops, Execute(o) PROVE FoundingInv'
  <2>1. UNCHANGED <<request, confirmed, mapping, op, call>>
    BY <1>12 DEF Execute, ExecuteProvision, ExecuteLand, ExecuteManager, restOfExecution, requestVars
  <2>2. /\ founded \subseteq founded'
        /\ \A f \in Fields, p \in Players : owner[f] = p => owner'[f] = p
        /\ ReceiptsAreTrue'
    <3>1. CASE ExecuteProvision(o.player)
      <4>1. PICK status \in {"applied", "failed"} :
              /\ receipt' = [receipt EXCEPT ![Provision(o.player)] = status]
              /\ status = "applied" => founded' = founded \cup {o.player}
              /\ status = "failed" => founded' = founded
        BY <3>1 DEF ExecuteProvision, Answer
      <4>2. op[Provision(o.player)] = "dispatched" /\ owner' = owner
        BY <3>1 DEF ExecuteProvision
      <4>3. QED
        BY <2>1, <4>1, <4>2, OpFields DEF FoundingInv, ReceiptsAreTrue, TypeOK, DataType
    <3>2. CASE ExecuteLand(o)
      <4>1. PICK status \in {"applied", "failed", "rejected"} :
              /\ receipt' = [receipt EXCEPT ![o] = status]
              /\ status = "applied" => /\ owner[o.field] \in {NoPlayer, o.player}
                                        /\ owner' = [owner EXCEPT ![o.field] = o.player]
              /\ status # "applied" => owner' = owner
        BY <3>2 DEF ExecuteLand, Answer
      <4>2. o.kind = "land" /\ op[o] = "dispatched" /\ founded' = founded
        BY <3>2 DEF ExecuteLand
      <4>3. o.field \in Fields /\ o.player \in Players
        BY <4>2, OpFields
      <4>4. \A f \in Fields, p \in Players : owner[f] = p => owner'[f] = p
        BY <4>1, <4>3, NullAssumption DEF NullAssumption, TypeOK, DataType
      <4>5. ReceiptsAreTrue'
        BY <2>1, <4>1, <4>2, <4>3, <4>4, OpFields DEF FoundingInv, ReceiptsAreTrue, TypeOK, DataType
      <4>6. QED
        BY <4>2, <4>4, <4>5
    <3>3. CASE o.kind = "manager" /\ ExecuteManager(o.player, o.number)
      <4>1. PICK status : receipt' = [receipt EXCEPT ![Manager(o.player, o.number)] = status]
        BY <3>3 DEF ExecuteManager, Answer
      <4>2. op[Manager(o.player, o.number)] = "pending" /\ UNCHANGED <<founded, owner>>
        BY <3>3 DEF ExecuteManager, gameVars
      <4>3. QED
        BY <2>1, <4>1, <4>2, OpFields DEF FoundingInv, ReceiptsAreTrue, TypeOK, DataType
    <3>4. QED
      BY <1>12, <3>1, <3>2, <3>3 DEF Execute
  <2>3. FarmBeforeLand' /\ LandIsGranted'
    BY <2>1, <2>2, OpFields DEF FoundingInv, FarmBeforeLand, LandIsGranted
  <2>4. \A p \in Players : (Mapped(p) => Mapped(p)') /\ (Landed(p) => Landed(p)')
    BY <2>1, <2>2 DEF Mapped, Landed
  <2>5. \A k \in Calls : CallMeetsFarm(k)'
    <3>1. \A k \in Calls : call[k].step # "idle" => call[k].player \in Players
      BY DEF TypeOK, CallType, Free
    <3>2. QED
      BY <2>1, <2>2, <2>4, <3>1 DEF FoundingInv, CallMeetsFarm, HandoffSteps
  <2>6. QED
    BY <2>1, <2>2, <2>3, <2>4, <2>5 DEF FoundingInv
<1>13. ASSUME NEW f \in Fields, BuyNatively(f) PROVE FoundingInv'
  <2>1. UNCHANGED <<request, confirmed, mapping, op, call, receipt, founded>>
    BY <1>13 DEF BuyNatively, restOfExecution, requestVars
  <2>2. \A g \in Fields, p \in Players : owner[g] = p => owner'[g] = p
    BY <1>13, NullAssumption DEF BuyNatively, NullAssumption, TypeOK, DataType
  <2>3. \A p \in Players : (Mapped(p) => Mapped(p)') /\ (Landed(p) => Landed(p)')
    BY <2>1, <2>2 DEF Mapped, Landed
  <2>4. \A k \in Calls : CallMeetsFarm(k)'
    <3>1. \A k \in Calls : call[k].step # "idle" => call[k].player \in Players
      BY DEF TypeOK, CallType, Free
    <3>2. QED
      BY <2>1, <2>3, <3>1 DEF FoundingInv, CallMeetsFarm, HandoffSteps
  <2>5. ReceiptsAreTrue' /\ FarmBeforeLand' /\ LandIsGranted'
    BY <2>1, <2>2, OpFields DEF FoundingInv, ReceiptsAreTrue, FarmBeforeLand, LandIsGranted
  <2>6. QED
    BY <2>1, <2>3, <2>4, <2>5 DEF FoundingInv
<1>14. CASE Crash
  <2>1. \A k \in Calls : CallMeetsFarm(k)'
    BY <1>14 DEF Crash, Idle, CallMeetsFarm, HandoffSteps
  <2>2. QED
    BY <1>14, <2>1, FoundingFrame DEF Crash, requestVars, gameVars
<1>15. CASE Snapshot \/ Timeout \/ UNCHANGED vars
  BY <1>15, FoundingFrame DEF Snapshot, Timeout, vars, requestVars, mailboxVars, gameVars
<1>16. QED
  BY <1>1, <1>2, <1>3, <1>4, <1>5, <1>9, <1>10, <1>11, <1>12, <1>13, <1>14, <1>15 DEF Next

(* A live request holds the reservation of its field, land is queued only  *)
(* for founded farms, and a manager made only for an owner of land, with   *)
(* every stop and overlap of calls, if reviews of one request do not race. *)
THEOREM RequestsStayBacked ==
  ASSUME "review_race" \notin Hazards
  PROVE  Spec => []RequestsAreBacked
<1>1. Init => TypeOK /\ ReviewInv /\ ManagerInv /\ FoundingInv
  BY InitType, InitReview, InitManager, InitFounding
<1>2. TypeOK /\ ReviewInv /\ ManagerInv /\ FoundingInv /\ [Next]_vars
        => TypeOK' /\ ReviewInv' /\ ManagerInv' /\ FoundingInv'
  BY NextType, NextReview, NextManager, NextFounding
<1>3. ReviewInv /\ FoundingInv => RequestsAreBacked
  BY DEF ReviewInv, FoundingInv, RequestsAreBacked
<1>4. QED
  BY <1>1, <1>2, <1>3, PTL DEF Spec

-------------------------------------------------------------------------------
(* What a decision of staff leads to                                       *)

(* Requests stand still; calls that mark or release go on.                 *)
LEMMA ApprovalFrame ==
  ASSUME TypeOK, ApprovalInv, UNCHANGED <<request, field, confirmed, reserved>>,
         \A p \in Players : OwnsField(p) => OwnsField(p)',
         \A o \in Ops : op[o] # "absent" => op'[o] # "absent",
         \A o \in Ops : op'[o] # "absent" =>
           \/ op[o] # "absent"
           \/ /\ Asked(o.player) /\ o.kind # "provision"
              /\ o.kind = "land" => o.field = field[o.player],
         \A k \in Calls :
           \/ call'[k] = call[k]
           \/ CallMeetsApproval(k)' /\ call[k].step \notin {"mark_provisioning", "release"}
  PROVE  ApprovalInv'
<1>1. ASSUME NEW p \in Players PROVE Asked(p)' = Asked(p)
  <2>1. Provision(p) \in Ops /\ Provision(p).kind = "provision"
    BY OpFields
  <2>2. QED
    BY <2>1 DEF Asked
<1>2. \A p \in Players : /\ Marking(p) => Marking(p)'
                         /\ Releasing(p) => Releasing(p)'
  BY DEF Marking, Releasing
<1>3. ASSUME NEW k \in Calls PROVE CallMeetsApproval(k)'
  <2>1. call[k].step # "idle" => call[k].player \in Players
    BY DEF TypeOK, CallType, Free
  <2>2. CASE call'[k] = call[k] /\ call[k].step = "idle"
    BY <2>2 DEF CallMeetsApproval, HandoffSteps, AskedSteps
  <2>3. CASE call'[k] = call[k] /\ call[k].step # "idle"
    BY <1>1, <2>1, <2>3 DEF ApprovalInv, CallMeetsApproval
  <2>4. QED
    BY <2>2, <2>3
<1>4. LandIsProven'
  BY DEF ApprovalInv, LandIsProven, OwnsField
<1>5. \A o \in Ops : op'[o] # "absent" =>
         Asked(o.player)' /\ (o.kind = "land" => o.field = field'[o.player])
  <2>1. \A o \in Ops : o.player \in Players
    BY OpFields
  <2>2. QED
    BY <1>1, <2>1 DEF ApprovalInv
<1>6. \A p \in Players : /\ Decided(p)' => Asked(p)'
                         /\ Asked(p)' => Decided(p)' \/ Marking(p)'
                         /\ confirmed'[p] => OwnsField(p)'
  BY <1>1, <1>2 DEF ApprovalInv, Decided
<1>7. \A f \in Fields, p \in Players :
         reserved'[f] = p => field'[p] = f /\ (Live(p)' \/ Releasing(p)')
  BY <1>2 DEF ApprovalInv, Live
<1>8. QED
  BY <1>3, <1>4, <1>5, <1>6, <1>7 DEF ApprovalInv

(* A request that has been asked for goes on, with the call that writes it.*)
LEMMA ApprovalAdvance ==
  ASSUME TypeOK, ApprovalInv, UNCHANGED <<field, reserved, owner, op>>,
         NEW c \in Calls, ~Free(c), NEW p \in Players, p = call[c].player,
         NEW s \in LiveStates \ {"pending"},
         request' = [request EXCEPT ![p] = s],
         Asked(p),
         s \in ManagerStates \cup {"active"} => OwnsField(p),
         \A q \in Players : confirmed'[q] => confirmed[q] \/ OwnsField(q),
         \A k \in Calls \ {c} : call'[k] = call[k],
         \A k \in Calls \ {c} : call[k].step \in {"queue_provision", "mark_provisioning"}
                                => call[k].player # p,
         call[c].step # "release",
         CallMeetsApproval(c)'
  PROVE  ApprovalInv'
<1>1. \A q \in Players : /\ Asked(q)' = Asked(q) /\ OwnsField(q)' = OwnsField(q)
                         /\ q # p => request'[q] = request[q]
  BY DEF Asked, OwnsField, TypeOK, DataType
<1>2. Decided(p)' /\ Live(p)' /\ request'[p] = s
  BY DEF Decided, Live, LiveStates, ManagerStates, TypeOK, DataType
<1>3. ASSUME NEW q \in Players
      PROVE  /\ q # p /\ Marking(q) => Marking(q)'
             /\ Releasing(q) => Releasing(q)'
  BY DEF Marking, Releasing
<1>4. ASSUME NEW k \in Calls, k # c PROVE CallMeetsApproval(k)'
  <2>1. call'[k] = call[k] /\ CallMeetsApproval(k)
    BY <1>4 DEF ApprovalInv
  <2>2. CASE call[k].step = "idle"
    BY <2>1, <2>2 DEF CallMeetsApproval, HandoffSteps, AskedSteps
  <2>3. CASE call[k].step # "idle"
    <3>1. call[k].player \in Players
      BY <2>3 DEF TypeOK, CallType, Free
    <3>2. QED
      BY <1>1, <1>4, <2>1, <3>1 DEF CallMeetsApproval
  <2>4. QED
    BY <2>2, <2>3
<1>5. LandIsProven'
  BY <1>1, <1>2 DEF ApprovalInv, LandIsProven, OwnsField
<1>6. \A o \in Ops : op'[o] # "absent" =>
         Asked(o.player)' /\ (o.kind = "land" => o.field = field'[o.player])
  BY <1>1, OpFields DEF ApprovalInv
<1>7. \A q \in Players : /\ Decided(q)' => Asked(q)'
                         /\ Asked(q)' => Decided(q)' \/ Marking(q)'
                         /\ confirmed'[q] => OwnsField(q)'
  BY <1>1, <1>2, <1>3 DEF ApprovalInv, Decided
<1>8. \A f \in Fields, q \in Players :
         reserved'[f] = q => field'[q] = f /\ (Live(q)' \/ Releasing(q)')
  BY <1>1, <1>2, <1>3 DEF ApprovalInv, Live
<1>9. QED
  BY <1>4, <1>5, <1>6, <1>7, <1>8 DEF ApprovalInv

(* A step of a call leaves every other call alone, and this one where it   *)
(* was begun, unless it ends.                                              *)
LEMMA CallStepKeeps ==
  ASSUME TypeOK, NEW c \in Calls, CallStep(c)
  PROVE  /\ ~Free(c)
         /\ \A k \in Calls \ {c} : call'[k] = call[k]
         /\ \/ call'[c] = Idle
            \/ /\ call'[c].player = call[c].player /\ call'[c].from = call[c].from
               /\ call'[c].op = call[c].op
<1> USE DEF TypeOK, CallType, CallRecords, At, Free
<1>1. CASE Reply(c) \/ Refuse(c)
  BY <1>1 DEF Reply, Refuse, Accept, End
<1>2. CASE \E s : Goto(c, s) /\ ~Free(c)
  BY <1>2 DEF Goto
<1>3. ASSUME AwaitLand(c) \/ Assign(c) \/ AssignFails(c), NEW k \in Calls
      PROVE  /\ ~Free(c) /\ (k # c => call'[k] = call[k])
             /\ call'[k].player = call[k].player /\ call'[k].from = call[k].from
             /\ call'[k].op = call[k].op
  <2>1. CASE AwaitLand(c)
    <3>1. call' = [call EXCEPT ![c].step = "queue_land", ![c].field = field[call[c].player],
                               ![c].number = NextAttempt(call[c].player)]
      BY <2>1 DEF AwaitLand
    <3>2. QED
      BY <2>1, <3>1 DEF AwaitLand
  <2>2. CASE AssignFails(c)
    <3>1. call' = [call EXCEPT ![c].step = AfterHandoff(c), ![c].number = 0]
      BY <2>2 DEF AssignFails
    <3>2. QED
      BY <2>2, <3>1 DEF AssignFails
  <2>3. CASE Assign(c)
    <3>1. \/ call' = [call EXCEPT ![c].step = "read_membership",
                                  ![c].number = member[call[c].player].revision]
          \/ call' = [call EXCEPT ![c].step = "read_membership",
                                  ![c].number = member[call[c].player].revision + 1]
      BY <2>3 DEF Assign
    <3>2. QED
      BY <2>3, <3>1 DEF Assign
  <2>4. QED
    BY <1>3, <2>1, <2>2, <2>3
<1>4. CASE AwaitLand(c) \/ Assign(c) \/ AssignFails(c)
  BY <1>3, <1>4
<1>5. QED
  BY <1>1, <1>2, <1>4 DEF CallStep, QueueProvision, MarkProvisioning, Release, QueueLand,
     MarkAssigning, MapFarm, SucceedProvision, ReturnLand, SucceedLand, ConfirmLand,
     ReadMembership, HandOff, ActivateFarm, Suspend

LEMMA CallStepApproval ==
  ASSUME TypeOK, ReviewInv, ManagerInv, OneReview, ApprovalInv, NEW c \in Calls, CallStep(c)
  PROVE  ApprovalInv'
<1> USE DEF TypeOK, DataType, CallType, Free, requestVars, mailboxVars, gameVars, centralRest, At,
        ReviewInv, CallMeetsRequest, ApprovalInv, LandIsProven, OwnsField, Asked, Decided, Marking, Releasing, Live, LiveStates,
        ManagerStates, LateStates, HandoffSteps, AskedSteps, CallMeetsApproval
<1>0. call[c].player \in Players
  BY DEF CallStep, Reply, Refuse, QueueProvision, MarkProvisioning, Release, QueueLand, MarkAssigning, MapFarm, SucceedProvision,
         AwaitLand, ReturnLand, SucceedLand, ConfirmLand, Assign, AssignFails, ReadMembership, HandOff, ActivateFarm, Suspend
<1>00. /\ call[c].step # "idle"
       /\ \A k \in Calls \ {c} : call'[k] = call[k]
       /\ CallMeetsApproval(c) /\ CallMeetsRequest(c) /\ CallMeetsMember(c)
  BY CallStepKeeps DEF ManagerInv
<1>01. ASSUME request[call[c].player] # "pending" \/ call[c].from = "staff"
      PROVE  \A k \in Calls \ {c} : call[k].step \in {"queue_provision", "mark_provisioning"}
                                      => call[k].player # call[c].player
  BY <1>0, <1>00, <1>01 DEF OneReview
<1>1. CASE Reply(c)
  BY <1>0, <1>1, OpFields DEF Reply, Accept, End, Idle
<1>2. CASE Refuse(c)
  BY <1>0, <1>2, OpFields DEF Refuse, End, Idle
<1>3. CASE QueueProvision(c)
  BY <1>0, <1>3, OpFields DEF QueueProvision, Goto, Queue
<1>4. CASE MarkProvisioning(c)
  <2> DEFINE p == call[c].player
  <2>1. /\ call[c].step = "mark_provisioning" /\ request[p] = "pending"
        /\ Asked(p) /\ call[c].from = "staff"
    BY <1>4, <1>00 DEF MarkProvisioning
  <2>2. /\ request' = [request EXCEPT ![p] = "provisioning"]
        /\ UNCHANGED <<field, confirmed, reserved, owner, op>>
        /\ call'[c].step = "reply"
    BY <1>4, <2>1 DEF MarkProvisioning, Goto
  <2>3. CallMeetsApproval(c)'
    BY <2>2
  <2>4. "provisioning" \in LiveStates \ {"pending"} /\ "provisioning" \notin ManagerStates \cup {"active"}
    OBVIOUS
  <2> HIDE DEF TypeOK, DataType, CallType, ReviewInv, ApprovalInv, OwnsField, Asked, LiveStates,
           ManagerStates, LateStates, CallMeetsApproval, CallMeetsRequest
  <2>5. QED
    BY <1>0, <1>00, <1>01, <2>1, <2>2, <2>3, <2>4, ApprovalAdvance
<1>5. CASE Release(c)
  <2> DEFINE p == call[c].player
  <2>1. /\ request[p] = "rejected" /\ UNCHANGED <<request, field, confirmed, owner, op>>
        /\ call[c].step = "release" /\ call'[c].step = "reply" /\ call'[c].player = p
    BY <1>5, <1>00 DEF Release, Goto
  <2>2. /\ \A f \in Fields : reserved'[f] # p
        /\ \A f \in Fields : reserved'[f] = reserved[f] \/ reserved'[f] = NoPlayer
    <3>1. \A f, g \in Fields : HeldBy(f, p) /\ HeldBy(g, p) => f = g
      BY <1>0 DEF HeldBy
    <3>2. CASE UNCHANGED reserved /\ \A f \in Fields : ~HeldBy(f, p)
      BY <3>2 DEF HeldBy
    <3>3. ASSUME NEW f \in Fields, HeldBy(f, p), reserved' = [reserved EXCEPT ![f] = NoPlayer]
          PROVE  <2>2
      BY <1>0, <3>1, <3>3, NullAssumption DEF NullAssumption, HeldBy
    <3>4. QED
      BY <1>5, <3>2, <3>3 DEF Release, DeleteReservation
  <2>3. ASSUME NEW f \in Fields, NEW q \in Players, reserved'[f] = q
        PROVE  field'[q] = f /\ (Live(q)' \/ Releasing(q)')
    <3>1. reserved[f] = q /\ q # p
      BY <2>2, <2>3, NullAssumption DEF NullAssumption
    <3>2. field[q] = f /\ (Live(q) \/ Releasing(q))
      BY <3>1
    <3>3. Releasing(q) => Releasing(q)'
      BY <1>00, <3>1
    <3>4. QED
      BY <2>1, <3>2, <3>3
  <2>4. ASSUME NEW k \in Calls PROVE CallMeetsApproval(k)'
    <3>1. CASE k = c
      BY <2>1, <3>1
    <3>2. CASE k # c
      BY <1>00, <2>1, <3>2
    <3>3. QED
      BY <3>1, <3>2
  <2>5. \A q \in Players : Marking(q) => Marking(q)'
    BY <1>00, <2>1
  <2>6. QED
    BY <2>1, <2>3, <2>4, <2>5
<1>6. CASE QueueLand(c)
  <2> DEFINE p == call[c].player
             o == Land(p, call[c].field, call[c].number)
  <2>1. UNCHANGED <<request, field, confirmed, reserved, owner>> /\ call[c].step = "queue_land"
    BY <1>6 DEF QueueLand
  <2>2. \/ op' = op
        \/ op' = [op EXCEPT ![o] = IF @ = "absent" THEN "pending" ELSE @]
    BY <1>6 DEF QueueLand, Queue
  <2>3. Asked(p) /\ call[c].field = field[p]
    BY <1>00, <2>1
  <2>4. \A q \in Ops : /\ op[q] # "absent" => op'[q] # "absent"
                       /\ op'[q] # "absent" => op[q] # "absent" \/ q = o
    BY <2>2
  <2>5. o.player = p /\ o.kind = "land" /\ o.field = field[p]
    BY <2>3, OpFields
  <2>6. call'[c].step \in {"mark_assigning", "reply"}
    <3>1. Goto(c, "mark_assigning") \/ Goto(c, "reply")
      BY <1>6 DEF QueueLand
    <3>2. QED
      BY <3>1 DEF Goto, CallRecords
  <2>7. CallMeetsApproval(c)'
    BY <2>6
  <2> HIDE DEF o
  <2>8. QED
    BY <1>00, <2>1, <2>3, <2>4, <2>5, <2>7, ApprovalFrame
<1>7. CASE MarkAssigning(c)
  BY <1>0, <1>7, OpFields DEF MarkAssigning, Goto
<1>8. CASE MapFarm(c)
  BY <1>0, <1>8, OpFields DEF MapFarm, Goto
<1>9. CASE SucceedProvision(c)
  <2> DEFINE p == call[c].player
  <2>1. UNCHANGED <<request, field, confirmed, reserved, owner>> /\ call[c].step = "succeed_provision"
    BY <1>9 DEF SucceedProvision
  <2>2. op' = [op EXCEPT ![Provision(p)] = "succeeded"] /\ Asked(p)
    BY <1>9, <1>00 DEF SucceedProvision, CallMeetsMember
  <2>3. \A q \in Ops : op'[q] = op[q] \/ (op[q] # "absent" /\ op'[q] = "succeeded")
    BY <2>2
  <2>4. CallMeetsApproval(c)'
    <3>1. call'[c].step = "await_land" /\ call'[c].player = p
      BY <1>9 DEF SucceedProvision, Goto
    <3>2. op'[Provision(p)] # "absent"
      BY <1>0, <2>2, OpFields
    <3>3. QED
      BY <3>1, <3>2
  <2>5. QED
    BY <1>00, <2>1, <2>3, <2>4, ApprovalFrame
<1>10. CASE AwaitLand(c)
  <2> DEFINE p == call[c].player
  <2>1. /\ UNCHANGED <<field, reserved, owner, op>> /\ call[c].step = "await_land" /\ Asked(p)
        /\ call'[c].step = "queue_land" /\ call'[c].player = p /\ call'[c].field = field[p]
    BY <1>10, <1>00 DEF AwaitLand
  <2>2. CallMeetsApproval(c)'
    BY <1>0, <2>1
  <2>3. \A q \in Players : confirmed'[q] => confirmed[q]
    BY <1>10 DEF AwaitLand
  <2>4. CASE request[p] = "provisioning"
    <3>1. request' = [request EXCEPT ![p] = "land_pending"]
      BY <1>10, <2>4 DEF AwaitLand
    <3>2. "land_pending" \in LiveStates \ {"pending"} /\ "land_pending" \notin ManagerStates \cup {"active"}
      OBVIOUS
    <3> HIDE DEF TypeOK, DataType, CallType, ReviewInv, ApprovalInv, OwnsField, Asked, LiveStates,
             ManagerStates, LateStates, CallMeetsApproval, CallMeetsRequest
    <3>3. QED
      BY <1>0, <1>00, <1>01, <2>1, <2>2, <2>3, <2>4, <3>1, <3>2, ApprovalAdvance
  <2>5. CASE request[p] # "provisioning"
    <3>1. request' = request /\ confirmed' = confirmed
      BY <1>0, <1>10, <2>5 DEF AwaitLand
    <3>2. QED
      BY <1>00, <2>1, <2>2, <3>1, ApprovalFrame
  <2>6. QED
    BY <2>4, <2>5
<1>11. CASE ReturnLand(c)
  BY <1>0, <1>11, OpFields DEF ReturnLand, Goto
<1>12. CASE SucceedLand(c)
  <2>1. UNCHANGED <<request, field, confirmed, reserved, owner>> /\ call[c].step = "succeed_land"
    BY <1>12 DEF SucceedLand
  <2>2. \A q \in Ops : op'[q] = op[q] \/ (op[q] # "absent" /\ op'[q] = "succeeded")
    BY <1>12 DEF SucceedLand, OpenOp
  <2>3. call'[c].step = "assign" /\ call'[c].player = call[c].player
    BY <1>12 DEF SucceedLand, Goto
  <2>4. CallMeetsApproval(c)'
    BY <1>00, <2>1, <2>3
  <2>5. QED
    BY <1>00, <2>1, <2>2, <2>4, ApprovalFrame
<1>13. CASE ConfirmLand(c)
  BY <1>0, <1>13, OpFields DEF ConfirmLand, Goto
<1>14. CASE Assign(c)
  <2> DEFINE p == call[c].player
             o == Manager(p, member[p].revision + 1)
  <2>1. UNCHANGED <<request, field, confirmed, reserved, owner>> /\ call[c].step = "assign"
    BY <1>14 DEF Assign
  <2>2. op' = op \/ op' = [op EXCEPT ![o] = "pending"]
    BY <1>14 DEF Assign
  <2>3. Asked(p)
    BY <1>0, <1>00, <2>1
  <2>4. call'[c].step = "read_membership" /\ call'[c].player = p
    <3>1. \/ call' = [call EXCEPT ![c].step = "read_membership", ![c].number = member[p].revision]
          \/ call' = [call EXCEPT ![c].step = "read_membership",
                                  ![c].number = member[p].revision + 1]
      BY <1>14 DEF Assign
    <3>2. QED
      BY <3>1 DEF CallRecords
  <2>5. CallMeetsApproval(c)'
    BY <1>00, <2>1, <2>4
  <2>6. o.player = p /\ o.kind = "manager"
    BY OpFields
  <2> HIDE DEF o
  <2>7. QED
    BY <1>00, <2>1, <2>2, <2>3, <2>5, <2>6, ApprovalFrame
<1>15. CASE AssignFails(c)
  <2> DEFINE p == call[c].player
  <2>1. /\ request' = [request EXCEPT ![p] = "manager_authorization_required"]
        /\ UNCHANGED <<field, confirmed, reserved, owner, op>> /\ call[c].step = "assign"
    BY <1>15 DEF AssignFails
  <2>2. request[p] \in LateStates /\ Asked(p) /\ OwnsField(p)
    BY <1>0, <1>00, <2>1
  <2>3. call'[c].step \in {"confirm", "reply"} /\ call'[c].player = p
    BY <1>15 DEF AssignFails, AfterHandoff
  <2>4. CallMeetsApproval(c)'
    BY <2>1, <2>2, <2>3
  <2>5. /\ "manager_authorization_required" \in LiveStates \ {"pending"}
        /\ request[p] # "pending"
    BY <2>2
  <2> HIDE DEF TypeOK, DataType, CallType, ReviewInv, ApprovalInv, OwnsField, Asked, LiveStates,
           ManagerStates, LateStates, CallMeetsApproval, CallMeetsRequest
  <2>6. QED
    BY <1>0, <1>00, <1>01, <2>1, <2>2, <2>4, <2>5, ApprovalAdvance
<1>16. CASE ReadMembership(c)
  BY <1>0, <1>16, OpFields DEF ReadMembership, Goto
<1>17. CASE HandOff(c)
  <2> DEFINE p == call[c].player
  <2>1. PICK s \in {"active", "awaiting_manager"} : request' = [request EXCEPT ![p] = s]
    BY <1>17 DEF HandOff
  <2>2. /\ UNCHANGED <<field, confirmed, reserved, owner, op>>
        /\ call[c].step \in {"hand_over", "hand_off"}
    BY <1>17 DEF HandOff
  <2>3. request[p] \in LateStates /\ Asked(p) /\ OwnsField(p)
    BY <1>0, <1>00, <2>2
  <2>4. call'[c].step \in {"activate_farm", "confirm", "reply"} /\ call'[c].player = p
    BY <1>17 DEF HandOff, Goto, AfterHandoff
  <2>5. CallMeetsApproval(c)'
    BY <2>2, <2>3, <2>4
  <2>6. s \in LiveStates \ {"pending"} /\ request[p] # "pending"
    BY <2>1, <2>3
  <2> HIDE DEF TypeOK, DataType, CallType, ReviewInv, ApprovalInv, OwnsField, Asked, LiveStates,
           ManagerStates, LateStates, CallMeetsApproval, CallMeetsRequest
  <2>7. QED
    BY <1>0, <1>00, <1>01, <2>1, <2>2, <2>3, <2>5, <2>6, ApprovalAdvance
<1>18. CASE ActivateFarm(c)
  BY <1>0, <1>18, OpFields DEF ActivateFarm, Goto, AfterHandoff
<1>19. CASE Suspend(c)
  BY <1>0, <1>19, OpFields DEF Suspend, Goto
<1>20. QED
  BY <1>1, <1>2, <1>3, <1>4, <1>5, <1>6, <1>7, <1>8, <1>9, <1>10, <1>11, <1>12, <1>13, <1>14, <1>15, <1>16, <1>17, <1>18, <1>19 DEF CallStep

(* Staff works on a request one at a time.                                 *)
LEMMA NextOneReview ==
  ASSUME TypeOK, OneReview, "review_race" \notin Hazards, [Next]_vars
  PROVE  OneReview'
<1>1. ASSUME NEW c \in Calls, NEW p, NEW s, NEW f, NEW n, StaffCall(c, p, s, f, n)
      PROVE  OneReview'
  <2>1. \A k \in Calls : ~(call[k].from = "staff" /\ call[k].player = p)
    BY <1>1 DEF StaffCall, Undisturbed, HandledBy
  <2>2. call'[c].player = p /\ \A k \in Calls \ {c} : call'[k] = call[k]
    BY <1>1 DEF StaffCall, TypeOK, CallType
  <2>3. QED
    BY <2>1, <2>2 DEF OneReview, Free
<1>2. ASSUME NEW c \in Calls, NEW p, NEW o, NEW s, AgentCall(c, p, o, s) PROVE OneReview'
  <2>1. call'[c].from = "agent" /\ \A k \in Calls \ {c} : call'[k] = call[k]
    BY <1>2 DEF AgentCall, TypeOK, CallType
  <2>2. QED
    BY <2>1 DEF OneReview, Free
<1>3. ASSUME NEW c \in Calls, CallStep(c) PROVE OneReview'
  <2>1. /\ ~Free(c) /\ \A k \in Calls \ {c} : call'[k] = call[k]
        /\ \/ call'[c].step = "idle"
           \/ call'[c].player = call[c].player /\ call'[c].from = call[c].from
    BY <1>3, CallStepKeeps DEF Idle
  <2>2. QED
    BY <2>1 DEF OneReview, Free
<1>4. CASE Crash
  BY <1>4 DEF Crash, OneReview, Free, Idle
<1>5. CASE UNCHANGED call
  BY <1>5 DEF OneReview, Free
<1>6. ASSUME NEW c \in Calls, NEW p \in Players, Approve(c, p) \/ Reject(c, p) \/ Repair(c, p)
      PROVE  OneReview'
  BY <1>1, <1>2, <1>6 DEF Approve, Reject, Repair
<1>7. ASSUME NEW c \in Calls, NEW o \in Ops, Post(c, o) PROVE OneReview'
  <2>1. \E p, q, s : AgentCall(c, p, q, s)
    BY <1>7 DEF Post, PostProvision, PostLand, PostManager
  <2>2. QED
    BY <1>2, <2>1
<1>8. ASSUME NEW p \in Players, NEW f \in Fields, RequestFarm(p, f) PROVE OneReview'
  BY <1>5, <1>8 DEF RequestFarm
<1>9. ASSUME NEW p \in Players, Register(p) PROVE OneReview'
  BY <1>5, <1>9 DEF Register
<1>10. ASSUME NEW o \in Ops, Dispatch(o) \/ Execute(o) PROVE OneReview'
  BY <1>5, <1>10 DEF Dispatch, Execute, ExecuteProvision, ExecuteLand, ExecuteManager, restOfExecution
<1>11. ASSUME NEW f \in Fields, BuyNatively(f) PROVE OneReview'
  BY <1>5, <1>11 DEF BuyNatively, restOfExecution
<1>12. CASE Snapshot \/ Timeout \/ UNCHANGED vars
  BY <1>5, <1>12 DEF Snapshot, Timeout, vars
<1>13. QED
  BY <1>3, <1>4, <1>6, <1>7, <1>8, <1>9, <1>10, <1>11, <1>12 DEF Next

LEMMA InitApproval == Init => OneReview /\ ApprovalInv
  BY OpFields, NullAssumption DEF NullAssumption, Init, OneReview, Free, ApprovalInv, LandIsProven, Decided,
     Asked, ManagerStates, CallMeetsApproval, AskedSteps, HandoffSteps, Idle, OwnsField

LEMMA NewAgentCallApproval ==
  ASSUME TypeOK, ApprovalInv, NEW c \in Calls, NEW p, NEW o, NEW s, AgentCall(c, p, o, s),
         UNCHANGED <<request, field, confirmed, reserved, owner>>,
         \A q \in Ops : op[q] # "absent" <=> op'[q] # "absent",
         s \notin {"queue_provision", "mark_provisioning", "queue_land"},
         s \in AskedSteps => Asked(p),
         s \in HandoffSteps => OwnsField(p),
         p \in Players
  PROVE  ApprovalInv'
<1>1. call'[c].step = s /\ call'[c].player = p
  BY DEF AgentCall, TypeOK, CallType
<1>2. Asked(p) => Asked(p)'
  BY OpFields DEF Asked
<1>3. CallMeetsApproval(c)'
  BY <1>1, <1>2 DEF CallMeetsApproval, OwnsField
<1>4. \A k \in Calls : \/ call'[k] = call[k]
                       \/ CallMeetsApproval(k)' /\ call[k].step = "idle"
  BY <1>3 DEF AgentCall, Free, TypeOK, CallType
<1>5. \A q \in Players : OwnsField(q) => OwnsField(q)'
  BY DEF OwnsField
<1>6. QED
  BY <1>4, <1>5, ApprovalFrame

LEMMA NextApproval ==
  ASSUME TypeOK, ReviewInv, ManagerInv, FoundingInv, OneReview, ApprovalInv,
         "review_race" \notin Hazards, "crash" \notin Hazards, [Next]_vars
  PROVE  ApprovalInv'
<1>0. /\ \A p \in Players : request[p] \in LateStates => Asked(p)
      /\ \A k \in Calls : call[k].step # "idle" => call[k].player \in Players
      /\ \A o \in Ops : receipt[o] # "none" => Asked(o.player)
  BY DEF ApprovalInv, Decided, LateStates, ManagerStates, TypeOK, CallType, Free, FoundingInv,
     ReceiptsAreTrue
<1>1. ASSUME NEW p \in Players, NEW f \in Fields, RequestFarm(p, f) PROVE ApprovalInv'
  <2>1. /\ request[p] \in {"none", "rejected"} /\ reserved[f] \in {NoPlayer, p}
        /\ \A c \in Calls : ~(call[c].from = "staff" /\ call[c].player = p)
    BY <1>1 DEF RequestFarm, FieldFree, Undisturbed, HandledBy
  <2>2. /\ reserved' = [reserved EXCEPT ![f] = p]
        /\ request' = [request EXCEPT ![p] = "pending"]
        /\ field' = [field EXCEPT ![p] = f]
        /\ confirmed' = [confirmed EXCEPT ![p] = FALSE]
        /\ UNCHANGED <<op, call, owner>>
    BY <1>1 DEF RequestFarm, gameVars
  <2>3. ~Marking(p) /\ ~Releasing(p) /\ ~Live(p) /\ ~Decided(p)
    BY <2>1 DEF Marking, Releasing, Live, LiveStates, ManagerStates, Decided, ApprovalInv,
       CallMeetsApproval, ReviewInv, CallMeetsRequest
  <2>4. ~Asked(p) /\ \A g \in Fields : reserved[g] # p
    BY <2>3 DEF ApprovalInv
  <2>5. ASSUME NEW q \in Players
        PROVE  /\ q # p => /\ request'[q] = request[q] /\ field'[q] = field[q]
                           /\ confirmed'[q] = confirmed[q]
                           /\ (OwnsField(q)' <=> OwnsField(q))
               /\ Asked(q)' = Asked(q) /\ Marking(q)' = Marking(q) /\ Releasing(q)' = Releasing(q)
    BY <2>2 DEF OwnsField, Asked, Marking, Releasing, TypeOK, DataType
  <2>6. /\ request'[p] = "pending" /\ field'[p] = f /\ ~confirmed'[p]
        /\ Live(p)' /\ ~Decided(p)'
    BY <2>2 DEF TypeOK, DataType, Live, LiveStates, Decided
  <2>7. ASSUME NEW k \in Calls PROVE CallMeetsApproval(k)'
    <3>1. CallMeetsApproval(k) /\ CallMeetsRequest(k) /\ call'[k] = call[k]
      BY <2>2 DEF ApprovalInv, ReviewInv
    <3>2. CASE call[k].step = "idle"
      BY <3>1, <3>2 DEF CallMeetsApproval, HandoffSteps, AskedSteps
    <3>3. CASE call[k].step # "idle" /\ call[k].player # p
      BY <1>0, <2>5, <3>1, <3>3 DEF CallMeetsApproval
    <3>4. CASE call[k].step # "idle" /\ call[k].player = p
      <4>1. /\ call[k].step \notin AskedSteps \cup HandoffSteps
            /\ call[k].step \notin {"queue_provision", "mark_provisioning", "queue_land"}
        BY <1>0, <2>1, <2>4, <3>1, <3>4 DEF CallMeetsApproval, CallMeetsRequest, AskedSteps,
           LateStates, ManagerStates
      <4>2. QED
        BY <3>1, <4>1 DEF CallMeetsApproval
    <3>5. QED
      BY <3>2, <3>3, <3>4
  <2>8. LandIsProven'
    BY <2>5, <2>6 DEF ApprovalInv, LandIsProven, OwnsField, ManagerStates
  <2>9. \A q \in Players : /\ Decided(q)' => Asked(q)'
                           /\ Asked(q)' => Decided(q)' \/ Marking(q)'
                           /\ confirmed'[q] => OwnsField(q)'
    BY <2>4, <2>5, <2>6 DEF ApprovalInv, Decided
  <2>10. \A o \in Ops : op'[o] # "absent" =>
           Asked(o.player)' /\ (o.kind = "land" => o.field = field'[o.player])
    <3>1. ASSUME NEW o \in Ops, op[o] # "absent"
          PROVE  /\ o.player \in Players /\ o.player # p /\ Asked(o.player)
                 /\ o.kind = "land" => o.field = field[o.player]
      BY <2>4, <3>1, OpFields DEF ApprovalInv
    <3>2. QED
      BY <2>2, <2>5, <3>1
  <2>11. \A g \in Fields, q \in Players :
           reserved'[g] = q => field'[q] = g /\ (Live(q)' \/ Releasing(q)')
    <3>1. ASSUME NEW g \in Fields, NEW q \in Players, reserved'[g] = q, q # p
          PROVE  reserved[g] = q
      BY <2>2, <3>1 DEF TypeOK, DataType
    <3>2. \A g \in Fields : reserved'[g] = p => g = f
      BY <2>2, <2>4 DEF TypeOK, DataType
    <3>3. QED
      BY <2>5, <2>6, <3>1, <3>2 DEF ApprovalInv, Live
  <2>12. QED
    BY <2>7, <2>8, <2>9, <2>10, <2>11 DEF ApprovalInv
<1>2. ASSUME UNCHANGED <<request, field, confirmed, reserved, call>>,
             \A q \in Ops : op[q] # "absent" <=> op'[q] # "absent",
             \A f \in Fields, p \in Players : owner[f] = p => owner'[f] = p
      PROVE  ApprovalInv'
  <2>1. ASSUME NEW p \in Players, OwnsField(p), field[p] \in Fields PROVE OwnsField(p)'
    BY <1>2, <2>1 DEF OwnsField
  <2>2. \A p \in Players : Asked(p)' = Asked(p) /\ Marking(p)' = Marking(p) /\ Releasing(p)' = Releasing(p)
    BY <1>2, OpFields DEF Asked, Marking, Releasing
  <2>3. \A p \in Players : request[p] \in LateStates => field[p] \in Fields
    BY DEF ReviewInv, LiveNamesField, Live, LateStates, LiveStates, ManagerStates
  <2>4. ASSUME NEW k \in Calls PROVE CallMeetsApproval(k)'
    <3>1. CallMeetsApproval(k) /\ CallMeetsRequest(k) /\ call'[k] = call[k]
      BY <1>2 DEF ApprovalInv, ReviewInv
    <3>2. CASE call[k].step = "idle"
      BY <3>1, <3>2 DEF CallMeetsApproval, HandoffSteps, AskedSteps
    <3>3. CASE call[k].step # "idle"
      <4>1. call[k].player \in Players
        BY <1>0, <3>3
      <4>2. call[k].step \in HandoffSteps => OwnsField(call[k].player)'
        BY <2>1, <2>3, <3>1, <4>1 DEF CallMeetsApproval, CallMeetsRequest
      <4>3. QED
        BY <1>2, <2>2, <3>1, <4>1, <4>2 DEF CallMeetsApproval
    <3>4. QED
      BY <3>2, <3>3
  <2>5. LandIsProven'
    BY <1>2, <2>1, <2>3 DEF ApprovalInv, LandIsProven, OwnsField, LateStates
  <2>6. \A p \in Players : confirmed'[p] => OwnsField(p)'
    BY <1>2, <2>1, <2>3 DEF ApprovalInv, ReviewInv, ConfirmedIsLate
  <2>7. QED
    BY <1>2, <2>2, <2>4, <2>5, <2>6, OpFields DEF ApprovalInv, Decided, Live
<1>3. ASSUME NEW c \in Calls, NEW p \in Players, Approve(c, p) PROVE ApprovalInv'
  <2>1. UNCHANGED <<request, field, confirmed, reserved, op, owner>>
    BY <1>3 DEF Approve, requestVars, gameVars
  <2>2. PICK s \in {"queue_provision", "queue_land"}, f \in {NoField, field[p]},
             n \in {0, NextAttempt(p)} :
          /\ StaffCall(c, p, s, f, n)
          /\ s = "queue_provision" => request[p] = "pending"
          /\ s = "queue_land" => request[p] = "land_pending" /\ f = field[p]
    BY <1>3 DEF Approve
  <2>3. /\ call'[c].step = s /\ call'[c].player = p /\ call'[c].from = "staff" /\ call'[c].field = f
        /\ \A k \in Calls \ {c} : call'[k] = call[k]
        /\ call[c].step = "idle"
    BY <2>2 DEF StaffCall, TypeOK, CallType, Free
  <2>4. s = "queue_land" => Asked(p)'
    BY <1>0, <2>1, <2>2 DEF LateStates, Asked
  <2>5. CallMeetsApproval(c)'
    BY <2>1, <2>2, <2>3, <2>4 DEF CallMeetsApproval, AskedSteps, HandoffSteps
  <2>6. \A q \in Players : OwnsField(q) => OwnsField(q)'
    BY <2>1 DEF OwnsField
  <2>7. QED
    BY <2>1, <2>3, <2>5, <2>6, ApprovalFrame
<1>4. ASSUME NEW c \in Calls, NEW p \in Players, Reject(c, p) PROVE ApprovalInv'
  <2>1. /\ request[p] = "pending" /\ request' = [request EXCEPT ![p] = "rejected"]
        /\ UNCHANGED <<field, confirmed, reserved, op, owner>>
        /\ \A k \in Calls : ~(call[k].from = "staff" /\ call[k].player = p)
        /\ Free(c)
    BY <1>4 DEF Reject, Unreviewed, StaffCall, Undisturbed, HandledBy, gameVars
  <2>2. /\ call'[c].step = "release" /\ call'[c].player = p
        /\ \A k \in Calls \ {c} : call'[k] = call[k]
    BY <1>4 DEF Reject, StaffCall, TypeOK, CallType
  <2>3. ~Marking(p) /\ ~Decided(p) /\ ~Asked(p)
    BY <2>1 DEF Marking, Decided, ApprovalInv, CallMeetsApproval
  <2>4. ASSUME NEW q \in Players
        PROVE  /\ q # p => request'[q] = request[q]
               /\ Asked(q)' = Asked(q) /\ OwnsField(q)' = OwnsField(q)
               /\ Marking(q) => Marking(q)'
               /\ Releasing(q) => Releasing(q)'
    <3>1. call[c].step = "idle"
      BY <2>1 DEF Free
    <3>2. (Marking(q) => Marking(q)') /\ (Releasing(q) => Releasing(q)')
      BY <2>2, <3>1 DEF Marking, Releasing
    <3>3. QED
      BY <2>1, <3>2 DEF Asked, OwnsField, TypeOK, DataType
  <2>5. request'[p] = "rejected" /\ Releasing(p)' /\ ~Decided(p)'
    BY <2>1, <2>2 DEF Releasing, Decided, TypeOK, DataType
  <2>6. ASSUME NEW k \in Calls PROVE CallMeetsApproval(k)'
    <3>1. CASE k = c
      BY <2>2, <3>1 DEF CallMeetsApproval, AskedSteps, HandoffSteps
    <3>2. CASE k # c
      <4>1. CallMeetsApproval(k) /\ call'[k] = call[k]
        BY <2>2, <3>2 DEF ApprovalInv
      <4>2. CASE call[k].step = "idle"
        BY <4>1, <4>2 DEF CallMeetsApproval, HandoffSteps, AskedSteps
      <4>3. CASE call[k].step # "idle"
        <5>1. /\ call[k].player \in Players
              /\ call[k].step \in {"queue_provision", "mark_provisioning"} => call[k].player # p
          BY <1>0, <2>1, <4>1, <4>3 DEF CallMeetsApproval
        <5>2. QED
          BY <2>1, <2>4, <4>1, <5>1 DEF CallMeetsApproval
      <4>4. QED
        BY <4>2, <4>3
    <3>3. QED
      BY <3>1, <3>2
  <2>7. LandIsProven'
    BY <2>4, <2>5 DEF ApprovalInv, LandIsProven, OwnsField, ManagerStates
  <2>8. \A q \in Players : /\ Decided(q)' => Asked(q)'
                           /\ Asked(q)' => Decided(q)' \/ Marking(q)'
                           /\ confirmed'[q] => OwnsField(q)'
    BY <2>1, <2>3, <2>4, <2>5 DEF ApprovalInv, Decided
  <2>9. \A f \in Fields, q \in Players :
          reserved'[f] = q => field'[q] = f /\ (Live(q)' \/ Releasing(q)')
    BY <2>1, <2>4, <2>5 DEF ApprovalInv, Live
  <2>10. \A o \in Ops : op'[o] # "absent" =>
           Asked(o.player)' /\ (o.kind = "land" => o.field = field'[o.player])
    BY <2>1, <2>4, OpFields DEF ApprovalInv
  <2>11. QED
    BY <2>6, <2>7, <2>8, <2>9, <2>10 DEF ApprovalInv
<1>5. ASSUME NEW c \in Calls, NEW p \in Players, Repair(c, p) PROVE ApprovalInv'
  <2>1. UNCHANGED <<request, field, confirmed, reserved, op, owner>> /\ AgentCall(c, p, NoOp, "assign")
    BY <1>5 DEF Repair, requestVars, gameVars
  <2>2. OwnsField(p)
    BY <1>5 DEF Repair, Repairable, ApprovalInv, LandIsProven, OwnsField
  <2>3. QED
    BY <2>1, <2>2, NewAgentCallApproval DEF AskedSteps
<1>6. ASSUME NEW c \in Calls, NEW p \in Players, PostProvision(c, p) PROVE ApprovalInv'
  <2>1. UNCHANGED <<request, field, confirmed, reserved, owner>> /\ receipt[Provision(p)] # "none"
    BY <1>6 DEF PostProvision, requestVars, gameVars
  <2>2. PICK s \in {"assign", "reply", "map_farm"} :
          AgentCall(c, p, Provision(p), s) /\ (s = "assign" => confirmed[p])
    BY <1>6 DEF PostProvision
  <2>3. Asked(p) /\ op[Provision(p)] # "absent"
    BY <1>0, <2>1, OpFields DEF Asked
  <2>4. op' = op \/ op' = [op EXCEPT ![Provision(p)] = "reconciliation_required"]
    BY <1>6 DEF PostProvision
  <2>5. \A q \in Ops : op[q] # "absent" <=> op'[q] # "absent"
    BY <2>3, <2>4 DEF TypeOK, DataType
  <2>6. s \in HandoffSteps => OwnsField(p)
    BY <2>2 DEF HandoffSteps, ApprovalInv
  <2>7. QED
    BY <2>1, <2>2, <2>3, <2>5, <2>6, NewAgentCallApproval
<1>7. ASSUME NEW c \in Calls, NEW o \in Ops, PostLand(c, o) PROVE ApprovalInv'
  <2>1. /\ UNCHANGED <<request, field, confirmed, reserved, owner>>
        /\ receipt[o] # "none" /\ o.kind = "land" /\ o.player \in Players
    BY <1>7, OpFields DEF PostLand, requestVars, gameVars
  <2>2. PICK s \in {"return_land", "reply", "succeed_land"} :
          /\ AgentCall(c, o.player, o, s)
          /\ s = "succeed_land" => receipt[o] = "applied"
    BY <1>7 DEF PostLand, OwnerReadBack
  <2>3. op[o] # "absent" /\ o.field = field[o.player]
    BY <2>1 DEF FoundingInv, ReceiptsAreTrue, ApprovalInv
  <2>4. \A q \in Ops : op'[q] = op[q] \/ (q = o /\ op'[q] \in {"failed", "reconciliation_required"})
    BY <1>7 DEF PostLand, RefusedState, TypeOK, DataType
  <2>5. s \in HandoffSteps => OwnsField(o.player)
    BY <2>1, <2>2, <2>3 DEF HandoffSteps, OwnsField, FoundingInv, ReceiptsAreTrue
  <2>6. QED
    BY <2>1, <2>2, <2>3, <2>4, <2>5, NewAgentCallApproval DEF AskedSteps
<1>8. ASSUME NEW c \in Calls, NEW o \in Ops, o.kind = "manager",
             PostManager(c, o.player, o.number)
      PROVE  ApprovalInv'
  <2> DEFINE p == o.player
             m == Manager(p, o.number)
  <2>1. p \in Players /\ m.kind = "manager" /\ m = o
    BY <1>8, OpFields DEF Ops, Manager, Provision, Land
  <2>2. UNCHANGED <<field, confirmed, reserved, owner>> /\ receipt[o] # "none"
    BY <1>8, <2>1 DEF PostManager, gameVars
  <2>3. \/ request' = request
        \/ request[p] = "awaiting_manager" /\ request' = [request EXCEPT ![p] = "active"]
    BY <1>8, <2>1 DEF PostManager, TypeOK, DataType
  <2>4. PICK s \in {"reply", "refuse", "suspend"} : AgentCall(c, p, m, s)
    BY <1>8 DEF PostManager
  <2>5. op[o] # "absent"
    BY <2>2 DEF FoundingInv, ReceiptsAreTrue
  <2>6. \A q \in Ops : op'[q] = op[q] \/ (q = o /\ op'[q] # "absent")
    BY <1>8, <2>1 DEF PostManager, TypeOK, DataType
  <2>7. /\ \A k \in Calls \ {c} : call'[k] = call[k]
        /\ call[c].step = "idle" /\ call'[c].step = s
    BY <2>4 DEF AgentCall, TypeOK, CallType, Free
  <2>8. ASSUME NEW q \in Players
        PROVE  /\ Asked(q)' = Asked(q) /\ OwnsField(q)' = OwnsField(q)
               /\ Decided(q)' = Decided(q) /\ Live(q)' = Live(q)
               /\ Marking(q) => Marking(q)'
               /\ Releasing(q) => Releasing(q)'
               /\ request'[q] \in ManagerStates \cup {"active"}
                    => request[q] \in ManagerStates \cup {"active"}
               /\ request[q] = "pending" => request'[q] = "pending"
    <3>1. Asked(q)' = Asked(q) /\ OwnsField(q)' = OwnsField(q)
      BY <2>2, <2>5, <2>6, OpFields DEF Asked, OwnsField
    <3>2. (Marking(q) => Marking(q)') /\ (Releasing(q) => Releasing(q)')
      BY <2>7 DEF Marking, Releasing
    <3>3. QED
      BY <2>1, <2>3, <3>1, <3>2 DEF Decided, Live, LiveStates, ManagerStates, TypeOK, DataType
  <2>9. ASSUME NEW k \in Calls PROVE CallMeetsApproval(k)'
    <3>1. CASE k = c
      BY <2>4, <2>7, <3>1 DEF CallMeetsApproval, AskedSteps, HandoffSteps
    <3>2. CASE k # c
      <4>1. CallMeetsApproval(k) /\ call'[k] = call[k]
        BY <2>7, <3>2 DEF ApprovalInv
      <4>2. CASE call[k].step = "idle"
        BY <4>1, <4>2 DEF CallMeetsApproval, HandoffSteps, AskedSteps
      <4>3. CASE call[k].step # "idle"
        BY <1>0, <2>2, <2>8, <4>1, <4>3 DEF CallMeetsApproval
      <4>4. QED
        BY <4>2, <4>3
    <3>3. QED
      BY <3>1, <3>2
  <2>10. LandIsProven'
    BY <2>2, <2>8 DEF ApprovalInv, LandIsProven
  <2>11. \A q \in Ops : op'[q] # "absent" =>
           Asked(q.player)' /\ (q.kind = "land" => q.field = field'[q.player])
    BY <2>2, <2>5, <2>6, <2>8, OpFields DEF ApprovalInv
  <2>12. QED
    BY <2>2, <2>8, <2>9, <2>10, <2>11 DEF ApprovalInv
<1>9. ASSUME NEW c \in Calls, NEW o \in Ops, Post(c, o) PROVE ApprovalInv'
  BY <1>6, <1>7, <1>8, <1>9, OpFields DEF Post
<1>10. ASSUME NEW c \in Calls, CallStep(c) PROVE ApprovalInv'
  BY <1>10, CallStepApproval
<1>11. ASSUME NEW p \in Players, Register(p) PROVE ApprovalInv'
  BY <1>2, <1>11 DEF Register, requestVars, gameVars
<1>12. ASSUME NEW o \in Ops, Dispatch(o) PROVE ApprovalInv'
  <2>1. \A q \in Ops : op'[q] = op[q] \/ (op[q] = "pending" /\ op'[q] = "dispatched")
    BY <1>12 DEF Dispatch
  <2>2. QED
    BY <1>2, <1>12, <2>1 DEF Dispatch, requestVars, gameVars
<1>13. ASSUME NEW o \in Ops, Execute(o) PROVE ApprovalInv'
  <2>1. UNCHANGED <<request, field, confirmed, reserved, op, call>>
    BY <1>13 DEF Execute, ExecuteProvision, ExecuteLand, ExecuteManager, restOfExecution, requestVars
  <2>2. \A f \in Fields, p \in Players : owner[f] = p => owner'[f] = p
    <3>1. \/ owner' = owner
          \/ owner[o.field] \in {NoPlayer, o.player} /\ owner' = [owner EXCEPT ![o.field] = o.player]
      BY <1>13 DEF Execute, ExecuteProvision, ExecuteLand, ExecuteManager, gameVars
    <3>2. QED
      BY <3>1, NullAssumption DEF NullAssumption, TypeOK, DataType
  <2>3. QED
    BY <1>2, <2>1, <2>2
<1>14. ASSUME NEW f \in Fields, BuyNatively(f) PROVE ApprovalInv'
  <2>1. \A g \in Fields, p \in Players : owner[g] = p => owner'[g] = p
    BY <1>14, NullAssumption DEF BuyNatively, NullAssumption, TypeOK, DataType
  <2>2. QED
    BY <1>2, <1>14, <2>1 DEF BuyNatively, restOfExecution, requestVars
<1>15. CASE Snapshot \/ Timeout \/ UNCHANGED vars
  BY <1>2, <1>15 DEF Snapshot, Timeout, vars, requestVars, gameVars
<1>16. QED
  BY <1>1, <1>3, <1>4, <1>5, <1>9, <1>10, <1>11, <1>12, <1>13, <1>14, <1>15 DEF Next, Crash

(* Staff decisions are kept, however calls overlap, as long as Central     *)
(* does not stop and reviews do not race: no farm, operation or            *)
(* reservation without or after a decision, and no manager but for the     *)
(* field that was asked for.                                               *)
THEOREM DecisionsStayKept ==
  ASSUME "review_race" \notin Hazards, "crash" \notin Hazards
  PROVE  Spec => []DecisionsAreKept
<1> DEFINE Inv == TypeOK /\ ReviewInv /\ ManagerInv /\ FoundingInv /\ OneReview /\ ApprovalInv
<1>1. Init => Inv
  BY InitType, InitReview, InitManager, InitFounding, InitApproval
<1>2. Inv /\ [Next]_vars => Inv'
  BY NextType, NextReview, NextManager, NextFounding, NextOneReview, NextApproval
<1>3. Inv => DecisionsAreKept
  <2> SUFFICES ASSUME Inv PROVE DecisionsAreKept
    OBVIOUS
  <2>1. ASSUME NEW p \in Players, ~HandledBy("staff", p) PROVE ~Marking(p) /\ ~Releasing(p)
    BY <2>1 DEF HandledBy, Marking, Releasing, ApprovalInv, CallMeetsApproval, ReviewInv, CallMeetsRequest
  <2>2. UnapprovedGetsNothing
    BY <2>1, OpFields DEF UnapprovedGetsNothing, ApprovalInv, Decided
  <2>3. NoFieldOrphaned
    BY <2>1 DEF NoFieldOrphaned, ApprovalInv
  <2>4. QED
    BY <2>2, <2>3 DEF DecisionsAreKept, NoLeftovers, ApprovalInv
<1>4. QED
  BY <1>1, <1>2, <1>3, PTL DEF Spec

-------------------------------------------------------------------------------
(* Active farms stay active                                                *)

LEMMA HandoffFrame ==
  ASSUME TypeOK, HandoffInv, registered \subseteq registered',
         \A p \in Players :
           \/ member'[p] = member[p]
           \/ /\ p \in registered
              /\ member'[p].state = "active" => ~HandledBy("staff", p) /\ ~HandledBy("agent", p),
         \A k \in Calls :
           \/ call'[k] = call[k]
           \/ call'[k].step = "idle"
           \/ /\ call'[k].from \in {"staff", "agent"}
              /\ call'[k].step = "hand_off" => member'[call'[k].player].state # "active"
  PROVE  HandoffInv'
<1>1. \A p \in Players : member'[p].state # "none" => p \in registered'
  BY DEF HandoffInv
<1>2. ASSUME NEW k \in Calls, call'[k] = call[k], call[k].step # "idle"
      PROVE  /\ call[k].from \in {"staff", "agent"}
             /\ call[k].step = "hand_off" => member'[call[k].player].state # "active"
  <2>1. /\ call[k].from \in {"staff", "agent"} /\ call[k].player \in Players
        /\ call[k].step = "hand_off" => member[call[k].player].state # "active"
    BY <1>2 DEF HandoffInv, TypeOK, CallType, Free
  <2>2. HandledBy("staff", call[k].player) \/ HandledBy("agent", call[k].player)
    BY <2>1 DEF HandledBy
  <2>3. QED
    BY <2>1, <2>2
<1>3. \A k \in Calls : /\ ~Free(k)' => call'[k].from \in {"staff", "agent"}
                       /\ call'[k].step = "hand_off" => member'[call'[k].player].state # "active"
  BY <1>2 DEF Free
<1>4. QED
  BY <1>1, <1>3 DEF HandoffInv

LEMMA CallStepHandoff ==
  ASSUME TypeOK, HandoffInv, NEW c \in Calls, CallStep(c)
  PROVE  HandoffInv'
<1> DEFINE p == call[c].player
<1>1. /\ ~Free(c) /\ p \in Players
      /\ \A k \in Calls \ {c} : call'[k] = call[k]
      /\ \/ call'[c].step = "idle"
         \/ call'[c].player = p /\ call'[c].from \in {"staff", "agent"}
  BY CallStepKeeps DEF HandoffInv, TypeOK, CallType, Idle
<1>2. registered' = registered
  BY DEF CallStep, Reply, Refuse, QueueProvision, MarkProvisioning, Release, QueueLand, MarkAssigning,
     MapFarm, SucceedProvision, AwaitLand, ReturnLand, SucceedLand, ConfirmLand, Assign, AssignFails,
     ReadMembership, HandOff, ActivateFarm, Suspend, centralRest
<1>3. ASSUME NEW q \in Players
      PROVE  member'[q] = member[q] \/ (q \in registered /\ member'[q].state # "active")
  <2>1. CASE Assign(c)
    BY <1>1, <2>1 DEF Assign, TypeOK, DataType
  <2>2. CASE Suspend(c)
    <3>1. \/ member' = member
          \/ /\ member' = [member EXCEPT ![p].state = "reconciliation_required"]
             /\ member[p].state \in {"pending", "active"}
      BY <2>2 DEF Suspend, TypeOK, DataType
    <3>2. member \in [Players -> [state : {"none", "pending", "active", "reconciliation_required"},
                                  revision : Nat]]
      BY DEF TypeOK, DataType
    <3>3. QED
      BY <1>1, <3>1, <3>2 DEF HandoffInv
  <2>3. CASE UNCHANGED member
    BY <2>3
  <2>4. QED
    BY <2>1, <2>2, <2>3 DEF CallStep, Reply, Refuse, QueueProvision, MarkProvisioning, Release,
       QueueLand, MarkAssigning, MapFarm, SucceedProvision, AwaitLand, ReturnLand, SucceedLand,
       ConfirmLand, AssignFails, ReadMembership, HandOff, ActivateFarm, centralRest
<1>4. call'[c].step = "hand_off" => call[c].step = "read_membership" /\ member' = member
                                    /\ member[p].state # "active"
  <2>1. CASE ReadMembership(c)
    BY <2>1 DEF ReadMembership, Goto, IsManager, At, centralRest, TypeOK, CallType, CallRecords
  <2>2. CASE Reply(c) \/ Refuse(c)
    BY <2>2 DEF Reply, Refuse, Accept, End, Idle, TypeOK, CallType
  <2>3. CASE AssignFails(c)
    <3>1. call' = [call EXCEPT ![c].step = AfterHandoff(c), ![c].number = 0]
      BY <2>3 DEF AssignFails
    <3>2. QED
      BY <3>1 DEF AfterHandoff, TypeOK, CallType, CallRecords
  <2>4. CASE AwaitLand(c)
    <3>1. call' = [call EXCEPT ![c].step = "queue_land", ![c].field = field[p],
                               ![c].number = NextAttempt(p)]
      BY <2>4 DEF AwaitLand
    <3>2. QED
      BY <3>1 DEF TypeOK, CallType, CallRecords
  <2>5. CASE Assign(c)
    <3>1. \/ call' = [call EXCEPT ![c].step = "read_membership", ![c].number = member[p].revision]
          \/ call' = [call EXCEPT ![c].step = "read_membership", ![c].number = member[p].revision + 1]
      BY <2>5 DEF Assign
    <3>2. QED
      BY <3>1 DEF TypeOK, CallType, CallRecords
  <2>6. CASE \E s \in Steps \ {"hand_off"} : Goto(c, s)
    BY <2>6 DEF Goto, TypeOK, CallType, CallRecords
  <2>7. QED
    BY <2>1, <2>2, <2>3, <2>4, <2>5, <2>6 DEF CallStep, QueueProvision, MarkProvisioning, Release,
       QueueLand, MarkAssigning, MapFarm, SucceedProvision, ReturnLand, SucceedLand, ConfirmLand,
       HandOff, ActivateFarm, Suspend, AfterHandoff, Steps
<1>5. call'[c].step = "hand_off" => member'[call'[c].player].state # "active"
  BY <1>1, <1>4
<1>6. QED
  BY <1>1, <1>2, <1>3, <1>5, HandoffFrame

LEMMA NextHandoff ==
  ASSUME TypeOK, HandoffInv, "overlap" \notin Hazards, [Next]_vars
  PROVE  HandoffInv'
<1>1. ASSUME NEW c \in Calls, NEW p, NEW s, NEW f, NEW n, StaffCall(c, p, s, f, n),
             s # "hand_off", UNCHANGED <<member, registered>>
      PROVE  HandoffInv'
  <2>1. /\ call'[c].from = "staff" /\ call'[c].step = s
        /\ \A k \in Calls \ {c} : call'[k] = call[k]
    BY <1>1 DEF StaffCall, TypeOK, CallType
  <2>2. QED
    BY <1>1, <2>1, HandoffFrame
<1>2. ASSUME NEW c \in Calls, NEW p, NEW o, NEW s, AgentCall(c, p, o, s), s # "hand_off"
      PROVE  /\ ~HandledBy("staff", p) /\ ~HandledBy("agent", p)
             /\ \A k \in Calls : \/ call'[k] = call[k]
                                 \/ call'[k].from = "agent" /\ call'[k].step # "hand_off"
  BY <1>2 DEF AgentCall, NoOverlap, TypeOK, CallType
<1>3. ASSUME NEW c \in Calls, NEW p \in Players, Approve(c, p) \/ Reject(c, p) PROVE HandoffInv'
  BY <1>1, <1>3 DEF Approve, Reject, centralRest
<1>4. ASSUME NEW c \in Calls, NEW p \in Players, Repair(c, p) PROVE HandoffInv'
  <2>1. AgentCall(c, p, NoOp, "assign") /\ UNCHANGED <<member, registered>>
    BY <1>4 DEF Repair, centralRest
  <2>2. QED
    BY <1>2, <2>1, HandoffFrame
<1>5. ASSUME NEW c \in Calls, NEW o \in Ops, Post(c, o) PROVE HandoffInv'
  <2>1. CASE PostProvision(c, o.player) \/ PostLand(c, o)
    <3>1. UNCHANGED <<member, registered>>
      BY <2>1 DEF PostProvision, PostLand, centralRest
    <3>2. \E p, q : \E s \in Steps \ {"hand_off"} : AgentCall(c, p, q, s)
      BY <2>1 DEF PostProvision, PostLand, Steps
    <3>3. QED
      BY <1>2, <3>1, <3>2, HandoffFrame
  <2>2. CASE PostManager(c, o.player, o.number)
    <3> DEFINE p == o.player
    <3>1. PICK s \in {"reply", "refuse", "suspend"} : AgentCall(c, p, Manager(p, o.number), s)
      BY <2>2 DEF PostManager
    <3>2. /\ UNCHANGED registered
          /\ \/ member' = member
             \/ member[p].state = "pending" /\ member' = [member EXCEPT ![p].state = "active"]
      BY <2>2 DEF PostManager, CurrentJob
    <3>3. p \in Players
      BY OpFields
    <3>4. member \in [Players -> [state : {"none", "pending", "active", "reconciliation_required"},
                                  revision : Nat]]
      BY DEF TypeOK, DataType
    <3>5. \A q \in Players : member'[q] = member[q] \/ (q = p /\ p \in registered)
      BY <3>2, <3>3, <3>4 DEF HandoffInv
    <3>6. QED
      BY <1>2, <3>1, <3>2, <3>5, HandoffFrame
  <2>3. QED
    BY <1>5, <2>1, <2>2 DEF Post
<1>6. ASSUME NEW c \in Calls, CallStep(c) PROVE HandoffInv'
  BY <1>6, CallStepHandoff
<1>7. CASE Crash
  BY <1>7, HandoffFrame DEF Crash, Idle
<1>8. CASE UNCHANGED <<call, member>> /\ registered \subseteq registered'
  BY <1>8, HandoffFrame
<1>9. ASSUME NEW p \in Players, Register(p) \/ \E f \in Fields : RequestFarm(p, f) PROVE HandoffInv'
  BY <1>8, <1>9 DEF Register, RequestFarm
<1>10. ASSUME NEW o \in Ops, Dispatch(o) \/ Execute(o) PROVE HandoffInv'
  BY <1>8, <1>10 DEF Dispatch, Execute, ExecuteProvision, ExecuteLand, ExecuteManager,
     restOfExecution, centralRest
<1>11. ASSUME NEW f \in Fields, BuyNatively(f) PROVE HandoffInv'
  BY <1>8, <1>11 DEF BuyNatively, restOfExecution, centralRest
<1>12. CASE Snapshot \/ Timeout \/ UNCHANGED vars
  BY <1>8, <1>12 DEF Snapshot, Timeout, vars, centralRest
<1>13. QED
  BY <1>3, <1>4, <1>5, <1>6, <1>7, <1>9, <1>10, <1>11, <1>12 DEF Next

(* No step takes an active request back, when HandoffInv holds.            *)
LEMMA ActiveStep ==
  ASSUME TypeOK, ManagerInv, HandoffInv, [Next]_vars, NEW p \in Players, request[p] = "active"
  PROVE  request'[p] = "active"
<1>1. member[p].state = "active" /\ p \in registered
  BY DEF ManagerInv, ActiveIsManaged, HandoffInv
<1>2. ASSUME NEW c \in Calls, CallStep(c) PROVE request'[p] = "active"
  <2>1. CASE UNCHANGED request
    BY <2>1
  <2>2. CASE MarkProvisioning(c)
    BY <2>2 DEF MarkProvisioning, TypeOK, DataType
  <2>3. CASE MarkAssigning(c)
    BY <2>3 DEF MarkAssigning, TypeOK, DataType
  <2>4. CASE AwaitLand(c)
    BY <2>4 DEF AwaitLand, TypeOK, DataType
  <2>5. CASE ReturnLand(c)
    BY <2>5 DEF ReturnLand, TypeOK, DataType
  <2>6. CASE ConfirmLand(c)
    BY <2>6 DEF ConfirmLand, ManagerStates, TypeOK, DataType
  <2>7. CASE AssignFails(c)
    BY <1>1, <2>7 DEF AssignFails, TypeOK, DataType
  <2>8. CASE HandOff(c)
    BY <1>1, <2>8 DEF HandOff, At, HandoffInv, TypeOK, DataType
  <2>9. QED
    BY <1>2, <2>1, <2>2, <2>3, <2>4, <2>5, <2>6, <2>7, <2>8 DEF CallStep, Reply, Refuse,
       QueueProvision, Release, QueueLand, MapFarm, SucceedProvision, SucceedLand, Assign,
       ReadMembership, ActivateFarm, Suspend, requestVars
<1>3. ASSUME NEW q \in Players, Register(q) \/ \E f \in Fields : RequestFarm(q, f)
      PROVE  request'[p] = "active"
  BY <1>3 DEF Register, RequestFarm, requestVars, TypeOK, DataType
<1>4. ASSUME NEW c \in Calls, NEW q \in Players, Approve(c, q) \/ Reject(c, q) \/ Repair(c, q)
      PROVE  request'[p] = "active"
  BY <1>4 DEF Approve, Reject, Unreviewed, Repair, requestVars, TypeOK, DataType
<1>5. ASSUME NEW c \in Calls, NEW o \in Ops, Post(c, o) PROVE request'[p] = "active"
  <2>1. \/ request' = request
        \/ \E b \in BOOLEAN : request' = [request EXCEPT ![o.player] = IF b THEN "active" ELSE @]
    BY <1>5 DEF Post, PostProvision, PostLand, PostManager, requestVars
  <2>2. QED
    BY <2>1 DEF TypeOK, DataType
<1>6. ASSUME NEW o \in Ops, Dispatch(o) \/ Execute(o) PROVE request'[p] = "active"
  BY <1>6 DEF Dispatch, Execute, ExecuteProvision, ExecuteLand, ExecuteManager, restOfExecution,
     requestVars
<1>7. ASSUME NEW f \in Fields, BuyNatively(f) PROVE request'[p] = "active"
  BY <1>7 DEF BuyNatively, restOfExecution, requestVars
<1>8. CASE Snapshot \/ Timeout \/ Crash \/ UNCHANGED vars
  BY <1>8 DEF Snapshot, Timeout, Crash, vars, requestVars
<1>9. QED
  BY <1>2, <1>3, <1>4, <1>5, <1>6, <1>7, <1>8 DEF Next

LEMMA InitHandoff == Init => HandoffInv
  BY DEF Init, HandoffInv, Free, Idle

(* A farm handed over stays with its manager, also when Central stops in   *)
(* the middle of a handoff, as long as a receipt or repair is not handled  *)
(* while another call works on its request: the membership a handoff has   *)
(* read is then still true when it writes.                                 *)
THEOREM FarmsStayActive ==
  ASSUME "overlap" \notin Hazards
  PROVE  Spec => ActiveStaysActive
<1> DEFINE Inv == TypeOK /\ ManagerInv /\ HandoffInv
<1>1. Init => Inv
  BY InitType, InitManager, InitHandoff
<1>2. Inv /\ [Next]_vars => Inv'
  BY NextType, NextManager, NextHandoff
<1>3. Inv /\ [Next]_vars
        => [\A p \in Players : request[p] = "active" => request'[p] = "active"]_vars
  BY ActiveStep
<1>4. QED
  BY <1>1, <1>2, <1>3, PTL DEF Spec, ActiveStaysActive

-------------------------------------------------------------------------------
(* Requests move forward                                                   *)

LEMMA NextOneCall ==
  ASSUME TypeOK, HandoffInv, OneCallEach, "overlap" \notin Hazards, "review_race" \notin Hazards,
         [Next]_vars
  PROVE  OneCallEach'
<1>1. ASSUME NEW c \in Calls, NEW p, call'[c].player = p, \A k \in Calls \ {c} : call'[k] = call[k],
             ~HandledBy("staff", p), ~HandledBy("agent", p)
      PROVE  OneCallEach'
  <2>1. \A k \in Calls : ~Free(k) => call[k].player # p
    BY <1>1 DEF HandledBy, HandoffInv
  <2>2. QED
    BY <1>1, <2>1 DEF OneCallEach, Free
<1>2. ASSUME NEW c \in Calls, NEW p, NEW s, NEW f, NEW n, StaffCall(c, p, s, f, n)
      PROVE  OneCallEach'
  <2>1. call'[c].player = p /\ \A k \in Calls \ {c} : call'[k] = call[k]
    BY <1>2 DEF StaffCall, TypeOK, CallType
  <2>2. ~HandledBy("staff", p) /\ ~HandledBy("agent", p)
    BY <1>2 DEF StaffCall, Undisturbed, NoOverlap
  <2>3. QED
    BY <1>1, <2>1, <2>2
<1>3. ASSUME NEW c \in Calls, NEW p, NEW o, NEW s, AgentCall(c, p, o, s) PROVE OneCallEach'
  <2>1. call'[c].player = p /\ \A k \in Calls \ {c} : call'[k] = call[k]
    BY <1>3 DEF AgentCall, TypeOK, CallType
  <2>2. ~HandledBy("staff", p) /\ ~HandledBy("agent", p)
    BY <1>3 DEF AgentCall, NoOverlap
  <2>3. QED
    BY <1>1, <2>1, <2>2
<1>4. ASSUME NEW c \in Calls, CallStep(c) PROVE OneCallEach'
  <2>1. /\ ~Free(c) /\ \A k \in Calls \ {c} : call'[k] = call[k]
        /\ call'[c].step = "idle" \/ call'[c].player = call[c].player
    BY <1>4, CallStepKeeps DEF Idle
  <2>2. QED
    BY <2>1 DEF OneCallEach, Free
<1>5. CASE Crash
  BY <1>5 DEF Crash, OneCallEach, Free, Idle
<1>6. CASE UNCHANGED call
  BY <1>6 DEF OneCallEach, Free
<1>7. ASSUME NEW c \in Calls, NEW p \in Players, Approve(c, p) \/ Reject(c, p) \/ Repair(c, p)
      PROVE  OneCallEach'
  BY <1>2, <1>3, <1>7 DEF Approve, Reject, Repair
<1>8. ASSUME NEW c \in Calls, NEW o \in Ops, Post(c, o) PROVE OneCallEach'
  <2>1. \E p, q, s : AgentCall(c, p, q, s)
    BY <1>8 DEF Post, PostProvision, PostLand, PostManager
  <2>2. QED
    BY <1>3, <2>1
<1>9. ASSUME NEW p \in Players, Register(p) \/ \E f \in Fields : RequestFarm(p, f) PROVE OneCallEach'
  BY <1>6, <1>9 DEF Register, RequestFarm
<1>10. ASSUME NEW o \in Ops, Dispatch(o) \/ Execute(o) PROVE OneCallEach'
  BY <1>6, <1>10 DEF Dispatch, Execute, ExecuteProvision, ExecuteLand, ExecuteManager, restOfExecution
<1>11. ASSUME NEW f \in Fields, BuyNatively(f) PROVE OneCallEach'
  BY <1>6, <1>11 DEF BuyNatively, restOfExecution
<1>12. CASE Snapshot \/ Timeout \/ UNCHANGED vars
  BY <1>6, <1>12 DEF Snapshot, Timeout, vars
<1>13. QED
  BY <1>4, <1>5, <1>7, <1>8, <1>9, <1>10, <1>11, <1>12 DEF Next

(* What is written for one player leaves the others' attempts alone.       *)
LEMMA AttemptFrame ==
  ASSUME TypeOK, ReviewInv, ForwardInv, NEW p \in Players,
         \A q \in Players \ {p} :
           request'[q] = request[q] /\ attempt'[q] = attempt[q] /\ field'[q] = field[q],
         \A o \in Ops : o.player # p => op'[o] = op[o],
         \A k \in Calls :
           \/ call'[k] = call[k] /\ (Free(k) \/ call[k].player # p)
           \/ /\ CallMeetsAttempt(k)'
              /\ call[k].step = "mark_assigning" => call[k].player = p
              /\ call'[k].step = "mark_assigning" => call'[k].player = p,
         RequestMeetsAttempt(p)'
  PROVE  ForwardInv'
<1>1. ASSUME NEW q \in Players, q # p PROVE Working(q)' = Working(q)
  BY <1>1 DEF Working
<1>2. ASSUME NEW q \in Players, q # p PROVE RequestMeetsAttempt(q)'
  <2>1. op'[Provision(q)] = op[Provision(q)]
    BY <1>2, OpFields
  <2>2. QED
    BY <1>1, <1>2, <2>1 DEF ForwardInv, RequestMeetsAttempt
<1>3. ASSUME NEW k \in Calls, call'[k] = call[k], ~Free(k), call[k].player # p
      PROVE  CallMeetsAttempt(k)'
  <2> DEFINE q == call[k].player
             o == Land(q, field[q], attempt[q] + 1)
  <2>1. q \in Players \ {p} /\ CallMeetsAttempt(k)
    BY <1>3 DEF TypeOK, CallType, ForwardInv
  <2>2. op'[Provision(q)] = op[Provision(q)]
    BY <2>1, OpFields
  <2>3. call[k].step = "mark_assigning" => o \in Ops /\ o.player = q
    <3>1. ASSUME call[k].step = "mark_assigning"
          PROVE  field[q] \in Fields /\ attempt[q] + 1 \in Attempts
      BY <2>1, <3>1, BoundAssumption DEF CallMeetsAttempt, ReviewInv, LiveNamesField, Live, LiveStates,
         TypeOK, DataType, Attempts, BoundAssumption
    <3>2. QED
      BY <2>1, <3>1, OpFields
  <2>4. call[k].step = "mark_assigning" => (OpenOp(o) => op'[o] \in {"pending", "dispatched"})
    BY <2>1, <2>3 DEF OpenOp
  <2>5. Land(q, field'[q], attempt'[q] + 1) = o
    BY <2>1
  <2> HIDE DEF o
  <2>6. call[k].step = "mark_assigning" => OpenOp(o)
    BY <2>1 DEF CallMeetsAttempt, o
  <2>7. QED
    BY <1>3, <2>1, <2>2, <2>4, <2>5, <2>6 DEF CallMeetsAttempt, OpenOp
<1>4. \A k \in Calls : call'[k] = call[k] /\ Free(k) => CallMeetsAttempt(k)'
  BY DEF Free, CallMeetsAttempt
<1>5. QED
  BY <1>2, <1>3, <1>4 DEF ForwardInv

(* A step that begins no new attempt.                                      *)
LEMMA AttemptStays ==
  ASSUME TypeOK, ReviewInv, ForwardInv, NEW c \in Calls, NEW p \in Players,
         UNCHANGED <<attempt, field>>,
         \A q \in Players \ {p} : request'[q] = request[q],
         request'[p] \in LateStates => request[p] \in LateStates,
         \A o \in Ops :
           /\ o.player # p => op'[o] = op[o]
           /\ o.kind = "land" /\ op'[o] # "absent" => op[o] # "absent"
           /\ o.kind = "provision" /\ op[o] = "succeeded" => op'[o] = "succeeded",
         \A k \in Calls \ {c} : call'[k] = call[k] /\ (Free(k) \/ call[k].player # p),
         call[c].step # "mark_assigning", call'[c].step # "mark_assigning",
         CallMeetsAttempt(c)'
  PROVE  ForwardInv'
<1>1. ~Working(p)
  BY DEF Working, Free
<1>2. RequestMeetsAttempt(p)
  BY DEF ForwardInv
<1>3. RequestMeetsAttempt(p)'
  <2>1. \A o \in Ops : o.kind = "land" /\ o.player = p /\ op'[o] # "absent" => o.number <= attempt[p]
    BY <1>1, <1>2 DEF RequestMeetsAttempt, TypeOK, DataType
  <2>2. Provision(p) \in Ops /\ Provision(p).kind = "provision"
    BY OpFields
  <2>3. request'[p] \in LateStates => op'[Provision(p)] = "succeeded"
    BY <1>2, <2>2 DEF RequestMeetsAttempt
  <2>4. \A o \in Ops : o.kind = "land" => o.number \in Nat
    BY OpFields DEF Attempts
  <2>5. attempt'[p] \in Nat /\ attempt'[p] = attempt[p]
    BY DEF TypeOK, DataType
  <2>6. \A o \in Ops : o.kind = "land" /\ o.player = p /\ op'[o] # "absent" =>
          o.number <= attempt'[p] + (IF Working(p)' THEN 1 ELSE 0)
    BY <2>1, <2>4, <2>5
  <2>7. QED
    BY <2>3, <2>6 DEF RequestMeetsAttempt
<1>4. QED
  BY <1>3, AttemptFrame

LEMMA CallStepForward ==
  ASSUME TypeOK, ReviewInv, ManagerInv, ApprovalInv, OneCallEach, ForwardInv,
         NEW c \in Calls, CallStep(c)
  PROVE  ForwardInv'
<1>0. PICK p \in Players : p = call[c].player
  BY CallStepKeeps DEF TypeOK, CallType
<1>1. /\ ~Free(c)
      /\ \A k \in Calls \ {c} : call'[k] = call[k] /\ (Free(k) \/ call[k].player # p)
      /\ call'[c] = Idle \/ (call'[c].player = p /\ call'[c].op = call[c].op)
  BY <1>0, CallStepKeeps DEF TypeOK, CallType, OneCallEach
<1>2. /\ call[c].step \in HandoffSteps => request[p] \in LateStates
      /\ CallMeetsAttempt(c) /\ RequestMeetsAttempt(p)
  BY <1>0, <1>1 DEF ReviewInv, CallMeetsRequest, ForwardInv
<1>3. ASSUME UNCHANGED <<attempt, field>>,
             \A q \in Players \ {p} : request'[q] = request[q],
             request'[p] \in LateStates => request[p] \in LateStates,
             \A o \in Ops :
               /\ o.player # p => op'[o] = op[o]
               /\ o.kind = "land" /\ op'[o] # "absent" => op[o] # "absent"
               /\ o.kind = "provision" /\ op[o] = "succeeded" => op'[o] = "succeeded",
             call[c].step # "mark_assigning", call'[c].step \notin AttemptSteps
      PROVE  ForwardInv'
  <2>1. CallMeetsAttempt(c)'
    BY <1>3 DEF CallMeetsAttempt, AttemptSteps
  <2>2. call'[c].step # "mark_assigning"
    BY <1>3 DEF AttemptSteps
  <2>3. QED
    BY <1>1, <1>3, <2>1, <2>2, AttemptStays
<1>4. ASSUME UNCHANGED <<attempt, field, request, op>>, call[c].step # "mark_assigning",
             call'[c].step \notin AttemptSteps
      PROVE  ForwardInv'
  BY <1>3, <1>4
<1>5. ASSUME NEW s, Goto(c, s) PROVE call'[c].step = s /\ call'[c].player = p /\ call'[c].number = call[c].number
  BY <1>0, <1>5 DEF Goto, TypeOK, CallType, CallRecords
<1>6. CASE Reply(c) \/ Refuse(c) \/ Release(c) \/ ReadMembership(c) \/ ActivateFarm(c) \/ Suspend(c)
  <2>1. UNCHANGED <<attempt, field, request, op>> /\ call[c].step # "mark_assigning"
    BY <1>6 DEF Reply, Refuse, Release, ReadMembership, ActivateFarm, Suspend, At, requestVars
  <2>2. CASE Reply(c) \/ Refuse(c)
    <3>1. call'[c].step = "idle"
      BY <2>2 DEF Reply, Refuse, Accept, End, Idle, TypeOK, CallType
    <3>2. QED
      BY <1>4, <2>1, <3>1 DEF AttemptSteps
  <2>3. CASE ~(Reply(c) \/ Refuse(c))
    <3>1. call'[c].step \notin AttemptSteps
      BY <1>5, <1>6, <2>3 DEF Release, ReadMembership, ActivateFarm, Suspend, AfterHandoff, AttemptSteps
    <3>2. QED
      BY <1>4, <2>1, <3>1
  <2>4. QED
    BY <2>2, <2>3
<1>7. CASE QueueProvision(c)
  <2>1. /\ UNCHANGED <<attempt, field, request>> /\ call[c].step = "queue_provision"
        /\ op' = [op EXCEPT ![Provision(p)] = IF @ = "absent" THEN "pending" ELSE @]
    BY <1>0, <1>7 DEF QueueProvision, Queue, requestVars, At
  <2>2. call'[c].step \notin AttemptSteps
    BY <1>5, <1>7 DEF QueueProvision, AttemptSteps
  <2>3. \A o \in Ops : /\ o.player # p => op'[o] = op[o]
                       /\ o.kind = "land" /\ op'[o] # "absent" => op[o] # "absent"
                       /\ o.kind = "provision" /\ op[o] = "succeeded" => op'[o] = "succeeded"
    BY <2>1, OpFields DEF TypeOK, DataType
  <2>4. QED
    BY <1>3, <2>1, <2>2, <2>3
<1>8. CASE MarkProvisioning(c)
  <2>1. /\ UNCHANGED <<attempt, field, op>> /\ call[c].step = "mark_provisioning"
        /\ request' = [request EXCEPT ![p] = IF @ = "pending" THEN "provisioning" ELSE @]
    BY <1>0, <1>8 DEF MarkProvisioning, At
  <2>2. call'[c].step \notin AttemptSteps
    BY <1>5, <1>8 DEF MarkProvisioning, AttemptSteps
  <2>3. /\ \A q \in Players \ {p} : request'[q] = request[q]
        /\ request'[p] \in LateStates => request[p] \in LateStates
    BY <1>1, <2>1 DEF LateStates, ManagerStates, TypeOK, DataType
  <2>4. QED
    BY <1>3, <2>1, <2>2, <2>3
<1>9. CASE QueueLand(c)
  <2> DEFINE o == Land(p, call[c].field, call[c].number)
  <2>1. /\ UNCHANGED <<attempt, field, request>> /\ call[c].step = "queue_land"
        /\ \/ /\ op' = [op EXCEPT ![o] = IF @ = "absent" THEN "pending" ELSE @]
              /\ Goto(c, "mark_assigning")
           \/ op' = op /\ Goto(c, "reply")
    BY <1>0, <1>9 DEF QueueLand, Queue, requestVars, At
  <2>2. CASE op' = op /\ Goto(c, "reply")
    BY <1>4, <1>5, <2>1, <2>2 DEF AttemptSteps
  <2>3. CASE /\ op' = [op EXCEPT ![o] = IF @ = "absent" THEN "pending" ELSE @]
             /\ Goto(c, "mark_assigning")
    <3>1. /\ request[p] = "land_pending" /\ attempt[p] < MaxAttempts
          /\ call[c].number = attempt[p] + 1 /\ call[c].field = field[p]
      BY <1>0, <1>2, <2>1 DEF CallMeetsAttempt, ApprovalInv, CallMeetsApproval
    <3>2. o \in Ops /\ o.player = p /\ o.kind = "land" /\ o.number = attempt[p] + 1
      <4>1. field[p] \in Fields /\ attempt[p] + 1 \in Attempts
        BY <1>1, <3>1, BoundAssumption DEF ReviewInv, LiveNamesField, Live, LiveStates,
           TypeOK, DataType, Attempts, BoundAssumption
      <4>2. QED
        BY <1>1, <3>1, <4>1, OpFields
    <3>3. ~Working(p)
      BY <1>0, <1>1, <2>1 DEF Working, Free
    <3> HIDE DEF o
    <3>4. \A q \in Ops : q.kind = "land" => q.number \in Nat
      BY OpFields DEF Attempts
    <3>5. attempt[p] \in Nat
      BY <1>1 DEF TypeOK, DataType
    <3>6. op[o] = "absent"
      BY <1>2, <3>2, <3>3, <3>5 DEF RequestMeetsAttempt
    <3>7. op'[o] = "pending" /\ \A q \in Ops \ {o} : op'[q] = op[q]
      BY <2>3, <3>2, <3>6 DEF TypeOK, DataType
    <3>8. call'[c].step = "mark_assigning" /\ call'[c].player = p /\ call'[c].number = attempt[p] + 1
      BY <1>5, <2>3, <3>1
    <3>9. CallMeetsAttempt(c)'
      BY <2>1, <3>1, <3>7, <3>8 DEF CallMeetsAttempt, OpenOp, o
    <3>10. Working(p)'
      BY <3>8 DEF Working
    <3>11. RequestMeetsAttempt(p)'
      <4>1. op'[Provision(p)] = op[Provision(p)]
        BY <1>1, <3>2, <3>7, OpFields
      <4>2. \A q \in Ops : q.kind = "land" /\ q.player = p /\ op'[q] # "absent" =>
              q.number <= attempt[p] + 1
        BY <1>2, <3>2, <3>3, <3>4, <3>5, <3>7 DEF RequestMeetsAttempt
      <4>3. QED
        BY <1>2, <2>1, <3>10, <4>1, <4>2 DEF RequestMeetsAttempt
    <3>12. QED
      BY <1>1, <2>1, <3>2, <3>7, <3>8, <3>9, <3>11, AttemptFrame
  <2>4. QED
    BY <2>1, <2>2, <2>3
<1>10. CASE MarkAssigning(c)
  <2>1. /\ UNCHANGED <<field, op>> /\ call[c].step = "mark_assigning" /\ Goto(c, "reply")
        /\ request[p] = "land_pending" /\ call[c].number = attempt[p] + 1
        /\ request' = [request EXCEPT ![p] = "land_assigning"]
        /\ attempt' = [attempt EXCEPT ![p] = attempt[p] + 1]
    BY <1>0, <1>2, <1>10 DEF MarkAssigning, At, CallMeetsAttempt, TypeOK, DataType
  <2>2. CallMeetsAttempt(c)' /\ ~Working(p)'
    BY <1>0, <1>1, <1>5, <2>1 DEF CallMeetsAttempt, Working, Free
  <2>3. Working(p)
    BY <1>0, <2>1 DEF Working
  <2>4. attempt'[p] = attempt[p] + 1 /\ attempt[p] \in Nat /\ request'[p] = "land_assigning"
    BY <1>1, <2>1 DEF TypeOK, DataType
  <2>5. RequestMeetsAttempt(p)'
    BY <1>2, <2>1, <2>2, <2>3, <2>4 DEF RequestMeetsAttempt, LateStates
  <2>6. \A q \in Players \ {p} : request'[q] = request[q] /\ attempt'[q] = attempt[q]
    BY <2>1 DEF TypeOK, DataType
  <2>7. call'[c].step # "mark_assigning" /\ call[c].player = p
    BY <1>0, <1>5, <2>1
  <2>8. QED
    BY <1>1, <2>1, <2>2, <2>5, <2>6, <2>7, AttemptFrame
<1>11. CASE MapFarm(c)
  <2>1. UNCHANGED <<attempt, field, request, op>> /\ call[c].step = "map_farm" /\ Goto(c, "succeed_provision")
    BY <1>11 DEF MapFarm, At, requestVars
  <2>2. call'[c].step = "succeed_provision" /\ call'[c].player = p /\ request[p] = "provisioning"
    BY <1>0, <1>2, <1>5, <2>1 DEF CallMeetsAttempt
  <2>3. CallMeetsAttempt(c)'
    BY <2>1, <2>2 DEF CallMeetsAttempt
  <2>4. QED
    BY <1>1, <2>1, <2>2, <2>3, AttemptStays
<1>12. CASE SucceedProvision(c)
  <2>1. /\ UNCHANGED <<attempt, field, request>> /\ call[c].step = "succeed_provision"
        /\ Goto(c, "await_land")
        /\ op' = [op EXCEPT ![Provision(p)] = "succeeded"]
    BY <1>0, <1>12 DEF SucceedProvision, At, requestVars, ManagerInv, CallMeetsMember
  <2>2. call'[c].step = "await_land" /\ call'[c].player = p /\ request[p] = "provisioning"
    BY <1>0, <1>2, <1>5, <2>1 DEF CallMeetsAttempt
  <2>3. /\ op'[Provision(p)] = "succeeded"
        /\ \A o \in Ops : /\ o.player # p => op'[o] = op[o]
                          /\ o.kind = "land" /\ op'[o] # "absent" => op[o] # "absent"
                          /\ o.kind = "provision" /\ op[o] = "succeeded" => op'[o] = "succeeded"
    BY <1>1, <2>1, OpFields DEF TypeOK, DataType
  <2>4. CallMeetsAttempt(c)'
    BY <2>1, <2>2, <2>3 DEF CallMeetsAttempt
  <2>5. QED
    BY <1>1, <2>1, <2>2, <2>3, <2>4, AttemptStays
<1>13. CASE AwaitLand(c)
  <2>1. /\ UNCHANGED <<attempt, field, op>> /\ call[c].step = "await_land" /\ attempt[p] < MaxAttempts
        /\ request[p] = "provisioning" /\ op[Provision(p)] = "succeeded"
        /\ request' = [request EXCEPT ![p] = "land_pending"]
        /\ call' = [call EXCEPT ![c].step = "queue_land", ![c].field = field[p],
                                ![c].number = attempt[p] + 1]
    BY <1>0, <1>2, <1>13 DEF AwaitLand, At, CallMeetsAttempt, NextAttempt, TypeOK, DataType
  <2>2. /\ call'[c].step = "queue_land" /\ call'[c].player = p /\ call'[c].number = attempt[p] + 1
        /\ request'[p] = "land_pending"
    BY <1>0, <1>1, <2>1 DEF TypeOK, CallType, CallRecords, DataType
  <2>3. CallMeetsAttempt(c)'
    BY <2>1, <2>2 DEF CallMeetsAttempt
  <2>4. ~Working(p) /\ ~Working(p)'
    <3>1. call[c].step = "await_land"
      BY <2>1
    <3>2. QED
      BY <1>0, <1>1, <2>2, <3>1 DEF Working, Free
  <2>5. RequestMeetsAttempt(p)'
    BY <1>2, <2>1, <2>4 DEF RequestMeetsAttempt
  <2>6. \A q \in Players \ {p} : request'[q] = request[q]
    BY <2>1 DEF TypeOK, DataType
  <2>7. QED
    BY <1>1, <2>1, <2>2, <2>3, <2>5, <2>6, AttemptFrame
<1>14. CASE ReturnLand(c)
  <2>1. /\ UNCHANGED <<attempt, field, op>> /\ call[c].step = "return_land" /\ Goto(c, "reply")
        /\ request' = [request EXCEPT ![p] = IF @ = "land_assigning" THEN "land_pending" ELSE @]
    BY <1>0, <1>14 DEF ReturnLand, At
  <2>2. /\ \A q \in Players \ {p} : request'[q] = request[q]
        /\ request'[p] \in LateStates => request[p] \in LateStates
    BY <1>1, <2>1 DEF LateStates, TypeOK, DataType
  <2>3. QED
    BY <1>3, <1>5, <2>1, <2>2 DEF AttemptSteps
<1>15. CASE SucceedLand(c)
  <2> DEFINE o == call[c].op
  <2>1. /\ UNCHANGED <<attempt, field, request>> /\ call[c].step = "succeed_land" /\ Goto(c, "assign")
        /\ op' = [op EXCEPT ![o] = IF OpenOp(o) THEN "succeeded" ELSE @]
        /\ o.kind = "land" /\ o.player = p
    BY <1>0, <1>2, <1>15 DEF SucceedLand, At, requestVars, ManagerInv, CallMeetsMember, CallMeetsAttempt
  <2>2. \A q \in Ops : /\ q.player # p => op'[q] = op[q]
                       /\ q.kind = "land" /\ op'[q] # "absent" => op[q] # "absent"
                       /\ q.kind = "provision" /\ op[q] = "succeeded" => op'[q] = "succeeded"
    BY <2>1 DEF OpenOp, TypeOK, DataType
  <2>3. QED
    BY <1>3, <1>5, <2>1, <2>2 DEF AttemptSteps
<1>16. ASSUME call[c].step \in HandoffSteps, UNCHANGED <<attempt, field, op>>,
              \A q \in Players \ {p} : request'[q] = request[q],
              call'[c].step \notin AttemptSteps
       PROVE  ForwardInv'
  <2>1. request[p] \in LateStates /\ call[c].step # "mark_assigning"
    BY <1>2, <1>16 DEF HandoffSteps
  <2>2. QED
    BY <1>3, <1>16, <2>1
<1>17. CASE ConfirmLand(c)
  <2>1. UNCHANGED <<attempt, field, op>> /\ call[c].step = "confirm" /\ Goto(c, "reply")
    BY <1>17 DEF ConfirmLand, At
  <2>2. \A q \in Players \ {p} : request'[q] = request[q]
    BY <1>0, <1>17 DEF ConfirmLand, TypeOK, DataType
  <2>3. QED
    BY <1>5, <1>16, <2>1, <2>2 DEF AttemptSteps, HandoffSteps
<1>18. CASE Assign(c)
  <2>1. /\ UNCHANGED <<attempt, field, request>> /\ call[c].step = "assign"
        /\ \/ op' = op
           \/ op' = [op EXCEPT ![Manager(p, member[p].revision + 1)] = "pending"]
        /\ \/ call' = [call EXCEPT ![c].step = "read_membership", ![c].number = member[p].revision]
           \/ call' = [call EXCEPT ![c].step = "read_membership", ![c].number = member[p].revision + 1]
    BY <1>0, <1>18 DEF Assign, At, requestVars
  <2>2. call'[c].step = "read_membership"
    BY <2>1 DEF TypeOK, CallType, CallRecords
  <2>3. \A o \in Ops : /\ o.player # p => op'[o] = op[o]
                       /\ o.kind = "land" /\ op'[o] # "absent" => op[o] # "absent"
                       /\ o.kind = "provision" /\ op[o] = "succeeded" => op'[o] = "succeeded"
    <3>1. \A n : Manager(p, n).kind = "manager" /\ Manager(p, n).player = p
      BY OpFields
    <3>2. PICK m : m.kind = "manager" /\ m.player = p /\ (op' = op \/ op' = [op EXCEPT ![m] = "pending"])
      BY <2>1, <3>1
    <3>3. \A o \in Ops : op'[o] = op[o] \/ o = m
      BY <3>2 DEF TypeOK, DataType
    <3>4. QED
      BY <3>2, <3>3
  <2>4. QED
    BY <1>3, <2>1, <2>2, <2>3 DEF AttemptSteps
<1>19. CASE AssignFails(c)
  <2>1. /\ UNCHANGED <<attempt, field, op>> /\ call[c].step = "assign"
        /\ call' = [call EXCEPT ![c].step = AfterHandoff(c), ![c].number = 0]
    BY <1>19 DEF AssignFails, At
  <2>2. call'[c].step \in {"confirm", "reply"}
    BY <2>1 DEF AfterHandoff, TypeOK, CallType, CallRecords
  <2>3. \A q \in Players \ {p} : request'[q] = request[q]
    BY <1>0, <1>19 DEF AssignFails, TypeOK, DataType
  <2>4. QED
    BY <1>16, <2>1, <2>2, <2>3 DEF AttemptSteps, HandoffSteps
<1>20. CASE HandOff(c)
  <2>1. /\ UNCHANGED <<attempt, field, op>> /\ call[c].step \in {"hand_over", "hand_off"}
        /\ \E s \in {"activate_farm", "confirm", "reply"} : Goto(c, s)
    BY <1>20 DEF HandOff, At, AfterHandoff
  <2>2. \A q \in Players \ {p} : request'[q] = request[q]
    BY <1>0, <1>20 DEF HandOff, TypeOK, DataType
  <2>3. QED
    BY <1>5, <1>16, <2>1, <2>2 DEF AttemptSteps, HandoffSteps
<1>21. QED
  BY <1>6, <1>7, <1>8, <1>9, <1>10, <1>11, <1>12, <1>13, <1>14, <1>15, <1>17, <1>18, <1>19, <1>20
     DEF CallStep

(* A new call finds its request free of others, and where they left it.    *)
LEMMA NewCallForward ==
  ASSUME TypeOK, ReviewInv, HandoffInv, ForwardInv, NEW c \in Calls, NEW p \in Players, Free(c),
         ~HandledBy("staff", p), ~HandledBy("agent", p),
         \A k \in Calls \ {c} : call'[k] = call[k],
         UNCHANGED <<attempt, field>>,
         \A q \in Players \ {p} : request'[q] = request[q],
         request'[p] \in LateStates => request[p] \in LateStates,
         \A o \in Ops :
           /\ o.player # p => op'[o] = op[o]
           /\ o.kind = "land" /\ op'[o] # "absent" => op[o] # "absent"
           /\ o.kind = "provision" /\ op[o] = "succeeded" => op'[o] = "succeeded",
         call'[c].step # "mark_assigning",
         CallMeetsAttempt(c)'
  PROVE  ForwardInv'
<1>1. \A k \in Calls : Free(k) \/ call[k].player # p
  BY DEF HandledBy, HandoffInv
<1>2. call[c].step # "mark_assigning"
  BY DEF Free
<1>3. QED
  BY <1>1, <1>2, AttemptStays

LEMMA NewAgentCallForward ==
  ASSUME TypeOK, ReviewInv, HandoffInv, ForwardInv, NEW c \in Calls, NEW p \in Players, NEW o, NEW s,
         AgentCall(c, p, o, s), "overlap" \notin Hazards,
         UNCHANGED <<attempt, field>>,
         \A q \in Players \ {p} : request'[q] = request[q],
         request'[p] \in LateStates => request[p] \in LateStates,
         \A q \in Ops :
           /\ q.player # p => op'[q] = op[q]
           /\ q.kind = "land" /\ op'[q] # "absent" => op[q] # "absent"
           /\ q.kind = "provision" /\ op[q] = "succeeded" => op'[q] = "succeeded",
         s \in AttemptSteps => \/ s = "map_farm" /\ request'[p] = "provisioning"
                               \/ s = "succeed_land" /\ o.player = p
  PROVE  ForwardInv'
<1>1. /\ Free(c) /\ ~HandledBy("staff", p) /\ ~HandledBy("agent", p)
      /\ \A k \in Calls \ {c} : call'[k] = call[k]
      /\ call'[c].step = s /\ call'[c].player = p /\ call'[c].op = o
  BY DEF AgentCall, NoOverlap, TypeOK, CallType
<1>2. CallMeetsAttempt(c)' /\ s # "mark_assigning"
  BY <1>1 DEF CallMeetsAttempt, AttemptSteps
<1>3. QED
  BY <1>1, <1>2, NewCallForward

LEMMA NextForward ==
  ASSUME TypeOK, ReviewInv, ManagerInv, FoundingInv, ApprovalInv, HandoffInv, OneCallEach, ForwardInv,
         Hazards = {}, [Next]_vars
  PROVE  ForwardInv'
<1>1. ASSUME UNCHANGED <<request, attempt, field, call>>,
             \A o \in Ops : op'[o] = op[o] \/ (op[o] = "pending" /\ op'[o] = "dispatched")
      PROVE  ForwardInv'
  <2>1. ASSUME NEW p \in Players PROVE RequestMeetsAttempt(p)'
    <3>1. RequestMeetsAttempt(p) /\ Provision(p) \in Ops /\ Working(p)' = Working(p)
      BY <1>1, OpFields DEF ForwardInv, Working
    <3>2. QED
      BY <1>1, <3>1 DEF RequestMeetsAttempt
  <2>2. ASSUME NEW c \in Calls, call[c].step # "idle" PROVE CallMeetsAttempt(c)'
    <3>1. PICK p \in Players : p = call[c].player
      BY <2>2 DEF TypeOK, CallType, Free
    <3>2. CallMeetsAttempt(c) /\ Provision(p) \in Ops
      BY OpFields DEF ForwardInv
    <3>3. call[c].step = "mark_assigning" => Land(p, field[p], attempt[p] + 1) \in Ops
      <4>1. ASSUME call[c].step = "mark_assigning"
            PROVE  field[p] \in Fields /\ attempt[p] + 1 \in Attempts
        BY <3>1, <3>2, <4>1, BoundAssumption DEF CallMeetsAttempt, ReviewInv, LiveNamesField, Live,
           LiveStates, TypeOK, DataType, Attempts, BoundAssumption
      <4>2. QED
        BY <4>1, OpFields
    <3>4. QED
      BY <1>1, <3>1, <3>2, <3>3 DEF CallMeetsAttempt, OpenOp
  <2>3. \A c \in Calls : call[c].step = "idle" => CallMeetsAttempt(c)'
    BY <1>1 DEF CallMeetsAttempt
  <2>4. QED
    BY <2>1, <2>2, <2>3 DEF ForwardInv
<1>2. ASSUME NEW p \in Players, NEW f \in Fields, RequestFarm(p, f) PROVE ForwardInv'
  <2>1. /\ request' = [request EXCEPT ![p] = "pending"] /\ request[p] \in {"none", "rejected"}
        /\ attempt' = [attempt EXCEPT ![p] = 0] /\ field' = [field EXCEPT ![p] = f]
        /\ UNCHANGED <<op, call>> /\ ~HandledBy("staff", p)
    BY <1>2 DEF RequestFarm, Undisturbed
  <2>2. ~Asked(p)
    BY <2>1 DEF ApprovalInv, Decided, Marking, CallMeetsApproval, HandledBy
  <2>3. RequestMeetsAttempt(p)'
    <3>1. \A o \in Ops : o.player = p => op[o] = "absent"
      BY <2>2 DEF ApprovalInv
    <3>2. request'[p] = "pending"
      BY <2>1 DEF TypeOK, DataType
    <3>3. QED
      BY <2>1, <3>1, <3>2 DEF RequestMeetsAttempt, LateStates, ManagerStates
  <2>4. ASSUME NEW k \in Calls, ~Free(k), call[k].player = p
        PROVE  CallMeetsAttempt(k)'
    <3>1. /\ call'[k] = call[k]
          /\ call[k].step \notin AttemptSteps \ {"succeed_land"}
          /\ call[k].step = "succeed_land" => call[k].op.player = p
      BY <2>1, <2>4 DEF ForwardInv, CallMeetsAttempt, AttemptSteps
    <3>2. QED
      BY <2>4, <3>1 DEF CallMeetsAttempt, AttemptSteps
  <2>5. \A q \in Players \ {p} :
          request'[q] = request[q] /\ attempt'[q] = attempt[q] /\ field'[q] = field[q]
    BY <2>1 DEF TypeOK, DataType
  <2>6. ASSUME NEW k \in Calls
        PROVE  \/ call'[k] = call[k] /\ (Free(k) \/ call[k].player # p)
               \/ /\ CallMeetsAttempt(k)'
                  /\ call[k].step = "mark_assigning" => call[k].player = p
                  /\ call'[k].step = "mark_assigning" => call'[k].player = p
    BY <2>1, <2>4
  <2>7. QED
    BY <2>1, <2>3, <2>5, <2>6, AttemptFrame
<1>3. ASSUME NEW c \in Calls, NEW p \in Players, Approve(c, p) PROVE ForwardInv'
  <2>1. UNCHANGED <<request, attempt, field, op>>
    BY <1>3 DEF Approve, requestVars
  <2>2. PICK s \in {"queue_provision", "queue_land"}, f \in {NoField, field[p]},
             n \in {0, NextAttempt(p)} :
          /\ StaffCall(c, p, s, f, n)
          /\ s = "queue_land" => /\ request[p] = "land_pending" /\ attempt[p] < MaxAttempts
                                 /\ n = attempt[p] + 1
    BY <1>3 DEF Approve, NextAttempt
  <2>3. /\ Free(c) /\ ~HandledBy("staff", p) /\ ~HandledBy("agent", p)
        /\ call'[c].step = s /\ call'[c].player = p /\ call'[c].number = n
        /\ \A k \in Calls \ {c} : call'[k] = call[k]
    BY <2>2 DEF StaffCall, Undisturbed, NoOverlap, TypeOK, CallType
  <2>4. CallMeetsAttempt(c)'
    BY <2>1, <2>2, <2>3 DEF CallMeetsAttempt
  <2>5. QED
    BY <2>1, <2>3, <2>4, NewCallForward
<1>4. ASSUME NEW c \in Calls, NEW p \in Players, Reject(c, p) PROVE ForwardInv'
  <2>1. /\ UNCHANGED <<attempt, field, op>>
        /\ request' = [request EXCEPT ![p] = "rejected"]
        /\ StaffCall(c, p, "release", NoField, 0)
    BY <1>4 DEF Reject
  <2>2. /\ Free(c) /\ ~HandledBy("staff", p) /\ ~HandledBy("agent", p)
        /\ call'[c].step = "release" /\ \A k \in Calls \ {c} : call'[k] = call[k]
    BY <2>1 DEF StaffCall, Undisturbed, NoOverlap, TypeOK, CallType
  <2>3. /\ request'[p] \notin LateStates
        /\ \A q \in Players \ {p} : request'[q] = request[q]
    BY <2>1 DEF LateStates, ManagerStates, TypeOK, DataType
  <2>4. CallMeetsAttempt(c)'
    BY <2>2 DEF CallMeetsAttempt
  <2>5. QED
    BY <2>1, <2>2, <2>3, <2>4, NewCallForward
<1>5. ASSUME NEW c \in Calls, NEW p \in Players, Repair(c, p) PROVE ForwardInv'
  <2>1. UNCHANGED <<request, attempt, field, op>> /\ AgentCall(c, p, NoOp, "assign")
    BY <1>5 DEF Repair, requestVars
  <2>2. QED
    BY <2>1, NewAgentCallForward DEF AttemptSteps
<1>6. ASSUME NEW c \in Calls, NEW p \in Players, PostProvision(c, p) PROVE ForwardInv'
  <2> DEFINE o == Provision(p)
  <2>1. /\ UNCHANGED <<request, attempt, field>> /\ receipt[o] # "none"
        /\ o \in Ops /\ o.player = p /\ o.kind = "provision"
    BY <1>6, OpFields DEF PostProvision, requestVars
  <2>2. PICK s \in {"assign", "reply", "map_farm"} :
          /\ AgentCall(c, p, o, s)
          /\ s = "map_farm" => op[o] # "succeeded"
    BY <1>6 DEF PostProvision
  <2>3. op' = op \/ (op[o] # "succeeded" /\ op' = [op EXCEPT ![o] = "reconciliation_required"])
    BY <1>6 DEF PostProvision
  <2>4. s = "map_farm" => request[p] = "provisioning"
    <3>1. Asked(p)
      BY <2>1 DEF FoundingInv, ReceiptsAreTrue, Asked
    <3>2. ~Marking(p)
      BY <2>2 DEF AgentCall, NoOverlap, HandledBy, Marking, HandoffInv, Free
    <3>3. op[o] # "succeeded" => request[p] \notin LateStates
      BY DEF ForwardInv, RequestMeetsAttempt
    <3>4. Decided(p)
      BY <3>1, <3>2 DEF ApprovalInv
    <3>5. QED
      BY <2>2, <3>3, <3>4 DEF Decided, LateStates, LiveStates, ManagerStates, TypeOK, DataType
  <2>5. \A q \in Ops : /\ q.player # p => op'[q] = op[q]
                       /\ q.kind = "land" /\ op'[q] # "absent" => op[q] # "absent"
                       /\ q.kind = "provision" /\ op[q] = "succeeded" => op'[q] = "succeeded"
    BY <2>1, <2>3 DEF TypeOK, DataType
  <2>6. s \in AttemptSteps => s = "map_farm" /\ request'[p] = "provisioning"
    BY <2>1, <2>4 DEF AttemptSteps
  <2> HIDE DEF o
  <2>7. QED
    BY <2>1, <2>2, <2>5, <2>6, NewAgentCallForward
<1>7. ASSUME NEW c \in Calls, NEW o \in Ops, PostLand(c, o) PROVE ForwardInv'
  <2>1. /\ UNCHANGED <<request, attempt, field>> /\ receipt[o] # "none"
        /\ o.kind = "land" /\ o.player \in Players
    BY <1>7, OpFields DEF PostLand, requestVars
  <2>2. PICK s \in {"return_land", "reply", "succeed_land"} : AgentCall(c, o.player, o, s)
    BY <1>7 DEF PostLand
  <2>3. op[o] # "absent"
    BY <2>1 DEF FoundingInv, ReceiptsAreTrue
  <2>4. \A q \in Ops : op'[q] = op[q] \/ q = o
    BY <1>7 DEF PostLand, TypeOK, DataType
  <2>5. QED
    BY <2>1, <2>2, <2>3, <2>4, NewAgentCallForward DEF AttemptSteps
<1>8. ASSUME NEW c \in Calls, NEW o \in Ops, o.kind = "manager",
             PostManager(c, o.player, o.number)
      PROVE  ForwardInv'
  <2> DEFINE p == o.player
             m == Manager(p, o.number)
  <2>1. p \in Players /\ m.kind = "manager" /\ m.player = p
    BY OpFields
  <2>2. /\ UNCHANGED <<attempt, field>>
        /\ \/ request' = request
           \/ request[p] = "awaiting_manager" /\ request' = [request EXCEPT ![p] = "active"]
    BY <1>8, <2>1 DEF PostManager, TypeOK, DataType
  <2>3. PICK s \in {"reply", "refuse", "suspend"} : AgentCall(c, p, m, s)
    BY <1>8 DEF PostManager
  <2>4. \A q \in Ops : op'[q] = op[q] \/ q = m
    BY <1>8 DEF PostManager, TypeOK, DataType
  <2>5. /\ \A q \in Players \ {p} : request'[q] = request[q]
        /\ request'[p] \in LateStates => request[p] \in LateStates
    BY <2>1, <2>2 DEF LateStates, ManagerStates, TypeOK, DataType
  <2>6. \A q \in Ops : /\ q.player # p => op'[q] = op[q]
                       /\ q.kind = "land" /\ op'[q] # "absent" => op[q] # "absent"
                       /\ q.kind = "provision" /\ op[q] = "succeeded" => op'[q] = "succeeded"
    BY <2>1, <2>4
  <2>7. s \notin AttemptSteps
    BY DEF AttemptSteps
  <2> HIDE DEF p, m
  <2>8. QED
    BY <2>1, <2>2, <2>3, <2>5, <2>6, <2>7, NewAgentCallForward
<1>9. ASSUME NEW c \in Calls, NEW o \in Ops, Post(c, o) PROVE ForwardInv'
  BY <1>6, <1>7, <1>8, <1>9, OpFields DEF Post
<1>10. ASSUME NEW c \in Calls, CallStep(c) PROVE ForwardInv'
  BY <1>10, CallStepForward
<1>11. ASSUME NEW p \in Players, Register(p) PROVE ForwardInv'
  BY <1>1, <1>11 DEF Register, requestVars
<1>12. ASSUME NEW o \in Ops, Dispatch(o) \/ Execute(o) PROVE ForwardInv'
  <2>1. UNCHANGED <<request, attempt, field, call>>
    BY <1>12 DEF Dispatch, Execute, ExecuteProvision, ExecuteLand, ExecuteManager,
       restOfExecution, requestVars
  <2>2. \A q \in Ops : op'[q] = op[q] \/ (op[q] = "pending" /\ op'[q] = "dispatched")
    <3>1. CASE Dispatch(o)
      BY <3>1 DEF Dispatch
    <3>2. CASE Execute(o)
      BY <3>2 DEF Execute, ExecuteProvision, ExecuteLand, ExecuteManager, restOfExecution
    <3>3. QED
      BY <1>12, <3>1, <3>2
  <2>3. QED
    BY <1>1, <2>1, <2>2
<1>13. ASSUME NEW f \in Fields, BuyNatively(f) PROVE ForwardInv'
  BY <1>1, <1>13 DEF BuyNatively, restOfExecution, requestVars
<1>14. CASE Snapshot \/ Timeout \/ UNCHANGED vars
  BY <1>1, <1>14 DEF Snapshot, Timeout, vars, requestVars
<1>15. QED
  BY <1>2, <1>3, <1>4, <1>5, <1>9, <1>10, <1>11, <1>12, <1>13, <1>14 DEF Next, Crash

(* A request enters land_assigning with the attempt its call has queued.   *)
LEMMA RetryStep ==
  ASSUME TypeOK, ForwardInv, [Next]_vars, NEW p \in Players,
         request[p] = "land_pending", request'[p] = "land_assigning"
  PROVE  OpenOp(Land(p, field[p], attempt'[p]))
<1>1. \E c \in Calls : MarkAssigning(c) /\ call[c].player = p
  <2>1. ASSUME UNCHANGED request PROVE FALSE
    BY <2>1
  <2>2. ASSUME NEW c \in Calls, CallStep(c), ~(MarkAssigning(c) /\ call[c].player = p) PROVE FALSE
    BY <2>2 DEF CallStep, Reply, Refuse, QueueProvision, MarkProvisioning, Release, QueueLand,
       MarkAssigning, MapFarm, SucceedProvision, AwaitLand, ReturnLand, SucceedLand, ConfirmLand,
       Assign, AssignFails, ReadMembership, HandOff, ActivateFarm, Suspend, requestVars,
       TypeOK, DataType
  <2>3. ASSUME NEW q \in Players, Register(q) \/ \E f \in Fields : RequestFarm(q, f) PROVE FALSE
    BY <2>3 DEF Register, RequestFarm, requestVars, TypeOK, DataType
  <2>4. ASSUME NEW c \in Calls, NEW q \in Players, Approve(c, q) \/ Reject(c, q) \/ Repair(c, q)
        PROVE  FALSE
    BY <2>4 DEF Approve, Reject, Repair, requestVars, TypeOK, DataType
  <2>5. ASSUME NEW c \in Calls, NEW o \in Ops, Post(c, o) PROVE FALSE
    <3>1. \/ request' = request
          \/ \E b \in BOOLEAN : request' = [request EXCEPT ![o.player] = IF b THEN "active" ELSE @]
      BY <2>5 DEF Post, PostProvision, PostLand, PostManager, requestVars
    <3>2. QED
      BY <3>1 DEF TypeOK, DataType
  <2>6. ASSUME NEW o \in Ops, Dispatch(o) \/ Execute(o) PROVE FALSE
    BY <2>6 DEF Dispatch, Execute, ExecuteProvision, ExecuteLand, ExecuteManager, restOfExecution,
       requestVars
  <2>7. ASSUME NEW f \in Fields, BuyNatively(f) PROVE FALSE
    BY <2>7 DEF BuyNatively, restOfExecution, requestVars
  <2>8. CASE Snapshot \/ Timeout \/ Crash \/ UNCHANGED vars
    BY <2>1, <2>8 DEF Snapshot, Timeout, Crash, vars, requestVars
  <2>9. QED
    BY <2>2, <2>3, <2>4, <2>5, <2>6, <2>7, <2>8 DEF Next
<1>2. PICK c \in Calls : MarkAssigning(c) /\ call[c].player = p
  BY <1>1
<1>3. /\ call[c].number = attempt[p] + 1
      /\ OpenOp(Land(p, field[p], attempt[p] + 1))
  BY <1>2 DEF MarkAssigning, At, ForwardInv, CallMeetsAttempt
<1>4. attempt'[p] = attempt[p] + 1
  BY <1>2, <1>3 DEF MarkAssigning, TypeOK, DataType
<1>5. QED
  BY <1>3, <1>4

LEMMA InitForward == Init => OneCallEach /\ ForwardInv
  BY OpFields DEF Init, OneCallEach, Free, Idle, ForwardInv, RequestMeetsAttempt, CallMeetsAttempt,
     LateStates, ManagerStates

(* When Central neither stops nor works on one request twice at a time, a  *)
(* retried purchase is always a new one, and an active farm stays active.  *)
THEOREM RequestsStayForward ==
  ASSUME Hazards = {}
  PROVE  Spec => RequestsMoveForward
<1> DEFINE Inv == /\ TypeOK /\ ReviewInv /\ ManagerInv /\ FoundingInv /\ OneReview /\ ApprovalInv
                  /\ HandoffInv /\ OneCallEach /\ ForwardInv
<1>1. Init => Inv
  BY InitType, InitReview, InitManager, InitFounding, InitApproval, InitHandoff, InitForward
<1>2. Inv /\ [Next]_vars => Inv'
  BY NextType, NextReview, NextManager, NextFounding, NextOneReview, NextApproval, NextHandoff,
     NextOneCall, NextForward
<1>3. Inv /\ [Next]_vars
        => [\A p \in Players : request[p] = "land_pending" /\ request'[p] = "land_assigning" =>
              OpenOp(Land(p, field[p], attempt'[p]))]_vars
  BY RetryStep
<1>4. Inv /\ [Next]_vars
        => [\A p \in Players : request[p] = "active" => request'[p] = "active"]_vars
  BY ActiveStep
<1>5. QED
  BY <1>1, <1>2, <1>3, <1>4, PTL DEF Spec, RequestsMoveForward, RetryIsFresh, ActiveStaysActive
===============================================================================
