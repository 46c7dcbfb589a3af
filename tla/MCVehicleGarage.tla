---------------------------- MODULE MCVehicleGarage ----------------------------
(***************************************************************************)
(* The garage while the game stays up, Central finishes its handlers and   *)
(* nobody sells the vehicle, under the fairness of the loops; MCServices   *)
(* has instances with stops and sales.  Farms 1 and 2 belong to one        *)
(* member, farm 3 to another.  Retrievals and transfers go to farm 2.      *)
(***************************************************************************)
EXTENDS VehicleGarage
CONSTANTS r1, r2, t1, t2
AccountOf == [f \in Farms |-> IF f = 3 THEN "other" ELSE "member"]
To2 == [x \in Retrieves \union Transfers |-> IF x = t2 THEN 1 ELSE 2]

CalmNext ==
  \/ CentralStep
  \/ \E o \in Ops : PostReceipt(o) \/ TestReceipt(o)
  \/ \E g \in Garages : Checkpoint(g)
  \/ WriteCommand \/ SnapshotAccepted
  \/ \E o \in Ops : Process(o) \/ FinishRemoval(o) \/ FinishLoad(o)
  \/ NativeDelete \/ NativeSave
CalmSpec == Init /\ [][CalmNext]_vars /\ Fairness
=============================================================================
