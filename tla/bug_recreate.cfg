CONSTANTS
  w = w
  v = v
  d = d
  alice = alice
  Requests = {w}
  Users = {alice}
  Farms = {f1}
  Worlds = {w1}
  Hazards = {"recreate"}
  MaxFaults = 1
  NoRequest = NoRequest
  NoFarm = NoFarm
  NoWorld = NoWorld
  Kind <- MCKind
  User <- MCUser
  Amount <- MCAmount
  Opening <- MCOpening

SPECIFICATION Spec

INVARIANT
  EachTransferChangesMoneyOnce
