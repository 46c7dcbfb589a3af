CONSTANTS
  w = w
  v = v
  d = d
  alice = alice
  Requests = {w, v, d}
  Users = {alice}
  Farms = {f1}
  Worlds = {w1}
  Hazards = {}
  MaxFaults = 0
  NoRequest = NoRequest
  NoFarm = NoFarm
  NoWorld = NoWorld
  Kind <- MCKind
  User <- MCUser
  Amount <- MCAmount
  Opening <- MCOpening

SPECIFICATION Spec
SYMMETRY MCSymmetry
INVARIANTS
  BooksBalance
PROPERTIES
  ImplementsAtomicTransfer
  UncertainStaysInReconciliation
