CONSTANTS
  Players = {a, b}
  Fields = {f1}
  Calls = {c1, c2}
  Hazards = {"crash", "overlap"}
  MaxAttempts = 2
  MaxRevisions = 2
  MaxFaults = 1
  NoPlayer = NoPlayer
  NoField = NoField
  NoOp = NoOp
  NoCall = NoCall
  Other = Other

SPECIFICATION Spec
SYMMETRY MCSymmetry
INVARIANTS
  TypeOK
  RequestsAreBacked
  ManagersHold
CHECK_DEADLOCK FALSE
