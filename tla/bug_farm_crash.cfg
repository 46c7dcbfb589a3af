CONSTANTS
  Players = {a}
  Fields = {f1}
  Calls = {c1, c2}
  Hazards = {"crash"}
  MaxAttempts = 1
  MaxRevisions = 1
  MaxFaults = 1
  NoPlayer = NoPlayer
  NoField = NoField
  NoOp = NoOp
  NoCall = NoCall
  Other = Other

SPECIFICATION Spec
INVARIANTS
  FarmReceiptQueuesLand
CHECK_DEADLOCK FALSE
