CONSTANTS
  Players = {a}
  Fields = {f1, f2}
  Calls = {c1}
  Hazards = {}
  MaxAttempts = 2
  MaxRevisions = 2
  MaxFaults = 1
  NoPlayer = NoPlayer
  NoField = NoField
  NoOp = NoOp
  NoCall = NoCall
  Other = Other

SPECIFICATION LiveSpec
INVARIANTS
  DecisionsAreKept
PROPERTIES
  RequestsMoveForward
  ApprovedIsSettled
CHECK_DEADLOCK FALSE
