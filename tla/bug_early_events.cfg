CONSTANTS
  Players = {a}
  Sessions = {1}
  Owner <- MCOwner
  Threads = {t1, t2}
  Hazards = {"early_events"}
  MaxMinutes = 1
  MaxWorlds = 2
  MaxFaults = 0
  BatchSize = 1
  MaxLookahead = 2
  MaxAttempts = 2
  Published = {}
  NoThread = NoThread
  NoCard = NoCard

SPECIFICATION Spec
INVARIANTS
  OnlyHistoricalQuarantined
CHECK_DEADLOCK FALSE
