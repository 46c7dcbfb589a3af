CONSTANTS
  Players = {a}
  Sessions = {1}
  Owner <- MCOwner
  Threads = {t1, t2}
  Hazards = {}
  MaxMinutes = 2
  MaxWorlds = 2
  MaxFaults = 1
  BatchSize = 1
  MaxLookahead = 2
  MaxAttempts = 2
  Published = {"left"}
  NoThread = NoThread
  NoCard = NoCard

SPECIFICATION LiveSpec
INVARIANTS
  DeliveryHolds
  OnlyHistoricalQuarantined
PROPERTIES
  TimeIsKept
  EventsSettle
CHECK_DEADLOCK FALSE
