SPECIFICATION CalmSpec
CONSTANTS
  Farms = {1, 2, 3}
  r1 = r1
  r2 = r2
  t1 = t1
  t2 = t2
  Garages = {g1}
  Retrieves = {r1}
  Transfers = {t1}
  Account <- AccountOf
  Destination <- To2
  Home = 1
  Hazards = {"save_failure", "lost_answer"}
  MaxFaults = 2
  Nothing = Nothing
INVARIANTS
  TransferTruth
PROPERTIES
  PromiseKept
  GarageSettles
CHECK_DEADLOCK FALSE
