CONSTANTS
  MaxContract = 1
  Creator <- MCCreator
  Users = {"ann", "bob", "cy"}
  Interactions = {1, 2}
  RestoreLimit = 1
  MaxWorld = 2
  NoOne = "none"
  Wishes = {1, 2}
  MaxChanges = 2
  MaxFailures = 1
  Threads = {1, 2}
  Readers = {1}
  MaxStart = 2
  Members = {"ann", "bob"}
  Handlers = {"h1", "h2"}
  Life = 1
  LastSecond = 2
  MaxSlips = 1
  Nobody = "none"
  NoHandler = "none"
  Stages = 5
  PlantingWindows = {{3}, {12, 1}, {11, 12}}
  HarvestWindows <- MCHarvest
  NativeGrowth <- MCGrowth
  Farms = {"mill"}
  NoFarm = "none"
  MaxMoves = 1
  MaxLapses = 1

SPECIFICATION LiveSpec
INVARIANT RipeInSeason
PROPERTIES
  FirstStays
  ShownIsTrue
  RolesFollowGrants
  NothingHangs
  CatchesUp
  WorkersAreContracted
CHECK_DEADLOCK FALSE
