CONSTANTS
  Players = {"ann"}
  Sessions = {1, 2}
  Owner <- MCOwner
  Threads = {t1}
  Hazards = {}
  MaxMinutes = 1
  MaxWorlds = 1
  MaxFaults = 1
  BatchSize = 1
  MaxLookahead = 0
  MaxAttempts = 2
  Published = {}
  NoThread = NoThread
  NoCard = NoCard
  None = None
  Payers = {"ann", "bob", "cy"}
  Linked = {"ann", "bob"}
  Opening <- Balances
  Invoices <- Bills
  Orders = {"pay1", "pay2", "credit", "back", "other", "bill", "bill2", "withdraw"}
  Requests <- Commands
  Grace = 2
  Fresh = 1
  Period = 1
  Transit = 1
  Horizon = 4
  MaxCash = 1
  MaxTransfers = 1
  Guests = {"ann", "bob"}
  Tasks = {1, 2}
  Maximum = 1
  Messages = {1}
  Posts = {1, 2}
  MaxMishaps = 3
  Claims = {1, 2}
  MaxCodes = 3
  MaxSlips = 1
  Saves = {1, 2}
  Handlers = {1, 2}
  MaxLoad = 3
  MaxSequence = 1
  MaxFlight = 2
  MaxLapses = 1
  Allocators = {1, 2}
  Identities = {"v1", "v2", "v3"}
  Codes = {"a", "b", "c"}
  Lengths = 2
  Candidate <- Prefixes
  Ids = {"1", "2"}
  Ensurers = {1, 2}
  MaxSetbacks = 2
  Members = {"ann", "bob"}
  Sources = {"s1", "s2"}
  Evidence <- Receipted
  Transactions = {1, 2}

SPECIFICATION AllSpec
CHECK_DEADLOCK FALSE
INVARIANTS
  TypesOK
  CountsAgree
  DeliveryHolds
  MoneyAgrees
  BalancesAreCurrent
  ChatIsTrue
  BoundAuthenticates
  OneRuntimeServed
  CodesAgree
  FarmRecordsAgree
PROPERTIES
  PaymentsAreSerial
  RosterHolds
  GarageHolds
