------------------------------ MODULE LiveServices -----------------------------
(***************************************************************************)
(* The services whose loops repair what a fault left behind: contracts,    *)
(* bank replies, suggestions, maps, registration, crops and contractor     *)
(* roles, as instances, and the safety each promises.  MCServicesLive      *)
(* checks it, together with their liveness, on small sets;                 *)
(* LiveServicesProofs proves it for any.                                   *)
(***************************************************************************)
EXTENDS Integers, Sequences, FiniteSets

CONSTANTS
  MaxContract, Creator, Users, Interactions, RestoreLimit, MaxWorld, NoOne,   \* ContractMarket
  Wishes,                                              \* BankReplies
  MaxChanges, MaxFailures,                             \* SuggestionBoard
  Threads, Readers, MaxStart,                          \* MapRegistry
  Members, Handlers, Life, LastSecond, MaxSlips, Nobody, NoHandler,   \* Registration
  Stages, PlantingWindows, HarvestWindows, NativeGrowth,    \* CropLifecycle
  Farms, NoFarm, MaxMoves, MaxLapses                        \* ContractorGrants

VARIABLES
  contract, located, card, listening, handler, restoring, world,      \* ContractMarket
  outcome, noted, command, reply, tracked, aged, expired, publisher,  \* BankReplies
  tags, votes, seeds, title, waiting, worker, changes, failed, lost,  \* SuggestionBoard
  start, worldOf, files, refused, kept, servedWorld, servedStart, maps, request, loaded,
  reader, slips,                                                      \* MapRegistry
  application, elsewhere, taken, owner, code, second, screen, file, posting, serving,
  answerFile, timeouts,                                               \* Registration
  plant, reap, growth, table, month, crop, sown,                      \* CropLifecycle
  farm, online, contracting, observed, approved, row, job, slip, late, authority,
  moves, lapses                                                              \* ContractorGrants

Market  == INSTANCE ContractMarket WITH Handlers <- Interactions
Replies == INSTANCE BankReplies
Board   == INSTANCE SuggestionBoard
Map     == INSTANCE MapRegistry
Link    == INSTANCE Registration
Crop    == INSTANCE CropLifecycle
Grant   == INSTANCE ContractorGrants

ASSUME LiveServicesAssumption ==
  /\ Market!MarketAssumption /\ Map!MapAssumption /\ Link!LinkAssumption
  /\ Crop!CropAssumption /\ Grant!GrantAssumption
-------------------------------------------------------------------------------
\* Whoever is first stays: of the players and handlers that race for a contract
\* one is its acceptor, for good; a player is linked to one member, whoever
\* enters the code later; and an accepted map is not replaced by an older one.
FirstStays == Market!OneAcceptor /\ Link!LinkStays /\ []Map!NewerMapStays

\* What Discord shows is so: contract cards lag but never lead, a reply tells an
\* outcome that is there and keeps it, and the bot's own two votes on a suggestion
\* stand together, but for failures and stops that the next preparation makes good.
ShownIsTrue == [](Market!CardNeverAhead /\ Board!SeedsAreBalanced) /\ Replies!RepliesAreTrue

\* What is sown under the crop policy ripens in harvest months only.
RipeInSeason == Crop!RipeInSeason

\* Who works for SiN Harvest does so by a grant, grants and revocations of a
\* membership follow each other one by one, each settled by its own receipt even
\* when older ones come late, and what was revoked stays closed.
RolesFollowGrants ==
  []Grant!RolesAreGranted /\ Grant!OneJobAtATime /\ Grant!ClosedStaysClosed
===============================================================================
