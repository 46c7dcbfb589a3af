# Verification of the SiN Farming Network

TLA+ models, TLC runs and TLAPS proofs for the SiN Farming Network: a Discord
community economy (Python, `src/fs25_network_core`) joined to Farming Simulator 25
dedicated servers (Lua, `src/mods`).  Paths below are relative to `src/`.

## The system

Three processes and one directory, and no lock between any two of them:

```
 Discord  ->  Central (bot, HTTP API, MongoDB)  <- HTTP ->  Agent  <- files ->  Game (Lua mod)
```

* **Central** keeps every durable decision in MongoDB.  Handlers of the HTTP API,
  Discord commands and background publishers run concurrently; some write in one
  transaction (`Database.atomic`), many in several separate writes.
* **Agent** (`agent.py`) is one thread per game server.  Its `watch` loop runs a
  receipt pass, an operation pass and, when due, a snapshot.  It keeps nothing but
  the mailbox directory over a restart.
* **Game** (`NetworkLocal.lua`) polls `commands/manifest.xml` twice a second, executes
  the commands it names, leaves one receipt per command and deletes what it handled.
  Native state survives only in savegames.

A farm operation travels Central -> Agent -> mailbox -> Game, its receipt travels
back, either half may be lost, repeated or cut off by a stop, and an operator may load
another savegame (another *world generation*) at any time.

### Inventory

State, operations, interactions and what makes each part correct.  *(M)* marks what
is modelled, *(m)* what is modelled in its core; `PROJECT.json` lists every part with its
status and what is left out of it.

| part | state | operations | correct when |
|---|---|---|---|
| **bank bridge** *(M)* `banking_engine.py` | wallets, ledger rows, withdrawals, deposit requests | `request_withdrawal`, `request_deposit`, `settle_withdrawal`, `settle_deposit`, `credit_verified_transfer` | each transfer changes cash once; ledger explains wallet and agrees with the request; uncertain outcomes stay reserved |
| **bank, players** *(M)* `banking_engine.py` | wallets, transfers | `pay_player`, `transfer_wallet`, operator credits, balance and equity | wallet total is conserved, a stable reference counts once, what is shown was true a bounded time ago |
| **bank replies** *(M)* `bank_notifications.py`, `bot_frontend.py` | registered interactions | publish, edit, expire | a reply tells what happened and each settled wish leaves the queue |
| **world generations** *(m)* `world_generation.py` | active world, mark on all world-bound rows | `activate`, `require_active`, `active_id` | one active world; nothing of an old world is executable |
| **Agent operations** *(m)* `agent.py` | the lists of the current pass | `process_receipts_once`, `process_operations_once`, `watch` | a command answered by the game is not recreated; every receipt is delivered or quarantined |
| **Agent events** *(M)* `agent.py` | the files, blocked sessions and count of the current pass | `process_events_once` | files of a session go in order; one is unlinked only when Central has it |
| **Agent garage, pairing, registration** *(M)* `agent.py` | cursor and journal files | the passes of those names | nothing applied twice |
| **game mailbox** *(m)* `NetworkLocal.lua` | commands, manifest, receipts, live and saved state, world identity | `processPermissionCommands` and its branches, `saveReceiptAndConsume`, `initializeWorldIdentity` | a command runs once, in its own world, and its receipt tells the truth |
| **farm lifecycle** *(m)* `farm_lifecycle.py` | farm requests, reservations, mappings, operation rows, sightings | request, approve, reject, provisioning, land and permission receipts, system farm, migration, contractors | one farm and one parcel per player; a request ends active or in an answerable state; one mapping of the system farm; a member is carried from a world once |
| **authorization** *(m)* `authorization.py` | registration codes, memberships, permission operations | register, assign, revoke, acknowledge | game permissions follow memberships; a code is used once |
| **server registry** *(m)* `server_registry.py` | pairing codes, credentials, runtime pointer | pair, validate, activate | a code pairs one server; stale runtimes are refused |
| **event intake** *(M)* `event_processing.py`, `activity_telemetry.py` | processed markers, counted minutes, sessions, totals | `process`, `connected`, `disconnected` | a minute counts once; a session's card shows all of it; nothing acknowledged is lost |
| **activity outbox** *(m)* `activity.py` | queued rows, attempts | `enqueue`, `publish`, `_record_failure` | each card is published or given up; repeats only after a fault |
| **vehicle garage** *(M)* `vehicle_garage.py`, `VehicleGarage.lua` | custody rows, slots, vehicle files, journal | store, retrieve, transfer, receipts, checkpoints | a vehicle is in the world or in the garage, never in both |
| **vehicle codes** *(M)* `vehicle_inventory.py` | code per vehicle | `VehicleCodeRegistry` | one code per vehicle, one vehicle per code |
| **business workflows** *(M)* `business_workflows.py` | contracts, invoices, chat, community events | accept, complete, pay, join, send | an invoice is paid once; a contract has one acceptor; a roster keeps its limit; a message is broadcast once |
| **mod suggestions** *(M)* `mod_suggestions.py` | nothing of its own: the post in Discord | tags, votes, title | the title shows the members' votes |
| **map service** *(m)* `map_service.py` | stored maps | record, persist, load | the map used is the newest accepted |
| **crop settings** *(m)* `crop_settings.py` | growth tables | `apply_policy` | what is sown in season ripens in season |
| policies `clock_policy.py`, `economy_governor.py`, `production_policy.py`, `sell_coverage_policy.py`, `vehicle_pricing_policy.py` | none | arithmetic | bounds |
| telemetry stores, native contracts, reports, server status, Discord presentation, tooling | append-only rows, presentation | | no protocol of their own |

### What is hard here

Races between two file writers without a lock; lost answers and retries on both sides
of Central; stops between two writes; a world change under operations in flight;
checks made before a transaction; outcomes the game cannot prove.  `PROJECT.json`
"hazards" names each at its line with the properties that watch it.

## Modules

| module | content |
|---|---|
| `AtomicTransfer` | what the bank promises: a transfer opens, moves at most once, and closes in the way that agrees |
| `MoneyBridge` | Central, Agent, mailbox directory and Game for bank transfers; properties, inductive invariant, refinement of `AtomicTransfer` |
| `FarmProvisioning` | how a member gets a farm, a field and the manager role: non-atomic handlers of Central as calls in progress, receipts, the game |
| `PlayTime` | what the activity pipeline promises: a minute counts once, a session closes when complete, one report |
| `ActivityIntake` | play time from the game to Discord: sessions, the Agent's event passes, Central's handler threads, the outbox and its publisher; refinement of `PlayTime` |
| `MoneyBridgeProofs`, `FarmProvisioningProofs`, `FarmApprovalProofs`, `ActivityIntakeProofs` | TLAPS proofs about bridge, farms and intake, for all constants |
| `VehicleCustody` | what the virtual garage promises about one vehicle |
| `VehicleGarage` | store, retrieval and transfer of one vehicle through Central, Agent and Game, with journal, native saves and crashes; refinement of `VehicleCustody` |
| `VehicleGarageProofs` | TLAPS proofs about it |
| `SerialPayments` | what payments promise: each is one step on the balances of its moment, an invoice is paid or cancelled |
| `WalletPayments` | player payments, operator credits and invoices as snapshot transactions that rerun on a write conflict |
| `BankBalance` | how old the balance and the equity shown may be |
| `EventBoard`, `ContractMarket` | community events and farm-work contracts: buttons and commands that interleave, cards that lag |
| `BankReplies` | private replies to `/deposit` and `/withdraw` |
| `SuggestionBoard` | tags, votes and title of a mod suggestion |
| `ChatBridge` | a message from Discord to the game and its receipt |
| `ServerPairing` | pairing codes and credentials |
| `RuntimePointer` | which start of the game Central serves, with delayed snapshots |
| `VehicleCodes` | allocation of short codes under unique indexes, without transactions |
| `MapRegistry` | exported maps from the game to the bot process |
| `CropLifecycle` | the growth table written by the crop policy, and the game that runs it |
| `Registration` | codes, community applications and the link of a player |
| `ContractorGrants` | contractor roles that follow farm membership, their jobs and the authority file |
| `SystemFarm` | the server's own farm: its command, receipt, adoption and mapping |
| `WorldContinuity` | farms carried from a historical world into the active one, against new requests |
| `Services` | the nine services whose safety is asked about, as instances with the assumptions on their constants, and what each promises |
| `LiveServices` | the same for seven services with loops that have to catch up |
| `ServicesProofs`, `LiveServicesProofs` | TLAPS proofs of those promises |
| `SumTheorems` | what a sum over a finite set yields; used for the books of `MoneyBridge` and `WalletPayments` |
| `MCMoneyBridge`, `MCFarmProvisioning`, `MCActivityIntake`, `MCVehicleGarage` | values of the constants of their TLC instances |
| `MCServices`, `MCServicesLive` | the unions in which `Services` (with intake and garage) and `LiveServices` are model-checked |

`ActivityIntake` shares no state with the bank or the farms but the active world, which it
models itself.  `MoneyBridge` and `FarmProvisioning` meet only in the manager membership (the
bank reads it; `manages` in `MoneyBridge` changes freely) and in the mailbox, whose
protocol `MoneyBridge` models file by file; the other modules with a mailbox use what it shows there
(a command is executed at least once, and again only when its receipt was not written; a receipt is
posted until it is answered).  The services read and write collections of their own.  A property of one of them is a
property of the whole system, and interleaving their steps would add nothing, so `MCServices`
and `MCServicesLive` are unions: `focus` names the component that has the floor, the others
rest in an initial state.  A service has one instance, in `Services` or `LiveServices`, and the promises stated there
are what the runs check and what the proofs prove; `MCServices` instances intake and garage once more.  Where one instance would be large, the
union takes it in two parts, by what it lets be given: payments and bills, carried farms of one member and
of two.

In a module, a definition with a changed name that stands before the one it resembles is the form a plausible
bug would give it; `PROJECT.json` names the property that notices.

### MoneyBridge and the code

The components share so much state (request row, operation row, four kinds of files)
that they are one module in three sections.  All files of an operation are
named by the operation ID derived from the request, so they are functions of the request.

* *Central.*  `CheckRequestWorld` is `_world_id`, which the code calls before its
  transaction; `RequestWithdrawal` / `RequestDeposit` are the transactions.
  `ActivateWorld` is the snapshot handler's activation of another generation.
  `Settle` is the transaction of `settle_withdrawal` / `settle_deposit`;
  `AlreadySettled` are the 200 answers that change nothing.  A mongo transaction is one
  step.  `manages` stands for the active manager memberships and changes freely: the bank
  asks only for the membership of that moment.
* *Agent.*  `ListReceipts`, then one of `ReceiptAccepted`, `ReceiptAnswerLost`,
  `ReceiptRefused` (400/404: the file becomes `.failed*`), `ReceiptUnsent` per file;
  `FetchOperations` / `FetchFailed`, `TestReceipt`, `WriteCommand`, `WriteManifest`.  The
  two tests of `process_operations_once` (receipt, then command file) are separate
  steps because the game runs between them.
* *Game.*  `PollManifest`, one step per entry (`ExecuteMoney`, `RejectWrongWorld`,
  `DiscardAnswered`, `SkipEntry`), `ConsumeCommand`, `EndPoll`, `AbortPoll`; `SaveGame`,
  `ExportSnapshot`, `IdentityReady`, `GameRestart`.  `native[r]` counts the balance
  changes made for `r`: whether money moved twice is all the properties ask.
  `processMoneyCommand`'s readback is `ProvenOutcome`: *applied* means the balance moved,
  *definitively_not_applied* that it did not, *pending_validation* either.
  A stop between `changeBalance` and `receipt:save()` loses cash that was not yet
  saved, so it equals a stop before the command and needs no step.

Abstracted: text, timestamps, amounts inside the game (only "moved" counts), farm
validity checks of the command (they end in *definitively_not_applied*).

`Hazards` names the interleavings and failures that the code leaves open and that break a
promise: `recreate`, `request_race`, `crash`, `save_failure`.  A run or theorem that needs
one excluded says so; `bug_recreate` lets one in.  `MaxFaults` bounds
stops plus unwritten receipts.

### FarmProvisioning and the code

A farm request passes `pending` -> `provisioning` -> `land_pending` -> `land_assigning` ->
`awaiting_manager` / `manager_authorization_required` -> `active`, with one game operation
in front of each confirmation: the farm, the land (retried under a new ID per attempt), the
manager job (one per membership revision).

* *Identity.*  A request's ID is the hash of server, save, world and player, so a
  rejected request is replaced by a new one with the same ID.  All rows are therefore
  functions of the player (`request`, `field`, `attempt`, `permission`, `confirmed`,
  `mapping`, `member`) or of the operation (`op`, `receipt`).  `reserved[f]` is the row of
  `farm_field_reservations`.
* *Transactions* are one step: `RequestFarm`, `Assign`, the accepting branch of
  `PostManager` (`acknowledge`).
* *Calls.*  Every other handler writes several documents without a transaction.  It is
  a call in thread `call[c]`: its first read and write are the step that begins it
  (`Approve`, `Reject`, `PostProvision`, `PostLand`, `PostManager`, `Repair`), and each later
  write, with the read it depends on, is a step of `CallStep(c)`.  `HandOff` writes from the
  membership that `ReadMembership` saw a step before.  `Crash` ends all calls where they are.
* *Answers.*  The Agent waits for one call at a time (`waiting`).  `Accept` (200) lets it
  unlink the receipt, `Refuse` (400) makes it quarantine it (`marked`), `Timeout` lets it go
  on while the call still runs, which is how two calls for one request meet.
* *Game.*  `ExecuteProvision`, `ExecuteLand`, `ExecuteManager` are the three command
  branches with every answer they can give; `BuyNatively` is any purchase in the game;
  `Snapshot` copies the owners Central decides on (`seenOwner`).

`Hazards` here are `crash`, `overlap` (a receipt or repair handled while another call on
the same request runs) and `review_race` (two staff reviews of a request, or a review and a new
request of that player, at once).

Abstracted: prices and the catalogue of fields (`Fields` are those cheap enough), names
(one farm per player), reasons and timestamps.  A field that is sold back is not modelled
(the code offers no sale).  Left out: worlds (see `MoneyBridge`), the system farm
(`SystemFarm`), contractor roles (`ContractorGrants`), the legacy `approve` path, departures, torn files.  `ConfirmLand` re-reads the request
and writes it in one step.

### ActivityIntake and the code

* *Game.*  A connection opens session `s` in world `born[s]`, every minute is an event with the
  next number, the disconnect carries the last number as watermark.  A connection or
  disconnect whose file cannot be written is lost (`Emit`); a minute is numbered only when
  its file was written (`processActivitySamples`).  A restart forgets the
  sessions without a disconnect, perhaps for another savegame (`gameWorld`).
* *Agent.*  `StartPass` takes the first files of the directory, adds the minutes of a waiting
  disconnect's session found among the next `MaxLookahead` files, and starts with no blocked
  session.  `PostEvent` sends the next file of a session that is not blocked, at most
  `BatchSize` a pass.  The file order is by name and not by event, so `FirstFiles`
  are any files; within a session the pass sorts connection, minutes by number,
  disconnect.  Between sessions the order is free, which includes the code's.
* *Answers.*  200 unlinks the file, 404 quarantines it, everything else (409 for a disconnect
  whose minutes are missing, 500 for an exception) blocks the session for this pass.  `Timeout`
  lets the Agent go on while its thread still runs, which is how two threads meet.
* *Central.*  A request is a thread with a step.  `Admit` is the scope check and the processed
  marker; `Count` is the one transaction of a minute; `Observe`, `Reconcile`, `Lookup`,
  `Check`, `Complete`, `Summarize`, `Enqueue`, `Mark` are single writes, or reads whose result a
  later step uses.  `RequestFails` is an exception between any two of them; a stop of Central
  is one of each running thread.
* *Publisher.*  `Deliver` is the send, `MarkPublished` the mark; `DeliveryFails` and
  `MarkFails` are the two places of `_record_failure`, `PublisherStops` a stop in between.
  A card archived after the cycle read it is sent as if just before the archiving.

`Hazards` has one member, `early_events`: a player connects before Central has accepted the new
world's first snapshot.

Abstracted: the buckets of a minute (active, idle and away add up to the total), text, names,
timestamps.  One server and save; the server's own user, the legacy disconnect without
a watermark, torn files and chat, map, contract and batch events are left out.  Worlds
are not loaded again (see `MoneyBridge` for that).  `Published` selects the cards an
instance follows into Discord; rows of the others wait.

### VehicleGarage and the code

Custody of a vehicle is spread over the garage row (`item`), the lease on its code
(`lock`), an operation, the archive, a journal file in the mailbox, the vehicles of the running game
(`live`) and those of its last save (`saved`).

* *Central.*  `RequestStore`, `RequestRetrieve`, `RequestTransfer`/`QueueTransfer`, the
  handling of each receipt and of the Agent's checkpoint reports.  Where the code writes
  item and operation apart, hazard `half_write` lets a stop in between.
* *Agent.*  Upload of the archive before a deletion is delivered, the test for receipts, the
  command files, and `Checkpoint`, which compares the journal with the native save.
* *Game.*  Deletion and loading are deferred: `Process` journals and schedules, `NativeDelete`,
  `FinishRemoval` and `FinishLoad` do it.  `NativeSave` saves the vehicles;
  a crash returns to them while journal and receipts stay.

`VehicleCustody` is the promise: `world -> leaving -> garage -> returning -> world`, nothing in
the world while the garage holds it, one copy, and review once it is uncertain.  The
mapping (`Custody`) reads the leased item's state.

### The services and the code

A handler of the bot or of Central is a call with a step wherever the code awaits or writes a
document of its own; a transaction reads a snapshot, commits when nothing it writes was
written since, and reruns otherwise.

* `WalletPayments`: `Begin` takes the snapshot, `Commit`, `Repeat` (the stable ID is there
  already), `Refuse` and `Rerun` end it; `CancelInvoice` is the guarded update outside transactions.
  `Services` states that all threads together implement `SerialPayments` (`Serial`): wallets are its balances, transfers
  and credits its book.  Only `Commit`, `Issue` and `CancelInvoice` are steps of it.
* `BankBalance`: game, Agent and receipts feed central at their own pace; the queries read only,
  so that they are operators over the state.
* `EventBoard`, `ContractMarket`: read, update under a filter, read back, answer.  A button
  edits its card, a slash command does not; a restart of the bot ends all handlers and a
  card answers again when its view was restored.
* `BankReplies`: the command's three steps against the publisher's scan; a registered
  interaction ages and expires.
* `SuggestionBoard`: handlers run one at a time; votes, decisions and cleared reactions come in between
  their calls to Discord, each of which may fail with or without effect.  The bot may stop at any point:
  `BotStops` drops the handler and what waits for it, and `on_ready` refreshes the titles but prepares
  nothing again.  `lost` records what went amiss, and is cleared by what makes it good: a preparation
  reads the seeds that stand, a handler that comes to its end has set the title.  `MemberVotes` takes the bot's
  own reaction off each count where it stands, so that the title does not depend on the seeds.
* `ChatBridge`: record and operation are two writes on the way out and on the way back.
* `ServerPairing`: two claims of a code at once, a registration that reads before a pairing and writes
  after it, expiry of codes by Mongo's TTL.
* `RuntimePointer`: posts queue at the server lock; a snapshot can be taken up after one of a
  later start.
* `VehicleCodes`: two inserts decided by unique indexes; the prefix grows on collision.
* `MapRegistry`: the map event often precedes the snapshot that activates its world.
* `CropLifecycle`: the table is computed as the code does and then the game's months run on it.
* `Registration`: the request file, up to two handlers of one player, the derivation of a code from the
  second of its issue, community review.
* `ContractorGrants`: reconciliation on every poll, jobs per membership, the authority file
  that the game enforces on its own.  `slip` is the file of a membership's newest job, `late` holds the
  receipts of earlier ones: a receipt whose answer was lost stays in the mailbox, and may be posted when the next
  revision is under way (`PostLate`).  `acknowledge` looks the job up by operation and revision, and
  finds that one settled (`Finds`).  A late post that is lost again changes nothing and needs no step.
* `SystemFarm`: receipt and adoption write mapping rows of different IDs.
* `WorldContinuity`: migration and request are transactions that write nothing in common.

## Runs

| run | instance | question |
|---|---|---|
| `bridge_clean` | `w`, `v`, `d` over a wallet of 3 (`w`, `v` take 2); one world | does the bridge implement the atomic transfer with lost calls, repeated receipts, quarantine, failing mailbox passes and requests that compete for the wallet, and is `OnceInv`, the reason, invariant? |
| `bridge_faults` | `w`; two worlds, one fault, every mailbox hazard | what still holds when the game pays twice or loses a save: ledger, rows, finality, world separation |
| `bridge_live` | `w`; two worlds, `recreate` and `request_race` | is every pending request answered? |
| `farm_faults` | two players, one field, two threads, one stop or lost answer, `overlap` | do members who compete for a field, with Central stopping between any two writes and calls of one request running at once, keep reservation, land and manager jobs straight? |
| `farm_live` | one player, two fields, two attempts and revisions, no hazard, fair | does an approved request end active or where staff or player must act, never go back, with the approved field, and does a rejected one leave nothing behind? |
| `intake` | one session, two minutes, two worlds, two threads, one fault, fair | is nothing acknowledged lost, does a disconnect get its card, is the card published or given up, are only old worlds quarantined, do repeats cost faults, and is `PlayTime` implemented? |
| `garage` | one garage item, one retrieval, one transfer, two faults, fair | does the garage keep `VehicleCustody`, are transfers reported as they were made, is everything settled? |
| `services` | each service alone, in the instance `MCServices` gives it | do the services keep their promises whatever their handlers, messages and faults do? |
| `services_live` | each loop alone, in the instance `MCServicesLive` gives it | what was settled first stays, what is shown is true, roles follow grants, what was missed is caught up with |
| `bug_recreate` | one hazard | "change money once" fails; see findings |
| `bug_farm_crash` | one player, one stop | a farm whose receipt was accepted never gets its land |
| `bug_early_events` | one session, two worlds | events of the world being played are quarantined |

Bounds.  A request never reads another request's rows or files except through the wallet
and the manifest, so one request with all faults and three in the clean bridge show the
interactions there are.  Two worlds suffice to leave a world and come back.  One fault is
enough for each crash finding.  Deadlock checking is on in the bridge: its loops never stop.

In the farm runs a request touches another's rows only through the reservation of a field
(and native ownership), so two players and one field show what competition there is, and
one player suffices for what handlers of one request do to each other.  `farm_live` has one player
and no hazard, so one thread is never short; its second field lets a rejected member ask for
another one.  In `farm_faults` two threads are all that can meet: the Agent waits for one answer, so more need several timeouts.  Two attempts
and two revisions show a failed land assignment or a refused job and its repeat.
`MaxAttempts` stops a further approval, `MaxRevisions` a further job; so that the second
bound does not look like a hang, the last revision's job is always confirmed.  Deadlock
checking is off: an active request with nothing left to buy is a proper end.

In `intake`, `BatchSize` 1 with files in any order makes every order of posts happen; one lost
answer is what puts two threads to work on one event; two minutes and `MaxLookahead` 2 let a
disconnect fill the batch while its minutes are elsewhere.  Two attempts show one retry and
the end of retries.  The part of `services` that is about intake has two sessions of one player, which meet in
the reconciliation by a newer connection and in the player's total (`CountsAgree`), and
leaves cards and lost files out (`Published`, `BothTold`).  Deadlock checking is off in these runs: everybody may
have left, with every file delivered.

In `garage` one vehicle is enough, as rows, files and operations name theirs; `services` adds the
instances with crashes: two retrievals that race for one archive (`garage`) and two
store cycles with one fault of any kind (`cycle`; `PromiseIsKept` and `VehicleIsNeverLost` are for any number).

In `services` two threads, commands or handlers meet, which is where the code's filters, unique
indexes and conflicts decide; a third would find what the second left.  Beyond that: three players, of
whom one is not linked, and payments that share an ID with different amounts; a place for one of two
players, asked for by button and by command (`ClickAndCommand`); a broadcast whose receipt is posted twice at a time, with three mishaps; three pairing codes (one used, one
expired, one replaced); three starts of the game over two saves; three vehicles of which two share a prefix and
one has none of its own; two farms of the same name; two sources for one member, and two
members of one source (`OneSource`).  In `services_live`: one contract, three users and a replaced world; two
wishes; two votes, decisions, clearings or repeated events and one failing call or stop of the bot; two starts of the game; two members who
compete for one player, with one call given up or one restart of the game; every two-month harvest window and a split one; two members of one source farm,
one move or connection and one lost answer, failed setter or crash (enough for a receipt to come late).

Fairness (`bridge_live`).  Agent loop and game update loop run for ever, so their steps
are weakly fair.  A call to Central may fail any number of times but not always
(strong fairness), likewise the receipt handle.  Nothing makes the game
stop, save, or the Agent stop.  The game deletes the manifest at the end of its pass even
when the Agent has just replaced it (`NetworkLocal.lua:3284`); `ManifestsAreRead` assumes
that this does not happen to every manifest, which two loops of half a second and
several seconds period make reasonable and nothing in the code guarantees.

Fairness (`farm_live`).  Handler threads run to their end (weak fairness of `CallStep`);
the Agent posts every receipt in every pass, and Central repairs on every poll, but each can
only begin when no other call is being answered (strong fairness of `Post` and `Repair`);
the game polls its mailbox (weak fairness of `Execute`).  Players, staff, purchases and
snapshots owe nothing.  `ApprovedIsSettled` therefore ends in `Parked`: active, waiting for
staff (`land_pending`), a failed farm, or a player who has not registered.

Fairness (`intake`).  The Agent's loop, a running thread and the publisher's loop go on
(weak fairness of `AgentStep`, `ThreadStep`, `PublisherStep`).  A delivery may fail every time,
which ends in *failed*; lost answers and failed requests are faults, of which an instance has
finitely many.  Players and restarts owe nothing.

Fairness (`garage`).  Each pass of the Agent visits all receipts, operations and checkpoints, so
none is passed over for ever (strong: the pass may be busy with another when it is enabled); polling,
deletion, loading and native saves recur (weak).

Fairness (`services_live`).  The loops of Agent, game, bot and Central's handlers are weakly fair.
Strongly fair are the steps that a fault may disable again and again but not for ever:
the restoration of a card against restarts of the bot, the end of a reply whose edit keeps failing, the
delivery and the storing of a map against posts that are not answered.  Nobody is obliged to vote,
register, connect or restart.  Only the focused component takes steps, so conjoined fairness of several components
is the fairness of the disjunction; `MCServicesLive` states it in that form, which TLC explores
with far fewer acceptance conditions.

## Findings

Violations that are real disagreements between code and its own words, each in
`PROJECT.json` with quotes:

* the Agent's test-then-write window (`agent.py:627-656`, `bug_recreate`);
* the farm receipt whose retry skips the land (`farm_lifecycle.py:1342`, `bug_farm_crash`);
* the first events of a freshly loaded savegame are lost (`event_processing.py:133`,
  `bug_early_events`).

More is known from the models.  Some is kept as a definition next to the property that holds, with
the weaker form checked; TLC refutes each in seconds in an instance of its module
(`RevokedIsClosed` with three moves, the garage's with the hazard named there):

| definition | what happens |
|---|---|
| `VehicleGarage.LeaseHeld` | a refused retrieval's receipt, posted again after a lost answer, gives the item back although another retrieval has leased it meanwhile |
| `VehicleGarage.NoConcurrentCustody` | a transfer that passed its checks before the vehicle was leased is queued after it (hazard `queue_race`) |
| `VehicleGarage.NoSaleCredit` | after a crash the vehicle is back in the world and is sold there; the checkpoint sees it absent from the save and takes the removal for proven |
| `VehicleGarage.CustodySettles` | the crash that brings a removed vehicle back leaves its item waiting for a save for ever |
| `Registration.OnlyMembersRegister` | `docs/bot-commands.md:50` says that `/register` needs an approved application; the command checks the code only |
| `Registration.PollsRepeatTheCode` | two handlers of one player, the first given up by the Agent, leave a row whose shown code is not the stored one |
| `ServerPairing.PreservedPairingExists` | a claim whose answer was lost pairs a credential nobody holds, which is then "preserved" |
| `ContractorGrants.RevokedIsClosed` | an authority file fetched before a settled revocation opens the farm again when the member returns for a moment |
| `SuggestionBoard.NeverOneSided` | `mod_suggestions.py:178` says that the retraction keeps the bot from leaving a one-sided vote; a reaction that took effect before its call raised is not among those retracted, and a stop between the two is not repaired at the restart |
| `SystemFarm.OneMapping` | receipt and adoption that overlap leave two mappings for good, and without a single one no contractor is authorised |
| `SystemFarm.MappedIsThere` | a farm lost unsaved stays mapped |
| `WorldContinuity.OneLiveRequest` | write skew: a request and a migration both find none; also, the unique index per pair of worlds (`database.py:96`) admits one migrated member per pair |

And as hazards without a definition:

* the world check outside the transaction (`banking_engine.py:481`) breaks
  `OpenOperationsAreCurrent` when `request_race` is let in;
* a command of the right world is rejected because the identity is not read yet
  (`NetworkLocal.lua:3211`): a needless refund;
* a rejection frees a newer request's reservation (`farm_lifecycle.py:1174`) when
  `review_race` is let in, and two live requests then name one field;
* `operations_for` serves the 50 oldest open rows (`farm_lifecycle.py:1265`): rows that are never
  answered keep younger ones from the game;
* a receipt read while the game writes it is quarantined for good (`agent.py:728`);
* a connection handled late, after a lost answer, reconciles the newer session of its player
  (`activity_telemetry.py:261`); nothing reads that state.

A receipt that could not be written
(`NetworkLocal.lua:3162`) and receipts durable before the savegame (`NetworkLocal.lua:3414`)
both break `EachTransferChangesMoneyOnce` when `save_failure` or `crash` is let in.
Without `overlap` excluded, `HandOff`'s stale read takes an active request back until the next
poll repairs it; a stop in the middle of a rejection leaves a field reserved.

One invariant turned out false only when it was to be proved.  `LandIsProven` (a manager is made for land
that is the field of the request) fails when stops and overlapping calls meet, in 34 steps with two fields
and two faults: Central stops in the middle of an approval; the request, still pending, is rejected although
its farm operation is queued and executed; the member asks for another field and is approved; the first
operation's receipt, whose handler overlaps with a repeated post, has queued the old field's land meanwhile,
and the receipt of that land confirms the new request, because `_accept_farmland_receipt`
(`farm_lifecycle.py:1396`) matches a request by its state and never compares the field.
`farm_faults` had one field and could not see it.  It now checks `LandIsGranted` (the farm owns some land),
which is proved with both hazards; `LandIsProven` is part of `DecisionsAreKept`, which `farm_live` checks with two
fields and which is proved without stops.

Two more turned up when the theorems about the garage were stated; each hypothesis below stands for a
counterexample TLC finds in an instance of `VehicleGarage`:

* `TransferTruth` fails with two opposite transfers of a vehicle and `save_failure`.  The game makes the
  first (1 to 2) but writes no receipt, then makes the second (2 to 1); the first command, still in the
  mailbox, finds the source as owner again, this time its preflight fails and it answers
  "definitively not applied": players are told a transfer failed that was made.  Nothing keeps a second
  transfer from being queued while one is open: `create` and `queue_game_operation`
  (`business_workflows.py:536`, `:584`) look at the vehicle's owner and lock, never for another transfer.
* `PromiseKept` fails, like `LeaseHeld`, with two retrievals and a lost answer: the refusal of the first, posted
  again, stores an item whose vehicle the second has loaded.

## Proofs

`MoneyBridgeProofs` (checked by tlapm with Z3, Zenon and LS4) holds for any sets of
requests, users, farms, worlds and any amounts, from the assumptions `RequestAssumption`,
`NullAssumption`, `HazardAssumption` only.

1. `TypeCorrect`: `Spec => []TypeOK`.
2. `LedgerCorrect`, `RowsAgree`, `FinalAnswers`, `SupersededIsTerminal`,
   `CashStaysInItsWorld`: with **every** hazard let in.  `LedgerMatchesState` and
   `OperationMatchesRequest` are inductive given the types, because every bank step is one
   transaction.
3. `OpenIsCurrent`: assuming only that the request race is excluded.
4. `OnceCorrect`: `OnceInv` is inductive when the mailbox hazards are excluded
   (`Clean`; the request race may happen).  "Completed means moved once" is not
   inductive alone: the hinge is that an operation with neither receipt nor marker has not
   been executed, and that a command file not being consumed belongs to such an
   operation.  The Agent's unlink of a receipt keeps this because Central has
   left "pending" before.  `TransfersChangeMoneyOnce` and `UncertainIsKept` follow.
5. `BridgeImplementsTransfer`: from `OnceInv`, every step is a step of
   `AtomicTransfer` or a stutter under the mapping at the end of `MoneyBridge`.

`FarmProvisioningProofs` holds for any sets of players, fields and threads and all bounds,
from `BoundAssumption` and `NullAssumption`.

1. `TypeCorrect`: `Spec => []TypeOK`, the types of calls in progress included.
2. `ReservationsHold`, `FieldsAreExclusive`: assuming only that reviews do not race; stops,
   timeouts and overlapping calls may happen.  `ReviewInv` adds what makes the
   reservation inductive: a call that writes a request without naming its state runs only for
   a request whose farm exists, and a call about to delete a reservation was begun by
   staff for a request that is still rejected.
3. `ManagersAgree`, and from it `ActiveRequestsAreManaged` and `OneJobPerMember`: with
   **every** hazard let in.  `ManagerInv` adds that job numbers are used in order, that an
   active membership's job has succeeded, that a parked job holds no positive receipt, and
   what a call about to hand over or suspend may rely on.  The hinge: the late write of a
   refused receipt can never hit the membership of a confirmed job.

`ActivityIntakeProofs` holds for any sets of players, sessions and threads and all bounds,
from `BoundAssumption`, `SessionAssumption` and `NullAssumption`.

1. `TypeCorrect`, with it that a card to be tried again has tries left, that only minutes
   reach the counting step and that the Agent waits for a busy thread (`TypeInv`).
2. `IntakeHolds`: `IntakeInv` is inductive with **every** hazard and fault.  Nothing that is
   durable is ever undone (`RowsGrow`), and that is where the order matters: a thread completes a
   session only after it has seen all minutes up to the watermark, every event in
   anybody's hands is one the game wrote (`Genuine`), so a late minute of a completed
   session is always one that is already counted.  `NothingAcknowledgedIsLost` follows.
3. `MinutesCountOnce`: totals are cardinalities of the set of counted minutes (`CountInv`); a
   counted minute's session was opened, so its world is fixed.  With `IntakeInv` this gives
   `CardsAreComplete`: the minutes of a completed session are in bijection with `1..minute[s]` (`CompleteTotal`).
   `PlayedTimeIsKept` is the refinement of `PlayTime` under the mapping `Time`, with the same two invariants: game steps
   are `Begin`, `Play` and `Leave`; of the handlers only a first `Count` (`CountTells`), a first `Complete` and the
   `Enqueue` of a disconnect's card (`HandlersTell`) are steps of it.  Everything else, stops and lost answers included, is a
   stutter.  The guard "not closed" of `PlayTime` is in no line of the code: it follows from `IntakeInv`.
4. `CopiesCostFaults`: by `CopyInv`, a card that may be sent again has at most as many copies
   as there were faults.
5. `OnlyOldWorldsQuarantined`: assuming only that early events are excluded.

`FarmApprovalProofs` continues `FarmProvisioningProofs`.  Every invariant is stated with the hazards
its argument cannot bear left out of the hypotheses, and only those.

1. `RequestsStayBacked`, if reviews do not race: with stops and overlapping calls a live request holds
   its reservation, land is only queued for a founded farm and a manager made only for an owner of
   land.  `FoundingInv` says what an applied receipt tells of the game (`ReceiptsAreTrue`) and what a
   call in progress has already seen (`CallMeetsFarm`).
2. `DecisionsStayKept`, if Central does not stop either: nothing before approval or after rejection,
   and a manager only for the field of the request.  `ApprovalInv` follows each request's
   farm and land operations by the call that may still write; its hypothesis is sharp (see
   `LandIsProven` under Findings).
3. `FarmsStayActive`, if calls on one request do not overlap: an active farm stays active through stops,
   repairs and repeated receipts.  The membership a handoff has read is still true when it writes
   (`HandoffInv`).
4. `RequestsStayForward`, without hazards: a retried purchase is always a new operation.  Where only one of the three is
   let in, TLC (one player, two fields, two calls) finds that a stop breaks its `RetryIsFresh`, that overlapping calls
   break both parts, and that a race between two reviews breaks neither: so much of the hypothesis is the proof's
   own, which rests on invariants of requests that no such race has touched.

`VehicleGarageProofs` holds for any sets of farms, store requests, retrievals and transfers, any destinations
and number of faults, from `GarageAssumption`.

1. `TypeCorrect` and `ArchivesLoadedAtMostOnce`: with **every** hazard.  `LoadInv` ties loads to the
   journal, which a crash does not take back, and not to the row, which may be wrong.
2. `TransfersAreTrue`, unless a receipt is not written or a command recreated: any number of concurrent transfers,
   with crashes, lost answers and stops (`TransferInv`, `OnceInv`).  `RepeatedTransfersAreTrue` lets receipts
   go unwritten, for one transfer in a game that keeps its memory: `RepeatInv` is that a transfer made and not
   yet answered is not undone, because custody cannot begin meanwhile (`LockInv`).
3. `CustodyExcludesTransfers`, without the queueing race.
4. `VehicleIsNeverLost`, with every hazard but a recreated command.  A refusal posted again after a lost answer may
   give the row back to the wrong retrieval, so nothing can rest on the row of an item that was stored once; what
   keeps the vehicle is the journal.  `CycleInv`: until its store is complete, an item does what its preparation and
   its store say, with every half-written handler and stale receipt of the two.  `WorldInv`: until then the
   vehicle is untouched as long as the journal says no more than "prepared", and a save without it is never older than
   its removal; afterwards the journal says "removed", "loading" or "restored", a load is pending only where the
   vehicle is nowhere, and an item that gave up its lock with a completed store is "restored".
5. `LeasesAreHeld` and `PromiseIsKept`, unless a command is recreated or a refusal posted again
   meets another retrieval (`OneAnswer`: no answer is lost, or there is one retrieval only).  That is where `PromiseKept`
   and `LeaseHeld` do fail (see Findings).  `DeliveryInv`: a command file in the mailbox has neither receipt nor
   answer.  `RowInv`: what item, operation, lease and unposted receipt have in common, with every half-written
   handler.  `StoredInv`: an item that is, or is about to be, "stored" has an archive that was not loaded.
   The refinement goes action by action: Central's and the Agent's steps are steps of custody, the game's are `Move` or
   change nothing that is promised.  `VehicleCustody` does not know sales.

The runs check these facts grouped by question; the proofs regroup them under the same names:
`BankViewsAgree` (`BankAgrees`), `PastStays` (`PastIsFinal`), `ManagersAreHeld` (`ManagersHold`),
`DeliveryIsSound` (`DeliveryHolds`), `PlayedTimeAgrees` (`CountsAgree`).  `VehicleIsNeverLost` is the first part of
`GarageHolds` of `MCServices`, `PromiseIsKept` its second, each for every number of vehicles, retrievals and faults.

`SumTheorems` carries what the books need.  The sum of the community modules is a fold in the order in which
`CHOOSE` takes the elements.  A tally is a function on the subsets that adds an element's number whichever
element is taken last; every finite set has one, and the fold computes it (`SumIsTally`).  Both are
proved from a smallest counterexample (well-foundedness of the finite subsets), because an induction theorem cannot be
instantiated.  With it:

* `LedgerExplained` (`MoneyBridgeProofs`), with **every** hazard: a wallet is its opening balance plus its rows;
  `BooksStayBalanced`, when `Clean`, adds what `OnceInv` says of the game.
* `ServicesProofs` on `WalletPayments`, for any finite set of players and any invoices, commands and threads, from
  `PaymentAssumption`.  `PayInv` says what a transaction's snapshot still tells when it commits: the rows it has
  read are there, and what it writes has not been written since.  `MoneyAlwaysAgrees` adds the sums (`BooksInv`: all gains of
  players are the operator's credits).  `PaymentsAlwaysSerial` is the refinement of `SerialPayments`, step by step, with
  `PayInv` as its invariant.  Its hinge is `CommitIs`: a commit has read everything it writes, and that is unwritten
  since its snapshot, so what it found there (cover, an unused ID, an open invoice) holds of the database at
  the moment it writes (`CommitIsSerial`).  The other steps of a transaction change nothing that is promised.

`ServicesProofs` and `LiveServicesProofs` hold for any values of the constants that satisfy the assumption each module
states.  Every service is an instance and is proved about alone, with an inductive invariant of its own.  No two
services share a variable, and no constant but `None`.

| theorem | invariant, and what makes it inductive |
|---|---|
| `CodesAlwaysAgree` | `CodeInv`: every prefix a thread has tried is another vehicle's code, and rows stay |
| `RosterAlwaysHolds` | `RosterFits`; the capacity is part of the update's filter, so that no earlier read is relied on |
| `BoundAlwaysAuthenticates` | `PairInv` follows a credential from the record through claim, response and binding file |
| `MappingAlwaysHolds` | `SystemInv`: what each step of a handler has read and may still write, as long as no other overlapped it |
| `ContinuityAlwaysHolds` | `CarryInv`: what an open transaction has read of each member, who crossed it, and the audit rows |
| `OneRuntimeAlwaysServed` | `RuntimeInv`: posts in flight and in threads are of starts the game had, with their own snapshot |
| `ChatIsAlwaysTrue` | `ChatInv`: for each message, who may still handle it and what has been said of it; a second broadcast needs a receipt that was not saved |
| `BalancesAreAlwaysCurrent` | `BalanceInv` (`Covers`, `Bounded`): a snapshot that misses a transfer was written, sent and received soon after it, which is where `Period + Transit <= Grace` is needed |
| `ServicesTyped` | for each service the invariant above and its bounds: what the types say of the order of records, of one post at a time or of codes that were issued is not inductive without it |
| `FirstAlwaysStays` | `MarketInv`: every record in anybody's hands is one the contract has followed; `LinkInv`: nobody is told "registered" without a link; `MapInv`: a delivery that no other overlaps has read the map that is still stored |
| `ShownIsAlwaysTrue` | `MarketInv`; `ReplyInv`: the publisher is at work only on a settled reply whose command is over; `BoardInv`: a handler that seeds or retracts knows the bot's own reactions, unless something went amiss since it read them |
| `RolesAlwaysFollowGrants` | `GrantInv`: a membership with an open job, or a command in the mailbox, is unsettled, so that no revision is begun meanwhile and the jobs of late receipts are settled; the game's file and its roles name farms with a membership only |
| `SownRipensInSeason` | `CropInv`: a crop sown under the policy and not dead is as old as the calendar says, in the rehearsal of its planting month |

`CropLifecycle` computes its path, its table and its rehearsal with recursive functions.  Each is shown to exist and to
be the only one by its least counterexample (`SmallestNumber`).  What they compute is not needed for every input: the code
installs a table only when the rehearsal accepts it, so the proof is that the field then runs as the rehearsal did.

The assumptions that came with these proofs: a balance is trusted for a grace that covers
the period of the game's snapshot and its transit; the bounds of contracts, starts and stages are positive; contracts are created by
users; windows are sets of months; there are finitely many guests; bounds are numbers; a placeholder is not a member of the set it is missing from.  `Services` and
`LiveServices` assert them (`ServicesAssumption`, `LiveServicesAssumption`), and TLC evaluates them with `MCServices` and
`MCServicesLive`.  The types of `ActivityIntake` and `VehicleGarage` are proved (`TypeCorrect`) and in no run of their own.

Only model-checked: all liveness (fairness is out of the prover's reach): `PendingIsAnswered`,
`ApprovedIsSettled`, `EventsSettle`, `GarageSettles`, `NothingHangs`, `CatchesUp`, `WorkersAreContracted`.
What the growth table yields for a crop that was in the field before the policy is among them (`CropsEnd`).

## Plan

1. Native contracts and the other publishers with edits.
2. Policies: clock, production, pricing and economy algorithms against reference definitions.

## Not modelled

Discord presentation, report and map rendering, telemetry stores without a protocol, native
contract projections (one upsert per mission), server status messages, the restart loop of the
supervisor (its restarts are faults of the modelled components), the clock, economy, pricing and
production policies (arithmetic on single values, sequential and unit-tested), the local development bridge,
channel policy, configuration, save mapping and the scraper (tables and I/O), HTTP
parsing and signatures, Mongo itself (a transaction is a step, or a snapshot with write conflicts where two can
meet), the game engine behind the Lua API, and tooling and tests, `integration_campaign.py` among them: it drives
the whole system against a database and has no behaviour of its own to check.  In the components
marked *partly* `PROJECT.json` names the operations left out.
