# GeoRoids: specification and proofs

TLA+ models of the GeoRoids server and of the browser's side of its protocols, the TLC
configurations that check them on small instances, and TLAPS proofs that hold for every
instance. `PROJECT.json` maps every definition to the lines it models; source paths below are
relative to the repository root.

Contents: 1 the system; 2 the modules; 3 the runs; 4 bounds; 5 fairness; 6 the proofs;
7 disagreements found; 8 what is only model-checked, and what is not modelled; 9 what could follow.

## 1. The system

GeoRoids is one shared world. An authoritative Node process (`server.ts`, `server/`) steps the
simulation sixty times a second, talks to browsers over WebSockets and keeps the world in
SQLite, through a writer thread. The browser client (`src/`) predicts its own ship and shows
what the server tells it. `shared/` holds the protocol and the rules both sides compute. A
second thread keeps debug reports and carries them to Todoist.

| Component | State it keeps | Operations | Talks to |
|---|---|---|---|
| Regional asteroid field (`server/world/RegionalAsteroidField.ts`) | awake sectors; rows of sleeping sectors; rows changed since the last batch; membership of the last batch | `update` (sleep, wake, regrow), `checkpoint`, `saved`, load | asteroid manager, probes, engine, store |
| Asteroid manager, probes (`server/core/AsteroidManager.ts`, `SurveyProbeManager.ts`) | simulated rocks and their condition; probes | hit, split, ignite, deliver, move; attach, expire | field, engine |
| World persistence (`server/world/worldPersistence.ts`, `WorkerWorldPersistence.ts`, `worldStoreWorker.ts`) | unanswered requests, waiters, failure, shutdown; the thread's open transaction | `persist`, `whenIdle`, `shutdown`, watchdog | engine, thread (ports) |
| World store (`server/world/WorldStore.ts`) | database rows | `checkpoint`, `load`, duplicate guard | writer thread |
| Engine and process (`server/core/GameEngine.ts`, `server/createServer.ts`, `server.ts`) | pilots, pause, deferred flush, fatal failure, exit code | frame, join, leave, flush, shutdown | everything |
| Snapshot broadcaster (`server/services/GameStateBroadcaster.ts`) | per socket: baseline, flights, credit, recovery | offer, acknowledge, negotiate, resync | engine, sockets |
| Snapshot protocol (`shared/snapshotProtocol.ts`) | the decoder's baseline | decode, apply | client connection |
| Client connection (`src/network/services/ConnectionManager.ts`) | socket, join in progress, private token, snapshot session | connect, join, reconnect, acknowledge, resync | server, localStorage |
| Pilot sessions (`server/core/PlayerMotionService.ts`, `server/communication/MessageHandler.ts`, engine) | session, token, socket, grace; the ship's socket; the saved row | register, resume, transport closed, expire, remove | sockets, store |
| Debug reports (`server/debugReports/`) | game thread: live thread, failures, budget of replacements; thread: rows, the delivery under way | submit, supervise, deliver, retry, close | HTTP, SQLite, Todoist |
| Motion (`server/core/PlayerMotionService.ts`, `src/network/services/PlayerMotionReconciliation.ts`) | per session: epoch, mode, acknowledged pose, travel credit; in the browser the same seen from afar | accept a pose, hand off, correct, lock to a rail | engine, sockets |
| Lives of pilots (`server/core/GameEngine.ts`, `EntityManager.ts`) | rescue window, explosion, respawn, air-lock, journey | hit, rescue, surrender, respawn, travel, hold, restore | campaign, motion, store |
| Clock (`server/core/GameEngine.ts` `stepClock`, `shared/gameClock.ts`) | debt of time, blocked spans | step, catch up, discard | motion, loop |
| Economy (`server/core/LootManager.ts`, `BotFleet.ts`, engine) | pods, holds, scores, settlement, revision of what changed | drop, collect, spill, deposit, buy, build | store |
| Campaign (`server/world/CooperativeCampaign.ts`, `server/core/HiveEncounters.ts`, engine) | records of supply, project and hives; shipments | deliver, withdraw, restore, fight a hive | field, store |
| Spiders, crawlers, combat, flight of bots | entities and their timers | steps of the frame, driven by geometry | engine |
| Client simulation, rendering, audio, UI | presentation | | client connection |
| Scripts, benchmarks, wiki, deployment | | | |

**Where it is hard.** The game thread runs one callback at a time, so nothing in it is
preempted; the difficulty is between callbacks. A batch handed to the writer is committed
seconds later or never, while the frame goes on. A thread told to stop holds its database
until it has stopped. A send callback and the browser's receipt of the same frame come in
either order, and a rejoin may fall between them. A socket's close event may arrive after its
pilot has moved to another socket. A request to Todoist that timed out may still arrive. And
the process may die anywhere.

**What correctness means, per component.**

- *Field and store*: no rock is ever lost or in two places, in memory, or after a crash, in
  what a restart reads; the store's guard never stops a healthy server; a paused world is on
  disk; damage does not stay out of the database longer than drift may; a rock under power
  never freezes in a sleeping sector.
- *Writer and process*: batches land in order and without holes; a waiter is always woken; an
  exit with code 0 has lost nothing; a crash costs one batch; a failure ends the process.
- *Snapshots*: the books are exact and the window is kept; every delta finds the baseline it
  was made for; the view only shows worlds that were published, in order, and catches up.
- *Sessions*: the three records of who flies what agree; nobody loses a ship to a late event;
  progress survives leave, expiry and restore; a browser keeps a token that opens its pilot.
- *Motion*: no message that was on its way undoes what the server has done to a ship; the two
  sides agree once they have said so; control comes back; nobody travels longer than time has
  passed, and nobody is refused who flew honestly while the server was held up.
- *Lives*: the places that record a life agree; a rescue window ends by rescue or death and by
  nothing else; who waits is not evicted; everybody flies again.
- *Economy and campaign*: a point, and a unit of ore, is in one place, now and after a crash; a
  batch is a world that existed; what is saved can be loaded.
- *Reports*: one thread at a time within the budget; every request is answered; every report
  arrives once, whole and eventually.

## 2. The modules

| Module | Models | Uses |
|---|---|---|
| `Amounts`, `AmountsProofs` | sums of numbers over a set, and what they do when one place changes | TLAPS |
| `RegionalField` | sleep, wake, regrowth, crossings, batches, database rows, crashes | |
| `MCRegionalField` | constants of `RegionalField` for TLC | `RegionalField` |
| `RegionalFieldProofs` | its theorems | `RegionalField`, TLAPS |
| `BatchLog` | abstract: what persistence promises the engine | |
| `WorldWriter` | adapter, ports, writer thread, watchdog, shutdown | implements `BatchLog` |
| `EngineWriter` | flushes, pause, fatal tick, orderly stop, restart | extends `WorldWriter` |
| `WorldView` | abstract: what a spectator sees of the published worlds | |
| `SnapshotStream` | broadcaster, socket, decoder, receipts, recovery | implements `WorldView`; `Amounts` |
| `ServerProofs` | theorems of both, and that they implement `BatchLog` and `WorldView` | `EngineWriter`, `SnapshotStream`, `AmountsProofs` |
| `PilotSessions` | tabs, sockets, joins, takeovers, grace, saved rows | |
| `PilotMotion` | epochs, poses, placements, locks and bridges, on both sides of the link | |
| `PilotLife` | rescue windows, death, respawn, journeys, holds, return and restore | |
| `PilotsProofs` | theorems of both | `PilotLife`, `PilotMotion`, TLAPS |
| `PoseBudget` | game clock, blocked spans, travel credit | |
| `SessionsProofs` | theorems of both | `PilotSessions`, `PoseBudget`, TLAPS |
| `CargoLedger` | points in pods, holds, rows, settlement, furnaces; batches of them | |
| `Frontier` | ore, shipments, scanner, ruins, hives; batches of them | `Amounts` |
| `LedgersProofs` | theorems of both | `CargoLedger`, `Frontier`, `AmountsProofs` |
| `ReportThreads` | supervision of the report thread | |
| `ReportThreadsProofs` | its theorems | `ReportThreads`, TLAPS |
| `ReportDelivery` | rows of reports, the delivery job, Todoist | |
| `ReportDeliveryProofs` | its theorems | `ReportDelivery`, TLAPS |
| `MCCargoLedger` | constants and bounds of `CargoLedger` for TLC | `CargoLedger` |
| `MCServer`, `MCSessions`, `MCPilots`, `MCReports` | several parts checked in one run | see below |

A component may be left in any state by another, but the parts in `MCServer` (saves, snapshots),
`MCSessions` (who holds a pilot, how far it may travel, the campaign), `MCPilots` (lives, motion)
and `MCReports` (the thread, what it delivers) share no variable: a product of their states would
repeat each part once for every state of the others and show nothing. These modules are *sums*: `part` is chosen in the first state,
the chosen part takes its own steps with its own fairness, the others rest. TLC counts a sum as
one action; on its own, under the same constants, each part takes every one of its actions.

**RegionalField.** `pos` and `cond` are the asteroid manager's rocks, `dormant`, `changed`,
`active`, `flushed`, `powered`, `checkpoints` and `fullFlush` the field's fields of the same
meaning, `inflight` the batch the writer has not answered, `db` the committed rows. A row is a
function from rocks to a condition. `UpdateFor` is one call of `update`, with its order: rocks
outside the wanted sectors sleep (a sector a rock drifted into is merged, one that was awake is
replaced), rows of newly wanted sectors wake, slots whose rock is nowhere may regrow. `Flush`
is `checkpoint` followed by `saved`. `Update` and `PeriodicFlush` are two steps of
one callback: while `frame` is "flushing" nothing but a crash can come between, and whether the
frame flushes was decided by whether the writer was idle. `LeaveLast` and `EndFrame` split the frame
that removes the last pilot, which flushes first and goes on moving rocks afterwards. The
geometry of an observer's interest square is the constant `Near`, the drift of a rock over an
edge the constant `Adjacent`; poses, outlines, shards and the belt ledger are left out. The
ghosts `alive`, `dbAlive`, `lag` and `late` are read by properties only (`alive` also keeps
fragment ids from being reused, as random ids are not).

**WorldWriter** and **EngineWriter.** The two threads and their ports are explicit; a batch is
its number. A native SQLite call may never return (`stuck`), a transaction may fail, the thread
may die, and each timeout may fire whenever it is armed. `EngineWriter` replaces the arbitrary
client of `WorldWriter` by the engine: periodic flush, departure flush, the flush deferred to
an idle writer (a microtask, so it precedes any other callback), the fatal tick, SIGTERM, the
deadline that cuts the transports, and the exit code. `BatchLog` states the promise in five
actions; `KeepsTheLog` is the refinement.

**SnapshotStream.** One pilot, one ordered socket after another. The server's record of a
recipient keeps the code's fields. A send callback and a receipt are separate steps. A frame
may be rejected by the decoder, fail while being applied, or be lost with its socket. Whatever
a delta contains is the number of the world it leads to, and a delta applied to another
baseline than its own yields the sentinel `Garbled`. The list of flights is a set, since
the numbers of frames never repeat and say their order; `Bytes` is the sum of their sizes. An offer
the server skips changes nothing in the code and is no step. `WorldView` says what a viewer may assume: it only moves to a newer
published world.

**PilotSessions.** `mem` is the server's memory, with the three records that must agree: the
ship's socket (EntityManager), the session (PlayerMotionService) and the map from sockets to
pilots; `db` the saved rows; `up` and `down` the two queues of each socket. Each branch of
`handleJoin` is an action: rejected, fresh, resume of a live session, restore of a saved pilot,
refused. A tab holds the token in memory and in the localStorage its browser shares. Time is a
grace period that is running or over. Tokens and client ids are recycled once nothing refers to
them, which stands for randomness that never repeats. The digest of a token is a function the
server can compare and not invert. A pilot's progress is one number, the part of its saved row
that only a capture copies from the ship.

**PilotMotion.** `server` is the session with the fields of its actor that motion writes,
`client` the reconciliation with those of the browser's ship, `up` and `down` the poses and
snapshots in flight. A place is the number of the last placement by the server it derives from:
flying does not change it, a respawn, a journey, a bridge or a ram counts it up. Whether a pose
fits its envelope or its rail is a choice, so that each acceptance and each correction happens.

**PilotLife.** A frame is one action in the code's order: expiry of sessions and of silent
actors, explosions and respawns, journeys, windows that are over, rescues. Server time advances
by `Elapse`, a deadline is the ticks that remain. A window is in the actor, in the campaign and
in the database; a pilot leaves, expires, returns to its live ship, or is restored into any of
these states, before or after a crash.

**PoseBudget.** Time in small units, one ship on a line, distance in the time the fastest legal
flight needs. The loop polls, is held up, or replays frames; poses travel over a link that may
hold them. `corrected` and `honest` are ghosts: whether an envelope refused a pose, and whether
its pilot deserved it.

**CargoLedger.** A point is a coin with an identity, so that a lost and a doubled one do not
cancel; a part that fits into a hold is a set of coins. `moved`, `litMoved`, `dirty` and
`botsSaved` are the marks that decide what a checkpoint writes, each set where the code sets it.
The cargo of bots is saved as pods that only a restart turns into pods.

**Frontier.** Ore in units. A delivery goes to the supply of a furnace and, at the town, to the
scanner; a shipment is drawn from a supply and restores a ruin; the hive at a site fights, and
its sacs must fall within one window. `hit` does not look at the clock, and a shot that is handled
between two frames lands before `advance` does; so `late` counts the ticks since the last frame, and
what the code does promise is `LateSacsAreRefilled`. The ore that shipments, supplies and ruins hold
is a sum over finite sets (`Amounts`), which is why the frontier is assumed to be finite. `campaign` and `field` are written by one batch; a restart
loads `disk` and refuses what `validCooperativeRecord` refuses.

**ReportThreads** and **ReportDelivery.** The first is the game thread's view: a thread that
failed is terminated and replaced only after its exit event, replacements are budgeted per
rolling hour, requests have deadlines, and `close` waits for the thread. The clock times of
replacements are kept as the ages of the starts that the budget may remember (`Starts` names
them; a start older than the window is forgotten and its name free again). The second is the inside of the thread: one delivery job at a time, as a walk
through the requests it makes (find, create, list, post, ready, confirm), each of which may be
lost, time out and arrive later, or have its answer lost. Todoist is external and modelled as
the code relies on it: a command whose uuid was executed is not executed again, and its answer
repeats the outcome.

In every module, definitions whose comment begins with `Mutant:` are variants of the definition
that follows, each with one plausible mistake. No specification uses them. They exist so that
one can see each property fail when the mistake is made; `PROJECT.json` says which mutant
breaks which property.

## 3. The runs

| Run | Question | Distinct states |
|---|---|---|
| `field_splits` | Is every rock in memory once and in the database once, through sleep, wake, split, drift, regrowth and crash? Is a batch ever refused? | 648,002 |
| `field_deposit` | With chipping, burning, probes and two pilots: is a paused world durable, is damage late by less than a flush period, do burning rocks stay awake? | 758,588 |
| `field_last_frame` | Does the last departure's flush carry everything? It does not: section 7 | violated |
| `server` | What can a crash, a failure and an exit lose, does everything end, do adapter and thread keep `BatchLog`? Are a connection's books exact, is the view honest, does it catch up? | 459,711 |
| `sessions` | One tab, its process and its replies reliable: does it keep its ship and its token, is every join answered? Stalls and bursts: does anyone travel too far, is honest flight refused, is time accounted for? Is every unit of ore in one place, can every saved record be loaded, do sacs that ran out of time get through a frame? | 1,643,983 |
| `sessions_crash` | Two tabs of a browser, lost replies, sleep and crashes: do the records agree, is progress kept? | 2,305,353 |
| `sessions_lost_reply` | Can a browser lose its pilot for good? It can: section 7 | violated |
| `sessions_two_tabs` | Is a credential that is forgotten always one that opens nothing? It is not: section 7 | violated |
| `pilots` | Do the records of a life agree, does it always go on? Do poses in flight undo a placement, do both sides agree, does control return? | 697,800 |
| `ledgers` | Is every point in one place, in memory and after a crash? Is every batch a world that existed? | 601,994 |
| `reports` | Is there one thread within the budget, does nothing start after close, is everybody answered? Does each report arrive once, whole, and in the end? | 551,620 |
| `report_payload_lost` | Can a retry find its report emptied? It can: section 7 | violated |

The properties, in the words of the system:

- `RocksAreHeldOnce`: a rock that exists is simulated, or in the row of exactly one sleeping
  sector, or one its layout will generate, and a destroyed one is nowhere; and whenever the
  process dies, the committed rows hold exactly the rocks that existed at one flush, each in one
  sector. The second part depends on all sectors of one batch being cut at one moment although
  most of them wait for the drift cadence.
- `BatchNeverRefused`: the store's guard against duplicates compares a batch with rows that the
  same batch does not replace. It must never hit a healthy world, since that stops the server.
- `PausedWorldIsDurable`, `DamageLagBounded`, `BurningRocksStayAwake`: see section 1.
- `CrashLosesOneBatch`, `ExitIsClean`, `ChangesLandOrTheProcessEnds`, `KeepsTheLog`: what the
  engine relies on of its writer, and what an operator relies on of the exit code.
- `BooksAreExact`: the window's bytes are the frames in flight, a recovery is one of them, credit
  was applied, no snapshot overtakes the answer to a join, and the next frame can be decoded.
  `ShowsPublishedWorlds` is the refinement of `WorldView`, `ViewCatchesUp` its progress.
- `TabFliesItsShip`, `PilotStaysReachable`, `ShipsDoNotLinger`, `JoinsAreAnswered`,
  `RecordsAgree`, `ProgressIsKept`, `OnlyRejectedIsForgotten`: section 1, sessions.
- `PlacementsAreKept`, `AcknowledgedMeansAgreed`, `ControlReturns`, `TravelWithinServerTime`,
  `LegalFlightIsAccepted`, `TimeIsAccounted`: section 1, motion.
- `LifeRecordsAgree`, `WindowsEndByRescueOrDeath`, `WaitingPilotsStay`, `PilotsFlyAgain`: lives.
- `EveryPointOnce`, `SavedPointsOnce`, `BatchIsTheWorld`, `OreIsHeldOnce`, `SavedProgressLoads`,
  `LateSacsAreRefilled`: economy and campaign. `SavedPointsOnce` and `BatchIsTheWorld` are about
  parts of a batch that are written or left out by different marks.
- `OneThreadCounts`, `NothingStartsAfterClose`, `EverybodyIsAnswered`, `DeliveredOnceAndWhole`,
  `RetriesKeepTheReport`, `ReportsAreDelivered`: reports.

Each is defined under a comment that says what it means and which code it is about.

Runs with `CHECK_DEADLOCK FALSE` are those whose system may stop: an adapter that was shut down,
sockets that are used up, reports that are all delivered, or a bound that is reached.

## 4. Bounds

| Bound | Value | Why it is enough |
|---|---|---|
| sectors, slots, fragments | 2, 1, 0 or 1 | The invariants speak of one rock and two rows at a time; the proofs of section 6 hold for any number. In `field_splits` an observer sees its own sector only, so either may sleep; in `field_deposit` one sector is seen from both, so the two are not alike. |
| `DriftFlush` | 2 | A full flush, one without drift, and the next full one. |
| pilots of the field | 1 or 2 | A departure that leaves nobody, and one that leaves somebody. |
| `MaxBatches` | 2 | One batch in flight and one deferred; the final flushes add theirs. Without it the numbers would grow for ever. `MaxPending` is the code's 4. |
| `WindowFrames`, `WindowBytes`, `Sizes` | 2, 3, {1, 2, 4} | Frames that fill the window alone, together, and one larger than the window. |
| `MaxWorlds`, `MaxEvents` | 2, 2 | A newer world while the older is on its way; a fault while another recovers, or a rejoin during a recovery. A world is offered once unless a keyframe is due, which bounds the frames. |
| tabs, pilots, sockets, tokens | 1 or 2, 1, 3, 4 (2 pilots and 4 sockets where a tab may lose its pilot and make another) | Two tabs contend for one pilot; three sockets are two in contention and a successor; four tokens are more than can be referred to at once, so minting one is never what stops a run. |
| `Cargo` of `PilotSessions` | {0, 1} | A stale value differs from the current one. |
| `MaxEpoch`, `MaxPlace`, `MaxSequence`, `MaxIntent`, `MaxQueue` | 3, 2, 2, 2, 2 | A takeover while the answer to another is on its way, with poses of both epochs in flight. One rail: an acquisition, its release and another. |
| pilots of `PilotLife`, `Travellers`, `MaxStored` | 2, 1, 1 | Rescuer and rescued; one of them also uses furnaces and the map; a crash finds one or the other in the database. |
| `DownedTicks`, `ReviveTicks`, `GraceTicks`, `DyingFrames` | 2, 1, 1, 2 | A rescue fits into a window and may come too late; a grace ends before a window. The window and the age at which an actor is stale are equal, as in the code. |
| `FrameMs`, `CatchUp`, `Lead`, `MinSpan`, `Horizon`, `MaxOddities` | 2, 2, 2, 1, 10, 3 | A stall longer than the catch-up, a second one while the first is replayed, and poses held by the link across both: five frames, of which two can be caught up. |
| coins, pods, lots, `Holds` | 2, 2, 1, {1, 2} | `SmallWorld`: two coins with one pilot, so that part of a pod fits; one coin with two pilots, who contend for it. Coins and pods are interchangeable (`SYMMETRY`; no liveness property runs under it). |
| sites, sacs, values of `Frontier` | 2, 2, 1 or 2 | A site that the scanner opens and one that is open; two sacs that fall apart; a shipment larger than a ruin needs. `SmallFrontier` keeps two unsaved records and leaves the farther hive's sacs alone. |
| `SacWindow`, `MaxLate` | 1, 1 | Sacs that fall a window apart; a shot one tick after the last frame, which may be the tick in which the time runs out. |
| threads, requests, `Window`, `MaxReplacements`, `MaxPending`, `Starts` | 2, 2, 1, 1, 1, 2 | A thread and its successor; one request waits, another is refused; one replacement uses up the budget until a tick. One name for starts more than the budget is enough: `AStartIsAlwaysLeft`. The threads are alike, so which is the first is fixed. |
| reports, parts, `BatchSize` | 2, 2, 1 | A report behind another; a report half of whose comments are posted. |
| faults, deaths, closings | 1 each | Each is a repetition of the whole delivery; liveness needs them to end. |

A wait of five seconds after a failed attempt is longer than the thread's one-second timer; the
model keeps only that a report which rests does not come due before every other due report has
had its turn (`rest`).

`LegalFlightIsAccepted` speaks of pilots on a `Bearable` link: one that holds reports for less
than the catch-up, at a time the loop keeps up. With a catch-up close to `MinSpan` an honest
pilot can be refused, because a span shorter than `MinSpan` is not recorded as blocked; the
code's sixty frames are far above what it takes, the model's two just enough for the gaps it allows.

## 5. Fairness

Safety runs need none. Each liveness property is checked under weak fairness of steps that the
runtime takes by itself:

- the event loop delivers what has arrived (`Receive`, `ReadJoined`, `HandleJoin`, `Handle`,
  `ReadUpdate`, `ReadSnapshot`);
- timers fire (`Stall`, `Deadline`, `Expire`, `GraceEnds`, `RequestDeadline`, `Tick`, `Elapse`);
- the frame and the broadcast interval run (`PeriodicFlush`, `Frame`, `OfferDue`, `Broadcast`,
  `SendPose`), and with the frame journeys and bridges end;
- a thread that is not stuck in a native call goes on (`Opening`, `Take`, `Writing`);
- the network delivers or breaks (`TransportAccepts`, `SeeClose`, `NoticeCut`).

In the sum modules each of these conditions is that of the component, guarded by `part`: the
guarded action is enabled exactly when the component's is and the component is the part that
moves.

No user is fair: nobody has to play, join, quit, fly or stop the server, except that
`EverybodyIsAnswered`, which also says that reporting comes back, assumes that visitors keep
trying (`MakeRequest`), because a replacement is only started when somebody asks. The one strong
fairness, of a `Replace` that succeeds, says that constructing a thread does not fail every
time. A stuck writer thread is never fair: the watchdog must do.

## 6. The proofs

What a run shows of small sets, these theorems show of all: any number of sectors, rocks, pilots,
tabs, sockets, tokens, coins, sites, threads, batches and messages, with only the assumptions on
the constants that the modules name. Each rests on an inductive invariant, which TLC checked on
the instances of section 3 before it was proved; what it has beyond the property is what the code
silently relies on, and is named below.

| Module | Theorem | Property |
|---|---|---|
| `RegionalFieldProofs` | `RocksAreNeverLostOrCopied` | `RocksAreHeldOnce` |
| | `StoreAcceptsEveryBatch` | `BatchNeverRefused` |
| | `PauseLosesNothing` | `PausedWorldIsDurable` |
| | `DamageIsWrittenInTime` | `DamageLagBounded` |
| | `FiresStayAwake` | `BurningRocksStayAwake` |
| `ServerProofs` | `CrashLosesOneBatchHolds` | `CrashLosesOneBatch` |
| | `ExitIsCleanHolds` | `ExitIsClean` |
| | `TheLogIsKept` | `KeepsTheLog` (the refinement of `BatchLog`) |
| | `ShowsPublishedWorldsHolds` | `ShowsPublishedWorlds` (the refinement of `WorldView`) |
| | `BooksAreExactHolds` | `BooksAreExact` |
| `SessionsProofs` | `RecordsAgreeHolds` | `RecordsAgree` |
| | `ProgressIsKeptHolds` | `ProgressIsKept` |
| | `TabFliesItsShipHolds` | `TabFliesItsShip`, while no tab sleeps |
| | `PilotStaysReachableHolds` | `PilotStaysReachable`, while tabs share no browser, wait for replies, and the process stays up |
| | `TimeIsAccountedHolds` | `TimeIsAccounted` |
| | `TravelWithinServerTimeHolds` | `TravelWithinServerTime` |
| `PilotsProofs` | `LivesAgree` | `LifeRecordsAgree` |
| | `WindowsEndWell` | `WindowsEndByRescueOrDeath` (action property) |
| | `TheWaitingStay` | `WaitingPilotsStay` (action property) |
| | `PlacementsAreKeptHolds` | `PlacementsAreKept` (action property) |
| | `AcknowledgedMeansAgreedHolds` | `AcknowledgedMeansAgreed` |
| `LedgersProofs` | `PointsAreHeldOnce` | `EveryPointOnce` |
| | `SavedPointsAreHeldOnce` | `SavedPointsOnce` |
| | `BatchesAreTheWorld` | `BatchIsTheWorld` (action property) |
| | `OreIsHeldOnceHolds` | `OreIsHeldOnce` |
| | `SavedProgressLoadsHolds` | `SavedProgressLoads` |
| | `LateSacsAreRefilledHolds` | `LateSacsAreRefilled` (action property) |
| | `BatchesAreWhole` | a batch of the changed records leaves nothing behind |
| `ReportThreadsProofs` | `OneThreadCountsHolds` | `OneThreadCounts` |
| | `NothingStartsAfterCloseHolds` | `NothingStartsAfterClose` (action property) |
| | `AStartIsAlwaysLeft` | the names for starts hold nothing back |
| `ReportDeliveryProofs` | `DeliveredOnceAndWholeHolds` | `DeliveredOnceAndWhole` |
| | `RetriesKeepTheReportHolds` | `RetriesKeepTheReport`, while the upkeep after `delivered()` does not fail |

Besides these, each module proves its inductive invariant (`FieldInvariant`, `ConditionsInvariant`,
`LedgerIsInductive`, `FrontierInvHolds`, `OreInvHolds`, `LivesAreSound`, `PoseInvHolds`,
`StreamIsSound`, `WindowIsSound`, `DeliveryIsSound`, elsewhere `InvHolds`), which contains its type
invariant.

The modules are laid out alike: lemmas about the operators the model is built from, one lemma per
action of the next-state relation, a step lemma that joins them, and the temporal theorems.

### The regional field

`RegionalFieldProofs` proves, from `FieldAssumption` (what the constants are: `Near[s]` contains
`s`, slots and fragments are apart, each slot has a home, `DriftFlush` is positive) and
`SentinelAssumption` (the sentinels are none of the values they stand in for), that `IInv` and
`DamageInv` are inductive.

That the database holds each rock once is not inductive. A batch carries only some sectors: those
whose membership changed, those put to sleep, and all awake ones when drift is due. Committing it
keeps the database right only if the sectors it leaves out already have the right members there.
`IInv` says so:

1. `BatchesTrackMemory`: for each sector, what has been handed over so far (`Handed`: the
   database under the batch in flight) has the members memory has, unless the sector has a pending
   row (`changed`) which is then the row in memory; for an awake sector the recorded membership
   (`flushed`) is what was handed over.
2. `ExactlyOnce(Handed, HandedAlive)`: what has been handed over holds each rock once. `Commit`
   turns it into the fact about the database.
3. `MemoryHoldsEachRockOnce`, which the other two are compared with, and `ProbeSectors \subseteq
   active`, without which the update would put a sector to sleep that is not in its own list.

`UpdateInv` follows one update through sleep, wake and regrowth by the lemmas `SleepHeld`,
`WakeHeld` and `GrowHeld`, one per stage, about rows and tables and not about the state.
`FlushInv` first shows that after a flush what was handed over has the members of memory in every
sector (`BatchesTrackMemory` used for the sectors not written), then concludes by
`AgreementHoldsOnce`. `RockStepInv` covers the actions that leave rows alone. `CrashInv` uses
that a new process starts with empty records and the rows of the database. `BatchNeverRefused`
follows from (2) alone.

`DamageInv` adds what the conditions of rocks need. The rows of sleeping sectors are handed over
as they are, damage included (`SleepersAreHanded`): this is why an update that puts a sector to
sleep marks it changed even if its members did not. `LagIsCounted` measures the age of damage by
the counter that decides which flush is a full one. `PauseIsHanded` follows the last departure: a
flush that has to wait for the writer will be a full one, no frame is about to flush while one
waits, and once nothing waits what was handed over is the world. The exception of the departing
frame (`late`) is the finding of section 7.

### World persistence

`EngineWriter`'s `IInv` relates the two ports to the database. `PortsMatch`: a thread that can
still write has exactly the batches that have not landed before it, in order and behind the one it
is writing, and a shutdown request is behind them all. `RepliesAreTrue`: a `done` on its way is in
the database, an exit on its way is that of a thread that has ended, and an exit that nobody forced
and no failure precedes is the end of a thread that wrote everything; without it `close()` could
resolve too early. `AdapterIsRight` and `StopIsOrderly` say what the adapter and the shutdown
sequence conclude from those. The refinement (`StepKeepsTheLog`) maps each step to a step of
`BatchLog` or to a stutter: `PortsMatch` makes a commit the landing of the oldest batch, and
`AdapterIsRight` makes a close that resolves one that has landed them all. The ports are sequences
of any length; their facts are stated once, per position, for a head that is read and for messages
put behind.

### The snapshots of a connection

`ShowsPublishedWorlds` is a refinement, so `StreamInv` says of every frame on its way what the
decoder will make of it. `WorldsInOrder`: sequence numbers and worlds grow together over all that
was sent, is on its way, or was accepted, and nothing on its way is older than the view.
`DeltasFollow`: a delta on its way is based on the frame before it, which is still on its way too,
or is what the decoder holds; unless the client waits for a keyframe, and then it discards the
delta. `NextFollows` says the same of the delta the broadcaster may cut next: after a refused
offer, a racing callback or a rejoin it may cut none (`needsKeyframe`). `JoinComesFirst`: a client
that has not joined finds the answer to its join first. `ReceiptsAreTrue`: a receipt on its way,
and the credit the recipient was given, are for frames the client applied. The frame a decoder
applies is then a published world no older than the one it shows, a step of `WorldView`.

`WindowInv` is the part of `BooksAreExact` about credit. The frames charged to a recipient are its
flights and the one whose callback is outstanding, which may have been acknowledged already
(`applied`) and is then charged until the callback. Credit is exact because the numbers of frames
never repeat (`FramesAreCounted`): what a receipt retires is a set of frames, its bytes and those of
the rest add up to the bytes before, and the same frame is not retired twice. A recovery frame has
the number the recipient waits for, so there is at most one beside the ordinary ones. The lemmas are
about *any* recipient that is `WindowOf` its window, since a rejoin negotiates, submits and charges
in one handler.

### Sums

What a fold computes when one element changes is an induction over data, out of the provers' reach.
`Amounts` says what a sum is without one: `Units(w)` holds `w[x]` units for every `x`, and
`Total(w)` is how many they are. Then the library's theorems about cardinality give what the
proofs need, once and for all: totals of disjoint parts add up (`TotalSplits`), a place more adds
its value (`TotalGrows`), and a place that changes changes the total by as much (`TotalChanges`).

### Sessions

The engine's operations are operators on a memory, applied one after another within one handler
(a join captures, removes, registers, takes over and closes), so the lemmas are about *any* memory
that is `Sound`: shaped, its three records agreeing with the open sockets, its progress kept
against the saved rows, and the saved row of each pilot with a session opening with the session's
token. Each operation has a lemma that says what it changes and one that says it leaves a sound
memory sound. The invariant beyond that: a socket belongs to one tab, which only asks to join on
it (a tab that says more has let go of it), and nothing is on a socket that was not opened
(`SocketsAreOwned`); and a `joined` on its way to a socket that is open, uncut and not being closed
is still true when it arrives (`AnswersAreTrue`). `TabFliesItsShip` needs the last one, and both
hold only while no tab sleeps (`~Sleeps`, the condition of the theorem): the server removes a
pilot it has not heard of for thirty seconds and tells nobody. `RecordsAgree` and `ProgressIsKept`
hold with sleeping tabs, crashes and lost replies as well. Tokens and sockets are picked as the
least unused number; that there is a least one comes from the well-foundedness of the naturals.

`PilotStaysReachable` is proved for any number of tabs that are browsers of their own
(`~SharedStore`), wait for the answers to their joins (`~LosesReplies`), and talk to a process that
stays up (`~Crashes`). The theorem needs all three: TLC finds a counterexample when any one of them
is dropped (section 7 for replies and crashes; two tabs of one browser overwrite each other's
stored token, and a tab that starts again with the other's has lost its own; `sessions_two_tabs`
has the case in which the token is wiped). Its invariant `ReachableInv` adds
two parts to the one above. `JoinsTakeTurns`: on the socket of a tab that waits there is either its
join, or a refusal, or the `joined` that answers it, perhaps with a close behind it; the socket
flies nothing until it is answered; and no other socket carries a join or an answer. A restore may
therefore rotate the token while its answer is on the way down, and nothing else can be in flight
for that tab. `TokensReachTheirTab`: a digest is in one saved row; what a tab's token opens, the
tab created; and a pilot whose token has reached a tab is opened by the token that tab has, or
named by the answer on its way to it. The engine's operations do not change which digest is in which
row (`SameTokens`), with one exception, `registerPilot`, which writes the digest of a token that
neither a tab nor a row has (`RegisteredReach`). The steps come in three kinds: those that leave
the sockets of waiting tabs alone (`QuietReach`), answers to a join (`TurnTaken`), and the steps of
a tab (`TabTurnReach`).

### Lives

`LifeInv` adds to `LifeRecordsAgree` what the handlers rely on between them. `SavedAreKnown`: who
is in the world has been saved, only a connected pilot travels, and a window in the database is
that of a pilot saved dead, so that a restart finds what a departure would have left.
`WaitsInTime`: a hull without health lies in a window or dies; a window that is over ends with the
next frame; and the ticks a hull has been silent and those it still has to wait are together no
more than the age at which it would be stale. The last one makes `WaitingPilotsStay` inductive: the window
is exactly as long as that age, so it needs the reset of `age` when a window ends (`Finished`) and that an explosion is shorter
(`DyingFrames <= DownedTicks`, 18 frames against 30 seconds). `LifeInv` concerns each pilot alone
(`PilotByPilot`), so the steps of one pilot share one lemma (`OneLife`), and a frame is followed
hull by hull through its stages: `WindowEnds`, `RescueEnds`, `AgedFit`, `TravelledFit`. One who is
revived is never one whose window ended in the same frame, since windows are looked at first.

### Motion

What is on its way was true when it was sent, so `MotionInv` says for each message how it may
differ from the server now. `PlacesFit`: a place of an older epoch is no later than the server's,
one of the same epoch is the server's; every placement therefore has to open an epoch.
`JoinComesFirst`: the answer to a join is the first message of a link and voids what was in flight.
`UpdatesInOrder`: poses travel in the order of their epochs and numbers, and once one has been
accepted all that are left are later ones of its epoch. `SnapshotsAreTrue`: a snapshot as late as
the server's last acknowledgement tells the rail the server has.

`PoseInv` of the clock says that blocked spans are in the past, and that what a session has
travelled *and may still travel on credit* is paid for by the time of its last pose and one lead
per epoch the server opened. A pose is granted no more than the time since the one before it,
because the blocked part of that time is the longest single span in it and never the sum of spans,
which overlap; the greatest span exists by well-foundedness of the naturals.

### Points and the campaign

The proofs of `CargoLedger` use `CargoAssumption` (pilots, bots and pods have different ids, capacities
are numbers, no batch is a sentinel). `EveryPointOnce` alone is nearly inductive; what a batch saves is not, because it leaves parts
out. `MarksAreComplete` closes the gap: whatever is not marked (no change of pods or settlement,
no cargo of bots in the last batch, no lit furnace, a pilot that is neither dirty nor in the
world) is in `Saved`, the image the next batch builds on, as it is in the world. With it `Flush`
makes the image of the batch equal to `Now` (`BatchIsTheWorld`), and so what will be saved holds
each point once because memory does. `AwayIsEmpty` says that who is not in the world carries
nothing; without it a return would copy a hold. There is one lemma per action; the temporal
theorem `BatchesAreTheWorld` is an action property from the same invariant.

`FrontierInv` follows the campaign in memory and on the disk at once. `DiskIsBehind`: a record
whose key is not among the changed ones is on the disk as it is in memory, and nothing is completed
on the disk that is not in memory. `HiveInOrder`: while sacs stand, a deadline that has not passed
leaves each fallen one the rest of its window; it holds of the saved hives too, because a restart
goes on with them. `ActiveAreCurrent`: a hive that a laser can hit has been met, and its fallen sacs
were within their window when it was last refilled, so now they are at most `late` ticks past it
(`SacsInTime`). The times since the sacs fell are ghosts. `LateSacsAreRefilled` follows: with frames
of one tick a set is complete at most one tick after its time, with frames held up for longer so much
later. That a set counts only before its deadline is not what the code does, and nothing here
says so: the wiki's "Destroy every sac around a hive before the countdown from the first pop expires"
(`content/wiki/terrain.md:67`) is true up to the time between two frames.

`OreInv` is inductive relative to `FrontierInv`. That ore is held once is not inductive alone: a
shipment is kept under its name, and one drawn under the name of another would replace it, ore and
all. So no shipment, in memory or saved, has a number that its furnace has still to give
(`NumbersAreGiven`); a restart must bring back counter and shipments of the same moment, which is
why both are in one batch. A delivery divides what it brings between scanner, ruin and supply, none
of which takes more than it needs (`Shares`), and each action has a lemma that follows the units.

### The report thread

`PredecessorsAreGone`: every thread but the current one has ended and been heard to the end, or was
never constructed, so what arrives from a thread concerns the current one. `BudgetIsKept`: the
budget remembers every start of the window, and still has room for the one under way: a
replacement is granted when its predecessor fails and counted only when that one has ended. The bound on the names of starts is no restriction
(`AStartIsAlwaysLeft`).

`DeliveryInv` follows a report through the job, the network and Todoist. A request may arrive long
after its job has gone, so what makes it harmless has to be in the request and in Todoist:
`RequestsAreOurs` (each command carries the uuid stored for its report and part, and a task it
names is the report's), `MadeOnce` (what was made with a uuid was made once, and the uuid is known
to Todoist: a late request finds its uuids used) and `MarkedWhenComplete` (a request to mark a task
is sent only when the task has every part, and complete it stays, since each further comment would
need a fresh uuid). `Executed` is the lemma that any part of such a request, executed at any time,
keeps all this; the job's steps only have to show that they ask for nothing else (`Sent`,
`TaskSaved`, `Proceeded`). `PayloadInv` says that exactly the undelivered rows have their payload,
and that the report of a job under way is one of them; it is inductive unless the upkeep after
`delivered()` fails, the finding of section 7.

## 7. Disagreements found

Each is a run in which TLC finds the violation.

- **`field_last_frame`** (comment against code). `updatePauseState` says of the last departure's
  flush: "Nothing flushes while paused, so this write carries all deferred drift"
  (`server/core/GameEngine.ts:820`). When the first steps of a frame remove the last pilot, the
  frame goes on to move and deliver rocks after that flush, and its own flush is skipped because
  the writer is busy. These last moves stay out of the database while the world is paused.
  `PausedWorldIsDurable` is the same property without that frame, and holds.
- **`sessions_lost_reply`** (code). Restoring a saved pilot rotates its token and replaces the
  saved digest before the browser has received the new token. A tab that goes away in between
  keeps a token that opens nothing; its pilot stays in the database, out of reach. With replies
  that arrive and a process that stays up (`sessions`), `PilotStaysReachable` holds. The same
  property with `Crashes = TRUE` and reliable replies is violated as well: the rotated digest
  reaches the database up to a second after the browser has the token.
- **`sessions_two_tabs`** (code). Told `sessionExpired`, a tab discards what its comment calls "this
  credential", which "the server explicitly rejected" (`src/network/services/ConnectionManager.ts:1013`);
  `clearResumeCredential` removes whatever `localStorage` holds. Two tabs join with the same token
  after the ship has gone: the first is restored and stores its new token, the second is refused and
  wipes it. Once the first page is reloaded, nothing opens that pilot. No reply is lost in this run and
  nobody crashes.
- **`report_payload_lost`** (code). `delivered()` commits a row without payload and then does
  upkeep; if that throws, the error path sets the row back to pending, and `next()` throws on it
  whenever it is the earliest due. `RetriesKeepTheReport` holds when only `saveTask`'s upkeep may
  fail (`reports`) and fails when `delivered`'s may.

## 8. What is not proved, and what is not modelled

Only model-checked:

- all liveness, since `ENABLED` and fairness are outside the prover's reach: `ViewCatchesUp`,
  `ChangesLandOrTheProcessEnds`, `ShipsDoNotLinger`, `JoinsAreAnswered`, `ControlReturns`,
  `PilotsFlyAgain`, `EverybodyIsAnswered`, `ReportsAreDelivered`;
- `LegalFlightIsAccepted`, which holds on a bearable link. An inductive invariant would have to
  carry the order of the reports a link holds and the time each of them may still claim.

The modules are written without recursive operators. Each states a type invariant; no run lists
those, since the properties the runs list fail sooner.

Not modelled, with the reason (the full list is in `PROJECT.json`):

- geometry and arithmetic over real numbers: flight, collision, combat, world generation, belt
  crawlers, spiders' pursuit, flight of bots, interest squares. Where they decide something the
  models care about, the decision is a choice (who is hit, who reaches a pod, whether a pose fits)
  or a constant (`Near`, `Adjacent`, `Home`);
- quantisation and delta encoding of entity fields, schema migration, JSON and SQL decoding;
- the belt ledger of the field, reset of the store, the inline persistence adapter of the tests;
- equipment, silk and satellites: single objects copied with a pilot's row, or not saved;
- the limits on submitted reports and the browser's local copies of them; admission lanes and
  message budgets of connections, which keep no game state;
- rendering, audio, input, UI, wiki, scripts, benchmarks, deployment, metrics, static files. They
  are most of the repository's lines and hold no state the server trusts.

## 9. What could follow

1. A proof of `LegalFlightIsAccepted` on a bearable link.
2. `ReportInbox`: the browser's copies of reports in two tabs, submission and its limits,
   composed with `ReportDelivery`.
3. Capture and release of pilots by spiders and crawlers, with their geometry as choices,
   composed with `PilotLife`.
4. Pure algorithms against reference definitions: the admission lanes and the message token
   bucket, snapshot quantisation.
