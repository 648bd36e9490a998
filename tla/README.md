# Verification of the quant-trading-engine

TLA+ models of the engine's services, the TLC runs that check them on small
instances, and TLAPS proofs of the properties that matter most.  Paths are
relative to the repository's `src/`; line numbers are those of the commit the
models were translated from.

1. The system
2. How the project is laid out
3. The modules, one by one
4. The runs: bounds and what they show
5. Fairness
6. What is proved, and how
7. What is only model-checked
8. Where the code and its documentation part
9. Not modelled
10. Possible next steps

## 1. The system

The engine turns market data into trade commands.  *Ingestion* makes closed
bars of ticks or takes them from a vendor, keeps a window of them in Redis and
announces each over NATS.  The *strategy runner* feeds them to strategies, one
slot per (strategy, symbol), and carries what they decide through a durable
outbox in Postgres to the broker.  An operator steers both through a Telegram
*bot* and `qte-control`; a *backtest* replays the same strategies over history.

The services talk over NATS (candles, ticks, control: at most once; commands
over JetStream with a deduplication id), share Redis (flags, windows, cycles,
the marks, the owner key) and Postgres (the outbox, the open cycles, audit).

| Part | Code | State it keeps | Operations | Hard behaviour | What makes it correct |
|---|---|---|---|---|---|
| Signal delivery | `qte_strategy_engine/runner.py` `_emit` .. `_persist_position`, `db/repository.py`, `broker_sink.py` | table `signals`, table `open_positions`, cycles in Redis, `_uncertain_pairs`, `_pending_results`, the book | stage, mark, send, checkpoint, track, finalise, recover, retry | a crash between any two awaits, sends without an answer, the scan racing handlers | one unfinished command per pair, no execution twice, nothing called refused that was executed, the book equal to the broker's whenever a pair may decide |
| Orphans, `/flat`, stale flush | `runner.py` `_settle_orphan_positions`, `_flat_on_request`, `_flatten_orphan_cycle`, `_flush_stale_positions` | stored cycles that no slot drives | close, refuse, clear | the same rows driven from a second path | nothing settled twice, nothing dropped while the broker holds it |
| Runner ownership | `runner.py` `_acquire_ownership`, `_check_ownership`, `_close_resources`; `redis_state.py`; `control.py` | Redis key `runner:owner` | claim, reclaim, check, release, clear | two processes, a paused one, check then act | one process acts on a namespace at a time |
| Candle staging | `qte_ingestion/service.py`, `backfill.py`, `qte_shared/cache/redis_state.py` | window, outbox and watermark of a series, closes retained in memory | stage, publish, acknowledge, merge, warm up, flush | two writers of one window, calls that run and fail, restarts | a close is announced, stays until newer bars push it out, and time never goes back |
| Tick path | `qte_ingestion/resampler.py`, `repair.py`, `service.py` | open bar, last closed bar, copy in Redis | resample, repair, stage, resume | late ticks, a restart in a bar, a socket that drops | a handled quote survives, a staged bar is what the market did, buckets go forward |
| History requests | `qte_shared/providers/mt5/history.py`, `service.py` `_history_loop` | what is owed, whether the vendor is offline, a wake event | ask, answer, refuse, announce | a silent vendor, late answers, an announcement missed | whenever it rests, the windows are as new as the vendor's |
| MT5 feed | `qte_shared/providers/mt5/feed.py`, `protocol.py` | a bounded queue of held messages | fetch, hold, acknowledge, hand over | stop and crash with messages in memory | no bar lost between stream and ingestion, in order |
| History cache | `qte_shared/history_cache.py`, `qte_backtest/downloader.py`, `data_store.py` | one parquet file per series | read, merge, write, replay | writers without a lock, torn files | saved days stay saved |
| State guard | `qte_ingestion/state_guard.py`, `qte_shared/state_scope.py` | provenance of ticks, windows, closes | judge, discard, record | a changed provider, a crash in between | a start builds on its own market only |
| Candle feed | `runner.py` `_feed_candle` .. `_history_sync_loop` | slot history, decided mark | restore, replay, feed, mark, decide, sync | lossy bus, crash between mark and decision | each bar decided at most once, in order, none lost |
| Account ceiling, weekend | `runner.py` `_emit`, `_account_is_full`, `_weekend_flat_loop` | `_entries_in_flight`, book size | reserve, refuse, flatten, sweep | pairs that decide at once, no bar in a closed market | the ceiling holds, the book is flat over the weekend |
| Operator switches | `control.py`, `bar_gate.py`, `runner.py` `_on_control_message` | Redis flags `shadow_mode`, `bar_gate`, the runner's copies | store, announce, read, apply | a lost broadcast, answers taken out of order | no send in a pause, no decision behind a gate, across restarts |
| Sizing and cycles | `qte_shared/models.py`, `strategies/signal_factory.py` | size, remaining, applied deliveries | entry, TP1, TP2, SL, R_SL, FLAT | partial closes, rounding, unknown cycles | what is closed never exceeds what was entered |
| Backtest | `qte_backtest/replay.py`, `execution.py` | simulated fills, factory book | replay, fill, close | the order of stops and targets in a bar | two books that agree, losses within the risk |
| Chat messages | `telegram_notify.py`, `telegram_sink.py` | one stored message per position and chat | queue, fold, edit, send, save | a crash between send and save | a second message only for a cause, an action shown once |
| Error forwarding | `qte_shared/notifications/` | dedup window, bounded queue | offer, queue, send, drain, announce | threads, a full queue, the stop | no error kept from a chat but by a failed send or a full queue, none heard twice |
| Strategy plug-ins | `qte_shared/strategies/`, `mount.py`, `preflight.py` | repositories, table, mount record | mount, audit, load | files changed between audit and load | nothing runs that the audit keeps out |
| Simulator | `qte_simulator/` | series, cursors, walks, sockets | bars, tick, walk, stop, reset | commands that interleave | every bar asked for comes back as asked |
| Bot, demo drill | `qte_bot/`, `demo_signal.py` | questions, pages, drills | ask, confirm, page, drill | late, repeated and foreign presses | what was asked is what happens, and what is told is true |

## 2. How the project is laid out

A module per component, parameterised by CONSTANTS with named assumptions and
named bounds; an `MC` module and a `.cfg` per run; proofs in a module of their
own.  `MC` modules only give values, choose scenarios and combine parts of a
property.

| Group | Modules |
|---|---|
| From the bar to the broker | `SignalDelivery`, `RunnerOwnership`, `OrphanSettlement`, `StaleFlush`, `EntryGates`, `OperatorSwitches` |
| From the market to the bar | `TickBars`, `CandleStaging`, `CandleFeed`, `HistoryRequests`, `IngesterFeed`, `HistoryCache`, `StateGuard` |
| Replay | `TradeBook` (abstract), `SignalSizing` (operators), `BacktestReplay` |
| Edges | `CycleMessages`, `ErrorForwarding`, `StrategySettings` (operators), `StrategyMounts`, `SimulatorHub`, `OperatorBot`, `DemoDrill` |
| Model checking | `MCSignalDelivery`, `MCBothBooks`, `MCRunnerOwnership`, `MCCandleStaging`, `MCCandleFeed`, `MCBacktestReplay`, `MCOrphanSettlement`, `MCEntryGates`, `MCOperatorSwitches`, `MCTickBars`, `MCLiveness`, `MCEdges` |
| Proofs | `SignalDeliveryProofs`, `RunnerOwnershipProofs`, `CandleFeedProofs`, `OrphanSettlementProofs`, `BacktestReplayProofs`, `EntryGatesProofs`, `OperatorProofs`, `IngestionProofs` |

How components meet.  A module holds both ends of an interaction when the
hazard lies between them: `CandleFeed` has the Redis of ingestion, the bus and
the runner; `CandleStaging` the handler, the flush loop, the history loop, the
Lua scripts and the vendor; `OperatorSwitches` the operator, the stored flags,
the broadcast and the runner; `SimulatorHub` the hub, the socket and the
resampler behind it; `RunnerOwnership` two processes and an operator;
`IngesterFeed` and `HistoryRequests` the two halves of the MT5 protocol.
Elsewhere a neighbour is reduced to what it may do: in `EntryGates` a delivery
is its staging and its answer (the steps between are `SignalDelivery`'s), in
`TickBars` a staging is one call that may fail (`CandleStaging`'s).

Three conventions hold throughout.

* **A step is the code between two awaits.**  A coroutine is a record with a
  program counter (`task[p].pc`, `job.step`, `work.pc`, `loop.at`); an asyncio
  lock is the fact that one such record is not idle.  Redis scripts and SQL
  transactions are single steps.  What one await can interleave with, the
  model interleaves with.
* **A call that fails** is two cases where the caller cannot tell them apart:
  it did not run, or it ran and the answer was lost.
* **History variables** (`executed`, `decisions`, `saved`, `told`, `doubt`,
  `since`) are written and never read by actions; only properties read them.
  Where the code is known not to keep a property (section 8), such a variable
  records that the case has happened (`overtaken`, `halfSeeded`, `stranded`,
  `parted`, `hasty`, `blind`, `loose`, `flushed`, `resent`), and the property exempts
  what it names and nothing more.

Some runs hold several *scenarios*: a variable (`kind`, `trouble`, `scene`,
`switch`, `strategy`, `system`) is set once by Init and selects, by INSTANCE,
the constants or the module of the whole run.  Each scenario explores what a
run of its own would; nothing is shared between them.

## 3. The modules, one by one

### SignalDelivery

One runner.  `task[p]` is the coroutine that holds the lock of pair `p`, `scan`
that of `_recover_pending_deliveries`.  `status` is the column
`delivery_status`, `book` the factory's positions, `pending`
`_pending_results`, `uncertain` and `unconfirmed` the two sets of blocked
pairs, `redisPositions` and `pgPositions` what a restart would restore.  `net`,
`reply`, `takenAt` and `executed` are the network and the broker, which are not
in the repository: a copy may be delayed, doubled or lost, and JetStream drops
a repeat within its window.

Actions follow a command: `StageCommit`, `StageReturned`, `SendShadow`,
`MarkUnknown`, `Send`, `SendReturns`, `Checkpoint`, `TrackRedis`,
`TrackPostgres`, `Finalise`, each with its failure; `ScanStart` to `ScanEnd`
walk the unfinished rows page by page; `Boot`, `Crash` and the loss of the Redis
cache surround them.  Every interleaving of handlers and scan is explored, and every
read and write may fail.  Three history variables name what follows: `overtaken`, the
rows committed where a running scan no longer looks; `halfSeeded`, the pairs whose
cache a start that died had seeded in part; `stranded`, the pairs a scan had settled
and did not live to release.

### RunnerOwnership

`owner` is the Redis key, `pc` how far a process is, `me` its id,
`task[p]` what its loops and callbacks are at.  "acting" is the stretch
between a successful check and the end of its effect; the property is about that
stretch.  `Claim`, `Reclaim`, `CheckOwnership`, `Effect`, the ordered shutdown
(`Stop`, `DrainBus`, `StopSinks`, `Release`, `Disconnect`) and the operator's
`ShowHolder`, `PingUnanswered`, `Confirm`, `Clear`.  Faults are silence, a Redis
command that times out after it ran, and a step of the shutdown that fails.

### OrphanSettlement and StaleFlush

`OrphanSettlement` has every write of `_flatten_orphan_cycle` in its order
(`work.pc`: mark, send, checkpoint, final, decide, redis, table) and both its
callers; a command of a slot, be it an entry or a close, is one step that ends in any
state a delivery may leave.  So an entry may stay in doubt (`entry`, `Entering`): held
by the broker and named by no row of the table, until `ResolveEntry` records it or
it is known to be refused.  The recovery scan is one step per row here, since its race
with the handlers is `SignalDelivery`'s.  `cut` remembers that the record of a confirmed
close was cut short, by a crash or a failed write: from then on what is restored may
differ from the broker's cycles, and `BooksMatchBroker` says nothing.  `hasty` names
the cycles that `/flat` went for while their own entry was in doubt.  `StaleFlush` is the start: restore, recover, refuse two pairs with one
cycle id (`Check`), close what is old.

### EntryGates

`ClockTicks`, bars and ticks decide; `Emits(p)` takes one entry or close of the
result through `_emit`, with the reservation in `entriesInFlight`;
`Accepted` ends a delivery, as a refusal and a missing answer do; `Recovers`
puts an entry of an earlier send in the book; `Sweep` is `_weekend_flat_loop`.

### OperatorSwitches

`SetShadowMode` and the bot's `ReadGate`, `WriteGate` store a flag and then
announce it; the runner's slot task, its control
handler and its history loop each read it in two steps, the answer of Redis and
its being taken, so answers of different coroutines may be taken in another
order than they were given.  `Start` reads both flags.  Every read may fail; `blind`
says that none of the gate has succeeded since the runner's start.

### CandleStaging

`emitting` is what the holder of the processing lock does; the live path is
`Retain`, `Stage`, `Drain`, `Publish`, `Ack`; `merge` is one call of
`merge_history_candles` with the window it read and the watermark it will
compare.  The Lua script that stages and the one that swaps a window in are one
step each.  Two history variables say what an instance has gone through:
`flushed`, that an operator emptied the window, and `resent`, that the client sent
a pop of the outbox twice; the properties that one of them breaks (section 8) are
stated up to it, in every scenario.

### TickBars

A price is named by the instant it was quoted at, a bar by the instants it
heard, so "the bar is what the market did" is a statement about sets.  `Emission`
repairs and stages the bars that closed, one call of `StageBar` each (`step`
follows the awaits of the lock's holder), `Handles` folds a quote and keeps the open
bar, `FlushLoop` closes what the clock has ended, `Start`/`Backfill`/`Join` are the
start, with the open bar resumed from Redis and a partial one completed by the
vendor.  `retired` is a set: a batch holds one bar of a timeframe at most, which is
proved (`OneOfASeries`).  `silent` and `deaf` are the instants that passed with the
service down and with its socket closed.

### CandleFeed

One slot.  `job` is the caller that holds its lock (replay, handler or sync),
`job.todo` what it has yet to feed, `mark` the decided watermark in Redis.
`Feed`, `RecordDecided`, `Decide` are the three steps of a bar; a message may
be late, lost or repeated; the mark may have been left by a feed that ran ahead
of the clock.

### HistoryRequests, IngesterFeed

`HistoryRequests`: `owed`, `offline` and `wake` are the three fields the loop
sleeps on; the announcement travels on a connection of its own (`watch`).
`IngesterFeed`: `receiver` fetches and holds, `Take` and `HandleRaw` work;
with JetStream a fetch takes the oldest messages that are due, perhaps fewer than it
asked for, and what is not acknowledged comes again; on core NATS it does not.

### HistoryCache, StateGuard

`HistoryCache`: a read, a merge and an in-place write are separate steps of
processes without a lock.  A read may raise over a file that is there (`LoadFails`),
which the code takes for an empty archive.  `StateGuard`: `Judges`, `DropsTick`,
`Discards`, `DiscardsOutbox`, `Records` key by key, with crashes between and the plan
changed between starts; `loose` names the staged closes whose list is gone.

### SignalSizing, TradeBook, BacktestReplay

`SignalSizing` is arithmetic in units of half a step.  `TradeBook` says what a
book of cycles promises; `BacktestReplay` implements it (`ImplementsTradeBook`,
with the positions of the fill simulator as the refinement mapping).  A bar is walked level by
level, then the strategy's intents are filled at the close, then the weekend
closes what is open; after each step the factory's book is told.  A position's
`gross` is the sum over its legs before costs, as `SimulatedPosition.gross_pnl`
adds it up; a leg says at which price it left, whether a level of the bracket or a
close of the strategy took it, and whether the bar had gapped past the level.  Half
the spread and the slippage are paid on the way in (`Enter`) and out (`ExitFill`).
An entry takes a new id or one its strategy names (`IdFor`), which may be that of a
cycle that is over; `former` holds the positions that such an entry has replaced.  A
close may name a size whatever its action; `parted` names the cycles a terminal close
has ended in that way.

### CycleMessages, ErrorForwarding

`CycleMessages`: the queue, the fold of events, `Edit`, `Send`, `Deleted`,
`Save` and a death between any two.  `ErrorForwarding`: threads offer errors
(`LogError`), the loop queues them (`Enqueue`), the worker sends them, the stop
drains for a bounded time.  Errors and announcements go chat by chat (`Send`, `Tell`),
and every send may fail without its caller knowing; the notifier takes the service for
announced before it sends the first.

### StrategySettings, StrategyMounts

`StrategySettings` reads a payload as the code does: refused values, defaults,
precedence.  `StrategyMounts` lets files change between `Mount`, `Preflight`
and `Load`; an audit that leaves nothing to run ends the start.

### SimulatorHub

Every tick of a command is a step, so commands, walks and the clock interleave
between any two of them; behind the socket is the resampler that makes the bars.
A run of bars carries what its watcher has seen.  `None`, the time of a series that
was never sent to, is a parameter: any instant before all others.

### OperatorBot, DemoDrill

`OperatorBot`: a message with buttons stays and may be pressed at any later
time; a page is a count and a select.  `DemoDrill`: drills from the bot and from
the console, the lock between those of one bot, what leaves the connection, and
the report.

## 4. The runs: bounds and what they show

`tlc -config <cfg> <module>`; each ends within a few minutes.  Bounds are
CONSTANTS named `Max...` (or named where an `MC` module sets them) and stop a
counter, never an error path.

| Run | Scenarios | Bounds | What it shows |
|---|---|---|---|
| `sd_delivery` | a live pair over NATS; one entry retried against a clock; a paper book of two pairs | 3 rows, pages of 1, 2 copies, horizon 1, broker window 2, lag 1, clock to 3; a handler may stage at any point of a scan, one more row behind a row a scan passed over, a seeding may be cut off | `OneOutstanding`, `AtMostOnce`, `BooksAreTrue`, `NeverResendAccepted`, `TypeOK` |
| `sd_live` | one pair, one row, under fairness | every crash, cut start, failed read and failed write | `AcceptedIsRecorded`, `PairResumes` |
| `ro_race` | a container and a host | 4 ids, 3 tokens, all faults | `ActorHoldsClaim`, `LiveClaimIsKept` |
| `os_orphans` | settling at starts and `/flat`, together | 2 pairs with 2 and 1 cycles, the entries of the 2 may stay in doubt, 2 closes, 4 deployments; the 2 cycles are symmetric | `SettlesOnce`, `BooksMatchBroker`, `NothingForgotten` |
| `eg_ceiling` | - | 2 pairs, 2 cycles each, ceiling 2, a week of 4 | `OnlyRecoveriesOverfill`, `ReservationsReturn` |
| `og_switches` | the gate over two starts; the pause of two pairs | 2 gate and 3 mode commands, 2 bars; every read may fail, at the start too | `SendsHonourThePause`, `PauseOutlivesRestart` |
| `cs_staging` | failing Redis, restarts, commands sent twice, a moving vendor, an operator | 3 buckets, windows of 2, 2 tries of a merge, 2 publishes | `ClosesAreAnnounced`, `HistoryIsOrdered`, `ClosesAreKept` |
| `tb_ticks` | late quotes, crashes, faults | buckets of 2 and 4, 5 instants, 3 quotes | `QuotesSurvive`, `StagesForward`, `StagedBarsAreTrue` |
| `cf_feed` | dying, failing, spoiling | 4 bars, window 3, warm-up 1, age limit 1, a mark of the future | `DecisionsAdvance`, `FramesAreWhole`, `MissedClosesAreFed` |
| `br_replay` | bracketing, closing, weekending | every 3-bar history of 4 prices, a spread of 2, 2 entries, the second also under the id of the first; in `closing` and `weekending` any close may name a size | `ExposureIsBounded`, `BooksAgree`, `ImplementsTradeBook` |
| `live` | feed, weekend, switches, ticks, each under its fairness | see `MCLiveness` | `StoredBarsArrive`, `WeekendEndsFlat`, `ModeReachesTheRunner`, `EndedBarsAreStaged` |
| `edges` | eleven modules, the MT5 feed with and without JetStream | see `MCEdges` | below |

`edges` checks `ChatsHearOnce` (a second message of a cycle, or an error heard
twice or not at all, only for a cause; each chat is told a service's end after its
start), `EveryBarIsSomewhere` (between the
stream and ingestion), `RestsCaughtUp` (the history loop), `ArchiveOnlyGrows`
(the parquet file), `OperatorIsAnswered` (`/flat`, `/closed`, the drill),
`RunsWhatIsFit` (mount, audit and load), `BarsComeBack` (simulator) and
`StartsAreSafe` (provenance of the state, the stale flush).

Why the bounds are enough for the cases that matter:

* *Delivery.*  Three rows are an entry, its partial and its final close; the
  second makes the book differ from a fresh one, the third meets the scan's
  second page (pages hold one row).  Horizon 1 and window 2 with lag 1 are the
  tight case of `HorizonAssumption`; a looser window is easier.  Two copies are
  what one retry produces.  Behind a row that a scan passed over one more is staged,
  which shows the second command; of what comes after it the properties of the book say
  nothing.  The proofs cover all other values.
* *Ownership.*  Two places compete, and four ids let each of them restart
  once while the operator remembers an older holder.  A third place
  adds no new pair of competitors; the proof is for any set of them.
* *Staging.*  A window of 2 with 3 buckets is the smallest in which the
  oldest bar is pushed out; a merge has a first try and a retry.
* *Ticks.*  Length 2 lets a quote be first or last in its bucket, length 4
  makes two timeframes close together and apart.
* *Feed.*  Four bars against a window of 3 let a bar fall off; the age limit
  of 1 separates bars too old to decide from the others.
* *Ceiling.*  Two positions and four cycles let two pairs reserve the last
  place at once and a recovery arrive above it; a week of 4 wraps.
* *Replay.*  Four prices put a stop, an entry and two targets apart or on
  one price; three bars are entry, partial and end.
* *Edges.*  The smallest instances with two of whatever competes: chats,
  writers, series, repositories, operators, drills; one fault each, which a
  property must survive, and a queue of one so that it is full.

A fault of the program or its services is never left out to keep a property; the
scenarios of a run divide them up, one kind of trouble at a time, to keep it small.
Where the code is known not to keep a property, the run lets the case happen, and the
property exempts what a history variable names as its consequence; section 8 lists
each.  One assumption is about a person: the operator of `ro_race` clears the claim
only of a process he knows to be dead (`OperatorConfirms`).

Deadlock is checked wherever the system goes on by itself.  Where
`CHECK_DEADLOCK FALSE` is set the model ends because the bounded
environment does (no more quotes, commands, bars or presses), as the program
does when nothing is asked of it.

Every property of every run has at least one mutant in `PROJECT.json`: a
plausible mistake in a mapped definition (a dropped guard, an order swapped, a
reset forgotten) under which the same run finds the property violated.

## 5. Fairness

Fairness is asked of loops that the code runs for ever, of timers, and of a
coroutine that nothing stops; never of the broker, a strategy, an operator, the
market, a message or a lost answer.

* `sd_live` (`SignalDelivery!Fairness`): the retry loop
  (`_recover_pending_deliveries`, called from a `while True` with a sleep)
  starts a scan again and again, and the supervisor starts a dead runner
  (WF on `Boot`).  The steps of a task and of the scan are strongly fair,
  because a crash or a fault may pre-empt each any number of times, but not
  every time: a database that never answers again refutes any such property.
  The scan's own queries may fail at any time; a pair that such a failure leaves
  blocked with nothing left to scan is named by `stranded` and exempt from
  `PairResumes` until the next start.
* `live`, feed: `_history_sync_loop` comes back after every sleep (WF
  `SyncPass`), a pass that Redis breaks off between bars is retried (SF `Feed`,
  `Done`), and the marking and deciding of a bar in hand are not abandoned.
  Messages get no fairness: all of them may be lost.
* `live`, weekend: the clock advances, `_weekend_flat_loop` sweeps, a
  close that is retried for ever is taken in the end (SF `Accepted`).
  That last one is a statement about the broker and the only one: a broker that
  refuses every close leaves the position open whatever the engine does.
* `live`, switches: the history loop reads the mode on every pass; a handler
  that waits for an answer gets one.  The announcement may be lost.
* `live`, ticks: the flush loop runs by the clock (WF `FlushLoop`), the start goes
  on, and a handler or an emission under way goes on.  No quote is promised.

## 6. What is proved, and how

TLAPS proves the following for every value of the constants that satisfies the
named assumptions.

| Module | Theorem | Says |
|---|---|---|
| `SignalDeliveryProofs` | `TypeCorrect` | `[]TypeOK` |
| | `PreparedIsUnsent` | a row still "prepared" was never handed to the network |
| | `OutcomeStable` | a recorded outcome is not overwritten by another |
| | `ResendSafe` | `NeverResendAccepted` |
| | `DeliveredAtMostOnce` | `[]AtMostOnce` |
| | `FailedIsUnexecuted` | over NATS a command called "failed" was not executed and is not under way |
| | `OneCommandPerPair` | `[]OneOutstanding`: a pair has a second unfinished command only beside a row that a running scan could not see |
| | `TheBooksAreTrue` | `[]BooksAreTrue` over NATS |
| `RunnerOwnershipProofs` | `OwnershipTypeCorrect`, `ActingIsOwned`, `LiveClaimKept` | type, `[]ActorHoldsClaim`, `LiveClaimIsKept`, all if `OperatorConfirms` |
| `CandleFeedProofs` | `FeedTypeCorrect`, `DecisionsGoForward`, `DecisionsMarked` | type, `[]DecisionsAdvance`, a decision is marked before it is made |
| | `FramesWhole`, `MissedFed` | `[]FramesAreWhole`, `MissedClosesAreFed` |
| `OrphanSettlementProofs` | `OrphanTypeCorrect`, `BookForgetsNothing` | type, `[]NothingForgotten` |
| | `OrphansSettleOnce`, `OrphanBooksMatch` | `[]SettlesOnce`, `[]BooksMatchBroker` |
| `BacktestReplayProofs` | `ReplayTypeCorrect`, `ReplayImplementsTradeBook` | type, the refinement `ImplementsTradeBook` |
| | `ReplayBooksAgree` | `[]BooksAgree` |
| | `ReplayExposure` | `[]ExposureIsBounded`, if a pair with dynamic risk has a ceiling |
| `EntryGatesProofs` | `EntryGatesTypeCorrect`, `CeilingBoundsTheBook`, `NoReservationLeaks` | type, `[]OnlyRecoveriesOverfill`, `[]ReservationsReturn` |
| `OperatorProofs` | `OperatorSwitchesTypeCorrect`, `PauseStopsTheSend`, `GateStopsTheDecision` | type, `SendsHonourThePause`, no decision behind a gate |
| | `RestartKeepsThePause` | `PauseOutlivesRestart` |
| `IngestionProofs` | `StagingTypeCorrect`, `HistoryOrdered`, `ClosesAnnounced`, `ClosesKept` | type, `[]HistoryIsOrdered`, `[]ClosesAreAnnounced`, `ClosesAreKept` |
| | `TicksTypeCorrect`, `QuotesOutliveRestarts`, `BarsMoveForward`, `BarsAreHonest` | type, `[]QuotesSurvive`, `StagesForward`, `StagedBarsAreTrue` |
| | `ArchiveGrows` | `[]ArchiveOnlyGrows` of the parquet file |
| `CandleFeedProofs` | `HistoryRestsCaughtUp` | `[]RestsCaughtUp` of the history requests |
| | `StreamKeepsEveryBar`, `StreamHandsOverInOrder` | `[]EveryBarIsSomewhere` and `[]InOrderUnlessBroken` of the MT5 feed |
| | `RunsComeBack` | `BarsComeBack` of the simulator, under `SimAssumption` |
| `OperatorProofs` | `SecondMessagesAreExcused`, `MessagesShowActionsOnce` | the two parts of `ChatsHearOnce` about a cycle's messages, under `MessagesAssumption` |
| | `OperatorsHearOfErrorsOnce`, `DownIsToldAfterUp` | its parts about errors and announcements, under `ForwardingAssumption` |
| | `FlatsCloseWhatWasAsked`, `PagesShowAll` | the parts of `OperatorIsAnswered` about `/flat` and `/closed`, under `BotAssumption` |
| `RunnerOwnershipProofs` | `StartsBuildOnTheirOwn`, `FlushClosesWhatItMay` | the two parts of `StartsAreSafe`, under `GuardAssumption` and `FlushAssumption` |
| | `StartsRunWhatIsFit` | `RunsWhatIsFit` of mount, audit and load, under `MountsAssumption` |

The modules of the run `edges` are instances in the proofs as they are in
`MCEdges`, so a theorem about one names the part of the property that is this
module's (`Stream!EveryBarIsSomewhere`), which `MCEdges` combines over its systems.

The hypotheses about constants are what the code or its configuration enforces:

| Hypothesis | Says |
|---|---|
| `MessagesAssumption` | at least one chat; a natural number of blocks |
| `ForwardingAssumption` | a window of some length, at least one chat, two switches |
| `GuardAssumption` | bars left by an earlier deployment close at some instant |
| `FlushAssumption` | a mode the settings accept; a stored history per pair; a clock |
| `MountsAssumption` | the names of repositories are numbered in sorted order |
| `BotAssumption` | the data of a button is made of parts; pages hold one cycle or more |
| `SimAssumption` | rows are bars (`_bars` and `BarSpec` refuse others: the low is lowest, the high highest, a run is not empty); lengths and batches are positive; "nothing was sent yet" is before every time a run may reach |

The conditions named in the first table are limits of the configuration
(`OperatorConfirms`, the transport, a ceiling on the risk); the runs have the same.

*Delivery.*  `TypeOK` alone is not inductive: that a row's outcome is stable
depends on where its task is.  The invariant `IInv` adds that ids are
handed out in order (`Allocated`), that a task's program counter agrees with its
row's status (`Phases`), that a result in memory is compatible with the row
(`ResultsMatch`), that the scan works on rows that exist and only on the row it
holds the lock for (`ScanSeesRows`), and `PreparedNeverSent`.

*At most once.*  The argument is a clock argument.  `Horizon` says of each row
that its creation, its last check and the present are in order and that a copy
under way is at most `MaxLag` older than that check; that a second copy exists
only if its check was within `RetryMaxAge` of the creation; and that a task about
to send either sends the first copy or was checked within the horizon.
With `HorizonAssumption` (`RetryMaxAge + MaxLag <= DedupWindow`, which
`docs/architecture.md` asks of the operator in words) a second copy reaches the
broker while its window still holds the first.

*One command.*  A row is open while it is unfinished or the runner still holds
its result.  A handler stages only for a pair without an open row
(`StagesAlone`), because the pair of every open row is blocked (`OpenIsBlocked`).
What makes the latter survive the end of a scan is `ScanMissesNone`: each open row
lies beyond the cursor, is on the page or in hand, has its pair filed as
blocked, or is `overtaken`.  A row left off the page lies beyond its last one
(`PageIsPrefix`, by counting), so pages of any size lose none.  The theorem has no
hypothesis: it says that the race of section 8 is the only way to a second command.

*True books.*  The position of a cycle is a fold over the rows that were
accepted for it (`Pos`): opened by its entry, reduced by each partial, gone with
the close.  The fold is written with cardinalities, so no induction over data is
needed.  The invariant says of each of the three stores, the factory's book,
Redis and Postgres, that it holds that position, or lacks the one row whose
acceptance is recorded and whose local writes are still owed (`Replayable`).
There is one such row per pair at most, by `OneCommandPerPair`; replaying it on
either of the two gives the fold, since `apply_close` ignores a command it has
already applied.  That a cycle is closed only after its entry is final
(`Cycles`) makes the order of the rows irrelevant.  All of it is said of the pairs
that are `Sound`: none of their rows was overtaken by a scan, and no start died while
it seeded their cache.  Over HTTP an error may hide an acceptance, hence the transport.

*Ownership.*  Ids tell live processes apart (`Named`), a token belongs to one
container (`Tokened`), nothing works before the claim (`Quiet`), and what the
operator is about to clear is dead (`SureIsDead`); the last is what
`OperatorConfirms` gives, and what `--yes` takes away.

*Feed.*  What is decided is marked and what is marked is in Redis
(`MarkCovers`); a window that is not empty reaches up to the mark
(`WindowReachesMark`); what is still to be fed is newer than both
(`TodoIsNew`); the bar in hand sits between them (`InHand`).  For the frames,
`Whole` says of a feed under way that what is still to come is newer than the
window, and that a bar that was read and is neither there nor to come is older
than a full window.  That the newest `Window` of enough bars are indeed
`Window` many is a fact about numbers which needs an induction; it is carried as a
conjunct about the bars up to `now` (`WindowsFill`) and proved one step of the
clock at a time.  These two theorems need none of the switches: they hold also
where the mark is lost, the window is flushed and Redis fails.

*Orphans.*  Only staged closes travel, a row names a cycle, and the coroutine's
program counter says which writes are done (`WorkIsSound`): the table's row goes
last, and only for a close known to have been taken.  `DoubtInv` adds that a
pair with a close or an entry in doubt is blocked once the outbox has been scanned
(`DoubtIsBlocked`, `EntriesAreBlocked`), and that the coroutine turns only to cycles no
slot drives, so that a settlement never stages a second close beside one in doubt, nor
a close of a cycle whose entry is; only `/flat` does the latter (`OnlyHasty`).
`BookInv` says that a row that was not sent, or was refused, does not travel
(`UnsentStay`); that of the cycles whose entry is recorded Redis holds all of a pair's
or none, and the book of a driven pair all of them (`CacheIsWhole`); and that a cycle
whose close is final has left the stores and the books, or is about to, unless a record
was cut or the cycle is hasty (`ClosedAreGone`).  `BookForgetsNothing` is then that the
broker's cycles are in the table or have an unfinished entry in the outbox
(`AtBroker \subseteq stored \cup Entering`), whatever was cut.

*Replay.*  The two books are the same cycles with the same size left
(`SameBooks`), one lemma per step.  For the exposure, each position has a
distance `d`, that of its first stop, with which it is `Sound`: the levels of its
bracket lie on their sides (`Levelled`), what has left it has cost at most `d` and a
round trip's spread and slippage a unit (`Covered`), and once TP1 has filled its stop
is at the price that was paid (`Guarded`), which costs the way in and out and no
more.  The stop is met before a target in every bar, so an open position
closes a bar within `d` of its entry (`Within`), and a close of the strategy or of
the weekend costs no more than a stop would.  Positions that an entry has replaced are
under the same bound (`FormerStand`).  The budget bounds `d` times the
size when the position is entered (`SizeIsBounded`), by the rounding down of
`PositionSizer.size`.  For the refinement every step either takes size from
standing positions or adds one behind the last (`Shrinks`, `Grows`); it holds for
any strategy, also one that closes what is over or enters under the id of a cycle that
is over.  The books are the same but for the cycles in `parted`, which a sized terminal
close has ended in the factory while the simulator keeps a part (section 8).  The one
hypothesis: a dynamic pair without a ceiling takes any risk its strategy asks for, so
that nothing bounds its loss.

*Ceiling.*  `entriesInFlight` is the number of tasks that carry an entry, and the
book without late entries together with the entries not yet in it stays within
the ceiling (`WithinBudget`); the proof counts finite sets.

*Switches.*  An answer that a slot waits for, given since its work began in a
pause, is never one that lets it through (`PauseStands`, `GateStands`); for the
restart, every answer the runner may still take blocks what was gated at the start,
and so does the gate it has from the first read that succeeded, at the start or later
(`StartStands`, `blind`).

*Archive.*  While no two writers overlapped and no read of the file failed, one process at a time is between its
read and the end of its write, it has read all that was saved, and it does not
replace the file (`OneWriter`); else the file itself holds all of it.

*Staging* (`StagingInv`).  That the window is a series is not inductive: a swap
brings back a window that was read earlier.  So what a merge has read is a series up
to the watermark it read with it (`SeenIsSeries`).  Until a flush the watermark
leads all that was announced and every remembered watermark (`MarkLeads`), so a swap
that finds its watermark unmoved cannot take it back.  That it costs no close is a
statement about all windows that may still be in Redis: the one there and those read
at its watermark agree on the live closes, but for those that a full window has
grown past (`SnapshotsAgree`).  `AckIsOfTheHead` says that what is popped was
published last, and `AllAnnounced`, up to a repeated pop, that the live closes of
every such window were published or are queued.  The lemmas are about trimming,
appending to and merging series, for windows of any length.

*Ticks* (`TicksInv`).  One holder of the lock at a time, at the steps its code has
(`InOneHand`); nothing is of the future and a bar holds quotes of its bucket
(`OfThePast`); a batch holds one bar of a timeframe (`OneOfASeries`).  A bar under
way is ahead of all that was staged, and what was staged is either behind
`_last_closed` or before every quote still to come (`BucketsAreSpent`): this is what
`StagesForward` needs across a restart, where `_last_closed` starts anew.
`BarsAreTrue` carries through the steps of a bar which quotes it may have missed.
`StagedBarsAreTrue` and `StagesForward` hold whatever fails.  `QuotesSurvive` is up
to the first failed call or flush: then the copy in Redis is the bar the service has
or one it is about to stage (`NothingIsLost`, `InHandIsFolded`).

*History requests* (`RequestsInv`).  Once the last announcement of the vendor is
handled, a series that is behind is on the list or the start has yet to list it
(`BehindIsListed`); silence that is believed of a vendor that is up came from an
old request (`OfflineIsLate`), which `AnswersAreSound` says of every answer under
way; and the loop sleeps without a timer only over an empty list or a silent vendor
(`SleepsWithReason`).

*Stream* (`StreamInv`).  What the receiver holds is still the stream's
(`BatchIsOwed`), so a message is on one side at least; without a break the places a
message passes through are in order, the oldest ahead (`InSingleFile`).

*Simulator* (`SimInv`).  The hub has been told of every bar that ingestion holds or
has closed on a series it kept track of (`HubRemembers`), so a run placed at "next"
starts ahead of it.  A run of which `i` bars and `j` ticks have been sent, with
nobody else on the symbol, has its bars seen or the last of them still open, and the
next one open just as far as it got (`RunsAreWhole`); `PartsGrow` says what a bar
looks like after each of its four ticks, whichever way its path runs.

*Messages* (`MessagesInv`).  A chat has one message and one more per excuse; a chat
whose known message is missing or gone has an excuse to spare (`ChatsAreExcused`).
The events of a record, of a worker and of the queue are in the order of their rows
(`EventsInOrder`), so is every text (`BodiesInOrder`).

*Errors* (`ForwardingInv`).  While the sink is attached the dedup table and the
forwarded errors say the same (`RecentIsForwarded`, `ForwardedIsRecent`); each error
logged is covered by one of them (`LoggedIsHeard`), which each chat was sent or has yet
to be sent, or the queue refused (`EachChatIsReached`); two of a kind are a window
apart (`WindowApart`).  Of the announcements, `UpIsTold` says at each stage of a life
which chats have been told what: the chats before the one in hand have the new one, the
others what came before it (`NewsFit`, `StagesAreTold`).

*Bot* (`BotInv`).  A button carries the scope of its question and a flat under way
that of the button (`FlatsAreAsked`): the encoding is decoded again to the same scope
(`ButtonsCarryTheScope`).  What a page chain has not shown lies beyond its offset
(`PagesAreSound`, and `ReadingsAreSound` for a page being read), since a cycle that
ends in between can only push the others further down the list.

*Starts.*  `GuardInv` follows the guard key by key: ticks already read are the
plan's, discarded lists are gone, and when the writer is recorded the windows, open
bars and ticks were built by it (`BuiltOnIsOwn`).  A staged close is in a list or lost
its list to a start that died, or to a `/flush` (`StagedIsListed`); one of the latter
may be of another market of the same scope and is published, which the theorem says
and section 8 lists.  `FlushInv`: a row of the flush leaves its pair
uncertain until it is resolved (`RowsAreUncertain`), so a second close of the pair is
never staged.  `MountsInv`: between a refusing audit and the load, every mounted
repository that is neither skipped nor touched still passes.

## 7. What is only model-checked

* Liveness under fairness, all of `sd_live` and `live`: the prover has no
  rules for fairness and ENABLED.
* Of `edges` the two properties of `DemoDrill` (part of `OperatorIsAnswered`): what a
  report may claim is a comparison of counts over sequences (`SelectSeq`), a
  recursive definition for which the provers have no induction.

## 8. Where the code and its documentation part

Met while the models were written; each happens in the runs, and where a property
would fail for it, the property exempts it by name (section 2).  None is asserted by a
run of its own.

Delivery
* A handler that stages while the scan reads its last, empty page is unblocked
  although its row is unfinished (`runner.py:2073`, against the comment at
  `:1926`); `overtaken`.  The pair may then decide a second command.
* An HTTP error that is not a timeout is recorded "failed"
  (`broker_sink.py:163`, against `:151`); `FailedIsUnexecuted` is about NATS.
* A seeding of Redis that is cut off is trusted by the next start
  (`runner.py:843`); `halfSeeded`.
* A scan that raises in mid-pass leaves a blocked pair blocked
  (`runner.py:2056`, against the docstring at `:2137`); `stranded`.

Ownership
* `owner clear --yes` removes the live claim of a runner that is booting and
  answers no ping (`control.py:331`, against `:313` and `docs/architecture.md:173`).
* A second pass of `_close_resources` forgets `cleanup_failed` and releases the
  claim (`runner.py:2185`, against `:2213`), and announces "did not finish
  starting" again (`service_status.py:104`).

Orphans, ceiling, window
* `/flat` sends a second close over one in doubt (`runner.py:1614`, against
  `docs/architecture.md:294`), and a close of a cycle whose own entry is in doubt;
  when that entry is resolved, the cycle is back in the book (`hasty`).
* A row is final before the local writes (`runner.py:1753`, against `:1742`).
* An unanswered entry is recovered over the ceiling (`runner.py:1858`, against
  `README.md:646`).
* A bar that closes at the cut-off opens inside the window (`runner.py:1251`,
  against `README.md:331`).

Switches
* A failed read of the gate erases earlier pauses (`engine_client.py:282`,
  against `bar_gate.py:18`).
* An unread gate at the start decides in a pause until a read succeeds
  (`runner.py:1300`, against `bar_gate.py:24`); `blind`.

Candles
* The history loop's merge passes a close that is pending (`service.py:801`,
  against `:777`); a vendor bar overwrites a close staged between the reads
  (`redis_state.py:334`, against `backfill.py:516`); two merges undo each other
  (`redis_state.py:347`, against `:65`).
* An LPOP sent again takes a second close (`redis_state.py:250` and `:117`,
  against `service.py:1074`).
* `/flush` does not wake the history loop (`service.py:530`, against
  `test_ingestion_control.py:189`), nor drop the half-built bar
  (`service.py:531`, against `:519`).
* After a flush and a restart a late message is decided again
  (`runner.py:1185`, against `:1207`).
* A failed staging followed by a crash loses a retired bar (`service.py:988`,
  against `:110`); a bar with a gap of the socket goes out as whole
  (`service.py:250`, against `resampler.py:16`); a quiet bar that was resumed keeps an old
  close (`service.py:1005`, against `repair.py:16`); a bucket that ends during the start
  is closed as the current one (`service.py:225`, against `repair.py:17`).
* A late "nobody answers" marks the vendor offline again, and the loop then
  sleeps without a timer (`service.py:743`, against `:240`); an answer from before
  an outage takes a series off the list again (`service.py:765`); a gap whose
  fill failed is closed over by the live bar (`service.py:813`, against
  `backfill.py:296`).
* `covers` looks at the ends of a file only, so one with a hole is served as
  whole; two writers without a lock lose each other's bars
  (`history_cache.py:113`); a read that raises counts as an empty archive, so that the
  next write shortens the file (`history_cache.py:78`).
* The outbox is judged by the scope's providers, not by the symbol's
  (`state_guard.py:89`, against `:18`): a staged close of another market of the scope is
  published when the start that discarded its list died before the outbox; `loose`.

Backtest
* A terminal close that names a size leaves a remainder in no book
  (`replay.py:445`, against `models.py:385`), which the weekend does not close and an
  entry under the same id takes out of sight (`signal_factory.py:356`); `parted`.  A
  close that names a finished cycle is built (`signal_factory.py:424`, against
  `replay.py:131`); the half of TP1 is not rounded (`signal_factory.py:493`, against
  `models.py:304`).

Edges
* The mount record flattens verdicts by alias, and the last repository wins
  (`mount_manifest.py:127`, against `plugin_loader.py:813`).
* An error logged in the tick of the stop is lost; suppression is marked before
  the queue accepts (`telegram_errors.py:221`), and a send that failed is not
  repeated, so an error may go unheard for a window.
* A service counts as announced before the first chat is told
  (`service_status.py:84`): a chat whose UP failed hears a DOWN.
* Walks popped by a late done callback run unlisted (`hub.py:159`); a tick sent
  behind the series moves `last_tick_ts` back (`control.py:240`, against
  `hub.py:97`).
* `closed_cycles` counts and selects in two statements (`repository.py:263`);
  `/flat` says "Nothing is open" when Postgres fails (`handlers.py:309`);
  "Cancelled" may be shown for a flat that is carried out
  (`handlers.py:328`).
* `demo_signal.py:488` says a failure is raised to the caller if nothing got
  out, but a publish that only queues never raises; a strategy that returns
  something else than an intent ends its whole payload.

## 9. Not modelled

| Part | Why |
|---|---|
| Tiingo feed and REST | a socket loop around the handler of `TickBars`, whose `SocketDrops` is its gap; paged requests with the short answers of `HistoryCache` |
| Indicators, timeframes | sequential floating-point numerics; the bucket arithmetic that matters is in `TickBars` |
| Backtest metrics, costs, reports, charts | arithmetic and rendering over finished trades |
| Bus | a wrapper of a client; its loss, repetition and delay are actions of the modules that use it |
| Configuration, logging, database session | start-up values and formatting, nothing over time |
| Connectivity check | a command that opens each connection once |

Of the parts listed as *partly* modelled, what is left out: the cut of a vendor
answer into candles; high, low and volume of a bar; the names, notes and scale
pyramids of a payload; equity, fees and excursions of a backtest; paper books
of orphans; the dated windows and time zone of the weekend policy; ping and
status answers; the read-only tables and every wording of the bot; the
scenario files and console of the simulator; flags and wire formats of a cycle;
the import of Python files and the bars an audit probes a strategy with.  None
of it decides an order of events, except that a wrong time zone would move the
weekend window, which is a matter of one conversion.

Strategies, brokers, NATS, Redis, Postgres and Telegram are environments: they
do anything their interface allows.

## 10. Possible next steps

1. `SignalDelivery` and `OrphanSettlement` over one outbox.
2. `DemoDrill` with its counts as cardinalities, so that its report can be proved.
3. The cut of a vendor answer into candles, between `HistoryRequests` and
   `CandleStaging`.
