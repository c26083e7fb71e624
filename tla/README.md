# TLA+ models of fast-trader-gru

Formal models, model-checking runs and machine-checked proofs for the trading
system in this repository: five services around a Redis bus that turn market
data into signals, signals into orders on Bybit, and closed trades into
training data.

    modules (*.tla)     what is modelled, and the proofs
    *.cfg               one TLC configuration per run
    PROJECT.json        components, runs, mutants, map to the source, findings,
                        hazards and theorems, in machine-readable form

`tlc -config MCEntryLifecycle_faults.cfg MCEntryLifecycle` checks one run,
`tlapm EntryLifecycleProofs.tla` checks the proofs (about three minutes).

## 1. Inventory

| component (source) | state it keeps | operations | talks to | hard parts |
|---|---|---|---|---|
| **OMS executor, entries** (`oms_execution/internal/executor`: `service.go`, `entry_*.go`, `grid_deploy.go`, `orphan.go`, `cleanup.go`, `emergency_size.go`, `position_flat.go`) | `pending`, `positions`, `_promoting`, `ghostCooldown`, all under `Service.mu` | place (market or limit chase), cancel, reprice, promote a fill, adopt an orphan, trim, close | exchange over HTTP; signals from Redis; events to Redis | three goroutines on the same maps, the mutex released around every HTTP call, lost replies, lagging position reads |
| **OMS executor, time stop** (`service.go` 1767-1958, 2445-2465, `exit_chaser.go`) | `ActivePosition.State` (atomic), `TimeStopPlaced` | passive exit, timer, chase, kill switch, zombie retry, finalize | as above | timer goroutines race the monitor; unconditional stores; early return in aggressive state |
| **OMS executor, exit orders** (`exits.go`, `sl_invariant.go`, `density_exit_manager.go`, `positions.go`) | stop loss and take-profit orders of a position | replace, trail, breakeven, fill detection | exchange | partial failure between place and cancel, coverage after rounding |
| **Queue monitor** (`queue_monitor.go`) | tracked orders, channel of cancels | monitor, detect, cancel, expire | exchange | bounded channel filled under the mutex its reader needs |
| **Shadow engine** (`shadow.go`) | shadow positions, last open time | open, close on price | Redis results channel | results after unlock |
| **Persistence, restart** (`service.go` 1495-1538, `startup_reconcile.go`) | positions hash in Redis | persist at open, remove at close, load, reconcile | Redis, exchange | crash between exchange call and write |
| **Symbol statistics** (`service.go` 58-133) | counts, ban time | record, ban | entry filters | a ban that renews itself |
| **Bybit client** (`internal/bybit`) | none | signed calls, retries, rounding | exchange | reply lost after effect, rate limits |
| **Data ingestion** (`data_ingestion`) | one goroutine per symbol, cached order books | update the symbol set, connect, resubscribe | exchange WebSocket, Redis | cancel and restart of the same symbol, stale list |
| **Screener** (`screener`) | active symbol list | screen, publish, cache | Redis | publish before cache |
| **History logger** (`history_logger`) | line queue, price trackers | enqueue, batch, flush, track a closed trade | Redis, InfluxDB | full queue, shutdown, duplicate trade id |
| **ML engine, signals** (`engine.py`, `exit_plan.py`, `liquidity_tp.py`) | `_open_positions`, `_pending_entries`, `_symbol_cooldowns`, streaks in their dictionaries | score an event, enter, abort, exit, plan the exits | Redis | a thread decides on a dictionary that listeners replace |
| **ML engine, learning** (`engine.py`, `retrain_worker.py`) | results that wait for their excursion (memory and Redis), loss streaks, the running training | take a result, take an excursion, learn, trigger a training | Redis, a subprocess | a listener awaits a training; keys with two spellings; restarts |
| **ML engine, models** (`train.py`, `onnx_deploy.py`, `model_manifest.py`, `inference.py`) | model directories, manifest, report, served bundle | train, judge, promote, reload | files shared by two processes | promotion in six file operations, loads between them |
| **ML engine, memory** (`memory.py`, `scripts/*_faiss.py`, `flush_dirty_data.py`) | vectors and metadata in memory and in two files | add, persist, load; clean, balance, backfill, flush | files, InfluxDB, Redis | crash between two files; scripts beside the engine |

How they interact: ingestion writes order books to Redis, the screener
publishes the symbol set, the ML engine publishes signals and aborts, the OMS
publishes pending-order, position and result events, the logger and the ML
engine consume results. All bus messages are Redis pub/sub: at most once, no
replay. The listeners of the ML engine are tasks of one event loop, a step
ends at an await, and decisions run in threads; trainings and maintenance
scripts are processes that share files with it. Inside the OMS the goroutines share `Service` and its mutex; the
exchange is the only other party whose state matters for safety.

What correctness means, per component: an entry's life ends exactly in one
tracked position or in none, with no order left behind; nothing that is marked
stays marked; every exposure on the exchange is managed by somebody (entries).
A position past its hard stop is closed, and an open one is never left to nobody (time stop).
The stop covers the whole remainder and never widens (exit orders). Monitoring
never blocks the price loop (queue monitor). A restart finds every exposure
(persistence). A signal is sent once, after all its gates;
a trade is learned once and with its own excursion; the bundle that is served
comes from one training and no older model replaces it; memory and index agree
(ML engine).

## 2. Plan

| order | module | models | abstract spec / composition | proofs |
|---|---|---|---|---|
| 1, done | `EntryLifecycle`, `PendingSlot`, `MCEntryLifecycle`, `EntryLifecycleProofs` | entries of one symbol | implements `PendingSlot` | TypeOK, NoStuckCancel, AddFindsNoPending, PromotedIsUnregistered, refinement |
| 2, done | `QueueMonitor`, `MCQueueMonitor`, `QueueMonitorProofs` | wall watching, cancel loop, stale loop | | TypeOK, RequestedOnce, JamIsForever, DetectedNeverForgotten |
| 3, done | `TimeStop`, `MCTimeStop`, `TimeStopProofs` | the end of one position: time-stop states, failsafe, velocity kill switch | | TypeOK, FinalizedIsFlat, AbandonedByFaultOnly, StuckUntilRescued |
| 4, done | `ModelDeploy`, `DeploySlot`, `MCModelDeploy`, `ModelDeployProofs` | training, promotion, hot swap | implements `DeploySlot` | TypeOK, ManifestComplete, ServedFromOneTraining, DowngradeNeedsLostReport, refinement |
| 5, done | `TradeLearning`, `MCTradeLearning`, `TradeLearningProofs` | results, excursions, retraining worker | composes the price tracker of history_logger with the engine's listeners | TypeOK, LearnedOnce, KeptIsLearned |
| 6, done | `ExperienceMemory`, `MCExperienceMemory`, `ExperienceMemoryProofs` | the memory, its two files, the maintenance scripts | | TypeOK, MismatchIsVisible, PersistedSurvives, OutcomesStayFlushed, RebalanceCorrect for any memory |
| 7, done | `SignalEngine`, `ExitPlan`, `MCSignalEngine`, `SignalEngineProofs`, `ExitPlanProofs` | market events to signals; exit plans from books | `SignalEngine` uses the operators of `ExitPlan` | TypeOK, SignalSound, SignaledOnce, FlaggedIsSent, LossMutes, PlanCorrect |
| 8 | `StopLoss` | atomic stop replacement, cover quantity, breakeven and trailing order | abstract "some stop covers the remainder" | never widens |
| 9 | `RestartRecovery` | persist, crash, load, startup reconcile | composes with the vocabulary of `EntryLifecycle` | every exposure adopted or loaded |
| 10 | `BatchWriter` | the line queue of history_logger | bounded FIFO with loss counter | no reordering, no duplicate |
| 11 | `WsManager`, `SymbolFeed` | ingestion and screener | "one goroutine per active symbol" | |
| 12 | `SymbolStats`, `MarginBudget`, `ShadowEngine`, `PositionManager` | small sequential rules | | bounds and monotony |

No module holds a RECURSIVE operator, so that each can get a proof module.
The order was changed on the way: the ML engine came before the exit orders
because most of the control state of the system, and all of its processes that
share files, are there.

## 3. EntryLifecycle: the life of an entry

### State and code

All maps of `Service` are keyed by symbol and a handler touches one symbol
only, so the module follows one symbol.

| variable | code |
|---|---|
| `pending` | `Service.pending[symbol]`, a pointer; entries are numbered in the order of creation so that pointer comparison is equality |
| `entries[e]` | `PendingEntry.State` and `.OrderID` of the object, registered or not |
| `tracked`, `trimmed` | key in `Service.positions`, `EmergencySizeHandled` |
| `promoting` | `Service._promoting[symbol]`: absent, true or false (the key's presence and its value differ in the code) |
| `cooldown` | `ghostCooldown[symbol]` lies in the future |
| `orders`, `exSize` | the exchange: status and executed quantity of each entry order, size of the position |
| `pc`, `ent`, `ord`, `qty`, ... | what a goroutine remembers between two steps |

Three goroutines: `"signal"` (`Run`, `handleSignal`), `"fill"`
(`runFillMonitor`), `"monitor"` (`runPositionMonitor`). A step is one critical
section of `Service.mu` or one exchange call; consecutive lock sections with no
I/O and no change of shared state in between are one step. `Claim` ..
`Release` are `cancelPendingEntry` and `replacePendingEntry`; `EnterPromote` ..
`CheckNewPosition` are `promotePending`; `Adopt` and `DeployAdopted` are
`adoptExchangePosition`; `Flatten` .. `GhostDelete` are `tryFinalizePosition`
or `handleGhostPosition` down to `finalizeClose`. `after` and `onFail` are the
return addresses. PROJECT.json gives the lines of every action.

### Abstractions

* Direction is folded into the position read: a position of the other side
  reads as none.
* Order-book conditions (stale, drifted, timed out, filters) are free choices.
* The ten polls of `cancelEntryOrderConfirmed` are one step that reads the
  order in any state it may have reached, or gives up on a live one.
* The exit grid of a tracked position is one exchange action, `ExchangeExit`.
* An emergency trim that itself meets a second trim (cancel, promote, trim)
  trims once: `trimmed` already holds.
* `EmergencySizeHandled` is read and set in one step: only one goroutine holds
  the position at a time in the paths modelled.
* `NormalizeQty` returning 0 for a dust position is left out, as is restart.

### Runs and bounds

| run | bounds | checks | distinct states |
|---|---|---|---|
| `entry_faults` | 1 entry, 2 orders, 1 lot, 2 chase attempts, calls may fail, reads may lag | `TypeOK`, `NoStuckCancel`, `AddFindsNoPending`, `PromotedIsUnregistered`, `SlotSpec` | 3.0 M |
| `entry_live` | 1 entry, 3 orders, 1 chase attempt, fair, no faults | `CancellingEnds`, `FilledEntryLeaves`, `ExposureManaged` | 272 k |
| `entry_overlap` | 1 entry, 3 orders | `CancelBlocksOverlap`, violated | |

Two orders are enough to reprice or re-chase once, three for a mark to change
hands; all three goroutines are present in every run. A goroutine with a stale
pointer that meets a newer registration needs a second entry: that is for the
proofs, which lift the safety properties to every bound. Deadlock is checked in
every run.

### Fairness

Each started handler goes on (`WF` per goroutine): the HTTP client has a
timeout, so a call returns. The tickers tick: `WF` on the fill and monitor
loops. `OrphanScan` has strong fairness because it is enabled only between two
evaluations and Go's `select` picks at random among ready tickers. Cancels take
effect and cool-downs end. Nothing is assumed of signals, aborts, fills or
exits, and nothing forces a call to succeed: the liveness run is therefore
without call faults, and says so in the properties' comments.

### What a comment says and the interleavings refute

`entry_overlap`: "blocks overlapping place/reprice" (`entry_state.go:14`). A
reprice makes the entry Active when it installs its order and again in its
deferred release; the release does not know whose mark it removes, so a claim
made in between is lost and two goroutines work on one entry.

### Proofs (`EntryLifecycleProofs`)

For every value of the constants that satisfies `BoundsAssumption` and
`FaultsAssumption`: `Spec => []TypeOK`, `[]NoStuckCancel`,
`[]AddFindsNoPending`, `[]PromotedIsUnregistered`, and `Spec => SlotSpec`.

The invariant is `Inv == TypeOK /\ Safe`. None of the three safety properties is
inductive by itself. They need `EntOK` (a goroutine at a label that works on an
entry holds one, and it was created before now), `FillOK` (the same for the
registered entry and for the entry of the fill monitor) and `Placing` (a signal
loop that is placing still has an entry number and a chase attempt to use).
With them: a registration takes a number that no goroutine holds, which is why
an entry under promotion is never registered again; a claim and its release are
on labels that keep the entry, which is why a mark always has an owner or is
void; and the signal loop is the only one that registers. The proof that a step
preserves `Inv` goes by goroutine and action, on top of four lemmas about what
a move (`GoOn`, `Return`, `Call`, `SizeCheck`) keeps; the temporal steps are
PTL. The refinement maps `slot` to `pending`, `last` to `nEntries` and `mode` to
the state of the registered entry: each action is a `Register`, `Mark` or `Leave` or
leaves the three unchanged.

Only model-checked: the three liveness properties (TLAPS has no fairness
reasoning here).

## 4. QueueMonitor: orders watched for their wall

`QueueMonitor` is a component of its own: a map of orders under a mutex, a
channel of capacity 100 and two loops. No code in the repository constructs it
yet, so its clients are free: they may add and remove orders at any time.

| variable | code |
|---|---|
| `mu` | `qm.mu` where it is held over several steps (the callback that sends, the sweep) |
| `tracked`, `aged` | keys of `qm.orders`; orders whose age exceeds `MaxOrderAge` |
| `cancelCh` | the channel, of `Capacity` places |
| `todo` | orders the running `OnOrderbookUpdate` has found without wall and not yet sent |
| `loop`, `received` | the cancel loop between receive, lookup and cancel |
| `sweep`, `expired`, `dropped` | the stale loop: the clock it read before it took the mutex, and its order |
| `requests` | cancel requests per order |

`Detect`, `Send`, `EndUpdate` are `OnOrderbookUpdate`; `Receive`, `Lookup`,
`Cancel` the cancel loop; `Tick`, `Lock`, `Scan`, `CancelStale` the stale loop.
The volume comparison is a free choice of the orders found without wall.

| run | bounds | checks | distinct states |
|---|---|---|---|
| `queue_loops` | 2 orders, 2 places, fair | `TypeOK`, `RequestedOnce`, `StaleLeaves`, `DetectedLeaves` | 13 k |
| `queue_jam` | 2 orders, 2 places, fair | `EvaporatedIsCancelled`, violated | |

Two places and two orders are enough to fill the channel (an order is queued
again at every update) while each loop holds an order; the proofs lift the bounds. An order is monitored once (an order id
is not reused). Deadlock is not checked: the system stops when it jams, which is
what `queue_jam` shows and `StaleLeaves` and `DetectedLeaves` except, and also
when all orders are used up.

Fairness: goroutines run, the ticker ticks, HTTP cancels return; `SF` on the two
lock acquisitions, because `sync.Mutex` hands the mutex to a waiter that starves.

`queue_jam` refutes "we emergency-cancel" (`queue_monitor.go:32`): a callback
that meets a full channel holds the mutex for ever.

Proved for any set of orders and any capacity: `[]TypeOK` and
`[]RequestedOnce`. The second is not inductive alone: it needs that an order
that is in one loop's hands is out of the map, was requested by nobody, and is
not in the other loop's hands. Two theorems say of safety what the liveness
properties rest on. `JamIsForever`: in a jam (the callback waits for room in the full
channel and holds the mutex that the cancel loop waits for) no step of anybody is
the end of it, and map, channel and what was received stay as they are; this is
why `StaleLeaves` and `DetectedLeaves` except it. `DetectedNeverForgotten`: an order
found without wall is with the callback, in the channel or with the cancel loop,
without a gap, until it has left the map. Both need that the callback never sends
without the mutex (`Holding`). Only model-checked: the liveness properties.

## 5. TimeStop: the end of a position

`TimeStop` follows one tracked position, in normal mode, from its opening to
the removal of its tracker.

| variable | code |
|---|---|
| `clock` | `holdSec`: below 180, the second 180, after the hard stop, more than 60 s after it |
| `tracked`, `forced` | key in `Service.positions`; removed by `handleGhostPosition` |
| `state`, `placed` | `ActivePosition.State` (atomic), `.TimeStopPlaced` |
| `size`, `order` | the exchange: size of the position, passive order of each window |
| `pc` | where each goroutine is |
| `faults` | exchange calls that have failed |

Goroutines: `"monitor"` (`evaluatePosition`), `"timer"` (the closure of stage 1),
`"failsafe"` (the closure of `timeStopLimitExit`) and `Kills`
(`velocityKillSwitch`). A step is one exchange call, or the reads and atomic
operations between two calls; a call that does several requests in a row and
whose intermediate results nobody sees (`ExecutePassiveExit`,
`ensureExchangeFlat`) is one step that closes the position, a part of it, or
nothing. Prices are free choices. Two times are kept because the code's guards
differ: `timeStopLimitExit` counts candles and can run in an evaluation that
computed `holdSec = 180`, while the branch of the state machine needs more.

Bounds and abstractions: the failsafe window opens once and each velocity
goroutine runs once; the position only shrinks; position reads are not late; the
position is large enough for the exits of small remainders (notional below
20 USD) not to apply; after the tracker is removed nothing is opened.
`RemainingQty` is never 0 at `service.go:1803`, because the read at the start of
the evaluation has just set it: that branch is left out.

| run | bounds | checks | distinct states |
|---|---|---|---|
| `time_close` | 1 velocity goroutine, 2 lots, 1 fault, fair | `TypeOK`, `FinalizedIsFlat`, `AbandonedByFaultOnly`, `ExitUnlessStuck` | 229 k |
| `time_zombie` | 1 velocity goroutine, 2 lots, no faults | `ZombieIsClosed`, violated | |

Two lots are enough for a partial fill; three goroutines may finalize at once; the
proofs lift the bounds of the safety properties. Deadlock is not checked: when the
position is closed and untracked the system has nothing left to do.

Fairness: time passes, the ticker ticks, timers fire and calls return (HTTP
timeout 15 s). Nothing is assumed of prices, fills or signals.
`ExitUnlessStuck` promises nothing after a fault, because one fault may leave a
position for ever: a failed market order leaves the state ClosingAggressive, which
`evaluatePosition` ignores.

What a document says and the run refutes: "Zombie retry, 60s, force close"
(`FILTERS_CURRENT.md:93`). The branch needs `ClosingPassive` and
`TimeStopPlaced`; an adverse signal clears the second, and `timeStopLimitExit`
sets it while the state is Active. `ExitUnlessStuck` shows that these two
combinations are the only ones in which a position stays.

Proved for any set of velocity goroutines, any size and any number of faults:
`[]TypeOK`, `[]FinalizedIsFlat`, `[]AbandonedByFaultOnly`. The invariant adds
three facts: a goroutine at "finalize" has just seen the position closed, and
nothing opens it again; the state never returns to Active, so that the timer
starts once; and, without faults, an open position in ClosingAggressive or
Closed has a goroutine at a *committed* label, one that it leaves only when the
position is closed or a call fails. The last is what makes the third property
inductive: a goroutine that is merely at work (`"post"`, `"velocity"`) may stop
without either. Each step then keeps the old witness (lemma `Witness`), is a new
one (`Commits`), or needs none (`Void`). `StuckUntilRescued` shows, step by step and
with faults, that the exception of `ExitUnlessStuck` is as large as it looks: past
the zombie age a position in one of the two combinations stays there through every
evaluation, fill and failure, until an adverse signal, the price or a ghost close.
Only model-checked: `ExitUnlessStuck`.

## 6. ModelDeploy: from a training to the model that answers

| variable | code |
|---|---|
| `staging`, `active`, `current`, `manifest` | `models/staging`, `models/active/<version>`, the link `models/current`, `manifest.json`, with modification times |
| `report` | `retrain_report.json`: the version and the `val_acc` the next training compares with |
| `tr`, `sessions`, `acc` | the processes that run `train.py`, and the score of each training |
| `eng`, `served` | the load in progress, the modification times of the last one, the bundle of `HotSwapONNXInference` |
| `reload` | a message on `models:reload` |

A step is one access to a shared file. `Start` .. `WriteReport` are a training
(`Insufficient` and `Evaluate` are exit codes 3 and 5), `Export` .. `WriteManifest`
the file operations of `onnx_deploy.py` in their order, `BeginLoad` .. `Swap` a
load, which a message or the watch loop starts; `Boots` and `Stamp` are the
load of the constructor, which reads the modification times afterwards.
`RestoreBootstrap` and `LoadFails` are what a file that cannot be opened does.
Weights are named by their training, scores are whole thousandths.

| run | bounds | checks | distinct states |
|---|---|---|---|
| `ml_deploy` | the worker, 3 trainings, 2 scores, 1 fault, fair | `TypeOK`, `ManifestComplete`, `ServedFromOneTraining`, `DowngradeNeedsLostReport`, `SlotSpec` | 945 k |
| `ml_baseline` | the same without faults | `NoDowngrade`, violated | |

Three trainings are needed for a downgrade (promote, reject, promote); the two
scores differ by more than the tolerances of both rules. Deadlock is not checked:
when the trainings are used up and the last model is served nothing is left to do.

Fairness: processes are scheduled, the watch loop wakes up, and a training ends,
by its epochs or by the timeout of the worker. No training has to start.

`ml_baseline` refutes "Block promotion if val_acc dropped more than 0.5% from
previous model" (`train.py:508`): a rejected training overwrites the report
without a score, and the next one compares with 0.

Proved: `[]TypeOK` for any trainers, trainings and scores; the rest for a single
trainer (`OneTrainer`), the engine's own worker: with a second process, staging
is shared and the properties do not hold. `ManifestComplete` and
`ServedFromOneTraining` rest on `Holding` (a process at work has a training),
`Deploying` (what staging and the directory hold at each label of a promotion)
and `LoadsOne` (the files opened so far are of one training, which is the
manifest's at the time of the read). `DowngradeNeedsLostReport` and the
refinement of `DeploySlot` rest on `WorkerOrdered` (the worker's training is newer
than the manifest's), `Judged` (a training on its way to promotion was compared
with the report as it still stands) and `EngineOrdered` (served, read and promoted
versions are in this order). The liveness half of `SlotSpec` is only
model-checked.

## 7. TradeLearning: from a closed trade to what is learned

The listeners of `execution:results` and `execution:mae_mfe`, the price tracker
of history_logger between them, and the worker's trainings, which the result
listener awaits. A step ends at an await.

| variable | code |
|---|---|
| `status`, `info` | the trade on the exchange, and what its result says of it |
| `tracked` | `_open_positions` of the symbol |
| `inbox`, `mbox` | messages the two listeners have not taken |
| `measured` | `PriceTracker.trackers`: the trade followed under each key |
| `pending`, `redis`, `aged` | `_pending_mae_mfe`, `mae_mfe_pending:*`, entries older than 2100 s |
| `learned` | calls of `memory.add`: the trade, and whose excursion it was given |
| `overtaken` | trades whose excursion was taken before they were stored |
| `rl`, `ml` | where the two listeners are, and their local variables |
| `losses`, `wins`, `cooling`, `training` | the streaks of the engine and of the worker, and who awaits the running training |

`Take` .. `Pop` are the result listener, `TakeMae` .. `EndMae` the other one. A
key is a signal id and `exchange_pnl`; the keys without suffix and those in
capitals, which nothing writes, are left out of the loop over the suffixes. A
signal in `Shadowed` is traded twice, live and by the shadow engine.

| run | bounds | checks | distinct states |
|---|---|---|---|
| `ml_learning` | 2 signals, no twin, loss streak 1, win streak 2, 1 fault, fair | `TypeOK`, `LearnedOnce`, `KeptIsLearned`, `ResultsDrain`, `ClosedLeaves`, `StreakTrains` | 395 k |

Two trades are enough for one to wait behind the training of the other; a streak
of one lets a single loss start a training, so that the excursion of a trade can
overtake its result. Then the excursion finds nothing in memory, the entry in
Redis is mirrored while the listener looks for it, the trade is learned with its
excursion, and once more, without, when its entry in memory has grown stale.
`LearnedOnce` excepts these trades by name (`overtaken`) and the trades of a
signal with a twin; the run has none, the proofs allow any. `ClosedLeaves` and `StreakTrains` promise
something once no fault is left. Deadlock is not checked: when the trades are over
nothing is left to do.

Fairness: the event loop runs every task that can go on, and a training has a
timeout. Nothing is assumed of the timers or of messages.

Proved: `TypeOK`, `LearnedOnce` and `KeptIsLearned`, for any signals, of which any
have a twin, any thresholds and any number of faults. `LearnedOnce` is not
inductive: that a trade is learned once depends on where its copies are. `OnceInv`
says that a copy lies under its own key (`Keyed`), that a trade has one result and
one excursion under way, counting the listener that holds it (`OneResult`,
`OneMessage`), that a trade whose result is not stored yet is nowhere else (`Fresh`),
that one that has grown old has no excursion under way (`Gone`), and that one that
was not overtaken is in memory, with the listener, or learned, and only one of the
three (`Single`).
Most steps only remove copies: one lemma serves them all, the others have one
each. `KeptIsLearned` adds `StillKept`: while the listener looks through the
spellings, the trade it looks for stays in Redis under one it has not tried. The
three liveness properties are only model-checked.

## 8. ExperienceMemory: vectors, metadata and their files

| variable | code |
|---|---|
| `ram`, `eng` | `ExperienceMemory.index` and `.metadata`, and what the engine does with the files |
| `files` | the index file and the metadata file: missing, half written ("torn"), or whole |
| `script`, `runs`, `touched` | the maintenance script that runs, and whether one has written |
| `closed`, `added` | closed trades, those the engine has learned |
| `influx`, `unwritten` | outcomes in InfluxDB, and writes of the OMS and of the engine that are outstanding |
| `persisted` | what the last complete persist wrote |
| `due`, `flushed` | the outcomes of the last flush's range, unless written since its start; it is complete |

Vectors and metadata entries are named by their trade, so that a pairing is
visible. `Boot` .. `PersistMetadata` are `_load` and `persist`, each file with a
step that opens it and one that completes it; the scripts are `clean_faiss.py`,
`balance_faiss.py`, `backfill_faiss.py` and `flush_dirty_data.py`, one at a time.
`Clean`, `Balance`, `Sides` are their choice of entries as pure operators. The regime of an
entry is left out (all are of one), queries and decay are not modelled here.

Both the OMS (`service.go:2256`, right after it has published the result) and the
engine (`engine.py:530`, after it has learned from the result, which may include a
whole training) write the same point of `trade_outcomes`, through clients that
buffer: `Close` leaves both writes outstanding, and `WriteOutcome` does one of them
at any later time or never. A flush deletes the points from `--since` to its own start
(`InRange`; trades are numbered by the time of their close), so older outcomes stay,
and so does one that is written after the delete: `due` excepts exactly the latter.
Two things a reader should know that no property forbids. An outcome that the engine
writes late is brought back by `backfill_faiss`. And a flush deletes the two files
under an engine that runs on, which writes its memory to them again at its next persist:
the script's last line asks for a restart of the engine, and a persist before it undoes
the deletion. Left out is `DROP MEASUREMENT`, the flush for an InfluxDB of version 1
(`docker-compose.yml` runs 2.7).

| run | bounds | checks | distinct states |
|---|---|---|---|
| `ml_memory` | 2 trades (LONG of pnl 0 or SHORT of pnl 40), 1 of them with writes outstanding when the next one closes, 1 script, 2 faults, fair | `TypeOK`, `MismatchIsVisible`, `PersistedSurvives`, `OutcomesStayFlushed`, `RebalanceCorrect`, `EngineReturns` | 1.1 M |

A persist can meet a crash, the restart and a second crash; two trades give files
of two generations that differ in length. `RebalanceCorrect` evaluates the
operators for every memory of up to four entries with a pnl on either side of each
threshold. `touched` limits two properties to the crashes of the engine alone: a
script that reads the two files while the engine writes them pairs them wrongly,
and the code has no lock against it. Deadlock is not checked: a file left half written stops
the engine for good.

Fairness: the container is restarted until the engine starts, persists end, and a
script that runs goes on.

Proved: `MismatchIsVisible`, `PersistedSurvives` and `OutcomesStayFlushed`, for any
number of trades, scripts, late writes and crashes. The first two rest on `Intact`: while no script
has written, the entries on disk are a beginning of those in memory and vectors are
never fewer than entries (`Matched`), which the order of the two writes keeps
(`Writing`); two sequences of one length of which one is a beginning of the other are
equal. `OutcomesStayFlushed` needs that until the delete has succeeded, over
timeouts and retries, all that is due is part of the range it deletes (`FlushInv`). `TypeOK` needs that a script picks
positions of the entries it has read (`TypeInv`), and so what its operators compute:
`ScriptsRebalance` proves, for a memory of any size, that `Clean` and `Balance`
choose no entry twice and leave no side with more than twice the other, of which
`RebalanceCorrect` is the bounded form, and `SidesKeepTheBest` that what they drop is
no better than what they keep. The ranks of a finite set are a bijection with
`1..n`: they are distinct (two members of one rank would order each other), and a
one-to-one map between finite sets of the same size is onto. Only model-checked: the
liveness property.

## 9. SignalEngine and ExitPlan: from a market event to a signal

`SignalEngine` follows one symbol through the market listener. The entries of
`_open_positions` and `_pending_entries` are dictionaries; each has its number,
because a thread goes on with the one it took while a message replaces it.

| variable | code |
|---|---|
| `active` | the symbol is in `active_symbols` |
| `tick` | the event being processed: the branch, the dictionary, direction and confidence, what the gates saw |
| `pos`, `pend`, `nDicts` | the two tables |
| `spoken`, `lost` | dictionaries whose exit or abort signal was published, or lost by the publish |
| `cool`, `loss` | `_symbol_cooldowns`: the cooldown in the table, of a loss or of a pattern block, and what became of that of the last loss |
| `held` | `_corr_block_count_this_cycle` |

`Event` is the branch on the two tables; `Score`, `Decide` are
`_check_confidence_decay` and `_check_entry_abort`; `Predict` .. `Plan` are the gates
of `_run_tick_prediction` in their order. The features,
the patterns and the online models are free choices, taken from the operators that turn their numbers
into a decision (`Answers`, `Memories`, `BaseThresholds`, `Judgements`).
`ExitPlan` computes stop and take-profits from a book, by the rules
of `exit_plan.py` and `liquidity_tp.py`; the scores that rank walls are not
computed: any wall, and any order of them, is taken. The spacing of the
take-profits is stated by what it results in: at most four targets 0.1 % apart,
and fewer only if no other fits (`Picked`), the nearest first (`Ladders`).
Prices are whole numbers of a unit that the prices of the book are multiples of, and
the tick is a number of these units: 0.0001 USD for a signal, whatever the symbol, and
that of the request otherwise (`TickOf`). The code computes with
floats: a price half-way between two ticks may be rounded to the other one there. The
theorem about plans uses of a rounding only that it is to a nearest tick.

The cooldown of a loss can end before its time in three ways, which `loss` records and
`LossMutes` excepts: a restart, `Forget` (which deletes a cooldown that was renewed
after it had been found expired), and `Recall`, when the pattern memory overwrites what is left of an
hour with half an hour. While the
block runs it mutes every event; `LossMutes` says that nothing else shortens a cooldown.

| run | bounds | checks | distinct states |
|---|---|---|---|
| `ml_signals` | 7 predictions, 62 books, streaks of 2, 2 dictionaries, 1 fault, fair | `TypeOK`, `SignalSound`, `SignaledOnce`, `FlaggedIsSent`, `LossMutes`, `PlanCorrect`, `PersistentFlipSignals` | 715 k |

The predictions lie on both sides of every threshold; the books have every
combination of up to three walls a side, uneven sides, and none, at 1 USD, at the
prices of CRVUSDT and MONUSDT in the statistics of the repository (0.2151 and 0.024093 USD)
and at 0.0072 USD, which with the ticks of signals and requests is between 7 and 100000
ticks, on both sides of every limit that `TakeProfitSound` names. Two dictionaries are
enough for one to be replaced by a message while the thread works on it.
`PlanCorrect` evaluates every plan of every book, once, in the initial state.
`PersistentFlipSignals` has the two hypotheses without which the code promises
nothing: the screener keeps the symbol, and the dictionary is not replaced any
more.

Fairness: the market listener keeps going, with events of books or of trades.
Deadlock is checked.

Proved: `TypeOK`, `SignalSound`, `SignaledOnce`, `FlaggedIsSent` and `LossMutes`, for
any set of predictions and books, any lengths of the streaks, any number of
dictionaries and faults. None of the four is inductive. `Gated` carries what each
stage has learned about the prediction to the publish (`Guarded` before, `Planned` after
the trend filter); `Muting` says that while the cooldown of a loss is kept, it or a block
is in the table, so that an event during it never comes past the gate that finds one; `Distinguished` and `Voiced` say that the dictionary in the
hands of the thread is the one of its table or in none, unmarked and without a
signal, and that an unmarked one in a table has had none. Only model-checked: the
liveness property.

`PlanCorrect` is proved too (`PlansAreCorrect`), for every set of books,
from `PlansSound` of `ExitPlanProofs`, which is about a single plan, any tick and any
limits. A plan is made of quotients rounded to the grid of the tick, so the argument is one of
bounds and of the grid: rounding moves a price by half a tick at most (`TickBounds`),
and of two prices on the grid the larger is a tick larger (`GridGap`), so that one that is more than a tick short
of the entry price cannot be, and one that is not on it is a tick away (`GridGain`).
The entry price is on the grid (`EntryGrid`). A stop is behind a wall within its
limit, two ticks and the rounding further, or at a share of the entry price (`StopBounds`). A target is 1 %
away by the rule of `_compute_min_profitable_move`, less the two ticks before its
wall and the rounding, and the take-profit without one 0.345 % (`TargetsPay`, `FallbackPays`). Targets are 0.1 % apart
(`LaddersClimb`); knife conditions leave a quarter of a distance at least, rounded once
more (`TightenedSound`). That a sum over the
levels of a book is a number at all is an induction: over the set of lengths for
which it holds, by the well-founded order of finite sets (`NatSet`).

What a plan promises depends on how many ticks its entry price is, because the engine
uses 0.0001 USD for every symbol. At any price no order is on the wrong side of the
entry price, the stop keeps to the hard cap and the take-profits are in order, up to
the tick. From 145 ticks on every take-profit is beyond the entry price and pays the
fees and the margin; in knife conditions it is beyond the entry price from 725 ticks
on, and no two are the same beyond 4000. Below, 0.345 % (or a quarter of it) is half a
tick or less: the take-profit without a target is rounded onto the entry price, against
"TP must compensate: entry fee + exit fee + spread + profit margin" (`exit_plan.py:5`).
Of the symbols in the repository's statistics MONUSDT, at 241 ticks, is above the
first limit and below the second.
That half the spread is paid too is promised for a spread of at most 0.48 % only: the take-profit without a
target ignores the spread (`exit_plan.py:239`), which the rule for targets counts.
An entry price that rounds to 0 is excepted: the plan then has no distances.

## 10. What is not modelled

* Numerical code: features, networks, online learners, the formulas of Kelly
  sizing. They are functions of floating point data without control state; the
  models take any of their answers that the thresholds tell apart. `ExitPlan`
  is the exception: its formulas choose the prices of orders.
* The training itself (data, epochs, export of a network), the joins of
  `influx_join.py`, backtests and threshold simulations: they read, compute and
  print, or end in the one score that `ModelDeploy` starts from.
* Telemetry, status reports, metrics, dashboards, signing, parsing: no state that
  a property is about.
* Exit orders, restart of the OMS, ingestion, screener, batch writer, shadow
  engine, symbol statistics: control state, in the plan above, not built yet. The
  open hazards in PROJECT.json say which module will take them.
