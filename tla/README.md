# A verification project for CATMonitor

CATMonitor is a monitoring daemon for servers with NPUs, with features that act on
the machine (pin CPU frequencies, boost NPU cards), that report faults to
subscribers, and a stress-test runner that several processes of a host share.
This directory holds TLA+ modules translated from its Go sources, TLC
configurations that check them on small instances, and TLAPS proofs of the
properties that matter most.

Source paths below are relative to `src/`.

## 1. Inventory

| Component | Sources | State | Operations | Hard parts |
|---|---|---|---|---|
| Fault subscription tap | `features/faultsub/{storage,detector,dispatcher,subscription,server,event}.go` | faults of the previous batch, snapshot per NPU, recent-event ring, subscriptions, debounce times | `Write` of each collector, REST handlers (subscribe, remove, ingest, poll) | collectors and handlers run concurrently; a `Write` takes four locks one after the other |
| Webhook delivery | `features/faultsub/{dispatcher,webhook}.go` | one goroutine per delivery | push, back off, give up | lost answers, retries, deadline |
| CPU frequency governor | `features/cpugov/{controller,actuator,state}.go` | idle machine, saved limits, kernel limits per core | tick, `Downclock`, `Restore` | stale inputs, partial failure, shutdown racing a tick, crash |
| NPU boost loop | `features/nputurbo/*.go` | boosted cards remembered, card frequencies | tick, `RestoreAll` | all-or-nothing clean, unknown outcome of a command, shutdown race |
| Stress jobs | `features/stress/{manager,stress,joblock_linux,handler}.go`, `features/stress/cli/cli.go` | active job, report file, history file, kernel lock | start, cancel, run, poll, shutdown | several processes share files; kills, failing writes |
| CPU runner | `features/stress/runnerapi/server_linux.go`, `features/stress/cmd/**` | socket path, one slot, adapter processes | start, stop, run, describe | stale sockets, clients that go away, cut output |
| Scheduler and daemon | `internal/collector/*.go`, `cmd/catmonitor/main.go` | one goroutine per collector, wait group | collect, shut down | order of the shutdown |
| Storage chain | `internal/storage/storage.go`, `features/stragglerout/*.go`, `features/snapshot/{comp,series,atomic}.go` | files, sample buffer, device numbers, statics, trends | `Write`, flush, snapshot | wrappers that swallow or pass on errors; several flushers |
| Collectors | `internal/collectors/**` | counters of the last read | `Collect` | gates, fatal and partial failures, counters that wrap |
| Metric catalog | `internal/metrics/metrics.go`, `internal/config/config.go` | selection tables | load, merge, scope, gate, filter | four places that must agree |
| Cache and global snapshot | `features/exporter/storage.go`, `features/snapshot/global.go` | last batch of each component | store, score, publish | a reader at another moment than the writers |
| Health scoring | `features/health/*.go` | none | `Evaluate` | bands, caps, weights, missing components |
| dfee exporter | `features/dfee/*.go` | counters of the previous request, last shares | CPU page, network page, chart, Prometheus page | concurrent clients share the previous counters |
| Describe and preflight, hardware specs, web UI, data sources | `features/stress/{profile,command_linux,parse}.go`, `features/snapshot/hwinfo.go`, `features/web/*.go`, `internal/source/**` | none that changes | read, parse, serve | text |

How they interact.  The scheduler runs one goroutine per collector; each hands
its batches to one chain of storages (snapshot writer, fault or straggler tap,
exporter cache, JSONL files).  The fault tap detects faults in those batches and
fans them out to subscribers.  cpugov and nputurbo are control loops of their own
goroutine; cpugov reads the snapshot files the chain writes, both write state
metrics into the same chain, and `main` calls a restore hook of each at shutdown.
Stress jobs run in the web process or in a CLI process and meet in the report
file, the history file and the kernel lock beside it.

What makes each component correct:

* **Fault tap**: no transition of a fault is lost or told twice, a subscriber ends
  with the last word on each fault, the snapshot shows no cleared fault, poll clients
  get the last events, debounce windows hold under concurrency, no collector is held
  up, and a persistent fault is reported once (it is not: see Disagreements).
* **Webhook delivery**: an event is dropped only after all its attempts, nothing
  is pushed again after an answer was received, every delivery ends.
* **cpugov**: cores are pinned only while the host is known to be idle, what is
  restored is what the administrator had set, no pinned core is forgotten, and
  the cores are eventually released.
* **Stress**: at most one job per host, the report file is about the job that
  runs and tells the truth about it, a cancellation stops the benchmarks that had
  not started, the history is bounded and complete, the lock is always returned.
* **nputurbo**: every boosted card is remembered until it has been cleaned, slow
  cards end up at their target and recovered ones at the baseline, stable cards are
  left alone, and no target exceeds the limit.
* **CPU runner**: one benchmark at a time, success only with the whole output, a
  server in place keeps its socket, an abandoned run frees its slot.
* **Scheduler and storage chain**: a KPI sample is in one place, device numbers keep
  their meaning, statics survive, what is published is stored, a shutdown waits for
  every batch and ends.
* **Collection**: a metric some feature asks for is collected in every command, growth of
  a counter is reported once, the published score is that of the host as last read.
* **Health**: the charges of a component fit its weight, worse never scores better.
* **dfee**: no byte is reported twice, shares split the whole, series keep apart, a page
  is one that Prometheus accepts but for the power of the fans (see Disagreements).

## 2. Modules

| Module | Models |
|---|---|
| `FaultDetector` | the detection rules and what one `Detect` call returns, as operators over readings |
| `RecentEvents`, `PollLog`, `EventRing` | the retained events: as a bounded log (abstract) and as the ring buffer of `Dispatcher` |
| `FaultSub` | the tap: collectors, ingestion and REST handlers around detector, snapshot, events and subscriptions |
| `QuietFaults` | `FaultSub` with a history of what the last npu batch showed |
| `WebhookDelivery` | the delivery goroutines |
| `Dispatcher` | ring and delivery goroutines together, as `Dispatch` composes them |
| `IdleRules`, `IdleDetection` | the idle machine of cpugov; fed from readings that may be stale or missing |
| `CpuGov` | control loop, `Downclock`/`Restore` file by file, shutdown, crash |
| `TurboFormula`, `NpuTurbo` | target frequency of a slow card; the boost loop, its commands, shutdown, crash |
| `StressReport`, `StressManager` | report arithmetic; jobs of several processes |
| `CpuRunner` | the runner's servers, its clients and the adapters |
| `DeviceKeys`, `Pipeline` | keys of NPU readings in KPI samples; scheduler, storage chain and shutdown |
| `MetricCatalog`, `Collectors`, `HealthRules`, `Collection` | selection tables; the seven collectors as tables of steps; the health rules; from a host's readings to its published score |
| `DfeeSeries`, `DfeeExporter`, `Dfee` | filter, series and derived values; the Prometheus page; the requests that share state |
| `FaultSubProofs`, `CpuGovProofs`, `NpuTurboProofs`, `StressManagerProofs`, `CpuRunnerProofs`, `PipelineProofs`, `CollectionProofs`, `DfeeProofs` | theorems, each about the module it is named after; `FaultSubProofs` also about `Dispatcher`, `CpuGovProofs` also about `IdleDetection` |
| `MCDispatcher`, `MCFaultSub`, `MCCpuGov`, `MCNpuTurbo`, `MCStressManager`, `MCCpuRunner`, `MCPipeline`, `MCCollection`, `MCDfee` | constants of the runs |

`RecentEvents` is used by `PollLog` and by `FaultSub`; `EventRing` implements
`PollLog` (`ImplementsPollLog`, by `INSTANCE` with the contents of the ring as the
log), which is why `FaultSub` may keep the simple log.  `Dispatcher` extends
`EventRing` and instantiates `WebhookDelivery`: which events are delivered is open in
it, `FaultSub` decides that.  `IdleRules` is shared by
`IdleDetection`, which checks the classification and the machine for every
sequence of readings, and `CpuGov`, which takes any sample at any tick.
`Collection` composes catalog, collectors and rules, because what can go wrong there is
that they disagree; `Pipeline` starts where `Collection` ends, with a batch that may
have any contents, and `FaultSub` is one of the wrappers of its chain.

Operators whose comment starts with `MUTANT of` are plausible wrong versions of
the definition after them; no specification uses them.  They are there to show
that the property they are paired with can fail.

### State and actions against the code

* **FaultSub.**  `prev` is `FaultDetector.prev`, `snapshot` the map of
  `FaultStorage`, `recent` the dispatcher's ring.  A goroutine's `pc` says where it
  is between locks: `BeginWrite` (inner storage written), `Detect` (one critical
  section; the timestamp it uses was taken before the lock), `UpdateSnapshot`,
  `Record`, `MatchSubscriptions` and one `Visit` per matched subscription.
  `FireOne` and `PanicOnNilMap` are the two outcomes of `ShouldFire`: the second is
  the write into the debounce map a concurrent `Remove` has deleted.  Readings
  are records of what the rules test; labels, details, event ids and the component
  filter of subscriptions are left out (every event is an `npu` event unless a
  client says otherwise).  Energy-saving and boost metrics reach the same tap as
  batches without NPU metrics: they are `OtherCollectors`.  Three variables are
  history: `handed` has what each subscription was handed last of each fault, `balance`
  counts fires less recoveries on record, and `mixed` holds the faults of which two
  goroutines had events at once, until the next event of the fault that is under way
  alone.  An ingestion counts as such an overlap: its event is no detection.
* **EventRing.**  `buf`, `head`, `full` are those of `Dispatcher`.
* **WebhookDelivery.**  One delivery per event; a push succeeds, fails, or is
  taken while the answer is lost.
* **Dispatcher.**  A `Dispatch` is a record and, or not, a goroutine; the goroutines
  take their steps between other dispatches.
* **CpuGov.**  `limits` are the kernel's files, one action per file written
  (`WriteFirst`, `WriteSecond`, in the order of the job).  `holder` is
  `Controller.mu`; sampling happens before it is taken.  `Cancel`,
  `RestoreOnShutdown` and `Exit` are the last lines of `runDaemon`, which does not
  wait for the loop.  A crash keeps `limits` and nothing else.  Core hot-plug and
  the emitted metrics are left out.
* **NpuTurbo.**  `freq` is what the cards do, `applied` is `Actuator.lastApplied`; a
  command and the note of it are two steps, because `Restore` in main takes no lock
  over its command.  A command that fails has no effect when `atomic`, any effect
  otherwise; both kinds of tool are initial states.  `untold` and `quiet` are history
  variables.  A command the loop has started ends after the process does.  `dry_run`,
  the state metrics and `Ok` are left out: they do not influence the cards.
* **StressManager.**  One `Manager` per process.  The job's goroutine is split
  where another process can see something: lock, initial report, running, the
  benchmark, its result, final report, history, release.  `MuFree` keeps the
  requests of the same process out where the code holds `Manager.mu`.  An empty
  `report_path` (no file, no lock) and profiles are left out.
* **CpuRunner.**  `path` is the file system's name, `stage` how far a server is in
  `Serve` (`Prepare`, `Dial`, `Unlink` are the steps of `prepareSocket`, `Bind` and `Listen`
  those of `net.Listen`; between any two other servers may take theirs), `slot` is
  `Server.runs`.  A call goes through `Call`, the server's `Handler` (admission,
  adapter, answer), `Write` of the adapter into the limited buffer, and `AdapterEnds`.  A
  kill of client or server cancels what the kernel closes; adapters of a killed server
  live on.  `clean` is history: a server is in it if, as it began to listen, the path
  was its own and every other was off, before its dial, or about to bind.
* **Pipeline.**  A writer's `pc` goes down the chain as the calls do: `WriteJSONL`
  under the storage's lock, `Extract` under the tap's, `Flush` in three steps (take the
  buffer under the lock, append outside, done), `WriteSnapshot`.  `config` picks the wrappers, every combination is
  an initial state; `Tapped` says how `main.go` nests them.  `wg` is the scheduler's wait group.
  A reading (`DeviceKeys`) has the labels `deviceKey` looks at: card, chip and device, the last
  two possibly missing.  No collector writes a device label yet; the theorem covers it, the run
  does not.
* **Collection.**  A behaviour observes one component from one start: command,
  yaml files, host.  `conf` is what loading leaves, `Tick` is one `Collect` with
  its gates and failing reads, filter and cache; `prev` are the counters a collector
  remembers; `Publish` is the global snapshot.  A collector is a set of steps
  (`Collectors`), each naming its gate, its source, and how each value comes about.
  `Move` changes the host.  The score is a set (`Scores`), because the first corrected error found in a Go map
  decides which charge is taken.
* **Dfee.**  A request is `Request` (files read), `SwapCPU`, `CacheDerived`,
  `ReadNet`, `Answer`: the four critical sections of the handler's mutex.  `charted` is history: a request was answered with
  shares before.  `Rewrite` replaces one component's file, `GlobalWritten` the global one, `Scrape` is the Prometheus page.  The
server may start beside a daemon that has run for long: the first files are any.

## 3. Runs

| Run | Instance | Shows |
|---|---|---|
| `fault_sub` | npu and cpu collectors, an ingestion handler reporting the same fault, 1 NPU that is healthy or alarmed, 2 kinds of subscription (debounced; every warning), clock 0..2, window 1 | `SnapshotNotStale`, `EventsAddUp`, `SubscribersKnow`, `DebounceSpacing`; under fairness `WriteCompletes` |
| `fault_sub_quiet` | an npu and a cpu collector, 3 readings | violated, as the code does it: `PersistentFaultIsQuiet` (see Disagreements) |
| `dispatcher` | 3 slots, 2 kinds of event, 2 deliveries of up to 3 attempts | `ImplementsPollLog` through fill and every wrap while goroutines push; `PushesCounted`; `DeliveryEnds` |
| `idle_detection` | window 4, break 3, staleness 2, ticks 0..2 apart | `ConfirmedIffSustained` |
| `cpu_gov` | 2 cores, 3 frequencies, 2 failing writes, shutdown | `SavedAreOriginals`, `HeldOnlyWhileIdle`, `RestoreRestores` |
| `cpu_gov_liveness` | 1 core, failing reads and writes, a foreign change, a crash | `BusyNpuReleases`, `DriftedCoreRepinned` |
| `npu_turbo` | 2 cards; scores: not listed, lost in rounding, one step, capped; 2 failing commands, 1 crash | `BoostedIsRemembered`; `CardsConverge` (recovered cards released, slow ones boosted) |
| `stress_manager` | 1 web, 1 CLI process, 2 benchmarks, 1 earlier job and 2 new ones, history of 2, 1 failing write, 1 kill | `FileAgreesWithJobs`, `ReportsSound`, `PollsStayTrue`, `JobsAndClisEnd` |
| `cpu_runner` | 2 servers, 2 clients, outputs up to one chunk beyond a limit of 1, 3 starts, 2 calls | `RunsSound`, `ListenerKeepsItsSocket`, `AbandonedRunIsReleased` |
| `pipeline` | cpu and npu collectors, every configuration of the chain, trends of 1 point, 1 cpu and 2 npu batches, 1 failing write, two cards of two chips with readings of chips and of whole cards | `SampleInOnePlace`, `KeysStable`, `StaticsSurvive`, `PublishedIsStored`, `CleanExitKeepsBatches`, `ShutdownEnds` |
| `collection` | every component on a healthy and on a bad host, each rule's readings moving together across all bands, twice; every metric asked for alone with the second file missing, broken, weaker or static; counters of width 256 near their end; 1 failing read | `FeatureGetsItsMetrics`, `DeltasAddUp`, `BudgetsAddUp`, `ScoreSeesTheHost`, `WorseNeverScoresBetter`, `ScoreConverges` |
| `dfee` | 2 clients (symmetric) and a scraper, 3 files replaced, CPU readings with a counter that goes back and one that is missing, 2 interfaces, one metric of every label shape, 2 fans | `NothingCountedTwice`, `SharesSplitTheWhole`, `NoChartGap`, `SeriesKeptApart`, `PageHasEachSampleOnce` |

**Bounds.**  Clocks (`MaxTime`), subscriptions (`MaxSubs`), events (`MaxEvents`),
faults, drifts, crashes, jobs, failing writes, kills, starts, calls, collections, moves
and rewrites are capped by constants that appear in the guards.  One NPU is enough for the detector because its rules
and state are per NPU and the proofs cover any number, as they cover batches
with several faults at once, which `fault_sub` leaves out for the number of its states; a window of 1 on a clock of 0..2 is left and entered
again.  Two cores, or cards, are what a partial failure needs: one written, one not; the
scores reach every branch of the formula.  Two
new jobs and an earlier one fill a history of two past its end.  Several
processes of one kind behave as one web and one CLI process do towards each other:
only the lock and the two files are shared.  Two servers and three starts meet in every step
of `prepareSocket` and `net.Listen` over a socket that is stale or served: each of the four
conditions of `clean` is needed, without any of them TLC finds a server that loses its socket; an output one chunk over the limit is the overflow.  In the
pipeline a second npu batch meets a flush of the first, the CPU's, or the shutdown's, has no statics,
fills the trend past its end, and may see fewer chips.  In the collection two moves take a reading
through three bands, or a counter past its end; readings of different rules do not
interact but in the sum, which the starts with all components at once cover.  Three
rewrites are a counter that starts again after it was reported.

**Deadlock.**  It is checked in `dispatcher`,
`idle_detection` and `dfee`.  The other systems do stop: a daemon that panicked or
exited, jobs, calls or collections used up to the bound.

**Fairness.**  `FaultSub`: a goroutine inside `Write` or `Dispatch` goes on (Go's
scheduler is fair and no lock is held across a blocking call).  `WebhookDelivery`:
a push ends at the client's timeout.  `CpuGov`: the ticker keeps firing and the
mutex is starvation-free; neither failures nor shutdown are fair.
`NpuTurbo`: commands end at their timeout, and the straggler service, whose failures
are stuttering steps, answers again and again.
`StressManager`: a benchmark ends at its deadline at the latest, the CLI polls
every 200 ms, `main` goes on once the job is done; starting, cancelling, kills and
restarts are not fair.
`CpuRunner`: the handlers of a server that lives go on; nothing makes a benchmark, a
client or a stop come to an end.  `Pipeline`: the calls of the chain return
(weak fairness); a waiting collector leaves (strong fairness), because the `select`
between ticker and `ctx.Done()` picks at random among what is ready.
`Collection`: tickers keep firing, and reads fail only finitely often.

### Disagreements between code and documents

They were met while modelling.  Each is the reason for a condition or a bound of a
property, or for a hazard without one; what the model says of them is what the code does.

Fault tap, governor, boost loop, stress jobs:

* removal of a subscription between `Matched` and `ShouldFire` leads to a write
  into a nil map, and the daemon panics (`subscription.go:185`; `PanicOnNilMap`);
* a tick in flight at shutdown takes the lock after `Restore` and pins the cores
  again, as `main` does not wait for the loop (`controller.go:239`, against `:235-236`);
* after a failing write of the final report a CLI reads "running" for ever
  (`manager.go:289`); `CliEndsIfReportsAreWritten` is what holds;
* `newSubID` keeps four digits, so after 10000 subscriptions one takes the id of another that
  may live (`subscription.go:190`); a loop still visiting the old one writes into the windows of
  the new one.  `DebounceSpacing` is about ids that are given once;
* a batch without NPU metrics empties `prev` (`detector.go:244`), and every daemon has
  collectors that write such batches, so a fault that persists recovers and fires again,
  against "a fault that persists across cycles emits nothing" (`detector.go:32-33`).  The run
  `fault_sub_quiet` shows it in one batch of each collector and a second one of the first.
  What holds is `EventsAddUp`: each fire on record has its recovery before the next;
* a recovery of one fault deletes the snapshot slot of the NPU although another
  fault is active (`storage.go:66`);
* two goroutines that have events of one fault at once may apply them to the snapshot, and tell
  subscribers, in the other order (`storage.go:52`), and the times of the retained events need
  not ascend (`detector.go:105`, against `dispatcher.go:121`); the snapshot may show, and a
  subscriber believe, what is no longer so until the next event of that fault.  Such faults are
  `mixed`, and `SnapshotNotStale` and `SubscribersKnow` are about the others.  Even then the
  snapshot may show nothing though a fault is active (previous item), against `storage.go:23`;
* `min_freq_override` above a core's ceiling makes `Downclock` write the floor above
  it (`actuator.go:137`, against `cpugov_SPEC.md:231`); `MinLeqMax` is checked
  without an override;
* a failed read of the limits is saved as 0 (`actuator.go:121`);
  `SavedAreOriginals` is checked without failing reads, and without crashes, after
  which pinned limits are taken for the originals;
* a clean that fails half-way keeps `lastApplied`, so a card it did reset and that
  is slow again is passed over as idempotent, against "a failed inject is retried
  next tick" (`actuator.go:61`); `RememberedIsTrue` and `SlowCardBoosted` are about a
  tool whose failing commands have no effect;
* a tick in flight at shutdown injects after the clean (`nputurbo_linux.go:59`);
  `CleanExitIfQuiet` excludes it.  An inject that failed but had an effect, or a
  crash, leaves a card boosted until some other card recovers: `untold`;
* the target is rounded before it is capped, so it need not be a multiple of the
  step, against `formula.go:7`;
* a killed process leaves a report that says running; `RunningMeansHeld` excludes
  kills and failed writes;
* a CLI whose report was replaced by another process's job ends with "not found"
  although its job passed; `CliReportsOwnJob` allows exactly that.

Pipeline and straggler output:

* the last flush at shutdown runs in a goroutine `main` does not wait for, so buffered
  samples may be lost (`main.go:206`, against `DESIGN.md:1348`);
* with straggler output and fault subscriptions both on, the second wrapper is built
  around the cache and no sample is ever extracted (`main.go:222`);
* readings of a whole card (`net_tx_bandwidth`, `npu_linux.go:518`) are keyed with the number of the
  card (`sample.go:219`, as `stragglerout_SPEC.md:28` says).  Where cards have two chips that is also
  the key of a chip of another card: 1 is card 1 and chip 1 of card 0, so one entry of a sample
  has values of both, against "per-chip on A3 dual-chip platforms" (`sample.go:35-36`).  They are of
  different metrics, so no value is overwritten.  `KeysStable` compares readings of one level.

CPU runner:

* two servers that start at once over a stale socket both find it stale, and the second removes the
  socket of the first, which goes on listening where nobody finds it; so does one that dials between
  `bind` and `listen` of another, and a server that has lost its path removes that of its successor when
  it stops (`server_linux.go:74`, `:108-113`).  `ListenerKeepsItsSocket` is about servers to which none
  of this was about to happen as they began to listen; nothing that begins later can harm them.

Collection and health:

* disk throughput and latency are computed against counters `collectIOPS` has updated a
  moment earlier, so they are about zero, and missing without `iops` (kind `echo`);
* counters of the "positive" convention never report the growth up to their first positive
  reading: the first error ever does not reach the score (MCE, NPU ECC);
* the two chips of a card share the key of the ECC counters (`OneChipPerCard`);
* the shipped configuration filters out `card_drop` and `connection_count`, so rules
  `HEALTH_SPEC.md:311` and `:238` list never fire; some gates miss names the
  guarded code emits (`InItsGates`);
* the one-shot `health` and `collect` never see growth or shares; `core_num` is only in the first batch;
* a component that falls silent keeps its last batch in cache and score; when the first
  read of the device list fails no NPU is collected again (`npu.go:55`; `blind`);
* rates divide by constants 3.0 and 5.0 whatever the interval; a counter that starts again gives a growth near 2^64;
* of several sources of corrected errors, the order of a Go map picks the one charged;
* a host with gpu and npu has weights up to 135 points (`BudgetsAddUp`);
* without a scope, `Selected` takes every known metric whatever `min_priority` says, and
  statics, "always collected" by their comment, are not wanted without one.

dfee:

* fan power is measured fan by fan (`CATMonitor_indi_list.md:1993`), but `mapChassis` drops the label that tells the fans
  apart (`exporter.go:280`): a host with several fans has `ipmi_fan_power_w` as often on its page, which Prometheus refuses.
  `PageHasEachSampleOnce` excepts that one sample.

## 4. Proofs

`FaultSubProofs`, on the dispatcher (any buffer size, events, deliveries and retries):
`RingSafety` proves that a read never returns a slot that was not written
(`OnlyRecorded`) from an invariant that ties `head`, `full` and the
slots written; `RingImplementsPollLog` proves the refinement, whatever the
goroutines do meanwhile.  Its heart is that a
`Record` appends to the contents read from the start slot and drops the oldest when
full, in the cases empty, filling, about to wrap, full.  `EveryPushCounted` proves
`PushesCounted` of any number of deliveries at a time.

On the tap (any NPUs, collectors, handlers and subscriptions):

* `TypeCorrect`: the type invariant, which also bounds each goroutine's queue by its
  control state;
* `SnapshotSound`: `SnapshotNotStale`, for any number of writers.  `QueuesInv` says that a queue has at
  most one event of a fault, that the events of a fault that is not `mixed` say what the last `Detect`
  left in `prev`, and that ingested events are of mixed faults; `SlotInv` that a fault the snapshot
  shows is active, or mixed, or a goroutine has an event of it which it has not yet applied;
* `TransitionsAddUp`: `EventsAddUp`, for any number of writers.  Any number of goroutines may have events
  of one fault not yet recorded; `BalanceInv` counts them: fires on record and fires to be recorded,
  less the recoveries, are 1 for an active fault and 0 for another, because every change of `prev` puts
  exactly one event in one queue;
* `SubscribersAreRight`: `SubscribersKnow`, for any goroutines, requests and ids.  `ToldInv` says that what
  a subscriber was last told of a fault that is not mixed is what `prev` holds, or a goroutine with an
  event of it has yet to come to that subscriber; `HeldInv` and `ScopeInv` that only subscriptions
  that match are visited and told;
* `DebounceWindowKept`: `DebounceSpacing` for any goroutines, as long as no id is given twice
  (`MaxSubs <= IdSpace`).  `KnownInv` says that the subscriptions in the table, and those a
  loop still holds after they were removed, are told apart by when they were made;
  `WindowInv` that the map of a window knows of every hand-off unless the
  subscription is gone.  The hypothesis is needed: with one id and two subscriptions TLC finds a
  loop that holds the first and fires through the windows of the second.

`CpuGovProofs`, on the idle machine (any window, break length, staleness limits and spacing of the
samples): `ConfirmedIsSustained` proves `ConfirmedIffSustained` and `OnlyABreakEnds`
proves `ConfirmedUntilBreak`.  The invariant `Tracks` says how the machine's clock and
state follow from the history of samples: Active means that no idle time is counted,
Observing that it is short of the window, and the streak is the run of busy samples.

On the governor (any cores, limits and bounds):

* `TypeCorrect`, and `HeldWhileIdle` for `HeldOnlyWhileIdle`, without further
  assumptions: failing reads and writes, foreign changes, crashes and a shutdown at
  any point are included.  `JobSound` ties the holder of the mutex, the job and the
  cores it still has to visit to the phases of loop and shutdown;
* `OriginalsSaved` and `PinnedRemembered` for `SavedAreOriginals` and
  `PinnedIsRemembered`, under `Undisturbed` (no foreign change, no crash, reads
  work; writes fail at will).  `SavedAreOriginals` says nothing of what a Restore has
  done so far, so a Downclock after a Restore could save pinned limits; `PutBack` adds
  that the cores which a Restore without a failure has done are at their originals.
  `RestorePutsBack` proves `RestoreRestores` from the same invariant;
* `FloorBelowCeiling` for `MinLeqMax`, with `Override = 0` in addition: an
  override may lie above the ceiling the administrator had set for a core.
  `Ordered` says which of the two limits a core in between already has.

`NpuTurboProofs` (any cards, scores, limits, and any failing commands):
`BoostedRemembered`, `RememberedTrue`, `QuietExitClean`, `NoCardFlickers` and
`TypeCorrect` prove the safety properties of that run.  A command and the note of it in
`lastApplied` are two steps, so the properties are not inductive: `Accounted` says
what holds of `freq` while a command is not yet noted, `LoopSound` that the cards still to
be visited have a target, `QuietSound` that a quiet shutdown finds the loop between
ticks.

`StressManagerProofs` (any processes, benchmarks, and numbers of failures and kills):
`FileFollowsTheLock` proves `FileAgreesWithJobs`.  `HolderWorks` says that whoever is
between the lock and the release holds the lock, which makes two jobs impossible;
"running" in the file means a lock only if the holder has not yet come to its final
report, so `RunningIsRun` says how far it is.  `ReportsTellTheTruth` proves `ReportsSound`, of which
nothing follows from the step that writes the final report alone: `Progress` says
what the report of an active job holds at each stage, and `Spared` what is known of the
benchmarks a cancellation was in time for.  `ReadersSeeTheTruth` proves `PollsStayTrue`: the
types, the history, that the report file never goes back (`FileNeverGoesBack`) and what a
CLI ends with (`CliReportsOwnJob`).  The invariant is `PollInv`: job ids only grow and every
report belongs to a job that was started (`Ordered`); while benchmarks run the file says so,
and otherwise it says what its job ended with (`Written`); the history is older than the job
that is about to be archived (`Archived`); and a CLI that polls reads a file that is at least
as new as its job (`Polled`).  `ArchivePrepends` says what the bounded history becomes, whatever
its length.

`CpuRunnerProofs` (any servers, clients, and output bound): `RunsAreSound` proves `RunsSound`.  `CallsSound` ties the
slot of a server to the one call that runs in it and to its live adapter, and what a
call keeps of its output to the bytes counted.  `SocketIsKept` proves
`ListenerKeepsItsSocket`: beside a server of `clean` that listens, every other one is off, will be stopped
at its dial, or will fail to bind (`SocketSound`); none comes to a step that removes the path.

`PipelineProofs` (any collectors, with their own bounds, any configuration and any failing
file operations): `SnapshotsShowTheFiles`, `StaticsAreKept` and `ShutdownKeepsBatches` prove
`PublishedIsStored`, `StaticsSurvive` and `CleanExitKeepsBatches`.  `FileSound` says, for each
collector, that the file has every batch but a refused one and the one in hand, and, once that
was written, that `err` tells whether its last line is there; `SnapshotSound` carries this to stash, trend and snapshot file;
`GroupSound` counts the collectors at work, so that an empty group means that no batch is in hand.

`SamplesMoveWhole` and `KeysNameOneChip` prove `SampleInOnePlace` and `KeysStable` from `TapInv`.
A sample is known by its batch and may be on its way through the tap, in the buffer, or taken by one of the flushes;
`HandsInv` says who may hold one, `PlacesInv` that no two positions of all places hold one batch and that
every batch extracted is in a place or was lost to a failing write.
`StrideInv` says that a sample made once the tap had seen the highest slot has its keys from the widest stride: the number
`card * stride + slot` then names one chip (`KeysTellApart`, which also has the other two levels of readings).  The multiplier is the maximum of a set,
which exists because a finite set of naturals is bounded and has a least upper bound
(by well-foundedness of the naturals, in place of induction).

`CollectionProofs` (any feature files, defaults and thresholds, any host with any devices, any readings and width of the
counters, and reads that fail at any time): `FeaturesAreServed`, `GrowthAddsUp`, `BudgetsHold`, `PublishedIsTrue` and
`WorseIsNoBetter` prove the safety properties of that run, all but one from the invariant `CollectionInv`:

* `FeatureGetsItsMetrics`: merging is what could lose a metric.  Of the features' files the strongest priority is taken,
  and neither it nor the merge with the defaults is weaker than what one feature asks for, so that passes the threshold, the
  gates and the filter of every command (`AskedIsSelected`, `Features`);
* `DeltasAddUp`: `Sums` says that the growth reported so far and the counter remembered agree modulo the width.  Each
  `Collect` adds the difference modulo the width, and skips what it does not remember.  When several readings share
  the slot of a counter, as the chips of a card do, this fails, hence `OneChipPerCard`;
* `BudgetsAddUp`: rule by rule (`LostInBudget`).  A mount is charged for one band, so that the charges of all of them,
  however many there are, stay within the mounts' part of the budget;
* `WorseNeverScoresBetter`: every charge is monotonic (`LostWorse`).  The two that are not single thresholds are the mounts,
  where those above each limit are counted, and the load, whose limit falls with the number of cores.  With two
  sources of corrected errors it fails, hence its condition;
* `ScoreSeesTheHost`: after two `Collect`s in which all reads worked the cache is the truth, except that
  counts which are left out when there is nothing to report are missing, and missing is worth as much as zero (`Sees`).

`DfeeProofs` (any metrics, counters over all naturals, any clients and files, and any state of the daemon's
files at the start): `ChartHasNoGap`, `SharesSplit` and `BytesReportedOnce` prove `NoChartGap`, `SharesSplitTheWhole` and
`NothingCountedTwice`.  `ChartInv` says that the shares a request holds, or the handler caches, split the whole, and that
a request to which shares are due has them once the counters are swapped; `CachedInv` that once a request was
answered with shares the handler has some, which needs that they are cached before the answer and never
taken back.  The last is the deepest: a request reads
the files before it takes the counters of the previous one, and a counter may start again.
`KnownInv` says that the interfaces somebody knows are among those the files have shown; `AccountInv`, about requests that did not
overlap, that the bytes reported, those the request under way is going to report, and those moved since it read
the files, are together at most the bytes moved.  The code lets overlapping requests report bytes twice, so
`NothingCountedTwice` excepts them.

`SeriesStayApart` and `PageIsAccepted` prove `SeriesKeptApart` and `PageHasEachSampleOnce`.  They need of the state only
that an answer is made of files at one moment; the rest is about the tables.  A plotted metric is on the one chart its
component, name and direction say (`OneChart`, over all of `ChartGroups`), its series id has one of five shapes (`HasShape`), no
two shapes have an id in common, and within a shape the id determines component, name and
telling labels (`KeysApart`); the same for the samples of the page (`HasSample`, `SamplesApart`, `SupplementNew`).  That
no two metrics of a snapshot have these in common is `FilesAssumption`, which states what the
collectors write: which labels, each once, and no device that is called like a metric of `memory` or
`cpu`.

`OnlyRecorded`, `PinnedIsRemembered`, `MinLeqMax`, `ConfirmedUntilBreak`, `RememberedIsTrue`,
`CleanExitIfQuiet`, `NoFlicker` and the type invariants of the proved modules hold for every
value of the constants; no run repeats them.

Assumptions are the named `ASSUME`s of the modules; TLC evaluates them in the runs.
Only model-checked are the liveness properties (`ENABLED` and fairness are beyond the prover);
every safety and action property a passing run checks is also stated by a theorem.  The tables of `Collectors`
enter the proofs through `TablesAssumption` (a metric has one emitter; what kinds there are) and the starts through
`StartsAssumption` (a host reads what its collector emits, counters are within their width): TLC evaluates
both for the tables as they are, and every start of the run.

## 5. Plan

What would come next, in this order:

1. The rest of the storage chain: the daily rollover and pruning of JSONL files.
2. The cache of runner descriptions, the CSV writer of dfee and its static information.

## 6. Not modelled, and why

Parsing of files and command output, HTTP framing, logging, rendering of tables and
pages, build and deployment scripts, the vendored benchmark, and platform variants
other than Linux: they keep no state a property could be about.  Numbers that the code
computes in floating point (scores, shares, rates) are exact here.  Profiles and preflight of
stress jobs, hardware specs, web handlers and data sources are stateless readers;
their results, and failures, are choices of the modules that call them.  What is left out of a
component that is otherwise modelled is said in its note in `PROJECT.json`.

Simplifications no property depends on: `HealthRules` takes the reading a rule is about as given, and leaves out
how it is picked by labels (`core=total`, `interval=1m`, `avg10`, the `/dev/` prefix); `Dfee.Request` reads the
component files in one step, where `handler.go:61-73` reads them one after the other, each file by itself being
replaced atomically.  A webhook push that ended with a timeout and reaches the endpoint only later, after a
retry was acknowledged, is not among the steps of `WebhookDelivery`; nor is, in `StressManager`, the benchmark that
lives on in its process group after its manager was killed (`command_linux.go:19`).
