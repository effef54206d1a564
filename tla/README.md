# service-kernel: a TLA+ development

This directory specifies the concurrent core of `service-kernel`, a Rust crate
that boots a daemon's subsystems, supervises its workers, aggregates their
health and shuts all of it down in order. The specifications are translated
from the source under `src/`, checked by TLC on small instances, and their main
safety properties are proved with TLAPS for every value of the constants.

Paths below are relative to the repository; `core.rs` is
`src/kernel/core.rs`, `supervisor.rs` is `src/worker/supervisor.rs`, and so on.
`PROJECT.json` maps each definition to the lines it stands for.

## 1. The system and its parts

| Component | State it keeps | Operations | Interacts with |
|---|---|---|---|
| kernel core (`kernel/core.rs`, `context.rs`, `subsystem.rs`) | lifecycle state, subsystem list (mutex), `booted_at`/`loaded_at` (mutex) | `boot`, `run`, `shutdown`, `snapshot`, rollback of a failed load | everything below |
| lifecycle (`lifecycle/`) | one state behind an `RwLock` | `transition` (check and set under the lock; event, gauge and counter after it) | kernel core, dispatcher, metrics backend |
| shutdown signal (`kernel/handles.rs`) | flag, mutex, condvar | `signal`, `wait_for_signal`, `..._until` | `run`, the supervisor's watcher thread, OS signal handlers |
| worker supervisor (`worker/supervisor.rs`, `handle.rs`, `context.rs`, `panic.rs`) | JoinSet, task map, child tokens, state cells, failure counts | `run` (select loop), `spawn_one`, `maybe_restart`, `watchdog_tick`, `shutdown_all` | workers, health registry, shutdown signal |
| restart, backoff and watchdog policies (`worker/policy/`, `watchdog.rs`) | none, or timestamps passed in | `should_restart`, `delay`, `check` | supervisor |
| circuit breaker (`worker/policy/circuit.rs`) | state, failure count, two timestamps, each its own atomic or mutex | `record_failure`, `record_success`, `tick` | supervisor |
| health registry (`health/`) | map behind an `RwLock`, atomic aggregate | `report`, `aggregate`, `snapshot` | supervisor, subsystems, subscribers |
| builder (`kernel/builder.rs`, `builtins.rs`) | what was registered, the sort's maps and work list | validation, topological sort of the subsystems | kernel core |
| event dispatcher and topics (`events/`) | `routes` by topic and `by_id`, an `RwLock` each | `subscribe`, `unsubscribe`, `emit`; `KernelEvent::topic` | every component that emits |
| shutdown coordinator, hooks, drain (`shutdown/`) | hook list (mutex), `completed` (mutex), token; a drain's counts | `register_hook`, `shutdown`; `drain`, called by consumers | `run`, hooks, tokio tasks |
| proc-daemon adapter (`worker/adapter/proc_daemon.rs`) | a guard on the PID file; the file itself | `new`, `daemonize`, `run`, drop | the kernel, the file system, other processes of the service |
| error classification, metrics, primitives, health checks | a swappable pointer, counters, identifiers | | |

### What is hard here, and what correctness means

* **Kernel core.** Any number of threads hold clones of one kernel. Correct: a
  subsystem's hooks run at most once and in the order boot, load, shutdown,
  whichever threads race; a failed load leaves nothing loaded; a subsystem
  never outlives one it may depend on; a snapshot is not torn; a signal ends
  `run`.
* **Shutdown signal.** A hand-written latch over a condvar, notified outside
  the mutex, with deadlines. Correct: no wakeup lost, no wrong answer.
* **Supervisor.** One loop multiplexes outcomes, ticks, backoff sleeps and
  shutdown, while worker tasks, handles and the watcher run beside it. Correct:
  one task per worker, an exact task map, an open breaker contains its worker,
  a handle's state never misleads its reader about the task, giving up escalates
  by criticality, shutdown ends.
* **Breaker and policies.** A count and one date stand for a window of failures,
  in fields that are not written together, and failures are dated by a clock
  that may be set. Correct: a burst trips, a trial waits out the open duration,
  a worker whose retries are exhausted runs as a trial only, silence is noticed,
  and the breaker behaves as if its calls were atomic.
* **Health registry.** An incremental maximum decided from a value read before
  the lock. Correct: aggregate is the maximum, events miss no change.
* **Builder.** Correct: every subsystem once, after all its dependencies; a
  cycle is refused.
* **Dispatcher and lifecycle.** Handlers are called outside the lock, and a
  transition is announced after its lock. Correct: routes and table agree, an
  emit reaches whom it should, whoever subscribed before a state was entered
  hears of it, counters are exact and the gauge is wrong only after an overlap.
* **Coordinator and drain.** Hooks share one deadline; several tasks may call
  it; a hook may itself wait for tasks under a second deadline. Correct: hooks
  run at most once, each is called or recorded as failed, the report adds up,
  the call ends whatever the hooks do, and a drain counts every task once.
* **Daemon adapter.** Processes die anywhere and share a path. Correct: a stale
  PID file is left by a kill or a failed removal only, and a lone process owns
  its file while its kernel runs.

`PROJECT.json` lists each hazard at its line with the properties that cover it.

## 2. The modules

    CircuitOps <- Supervisor <- MCSupervisor            (checked)
                             <- SupervisorProofs        (proved)
    CircuitOps <- CircuitSpec <- CircuitBreaker <- WorkerTimeline <- WorkerTimelineProofs
    HealthSpec <- HealthRegistry <- HealthRegistryProofs
                  Kernel         <- KernelProofs
                  Builder        <- MCBuilder
                                 <- BuilderProofs
                  Coordinator <- Drain <- DrainProofs
    KernelEvents, EventDispatcher <- LifecycleController <- MCLifecycle
                                                         <- LifecycleProofs
    Latch      <- ShutdownSignal <- ProcessProofs
                  Daemon         <- ProcessProofs

Two modules compose components: `Drain` puts a draining hook under the
coordinator, `LifecycleController` puts the controller on top of the dispatcher
it emits through. `WorkerTimeline` drives the real breaker with the supervisor's
decisions.

`LifecycleProofs` holds the proofs about the dispatcher and then those about the
controller on top of it. `ProcessProofs` holds those about the two components
that meet the operating system, which have nothing in common; the names of
`Daemon` (`DaemonInit`, `DaemonNext`, `DaemonSpec`, `daemonVars`) keep them apart.

### Supervisor and CircuitOps

The supervisor is a single tokio task, but what it writes is read by others: the
state cell of a `WorkerHandle` by any thread and at any time, the JoinSet by the
tasks in it, the shutdown signal by the kernel. So a handler of the select loop
is not one action. Each of these writes is a step of its own, in the code's
order; what only the loop reads changes together with the write it precedes.

* `RunStart` begins the first spawns. `spawn_one` is `SpawnOne` (the handle says
  `Starting`), `SpawnTask` (the task enters the JoinSet and the map) and
  `SpawnEnd` (the handle says `Running`); `spawning` are the workers a handler
  still has to spawn, and `SpawnsDone` ends it.
* `JoinArm` is `handle_outcome` up to the verdict of `maybe_restart` (`Judge`).
  `SetRestarting` leads to the backoff sleep and the respawn, `SetStopped` and
  `Escalate` (`apply_criticality`) are the other branch.
* `TickArm` is `watchdog_tick` up to its spawns. The tokens of the workers it
  found silent (`silent`) are cancelled last, by `SpawnsDone`, all in one step: a
  moment at which only some of them are cancelled is left out.
* `CancelArm`, `StopOne`, `AllStopping`, `DrainJoin`, `GraceExpired`, `DrainDone`,
  `CloseOne` and `AllStopped` are `shutdown_all`.

The one await inside a handler, the backoff sleep, is the loop state `Backoff`,
left by `BackoffElapsed` or `BackoffCancelled`. Tasks (`TaskStart`, `TaskExit`,
`TaskAborted`, `Heartbeat`), the kernel's shutdown watcher (`Watcher`) and
consumers (`HandleCancel`, `ShutdownSignal`) interleave with the loop.

State: `task` and `owner` are the JoinSet (the worker id that a task's closure
carries), `task_to_worker` is the supervisor's own map of it, which the code
keeps by hand and which only the panic path and `spawn_one_if_idle` read.
`cancel_token` and `child` are the token tree: a child is made once, at
registration, and survives restarts. `circuit` is the breaker of `CircuitOps`,
`failures` the handle's own count.

The clock is abstracted to what the code decides from it. Whether a failure is
inside the window, whether `open_duration` has elapsed, whether a heartbeat is
too old, and whether a sleep has ended are each free choices; the breaker's
window and the handle's are chosen independently, because they are different
durations. `delayed` stands for a backoff greater than zero. The heartbeat cell
keeps its value when a run ends, as in the code.

Cancellation, abort and panics differ by worker kind and are kept apart. A sync
body runs under `spawn_blocking`: its panic is caught in the task, and an abort
has no effect once it has started. An async body can be aborted and its panic
arrives as a `JoinError`.

### CircuitBreaker, CircuitSpec and WorkerTimeline

`CircuitBreaker` is the type itself: state and count are atomics, the two dates
are behind a mutex each, and every access is a step (`FailLoad`, `FailWindow`,
`FailRestart`, `FailAdd`, `FailOpen`, `FailDate`, ...), with a clock that may
move between any two. `CircuitSpec` is the same object with each call one step,
by the operators of `CircuitOps` that `Supervisor` uses; `RefinesCircuitSpec`
joins the two through `committed`, the fields as the last returning call left
them. `log` is history: the failures themselves, to compare with the count, as
far back as the window reaches (`Since`).

`WorkerTimeline` adds one worker and the supervisor's decisions about it, with
the timestamps `Supervisor` abstracts from: `CountedFailures` is
`WorkerHandle::record_failure`, `Delay` the exponential backoff, `Silent` the
watchdog's threshold. `Joined`, the breaker's own steps, and `Decide` are
`handle_outcome`; `WatchdogTick`, the breaker's `tick` and `Ticked` are
`watchdog_tick`. `told` is what a subscriber of the worker events knows. There
are two clocks. The breaker and the backoff go by the monotonic one (`Instant`);
heartbeats and the failure count by the wall clock (`unix_nanos`), which
advances with it and may be set, forward or back but never before the epoch
(`WallClockSteps`; bound: once). A date of 0, which the code takes for "never",
is `Never`; that the clock is set to the epoch itself is left out. A duration is a number of clock units; section 3 gives the values of the instance,
chosen so that boundaries meet.

### HealthRegistry and HealthSpec

`report` is four steps: `Load` (the aggregate is read *before* the lock),
`Write` (the locked section, with the incremental rule), `EmitSubsystem`,
`EmitAggregate`. `told` is what a subscriber knows that applied every event in
order. Snapshots run under the read lock and see one state; `HealthSnapshot` and
`UnhealthySubsystems` are what a reader gets. `HealthSpec` is the promise: one
atomic step per report, the aggregate always the maximum.

### ShutdownSignal and Latch

One action per mutex operation of `signal` and of the two waits; parking
releases the mutex in the same step, as a condvar does, and `SpuriousWakeup`
wakes without cause. `Latch` is the promise: a one-way signal, waits that return
TRUE only after it and FALSE only before it.

### Kernel

Threads (`Runner`) call `boot` or `run`, again and again, on one kernel;
`Snapshotter`s call `snapshot`. The two mutexes are `subsLock`, held for a whole
phase, and `bookLock`, taken for each record. A lock that is taken and released
with nothing in between that waits is one step (`Record`, `ReadLoaded`). The
lifecycle's check-and-set is `Advance`: a refused transition makes the caller
return. Any hook may fail (`HookFails`: `Err` or a caught panic); a failed load
goes to `rollback`. The Exec phase ends with the signal (`ExecEnds`), then the
coordinator's call ends (`CoordinatorEnds`). Three things may come in between:
no runtime for the workers (`RuntimeFails`), a shutdown hook that panics
(`HookPanics`), both of which leave `run` with the kernel `Running`, and a sync
worker or a hook that never gives its thread back (`Hang`). History: `called`
counts the calls of each subsystem's hooks, `abandoned` is set when `run` is left
with the kernel `Running`. A snapshot reads the lifecycle first and the list
last, so the state in it may lag behind the list: `SnapshotCoherent` says what
holds between the two, not that the kernel was ever in the state shown. Not kept are the values the calls return and the subsystems' names. The list is
in boot order already: that is the builder's job.

### Builder

`build` is a sequential function; its checks are one action each, in the order
in which they can reject (`CheckName`, `CheckReserved`, `CheckDuplicate`,
`CheckMissing`). Then come its loops, one action a turn: `Seed` sets up the maps
of Kahn's algorithm, `Fill` the work list, `Pop` takes a name from it and
`Release` lowers the count of one of its dependents, in the order in which the
loop visits them; `Finish` finds everything sorted or not, and `Reorder` or
`Report` collects the names to return. The cursors are sets of what is yet to be
visited, `todo` for positions and `children` for entries of dependency lists,
of which each turn takes the first. A dependency list is a sequence, so that
repeated entries and self dependencies take the path they take in the code: the
count goes down once per entry and a dependent is queued whenever the count is
found at zero. The properties compare the outcome with definitions on the graph
itself: `DependsOn`, and `Unbootable`, the union of the sets of subsystems each
of which waits for another of the set. They do not mention the algorithm. The
result names the offending subsystem of an error; the second name of a missing
dependency is left out. `BoxedBuiltins` is the real table of built-ins.

### Coordinator and Drain

`shutdown` from its first lock to the report, with the clock as the number of
ticks left until the deadline. `Register` and `CancelToken` are other threads'
calls, and any number of tasks may call `shutdown`. `tokio::time::timeout`
polls the hook before it looks at the timer, so at the deadline a hook may
either return or time out. `early` and `ran` are history: the hooks registered
when the token was signalled, and the hooks started. Sleeping hooks that never
yield to the runtime, which no timeout can end, are not modelled.

`Drain` makes one of the hooks call `drain` on a `JoinSet`. The drain moves only
while the coordinator polls that hook and stays where it is for good when the
coordinator's timeout drops it. Its select is biased: the deadline is looked at
before a result is taken. Tasks end, panic or are aborted by a holder of their
`AbortHandle` at any time; one made by `spawn_blocking` is not reached by an
abort. Both phases count what they join, with the code's different answers to a
panic (drained in the first loop, aborted in the second). One clock drives both
deadlines.

### EventDispatcher, KernelEvents and LifecycleController

The two tables are under locks of their own and never held together, so that
`subscribe` is three steps (`SubscribeId`, `SubscribeRoute`, `SubscribeIndex`),
`unsubscribe` two, and an `emit` a copy and then one step per handler, which may
panic. A handler that calls back into the dispatcher is a client at that moment.
`known`, `left` and `removed` are history: what the calls were given and
answered.

`KernelEvents` holds the tables without state: the transition table, the phase
ordinals, and which topic every kind of event is routed to. The topics are pairs
of a family and a suffix.

`LifecycleController` is `transition()` on top of the dispatcher: `Transition`
is the check and set under the write lock; then come the emit (`Announce`, the
dispatcher's own steps, `Announced`), the gauge (`SetGauge`) and the counter
(`Count`), each with other threads in between. A controller without events or
metrics (`wired`) takes the shorter path. Consumers emit on the same dispatcher
(`Publish`). History: `audience` and `heard` of a call, `entered`, and `raced`,
whether the last transition was made while another was being announced.

### Daemon

Any number of processes of one service share the path of a PID file. `fs::write`
is two steps, the creation and the write, because a process may be killed in
between; `linked` are the processes whose open file is the one at the path, so
that a write to a file that has meanwhile been removed goes nowhere.
`KeepGuard` stores the guard, which drops a guard stored before. `RunReturns`
resets it, `DropAdapter` and `DaemonizeFails` drop the adapter. The removal
itself may fail, and the code discards the error (`RemoveFile`): in a directory
that is or has become read-only, or because a relative path no longer leads to
the file after a change of the working directory. `unremoved` is history, the
processes whose last removal failed. `file` is what the one path names; a
relative path that comes to name another file is such a failed removal. `Sigterm` only
ends a kernel whose Exec phase has spawned the listener (`EnterExec`); before
that it kills. `Kill` leaves everything as it is. A reused PID, which would make
a stale file name a stranger, is not modelled.

## 3. The runs

| Run | Instance | Shows |
|---|---|---|
| `supervisor` | 2 workers, each registered in any of 4 ways, 3 task slots, failures saturating at 2 | `AtMostOneTask`, `TaskMapExact`, `OpenMeansIdle`, `HandleMatchesTask`, `FailureEscalates` |
| `supervisor_live` | 2 workers, 2 slots, 2 registrations | `ShutdownCompletes`, `OutcomeHandled`, `OpenBreakerIsTried` |
| `timeline` | 1 worker under each of the 4 restart policies, a clock of 6 instants, the wall clock set at most once, threshold 2, windows 2 and 3, open duration 2, 2 retries | `BurstTrips`, refinement of `CircuitSpec`, `TrialWaitsOut`, `RetriesBounded`, `EventsTellAll`, `SilenceNoticed` |
| `health` | 3 subsystems, 1 reporter | `AggregateCallsForAttention`, `SubscribersUpToDate`, refinement of `HealthSpec` |
| `shutdown_signal` | 2 signallers, 2 waiters, 1 waiter with a deadline | `NoLostWakeup`, refinement of `Latch`, `SignalWakesAll`, `TimedWaitEnds` |
| `kernel` | 3 subsystems, 2 runners, 1 snapshotter | `LoadedOnLoaded`, `NothingLeftLoaded`, `SnapshotCoherent`, `HooksOnceInOrder`, `SignalEndsRun` |
| `builder` | the 7 built-ins and every graph over 3 subsystems with up to 2 dependencies each; up to 2 subsystems with reserved, repeated or missing names | `BootOrderSound`, `VerdictExact` |
| `coordinator` (module `Drain`) | 2 hooks, one of which drains 2 tasks, one of them blocking; 2 callers, a grace of 2 ticks, a drain's grace of 1 | `HooksRunOnce`, `ReportAddsUp`, `EarlyHooksReported`, `ShutdownEnds`, `DrainAddsUp` |
| `lifecycle` | 2 topics, 2 clients, 2 threads that transition and emit, 2 subscriptions, 2 transitions from Loading, with and without events and metrics | `TablesAgree`, `EmitReachesSubscribers`, `EntryIsHeard`, `CountersExact`, `GaugeTruthful` |
| `daemon` | 3 processes, each calls `daemonize` up to twice, every configuration | `StaleFileHasCause`, `RunnerOwnsFile` |
| `health_race`, `kernel_snapshot` | 2 reporters; 1 runner and 1 snapshotter | two disagreements of section 6 |

**Why these bounds are enough.**

* *Supervisor.* There is one task slot more than there are workers, so a second
  task of a worker would be seen. Two workers show one worker's backoff in the
  way of the other's outcome and an outcome charged to the wrong worker. The
  four registrations cover every restart policy, criticality and kind, with and
  without backoff, breaker and watchdog, in every pair, two equal ones included.
  The threshold 2 and the retry limit 2 both have a step below and a step at the
  limit. `MaxFailures` caps the handle's failure count by saturation, which
  loses nothing: the count is only compared with limits that do not exceed it.
  Workers and slots are symmetric; the run checks no liveness.
  `supervisor_live` uses no symmetry: an uncooperative async worker that backs
  off beside a `Critical` sync worker that watches its token, with breakers.
* *Health.* Three subsystems give a worst, a tie and a next worst.
* *Shutdown signal.* Two waiters without a deadline tell `notify_all` from
  `notify_one`; two signallers race on the mutex.
* *Kernel.* Three subsystems give a list with a first, a middle and a last. Two
  runners race on every transition, in any mix of `boot` and `run`. More
  snapshotters would only exclude one another on `bookLock`.
* *Builder.* Two entries in a list are what it takes to name a subsystem twice,
  and three subsystems give cycles of length one to three, something that hangs
  behind a cycle, and a diamond with the built-ins.
* *Coordinator and drain.* Two ticks let the deadline pass before, during and
  after any hook, and the drain's own deadline before, with or after it; the
  second caller races the first at each step. One task that an abort reaches and
  one that it does not show both ways to be counted.
* *Timeline.* The clock reaches past two of the breaker's windows, two open
  durations and one window of the handle, so that failures lie inside, at and
  outside each boundary, and a worker trips, is tried and trips again. `MaxTime`
  is the bound; every run of the code stops being looked at there. The wall
  clock is set once, to any instant of the instance.
* *Lifecycle.* Two clients can race on one identifier, two threads can overlap
  in every step of a transition, and one transition more follows. `MaxId` and
  `MaxTransitions` are the bounds; a run of the code uses up identifiers as well.
  From Loading the second transition can go to any phase from Exec on.
* *Daemon.* A process that was killed, one that runs and one that comes third
  meet on the path; a second `daemonize` is what drops a guard.

Deadlock is checked in every run but `kernel_snapshot`, where it is the subject,
`timeline`, whose clock ends, and `daemon`, whose launches do. `Finished` in
`Supervisor` is the state after `run` has returned.

The named assumptions (`SpecAssumption`, `CircuitAssumption`,
`TimelineAssumption`, `BuilderAssumption`, `NameAssumption`, `ThreadAssumption`, `SizeAssumption`,
`GraceAssumption`, `DrainAssumption`, `DispatcherAssumption`,
`LifecycleAssumption`, `ProcessAssumption`, `MaxDaemonizeAssumption`) are what
the modules assume of their constants; TLC evaluates them in these runs.

## 4. Fairness

* *Supervisor.* The runtime polls the loop, a handler that has begun runs on
  (`HandlerStep`: its steps wait for nothing), timers fire, queued tasks start,
  and aborted tasks are dropped: weak fairness. The join arm of each task and the
  tick that tries each open breaker are strongly fair, because backoff sleeps
  disable them again and again: the select is biased towards the tick, but
  outcomes are polled between two ticks, and ticks are periodic. A breaker's
  duration elapses. A worker body promises nothing, except that a *cooperative*
  one returns once its token is cancelled. The running tasks of a sync worker
  that is not cooperative may stay for ever, whatever the grace period:
  `ShutdownCompletes` is stated for sync workers that watch their token.
* *Shutdown signal.* A started call goes on, deadlines pass, and the mutex is
  not kept for ever from a thread that asks for it (strong fairness on locking).
  Nobody has to signal.
* *Kernel.* The subsystems' hooks return; running calls go on; both mutexes are
  granted to a thread that keeps asking. Nobody has to call, signal or cancel.
  Not assumed is that `run` gets past a mutex that is held for ever, past a
  worker or a shutdown hook that never gives its thread back, or past a hook's
  panic: these are the exceptions that `SignalEndsRun` names (`CircularWait`,
  `hung`, `abandoned`).
* *Coordinator.* A call that has begun is polled and the clock runs. No hook has
  to return, no drain has to get anywhere, and nobody has to call.
* *Timeline.* The loop runs and the watchdog ticks, because the biased select
  prefers the tick to an outcome. Neither the worker nor the clock has to do
  anything.
* *Builder, HealthRegistry, LifecycleController, Daemon.* Only safety is stated.

## 5. What is proved

Every module `*Proofs` defines an invariant (`IInv`, `LInv`, `FileInv`, ...), proves
that it holds initially and is kept by every step, with a lemma per action or
group of actions, and draws the properties from it. The constants are arbitrary
within their assumptions: any number of workers, threads, hooks, tasks,
processes, topics.

| Theorem | Statement | Assumes |
|---|---|---|
| `SupervisorProofs`: `TypeCorrect`, `OneTaskPerWorker`, `TaskMapCorrect`, `OpenBreakerContains`, `HandlesTruthful`, `FailuresEscalate` | types and the five invariants of run `supervisor` | `SpecAssumption` |
| `HealthRegistryProofs`: `AggregateExact`, `AttentionExact`, `EventsComplete`, `ImplementsHealthSpec` | the aggregate, what it means for a reader, the events and the refinement | `NameAssumption`, and that reports do not overlap (`OneReporter`) |
| `ProcessProofs`: `TypeCorrect`, `WakeupsKept`, `ImplementsLatch` | no lost wakeup and the refinement | `ThreadAssumption` |
| `KernelProofs`: `TypeCorrect`, `DependenciesLoaded`, `EverythingStopped`, `HooksOnce`, `SnapshotsCoherent` | types and the four invariants of run `kernel` | `SizeAssumption`, `ThreadAssumption` |
| `LifecycleProofs`: `TypesCorrect`, `TablesConsistent`, `EmitReaches`, `OneWins` | the two tables, the emits, and that of racing unsubscribes one wins | `DispatcherAssumption` |
| `LifecycleProofs`: `PhasesAdvance`, `PredicatesMatchTable`, `UnknownTopics` | facts about the tables: no legal transition goes back a phase, the predicates match the table, and exactly which events have an unknown topic, whatever names consumers give | |
| `LifecycleProofs`: `ControllerTypesCorrect`, `CountersAreExact`, `GaugeIsTruthful`, `EntriesHeard`, `DispatcherUnderController` | the controller's promises, and the dispatcher's with the controller as its emitter | `LifecycleAssumption`, `DispatcherAssumption` |
| `DrainProofs`: `TypesCorrect`, `StartedOnce`, `ReportExact`, `EarlyReported`, `ImplementsCoordinator`, `DrainExact` | the coordinator's invariants, that the composition with a drain implements the coordinator, and the drain's counts | `GraceAssumption`, `DrainAssumption` |
| `ProcessProofs`: `NoStaleFile`, `OwnFile` | the two invariants of run `daemon` | `ProcessAssumption`, `MaxDaemonizeAssumption` |
| `BuilderProofs`: `TypeCorrect`, `BootOrderProved`, `VerdictProved` | the sort is sound and the verdict exact, for configurations of any size | `BuilderAssumption` |
| `WorkerTimelineProofs`: `TimelineTyped`, `BurstsTrip`, `TrialsWait`, `RetriesKept`, `EventsTell`, `ImplementsCircuitSpec` | the invariants of run `timeline` and the refinement of the atomic breaker, for any durations, thresholds and policies | `CircuitAssumption`, `TimelineAssumption`: one caller of the breaker |

Why the invariants alone are not inductive:

* *Supervisor.* `LoopPosition` says which worker a handler is at and which it
  still has to spawn, `TaskPosition` that none of these has a task, except between
  its spawn and the end of `spawn_one`. That lasts through a backoff because an
  open breaker excludes a restart on its way (`OpenMeansIdle`), which in turn is
  what a half-open trial relies on: the tick that promotes a breaker finds its
  worker without a task. `TaskMapExact` is what makes `spawn_one_if_idle`'s look
  at the map a look at the JoinSet. `HandleMatchesTask` needs of `LoopPosition`
  that the handle still says `Starting` when the task enters the JoinSet and that
  all say `Stopping` during the drain. `FailureEscalates` needs that a worker
  without a breaker never looks as if one had tripped (`BreakerPosition`).
* *HealthRegistry.* The invariant adds, for the reporter in `write`, that its
  `prev` is still the aggregate. That is exactly what a second reporter breaks.
* *ShutdownSignal.* The mutex holder is known by its position; between the test
  of the flag and the park the flag is still down, because storing it takes the
  mutex (`TestStillHolds`).
* *Kernel.* At most one thread drives the lifecycle (`OneDriver`), since only
  one `Created -> Booting` can succeed; for that thread `Position` says at each
  program point which prefix of the list is booted, loaded or stopped, and that
  the two records are the same prefixes. `Resting` says what holds while nobody
  drives it, `Locks` who may hold a mutex, and `SnapshotsLag` how far a snapshot
  can be behind. `CallsTold` reads off what has become of a subsystem how often
  each of its hooks was called, from which `HooksOnce` follows. Proved this way,
  the safety properties do not rest on the mutexes alone: the check-and-set of
  the lifecycle is what excludes a second walk.
* *EventDispatcher.* An identifier is in exactly one stage: not handed out, on
  its way into the tables, in both, on its way out, or gone; each stage says
  where it may be found, and a call under way owns its stage. What an emit has
  copied is compared with the routes at the time of the copy.
* *LifecycleController.* `LInv` adds to the dispatcher's invariant that the phase
  of a call's target is at most the current one (`PhasesAdvance` is why), and
  counts the calls that have yet to count; the step lemmas of the dispatcher are
  reused through `DispatcherUnderController`.
* *Coordinator.* One call runs (`OneRuns`), all others rest; `Started` says that
  the hooks it started are a prefix of those it took, `Taken` that those are
  disjoint from the list and from what is yet to be registered, `Reported` that
  the report partitions what the loop has gone through. A step of the
  composition is a step of the coordinator or none, so that these carry over.
* *Daemon.* Whoever the file names is about to hold the guard, holds it, was
  killed or failed to remove the file (`Answerable`); `Keeps` says, for a process that is alone,
  where in its life it is and what the path holds then.
* *Builder.* `Counts` says that an in-degree is the number of entries of the list
  that still pend, those whose name is not sorted or whose release is still to
  come; `Lines` that what is sorted or queued is exactly what has no pending
  entry, and nothing twice. From these `BootsInOrder` follows at each `Pop`. The
  other half of the verdict needs `AvoidsStuck`: no subsystem of a set whose
  members wait for one another is ever sorted, because the first one to be would
  have had all its entries released. When the work list is empty the rest is such
  a set itself, which makes it the largest (`Unbootable`), so that the report is
  exact. Both are statements about what `build` returns; that its loops end is
  not stated.
* *Timeline.* A call of the breaker is cut at each access, so `Calls` says what it
  has done to the fields since `committed`: that is what makes one step of the
  atomic breaker of its last access and none of the others
  (`CircuitStepMaps`). `Bursts` keeps the count at least as long as `log`, which
  is why one date is enough: when a failure is too late for the date, it is too
  late for everything logged (`SinceShorter`). The bound on a Closed breaker's
  count then bounds the burst. `Trips` relates the state to the date through every
  cut, and `Turns` to what the loop is doing: a worker runs, or is about to be
  respawned, only while the breaker is not Open. So no restart from a backoff
  meets an open breaker, and `TrialWaitsOut` rests on the `HalfOpen` case of
  `Trips` alone. `Answers` ties what was read before a call to what it answered;
  without it the comparison in `advance_circuit` would say nothing (`Told`).
  `Crashes` is `Bursts` again for the handle's count and window, while nobody has
  set the wall clock: only then do the two clocks agree on a window.
  `RetriesBounded` is inductive with it: an exhausted worker's breaker is the only
  thing that gives it a task, and the task keeps the breaker `HalfOpen` until its
  outcome is handled.

**Only model-checked:** all liveness, namely `ShutdownCompletes`,
`OutcomeHandled`, `OpenBreakerIsTried`, `SilenceNoticed`, `SignalWakesAll`,
`TimedWaitEnds`, `SignalEndsRun` and `ShutdownEnds` (fairness and `ENABLED` are
out of the prover's reach). Every other property of a passing run is a theorem.
Nothing is proved about data by induction, and no module uses a `RECURSIVE`
operator; that the backoff's power of two is a number at all is taken from the
size of a power set (`DelayCapped`).

## 6. Where the code and its documentation disagree

The first two are runs that state the documented behaviour and find it violated;
`PROJECT.json` quotes the documentation.

1. `health_race`: two overlapping reports leave the aggregate better than the
   worst status, because the old aggregate is read before the lock.
2. `kernel_snapshot`: `snapshot` takes the two mutexes in the opposite order to
   a boot or load phase; both wait for ever, and a signal is never observed.

Also met while modelling, and modelled as the code has it, but without a run of
their own:

* a shutdown hook that panics unwinds through `run`: no further hook is called, no
  subsystem is shut down and the kernel stays `Running` (`HookPanics`), where
  `hook.rs:9-10` says that hook failures do not stop the sequence and that the
  kernel always reaches `Stopped`. The same comes of a runtime that cannot be
  built (`RuntimeFails`, `core.rs:333`). `SignalEndsRun` excepts both
  (`abandoned`);
* the half-open trial asks no restart policy (`supervisor.rs:293`): a worker
  whose window is exhausted runs again, where `restart.rs:23-24` says that it
  stops, and so does one registered with `Never`, where `restart.rs:18` says that
  it stops permanently. `RetriesBounded` excepts the trial;
* cancelling the token from `shutdown_token` does not end the Exec phase, where
  `core.rs:167` says that it triggers the same sequence as the signal;
* `Supervisor::run` does not return when every worker has stopped for good, as
  `supervisor.rs:193` and `core.rs:432` have it;
* a sync worker that ignores its token keeps `shutdown_all` waiting beyond the
  grace period, although its comment speaks of aborting stragglers
  (`supervisor.rs:573`), and with it `run`, which `handles.rs:179-183` has return
  after the signal (`Hang`);
* a worker that the watchdog cancels and that returns `Ok` is a completion,
  where the comment at `supervisor.rs:251` calls it a failure;
* the `window` of `MaxRetries` is never read: the supervisor counts with a
  window of its own, by the gap between two failures, and grants `retries - 1`
  restarts (`restart.rs:23`, `handle.rs:88`); since the gap is measured on the
  wall clock, setting the clock forward grants more, and setting it back counts
  failures of any age. `RetriesBounded` is what holds;
* `status.rs:4-5` and `status.rs:15-17` have a subsystem that has not reported
  yet count as `Unknown`, the worst status, and drag the aggregate down. The
  registry has no entry for it, and the aggregate is `Healthy` until the first
  report (`registry.rs:51`, and `Init` of `HealthRegistry`);
* `apply_criticality` reports health under the worker's own name
  (`supervisor.rs:562`), which is in no list of subsystems: the event goes to the
  topic for unknown names (`UnknownTopics`);
* the first restart waits for twice the base of an exponential backoff, since
  the first failure is attempt 1 (`backoff.rs:47`);
* two callers of one breaker may lose a failure, or leave it Open without a
  date, although the test at `circuit.rs:372` counts on the former not to
  happen; the supervisor is one caller, for which `RefinesCircuitSpec` holds;
* a gauge that overlapping transitions leave behind stays wrong until the next
  one (`controller.rs:207`);
* `state.rs:20` calls `Failed` reachable from every non-terminal state, but
  `Created -> Failed` is illegal (`PredicatesMatchTable` leaves `Created` out);
* all custom events go to the one topic for them, and the health events of
  consumers' subsystems to the one for unknown names;
* an error of removing the PID file is discarded (`proc_daemon.rs:271`), where
  `proc_daemon.rs:233` has `run` remove it on exit;
* `drain` is described as used by the coordinator (`drain.rs:3`), which does not
  call it; one that a hook calls never reaches its abort phase when the
  coordinator's deadline comes first;
* when processes overlap, the one that ends first removes the other's PID file,
  and a second `daemonize` removes the file that it has just written
  (`proc_daemon.rs:266`);
* hooks run after the supervisor has drained its workers, not before
  (`shutdown/hook.rs:3`);
* the cycle that `build` reports also lists what merely depends on one
  (`builder.rs:383`), and a consumer subsystem without dependencies boots before
  the built-ins that have some.

## 7. Not modelled

* Error classification, metrics backends, health checks and primitives have no
  protocol of their own: a swappable pointer, atomic counters, a trait, a
  set-once cell over the standard library. What the rest uses of them (severity,
  metric names, the gauge and the counter of the lifecycle) is in `KernelEvents`
  and `LifecycleController`.
* In the supervisor: metrics, the text of failures, and registration after `run`,
  which the kernel cannot do.
* In the kernel: the values its calls return. Of the Exec phase `Kernel` has only
  how it ends or fails to; `Supervisor` and `Coordinator` are its inside, and
  what makes their work end is `ShutdownCompletes` and `ShutdownEnds`. A composition of all
  three would be the next module: its state space is the product of the three,
  and it would restate `SignalEndsRun` on top of `ShutdownCompletes` and
  `ShutdownEnds`.
* The breaker with several callers: the code allows it and nothing in the crate
  does it; section 6 says what goes wrong.
* The file system beyond the PID file's path, reuse of PIDs, and the OS signal
  handlers beyond what they do to a process.

Worth proving next: that `WorkerTimeline`, with its clock forgotten, takes only
steps that `Supervisor` allows for one worker, which would carry `Supervisor`'s
free choices about time over to real timestamps; and the safety half of the
liveness properties, such as a bound that each step of a shutdown lowers.
