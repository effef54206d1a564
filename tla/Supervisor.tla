----------------------------- MODULE Supervisor -----------------------------
(***************************************************************************)
(* The worker supervisor (src/worker/supervisor.rs): one task that drives  *)
(* a select loop over the cancel token, the watchdog tick and the JoinSet  *)
(* of worker tasks.  Worker bodies, the kernel's shutdown watcher and the  *)
(* consumer's handles run concurrently with it.                            *)
(*                                                                         *)
(* The backoff sleep is the only await of a handler.  The cells a handler  *)
(* writes for other threads to read (a handle's state, the shutdown signal,*)
(* a task in the JoinSet) are written one per action, in the code's order; *)
(* what only the loop reads changes with the write it precedes.            *)
(* The clock is abstracted: a failure is inside or outside its window, a   *)
(* breaker's open duration has elapsed or not, a heartbeat is fresh or     *)
(* silent for more than twice its interval.  Labels that only decorate     *)
(* events (attempt numbers, failure texts) are left out.                   *)
(***************************************************************************)
EXTENDS Naturals, CircuitOps

CONSTANTS
    Worker,      \* the registered workers
    TaskId,      \* slots of the JoinSet
    WorkerSpec,  \* the WorkerSpecs a worker may be registered with
    Cancellable, \* workers whose WorkerHandle::cancel a consumer may call
    NoWorker,    \* "no entry" in task_to_worker and pending
    MaxFailures  \* the failure count saturates here, at or above every retry limit

VARIABLES
    spec,           \* registered.spec, fixed at registration
    sup,            \* where run() is
    pending,        \* the worker a handler is at, when it is at one
    spawning,       \* the workers a handler still has to spawn
    silent,         \* the heartbeat timeouts of the tick being handled
    owner,          \* the worker id a task's closure returns with its outcome
    task,           \* the state of each JoinSet slot
    task_to_worker, \* the supervisor's map from task id to worker id
    cancel_token,   \* the supervisor's token
    child,          \* each worker's own child token
    signalled,      \* the kernel's ShutdownInner
    state,          \* WorkerHandle state cell
    failures,       \* failures_in_window of each handle (0: no failure yet)
    circuit,        \* each worker's breaker
    heartbeat,      \* age of each worker's last heartbeat
    health          \* what apply_criticality last reported for the worker

vars == <<spec, sup, pending, spawning, silent, owner, task, task_to_worker, cancel_token,
          child, signalled, state, failures, circuit, heartbeat, health>>

loopVars  == <<sup, pending, spawning, silent>>
taskVars  == <<owner, task, task_to_worker>>
tokenVars == <<cancel_token, child, signalled>>
workVars  == <<failures, circuit, health>>

Kinds         == {"Sync", "Async"}
RestartPolicy == {"Never", "OnFailure", "Always", "MaxRetries"}
Criticality   == {"Background", "Optional", "Essential", "Critical"}
WorkerState   == {"Created", "Starting", "Running", "Restarting", "Stopping", "Stopped"}
Outcome       == {"Completed", "Failed", "Panicked"}
Joinable      == Outcome \cup {"Cancelled"}
TaskState     == {"free", "queued", "running"} \cup Joinable
Deciding      == {"Restart", "Stop", "GiveUp"}
LoopState     == {"Start", "Select", "Escalate", "Backoff", "Spawn", "Starting", "Spawned",
                  "Stopping", "Draining", "Aborting", "Closing", "Returned"} \cup Deciding

(* A WorkerSpec with the worker it is for: its kind, and whether the body    *)
(* watches its token.  delayed: the backoff is longer than zero; watched: it *)
(* has a timeout.                                                            *)
Registration ==
    [kind : Kinds, restart : RestartPolicy, retries : 0..MaxFailures,
     delayed : BOOLEAN, criticality : Criticality, breaker : BOOLEAN,
     threshold : Nat, watched : BOOLEAN, cooperative : BOOLEAN]

ASSUME SpecAssumption ==
    /\ NoWorker \notin Worker
    /\ Cancellable \subseteq Worker
    /\ MaxFailures \in Nat \ {0}
    /\ WorkerSpec \subseteq Registration

-----------------------------------------------------------------------------
(* Reading the state *)

Free      == {t \in TaskId : task[t] = "free"}
Live      == TaskId \ Free
TasksOf(w) == {t \in Live : owner[t] = w}

(* A child token is cancelled on its own or through its parent *)
TokenCancelled(w) == cancel_token \/ child[w]

(* RestartPolicy::should_restart *)
ShouldRestart(s, hasFailed, inWindow) ==
    CASE s.restart = "Never"      -> FALSE
      [] s.restart = "OnFailure"  -> hasFailed
      [] s.restart = "Always"     -> TRUE
      [] s.restart = "MaxRetries" -> hasFailed /\ inWindow < s.retries

(* WorkerHandle::record_failure, saturating: the count is only ever compared *)
(* with retry limits, none of which exceeds MaxFailures                      *)
HandleFailures(n, inWindow) ==
    IF n = 0 \/ ~inWindow THEN 1
    ELSE IF n < MaxFailures THEN n + 1 ELSE n

-----------------------------------------------------------------------------
(* Effects shared by the handlers *)

(* Mutant: the JoinError arm forgets task_to_worker.remove *)
ReapKeepsEntry(t) ==
    /\ owner' = [owner EXCEPT ![t] = NoWorker]
    /\ task' = [task EXCEPT ![t] = "free"]
    /\ UNCHANGED task_to_worker

(* JoinSet::join_next_with_id removes the task, task_to_worker.remove follows *)
Reap(t) ==
    /\ owner' = [owner EXCEPT ![t] = NoWorker]
    /\ task' = [task EXCEPT ![t] = "free"]
    /\ task_to_worker' = [task_to_worker EXCEPT ![t] = NoWorker]

(* Mutant: the Essential arm falls through to the Optional one *)
ApplyCriticalityTooMild(w) ==
    /\ signalled' = (signalled \/ spec[w].criticality = "Critical")
    /\ health' = [health EXCEPT ![w] =
                    IF spec[w].criticality \in {"Essential", "Optional"}
                    THEN "Degraded" ELSE @]

(* apply_criticality *)
ApplyCriticality(w) ==
    /\ signalled' = (signalled \/ spec[w].criticality = "Critical")
    /\ health' = [health EXCEPT ![w] =
                    CASE spec[w].criticality = "Essential" -> "Unhealthy"
                      [] spec[w].criticality = "Optional"  -> "Degraded"
                      [] OTHER -> @]

-----------------------------------------------------------------------------
(* run(): spawn every registered worker, then loop *)

RunStart ==
    /\ sup = "Start"
    /\ sup' = "Spawn" /\ spawning' = Worker
    /\ UNCHANGED <<spec, pending, silent, state, heartbeat, taskVars, tokenVars, workVars>>

(* Mutant: the handle says Running before there is a task *)
RunningBeforeSpawn(w) ==
    /\ sup = "Spawn" /\ w \in spawning
    /\ sup' = "Starting" /\ pending' = w /\ spawning' = spawning \ {w}
    /\ state' = [state EXCEPT ![w] = "Running"]
    /\ UNCHANGED <<spec, silent, heartbeat, taskVars, tokenVars, workVars>>

(* spawn_one, for one worker after the other: the handle says Starting, the  *)
(* task enters the JoinSet with an entry in task_to_worker, the handle says  *)
(* Running                                                                   *)
SpawnOne(w) ==
    /\ sup = "Spawn" /\ w \in spawning
    /\ sup' = "Starting" /\ pending' = w /\ spawning' = spawning \ {w}
    /\ state' = [state EXCEPT ![w] = "Starting"]
    /\ UNCHANGED <<spec, silent, heartbeat, taskVars, tokenVars, workVars>>

SpawnTask(t) ==
    /\ sup = "Starting" /\ t \in Free
    /\ sup' = "Spawned"
    /\ owner' = [owner EXCEPT ![t] = pending]
    /\ task' = [task EXCEPT ![t] = "queued"]
    /\ task_to_worker' = [task_to_worker EXCEPT ![t] = pending]
    /\ UNCHANGED <<spec, pending, spawning, silent, state, heartbeat, tokenVars, workVars>>

SpawnEnd ==
    /\ sup = "Spawned"
    /\ sup' = "Spawn" /\ pending' = NoWorker
    /\ state' = [state EXCEPT ![pending] = "Running"]
    /\ UNCHANGED <<spec, spawning, silent, heartbeat, taskVars, tokenVars, workVars>>

(* Nobody is left to spawn: the handler ends.  The watchdog tick's last act  *)
(* is to cancel the tokens of the workers it found silent.                   *)
SpawnsDone ==
    /\ sup = "Spawn" /\ spawning = {}
    /\ sup' = "Select" /\ silent' = {}
    /\ child' = [w \in Worker |-> child[w] \/ w \in silent]
    /\ UNCHANGED <<spec, pending, spawning, cancel_token, signalled, state, heartbeat,
                   taskVars, workVars>>

(* The biased select polls the token first: the other arms need it unset.    *)
(* A token set between the poll and an arm's handler commutes with the poll, *)
(* for no handler reads it before its sleep, and the same holds of the inner *)
(* select that waits when the JoinSet is empty.                              *)
Polling == sup = "Select" /\ ~cancel_token

(* advance_circuit: the breaker after the outcome *)
AdvanceCircuit(w, hasFailed, inWindow) ==
    IF ~spec[w].breaker THEN circuit[w]
    ELSE IF hasFailed
         THEN RecordFailure(circuit[w], inWindow, spec[w].threshold)
         ELSE RecordSuccess(circuit[w])

(* Mutant: an open breaker does not suppress the restart *)
RestartByPolicyOnly(w, b, hasFailed, attempts) ==
    ShouldRestart(spec[w], hasFailed, attempts)

(* The policy asks for it and the breaker, if there is one, does not forbid it *)
RestartAllowed(w, b, hasFailed, attempts) ==
    /\ ShouldRestart(spec[w], hasFailed, attempts)
    /\ ~(spec[w].breaker /\ b.state = "Open")

(* handle_outcome up to maybe_restart's verdict, for task t of worker w.  The *)
(* breaker's window and the handle's window are different durations.         *)
Judge(w, hasFailed, inCircuitWindow, inHandleWindow) ==
    LET b        == AdvanceCircuit(w, hasFailed, inCircuitWindow)
        n        == HandleFailures(failures[w], inHandleWindow)
        attempts == IF hasFailed THEN n ELSE 0
    IN  /\ circuit' = [circuit EXCEPT ![w] = b]
        /\ failures' = [failures EXCEPT ![w] = IF hasFailed THEN n ELSE @]
        /\ pending' = w
        /\ sup' = IF RestartAllowed(w, b, hasFailed, attempts) THEN "Restart"
                  ELSE IF hasFailed THEN "GiveUp" ELSE "Stop"

(* The join arm.  A sync body's panic is caught inside the task; an async    *)
(* body's panic arrives as a JoinError and is attributed through             *)
(* task_to_worker, or dropped when the map has no entry.                     *)
JoinArm(t) ==
    /\ Polling
    /\ task[t] \in Outcome
    /\ LET w == IF task[t] = "Panicked" /\ spec[owner[t]].kind = "Async"
                THEN task_to_worker[t] ELSE owner[t]
       IN  IF w = NoWorker
           THEN UNCHANGED <<sup, pending, failures, circuit>>
           ELSE \E inC, inH \in BOOLEAN : Judge(w, task[t] # "Completed", inC, inH)
    /\ Reap(t)
    /\ UNCHANGED <<spec, spawning, silent, state, heartbeat, health, tokenVars>>

(* maybe_restart's verdict is yes *)
SetRestarting ==
    /\ sup = "Restart"
    /\ state' = [state EXCEPT ![pending] = "Restarting"]
    /\ IF spec[pending].delayed
       THEN sup' = "Backoff" /\ UNCHANGED <<pending, spawning>>
       ELSE sup' = "Spawn" /\ spawning' = {pending} /\ pending' = NoWorker
    /\ UNCHANGED <<spec, silent, heartbeat, taskVars, tokenVars, workVars>>

(* The verdict is no: after a failure the worker's criticality decides who   *)
(* is told, once the handle says Stopped                                     *)
SetStopped ==
    /\ sup \in {"Stop", "GiveUp"}
    /\ state' = [state EXCEPT ![pending] = "Stopped"]
    /\ IF sup = "GiveUp" THEN sup' = "Escalate" /\ UNCHANGED pending
       ELSE sup' = "Select" /\ pending' = NoWorker
    /\ UNCHANGED <<spec, spawning, silent, heartbeat, taskVars, tokenVars, workVars>>

Escalate ==
    /\ sup = "Escalate"
    /\ ApplyCriticality(pending)
    /\ sup' = "Select" /\ pending' = NoWorker
    /\ UNCHANGED <<spec, spawning, silent, cancel_token, child, state, failures, circuit,
                   heartbeat, taskVars>>

(* Mutant: the delay overflows and the sleep never ends *)
BackoffNeverElapses == sup = "Backoff" /\ FALSE /\ UNCHANGED vars

(* The select around the backoff sleep is not biased: when the token fires   *)
(* together with the timer either branch may run                             *)
BackoffElapsed ==
    /\ sup = "Backoff"
    /\ sup' = "Spawn" /\ spawning' = {pending} /\ pending' = NoWorker
    /\ UNCHANGED <<spec, silent, state, heartbeat, taskVars, tokenVars, workVars>>

BackoffCancelled ==
    /\ sup = "Backoff" /\ cancel_token
    /\ sup' = "Select" /\ pending' = NoWorker
    /\ UNCHANGED <<spec, spawning, silent, state, heartbeat, taskVars, tokenVars, workVars>>

(* watchdog_tick: the timeouts are computed first; then every open breaker   *)
(* whose duration elapsed goes half-open and an idle worker gets a trial     *)
(* run; then the silent workers' tokens are cancelled                        *)
SilentWorkers == {w \in Worker : spec[w].watched /\ heartbeat[w] = "silent"}

(* spawn_one_if_idle *)
Idle(w) == \A t \in TaskId : task_to_worker[t] # w

(* Mutant: a silent worker is respawned without waiting for its task *)
WatchdogRespawns(elapsed) ==
    /\ Polling
    /\ circuit' = [w \in Worker |-> Tick(circuit[w], w \in elapsed)]
    /\ sup' = "Spawn" /\ spawning' = SilentWorkers
    /\ UNCHANGED <<spec, pending, silent, state, failures, heartbeat, health, taskVars,
                   tokenVars>>

WatchdogTick(elapsed) ==
    LET after    == [w \in Worker |-> Tick(circuit[w], w \in elapsed)]
        promoted == {w \in Worker : circuit[w].state = "Open" /\ after[w].state = "HalfOpen"}
    IN  /\ Polling
        /\ circuit' = after
        /\ sup' = "Spawn" /\ spawning' = {w \in promoted : Idle(w)}
        /\ silent' = SilentWorkers
        /\ UNCHANGED <<spec, pending, state, failures, heartbeat, health, taskVars,
                       tokenVars>>

TickArm == \E elapsed \in SUBSET Worker : WatchdogTick(elapsed)

-----------------------------------------------------------------------------
(* shutdown_all *)

CancelArm ==
    /\ sup = "Select" /\ cancel_token
    /\ sup' = "Stopping"
    /\ UNCHANGED <<spec, pending, spawning, silent, state, heartbeat, taskVars, tokenVars,
                   workVars>>

(* One handle after the other says Stopping; its token is already cancelled  *)
(* through the supervisor's                                                  *)
StopOne(w) ==
    /\ sup = "Stopping" /\ state[w] # "Stopping"
    /\ state' = [state EXCEPT ![w] = "Stopping"]
    /\ child' = [child EXCEPT ![w] = TRUE]
    /\ UNCHANGED <<spec, loopVars, cancel_token, signalled, heartbeat, taskVars, workVars>>

AllStopping ==
    /\ sup = "Stopping" /\ \A w \in Worker : state[w] = "Stopping"
    /\ sup' = "Draining"
    /\ UNCHANGED <<spec, pending, spawning, silent, state, heartbeat, taskVars, tokenVars,
                   workVars>>

DrainJoin(t) ==
    /\ sup \in {"Draining", "Aborting"}
    /\ task[t] \in Joinable
    /\ Reap(t)
    /\ UNCHANGED <<spec, loopVars, state, heartbeat, tokenVars, workVars>>

(* Mutant: the drain waits without a deadline *)
GraceUnlimited == sup = "Draining" /\ FALSE /\ UNCHANGED vars

(* SHUTDOWN_GRACE expires with tasks left: abort_all *)
GraceExpired ==
    /\ sup = "Draining" /\ Live # {}
    /\ sup' = "Aborting"
    /\ UNCHANGED <<spec, pending, spawning, silent, state, heartbeat, taskVars, tokenVars,
                   workVars>>

DrainDone ==
    /\ sup \in {"Draining", "Aborting"} /\ Live = {}
    /\ sup' = "Closing"
    /\ UNCHANGED <<spec, pending, spawning, silent, state, heartbeat, taskVars, tokenVars,
                   workVars>>

CloseOne(w) ==
    /\ sup = "Closing" /\ state[w] # "Stopped"
    /\ state' = [state EXCEPT ![w] = "Stopped"]
    /\ UNCHANGED <<spec, loopVars, heartbeat, taskVars, tokenVars, workVars>>

AllStopped ==
    /\ sup = "Closing" /\ \A w \in Worker : state[w] = "Stopped"
    /\ sup' = "Returned"
    /\ UNCHANGED <<spec, pending, spawning, silent, state, heartbeat, taskVars, tokenVars,
                   workVars>>

-----------------------------------------------------------------------------
(* Worker tasks *)

SetTask(t, st) ==
    /\ task' = [task EXCEPT ![t] = st]
    /\ UNCHANGED <<spec, loopVars, owner, task_to_worker, state, tokenVars, workVars>>

TaskStart(t) ==
    /\ task[t] = "queued"
    /\ SetTask(t, "running")
    /\ UNCHANGED heartbeat

TaskExit(t) ==
    /\ task[t] = "running"
    /\ \E out \in Outcome : SetTask(t, out)
    /\ UNCHANGED heartbeat

(* An aborted task ends as cancelled at its next poll.  A blocking task is    *)
(* only aborted while it is still queued: once it runs, abort has no effect.  *)
TaskAborted(t) ==
    /\ sup = "Aborting"
    /\ \/ task[t] = "queued"
       \/ task[t] = "running" /\ spec[owner[t]].kind = "Async"
    /\ SetTask(t, "Cancelled")
    /\ UNCHANGED heartbeat

(* WorkerContext::heartbeat; the cell is only read for watched workers *)
Heartbeat(t) ==
    /\ task[t] = "running"
    /\ spec[owner[t]].watched
    /\ heartbeat' = [heartbeat EXCEPT ![owner[t]] = "fresh"]
    /\ UNCHANGED <<spec, loopVars, state, taskVars, tokenVars, workVars>>

(* Time passes: more than 2 x heartbeat_interval since the last heartbeat.    *)
(* The cell keeps its value when the run that wrote it ends.                  *)
GoesSilent(w) ==
    /\ heartbeat[w] = "fresh"
    /\ heartbeat' = [heartbeat EXCEPT ![w] = "silent"]
    /\ UNCHANGED <<spec, loopVars, state, taskVars, tokenVars, workVars>>

-----------------------------------------------------------------------------
(* The rest of the process *)

(* WorkerHandle::cancel by a consumer *)
HandleCancel(w) ==
    /\ w \in Cancellable /\ ~child[w]
    /\ child' = [child EXCEPT ![w] = TRUE]
    /\ UNCHANGED <<spec, loopVars, cancel_token, signalled, state, heartbeat, taskVars,
                   workVars>>

(* Kernel::shutdown, ShutdownHandle::signal, the OS signal handler *)
ShutdownSignal ==
    /\ ~signalled
    /\ signalled' = TRUE
    /\ UNCHANGED <<spec, loopVars, cancel_token, child, state, heartbeat, taskVars,
                   workVars>>

(* run_supervisor's blocking watcher *)
Watcher ==
    /\ signalled /\ ~cancel_token
    /\ cancel_token' = TRUE
    /\ UNCHANGED <<spec, loopVars, child, signalled, state, heartbeat, taskVars, workVars>>

(* run() returned and no task is left *)
Finished == sup = "Returned" /\ UNCHANGED vars

-----------------------------------------------------------------------------
(* register_inner for every worker *)
Init ==
    /\ spec \in [Worker -> WorkerSpec]
    /\ sup = "Start"
    /\ pending = NoWorker
    /\ spawning = {}
    /\ silent = {}
    /\ owner = [t \in TaskId |-> NoWorker]
    /\ task = [t \in TaskId |-> "free"]
    /\ task_to_worker = [t \in TaskId |-> NoWorker]
    /\ cancel_token = FALSE
    /\ child = [w \in Worker |-> FALSE]
    /\ signalled = FALSE
    /\ state = [w \in Worker |-> "Created"]
    /\ failures = [w \in Worker |-> 0]
    /\ circuit = [w \in Worker |-> NewBreaker]
    /\ heartbeat = [w \in Worker |-> "never"]
    /\ health = [w \in Worker |-> "None"]

(* The steps of a handler that nothing can hold up *)
HandlerStep ==
    \/ \E w \in Worker : SpawnOne(w) \/ StopOne(w) \/ CloseOne(w)
    \/ \E t \in TaskId : SpawnTask(t)
    \/ SpawnEnd
    \/ SpawnsDone
    \/ SetRestarting
    \/ SetStopped
    \/ Escalate
    \/ AllStopping
    \/ AllStopped

Loop ==
    \/ RunStart
    \/ HandlerStep
    \/ CancelArm
    \/ TickArm
    \/ \E t \in TaskId : JoinArm(t)
    \/ BackoffElapsed
    \/ BackoffCancelled
    \/ \E t \in TaskId : DrainJoin(t)
    \/ GraceExpired
    \/ DrainDone

Tasks ==
    \E t \in TaskId : TaskStart(t) \/ TaskExit(t) \/ TaskAborted(t) \/ Heartbeat(t)

Others ==
    \/ \E w \in Worker : GoesSilent(w) \/ HandleCancel(w)
    \/ ShutdownSignal
    \/ Watcher

Next == Loop \/ Tasks \/ Others \/ Finished

Spec == Init /\ [][Next]_vars

-----------------------------------------------------------------------------
(* Fairness.  The runtime polls the supervisor's task, a handler runs on,    *)
(* timers fire, a queued task is started, an aborted one is dropped.  The    *)
(* loop comes back to the select, where a due tick is polled before the      *)
(* JoinSet and an outcome between two ticks: both arms are taken when they   *)
(* keep coming up.  Of the worker bodies only the cooperative ones promise   *)
(* anything, and only once their token is cancelled.                         *)

CooperativeExit(t) ==
    /\ task[t] = "running"
    /\ spec[owner[t]].cooperative /\ TokenCancelled(owner[t])
    /\ TaskExit(t)

TrialTick(w) == \E elapsed \in SUBSET Worker : w \in elapsed /\ WatchdogTick(elapsed)

Fairness ==
    /\ WF_vars(RunStart)
    /\ WF_vars(HandlerStep)
    /\ WF_vars(CancelArm)
    /\ WF_vars(BackoffElapsed \/ BackoffCancelled)
    /\ WF_vars(GraceExpired)
    /\ WF_vars(DrainDone)
    /\ WF_vars(Watcher)
    /\ \A t \in TaskId : /\ WF_vars(TaskStart(t)) /\ WF_vars(TaskAborted(t))
                         /\ WF_vars(CooperativeExit(t)) /\ WF_vars(DrainJoin(t))
                         /\ SF_vars(JoinArm(t))
    /\ \A w \in Worker : SF_vars(TrialTick(w))

FairSpec == Spec /\ Fairness

-----------------------------------------------------------------------------
(* Properties *)

TypeOK ==
    /\ spec \in [Worker -> WorkerSpec]
    /\ sup \in LoopState
    /\ pending \in Worker \cup {NoWorker}
    /\ spawning \in SUBSET Worker
    /\ silent \in SUBSET Worker
    /\ owner \in [TaskId -> Worker \cup {NoWorker}]
    /\ task \in [TaskId -> TaskState]
    /\ task_to_worker \in [TaskId -> Worker \cup {NoWorker}]
    /\ cancel_token \in BOOLEAN
    /\ child \in [Worker -> BOOLEAN]
    /\ signalled \in BOOLEAN
    /\ state \in [Worker -> WorkerState]
    /\ failures \in [Worker -> 0..MaxFailures]
    /\ circuit \in [Worker -> Breaker]
    /\ heartbeat \in [Worker -> {"never", "fresh", "silent"}]
    /\ health \in [Worker -> {"None", "Degraded", "Unhealthy"}]

(* A worker never has two tasks in the JoinSet: restarts, half-open trials   *)
(* and the first spawn never overlap, although three places spawn and only   *)
(* one of them looks whether a task is in flight.                            *)
AtMostOneTask ==
    \A t, u \in Live : owner[t] = owner[u] => t = u

(* task_to_worker holds exactly the tasks of the JoinSet, each with its own  *)
(* worker: no async panic is dropped or charged to another worker, and no    *)
(* stale entry keeps a half-open trial from being spawned.                   *)
TaskMapExact ==
    \A t \in TaskId :
        /\ task_to_worker[t] = owner[t]
        /\ task[t] = "free" <=> owner[t] = NoWorker

(* The loop is about to spawn a task of the worker.                          *)
AboutToRun(w) ==
    \/ w \in spawning
    \/ pending = w /\ sup \in {"Restart", "Backoff", "Starting", "Spawned"}

(* While a worker's breaker is open none of its tasks exists, started or     *)
(* queued, and the loop is not about to spawn one: neither a restart of it   *)
(* that was decided, sleeps or has begun, nor a trial that waits its turn.   *)
OpenMeansIdle ==
    \A w \in Worker : circuit[w].state = "Open" => TasksOf(w) = {} /\ ~AboutToRun(w)

(* What any thread may conclude from a WorkerHandle's state, at any moment.  *)
(* A worker with a task, finished or not, reports Starting, Running or       *)
(* Stopping, never Created, Restarting or Stopped.  Running means that a     *)
(* task exists or that its outcome is just being handled.  Starting lasts no *)
(* longer than its spawn, and Restarting no longer than the restart that was *)
(* decided, unless the supervisor is told to stop.                           *)
HandleMatchesTask ==
    \A w \in Worker :
        /\ TasksOf(w) # {} => state[w] \in {"Starting", "Running", "Stopping"}
        /\ state[w] = "Running" => TasksOf(w) # {} \/ (pending = w /\ sup \in Deciding)
        /\ state[w] = "Starting" => pending = w /\ sup \in {"Starting", "Spawned"}
        /\ state[w] = "Restarting" => AboutToRun(w) \/ cancel_token

(* A breaker has tripped, or the policy grants no restart after a failure.   *)
GivenUp(w) ==
    \/ circuit[w].state = "Open"
    \/ failures[w] > 0 /\ spec[w].restart = "Never"
    \/ failures[w] > 0 /\ spec[w].restart = "MaxRetries" /\ failures[w] >= spec[w].retries

(* What the worker's criticality asks for has been done.                     *)
Escalated(w) ==
    /\ spec[w].criticality = "Critical"  => signalled
    /\ spec[w].criticality = "Essential" => health[w] = "Unhealthy"
    /\ spec[w].criticality = "Optional"  => health[w] = "Degraded"

(* Giving up on a worker after a failure is never silent.  A tripped         *)
(* breaker, a failure under Never, or a failure at the retry limit has       *)
(* signalled shutdown for a Critical worker and left the health report its   *)
(* criticality asks for, once the handler that decided it has ended.         *)
FailureEscalates ==
    \A w \in Worker : GivenUp(w) =>
        Escalated(w) \/ (pending = w /\ sup \in {"GiveUp", "Escalate"})

(* A shutdown signal always brings run() back with every task gone, whatever *)
(* the loop was doing, provided the sync workers watch their token.          *)
ShutdownCompletes == signalled ~> (sup = "Returned" /\ Live = {})

(* No finished task is left behind: its outcome is handled although backoff  *)
(* sleeps of other workers block the loop.                                   *)
OutcomeHandled == \A t \in TaskId : task[t] \in Outcome ~> task[t] = "free" \/ task[t] = "queued"

(* An open breaker gets its trial unless the supervisor is told to stop.     *)
OpenBreakerIsTried ==
    \A w \in Worker : circuit[w].state = "Open" ~>
        (circuit[w].state = "HalfOpen" /\ TasksOf(w) # {}) \/ cancel_token
=============================================================================
