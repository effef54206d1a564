--------------------------- MODULE WorkerTimeline ---------------------------
(***************************************************************************)
(* One worker's failures, restarts and heartbeats on a clock: what         *)
(* Supervisor::maybe_restart and Supervisor::watchdog_tick                 *)
(* (src/worker/supervisor.rs) decide from the worker's breaker, its        *)
(* handle's failure count, its backoff policy and its last heartbeat.      *)
(* The Supervisor module leaves every question about time open; here the   *)
(* timestamps are kept and compared as the code does.  The breaker and the *)
(* backoff go by the monotonic clock, heartbeats and the failure count by  *)
(* the wall clock, which may step.  The supervisor loop is the breaker's   *)
(* only caller and takes its steps one by one.                             *)
(***************************************************************************)
EXTENDS CircuitBreaker

CONSTANTS Restarting,     \* the restart policies the worker may have
          Retries,        \* retries of MaxRetries
          FailureWindow,  \* FAILURE_WINDOW_NANOS
          Base, Cap,      \* base and max of the Exponential backoff
          HeartbeatEvery  \* heartbeat_interval

ASSUME TimelineAssumption ==
    /\ Restarting \subseteq {"Never", "OnFailure", "Always", "MaxRetries"}
    /\ \A n \in {Retries, FailureWindow, Base, Cap, HeartbeatEvery} : n \in Nat
    /\ \E c \in Caller : Caller = {c}

VARIABLES restart,      \* the worker's RestartPolicy
          sup,          \* where the supervisor loop is
          worker,       \* the worker's task
          failed,       \* has_failed of the outcome being handled
          prior,        \* the breaker's state when the outcome or the tick came
          told,         \* what the worker events emitted so far tell of the
                        \* breaker's state and of whether the worker runs
          timeout,      \* the tick found the worker silent
          cancelled,    \* the worker's child token
          heartbeat,    \* last_heartbeat
          last_failure, \* last_failure_nanos of the handle
          attempts,     \* failures_in_window of the handle
          wake,         \* when the backoff sleep ends
          crashes,      \* the failures maybe_restart has handled, from
                        \* FailureWindow before the latest on, by the
                        \* monotonic clock
          wall,         \* the wall clock, unix_nanos
          stepped       \* the wall clock was set

policies == <<last_failure, attempts, wake, crashes>>
loop == <<restart, sup, worker, failed, prior, told, timeout, cancelled, heartbeat, policies>>
wallClock == <<wall, stepped>>
allVars == <<vars, loop, wallClock>>

Self == CHOOSE c \in Caller : TRUE

At(from) == sup = from /\ Idle(Self)

-----------------------------------------------------------------------------
(* The worker's task *)

Beat ==
    /\ worker = "running"
    /\ heartbeat' = wall
    /\ UNCHANGED <<vars, restart, sup, worker, failed, prior, told, timeout, cancelled,
                   policies, wallClock>>

(* It may return at any time; a cancelled one is expected to.                *)
Exit(hasFailed) ==
    /\ worker = "running"
    /\ worker' = IF hasFailed THEN "failed" ELSE "completed"
    /\ UNCHANGED <<vars, restart, sup, failed, prior, told, timeout, cancelled, heartbeat,
                   policies, wallClock>>

-----------------------------------------------------------------------------
(* The join arm: handle_outcome, advance_circuit, maybe_restart *)

Joined ==
    /\ At("select") /\ worker \in {"failed", "completed"}
    /\ failed' = (worker = "failed") /\ prior' = state
    /\ worker' = "none" /\ sup' = "circuit"
    /\ told' = [told EXCEPT !.running = FALSE]
    /\ IF worker = "failed" THEN Fail(Self) ELSE Succeed(Self)
    /\ UNCHANGED <<restart, timeout, cancelled, heartbeat,
                   policies, wallClock>>

(* Mutant: one restart more than the policy grants *)
RestartOnceMore(hasFailed, counted) ==
    \/ restart = "OnFailure" /\ hasFailed
    \/ restart = "Always"
    \/ restart = "MaxRetries" /\ hasFailed /\ counted <= Retries

(* RestartPolicy::should_restart *)
ShouldRestart(hasFailed, counted) ==
    \/ restart = "OnFailure" /\ hasFailed
    \/ restart = "Always"
    \/ restart = "MaxRetries" /\ hasFailed /\ counted < Retries

(* WorkerHandle::record_failure: only the time since the previous failure    *)
(* decides whether the count goes on, however far back it reaches.           *)
CountedFailures ==
    IF last_failure = Never \/ wall - last_failure > FailureWindow THEN 1 ELSE attempts + 1

(* BackoffPolicy::delay of an Exponential policy *)
Delay(attempt) ==
    IF Base = 0 \/ Cap = 0 THEN 0
    ELSE Min({Base * 2^Min({attempt, 63}), Cap})

(* Mutant: only a Closed breaker's trip is announced *)
ClosedTripOnly(next) ==
    CASE prior = "Closed" /\ next = "Open"     -> "Open"
      [] prior = "HalfOpen" /\ next = "Closed" -> "Closed"
      [] OTHER -> told.circuit

(* advance_circuit: the changes that are announced *)
CircuitEvent(next) ==
    CASE prior \in {"Closed", "HalfOpen"} /\ next = "Open" -> "Open"
      [] prior = "HalfOpen" /\ next = "Closed"             -> "Closed"
      [] OTHER -> told.circuit

Decide ==
    /\ At("circuit")
    /\ LET counted == IF failed THEN CountedFailures ELSE 0
           again   == ShouldRestart(failed, counted) /\ Allow
       IN  /\ attempts' = IF failed THEN counted ELSE attempts
           /\ last_failure' = IF failed THEN wall ELSE last_failure
           /\ crashes' = IF failed THEN Append(Since(crashes, clock - FailureWindow), clock) ELSE crashes
           /\ told' = [told EXCEPT !.circuit = CircuitEvent(result[Self])]
           /\ \/ again /\ sup' = "sleep" /\ wake' = clock + Delay(counted)
              \/ ~again /\ sup' = "select" /\ UNCHANGED wake
    /\ UNCHANGED <<vars, restart, worker, failed, prior, timeout, cancelled, heartbeat,
                   wallClock>>

(* spawn_one *)
Spawn == worker' = "running"

(* After the sleep, which is skipped when the delay is zero *)
Respawn ==
    /\ At("sleep") /\ clock >= wake
    /\ sup' = "select" /\ Spawn
    /\ told' = [told EXCEPT !.running = TRUE]
    /\ UNCHANGED <<vars, restart, failed, prior, timeout, cancelled, heartbeat,
                   policies, wallClock>>

-----------------------------------------------------------------------------
(* watchdog_tick *)

(* Watchdog::check: silent for longer than twice the interval.  A heartbeat  *)
(* is kept across runs: a new run is judged by the old one's.                *)
Silent == heartbeat # Never /\ wall - heartbeat > 2 * HeartbeatEvery

WatchdogTick ==
    /\ At("select")
    /\ timeout' = Silent /\ prior' = state
    /\ sup' = "tick"
    /\ TickLoad(Self)
    /\ UNCHANGED <<restart, worker, failed, told, cancelled, heartbeat,
                   policies, wallClock>>

(* spawn_one_if_idle for a breaker that went half open *)
Trial ==
    IF prior = "Open" /\ result[Self] = "HalfOpen"
    THEN IF worker = "none"
         THEN Spawn /\ told' = [circuit |-> "HalfOpen", running |-> TRUE]
         ELSE told' = [told EXCEPT !.circuit = "HalfOpen"] /\ UNCHANGED worker
    ELSE UNCHANGED <<worker, told>>

(* Mutant: a silent worker is reported and left alone *)
TickedReportsOnly ==
    /\ At("tick") /\ sup' = "select"
    /\ Trial
    /\ UNCHANGED <<vars, restart, failed, prior, timeout, cancelled, heartbeat,
                   policies, wallClock>>

(* Then the token of a worker that was silent when the tick began is         *)
(* cancelled, whichever run holds it now.                                    *)
Ticked ==
    /\ At("tick") /\ sup' = "select"
    /\ Trial
    /\ cancelled' = (cancelled \/ timeout)
    /\ UNCHANGED <<vars, restart, failed, prior, timeout, heartbeat,
                   policies, wallClock>>

-----------------------------------------------------------------------------
(* The clocks *)

ClocksAdvance ==
    /\ TimePasses /\ wall' = wall + 1
    /\ UNCHANGED <<loop, stepped>>

(* The wall clock is set, forward or back; bound: once                       *)
WallClockSteps ==
    /\ ~stepped /\ stepped' = TRUE
    /\ \E now \in Moment : wall' = now
    /\ UNCHANGED <<vars, loop>>

-----------------------------------------------------------------------------
TimelineInit ==
    /\ Init
    /\ restart \in Restarting
    /\ sup = "select" /\ worker = "running"
    /\ failed = FALSE /\ prior = "Closed" /\ told = [circuit |-> "Closed", running |-> TRUE]
    /\ timeout = FALSE /\ cancelled = FALSE
    /\ heartbeat = Never /\ last_failure = Never /\ attempts = 0 /\ wake = 0
    /\ crashes = <<>> /\ wall = 0 /\ stepped = FALSE

TimelineNext ==
    \/ Beat \/ \E hasFailed \in BOOLEAN : Exit(hasFailed)
    \/ Joined \/ Decide \/ Respawn \/ WatchdogTick \/ Ticked
    \/ Continue(Self) /\ UNCHANGED <<loop, wallClock>>
    \/ ClocksAdvance \/ WallClockSteps

TimelineSpec == TimelineInit /\ [][TimelineNext]_allVars

(* The loop runs and the watchdog ticks: the biased select prefers the tick  *)
(* to an outcome.  Nothing is assumed of the worker or of the clock.         *)
TimelineFairSpec ==
    /\ TimelineSpec
    /\ WF_allVars(Continue(Self) /\ UNCHANGED <<loop, wallClock>>)
    /\ WF_allVars(Decide) /\ WF_allVars(WatchdogTick) /\ WF_allVars(Ticked)

-----------------------------------------------------------------------------
(* Properties *)

TimelineTypeOK ==
    /\ TypeOK
    /\ restart \in Restarting
    /\ sup \in {"select", "circuit", "sleep", "tick"}
    /\ worker \in {"none", "running", "failed", "completed"}
    /\ prior \in {"Closed", "Open", "HalfOpen"}
    /\ told \in [circuit : {"Closed", "Open", "HalfOpen"}, running : BOOLEAN]
    /\ {failed, timeout, cancelled} \subseteq BOOLEAN
    /\ heartbeat \in Nat \cup {Never} /\ last_failure \in Nat \cup {Never}
    /\ {attempts, wake, wall} \subseteq Nat /\ stepped \in BOOLEAN
    /\ crashes \in Seq(Moment)

(* The policy grants no further restart: the worker is registered with Never *)
(* and has failed, or it has failed Retries times within the window.         *)
Exhausted ==
    /\ crashes # <<>>
    /\ restart = "Never" \/ (restart = "MaxRetries" /\ Len(crashes) >= Retries)

(* An exhausted worker neither runs nor waits for a restart, except as the   *)
(* trial of its half-open breaker, which asks no policy; and this although   *)
(* the handle keeps no list of failures but a count and one time stamp.  The *)
(* count goes by the wall clock: nothing is said of a run in which it was set*)
RetriesBounded ==
    Exhausted /\ ~stepped => sup # "sleep" /\ (worker # "none" => state = "HalfOpen")

(* From the moment a breaker trips its worker does not run for open_duration *)
(* at least, whatever outcomes, restarts and ticks were under way.           *)
TrialWaitsOut ==
    worker # "none" /\ opened_at # Never => clock - opened_at >= OpenDuration

(* Between two rounds of the loop a subscriber of the worker topics knows    *)
(* what the breaker's state is and whether the worker has a task, although   *)
(* each event is emitted from a comparison of two reads of the breaker.      *)
EventsTellAll ==
    At("select") => told = [circuit |-> state, running |-> worker # "none"]

(* A running worker that falls silent is cancelled, unless it recovers or    *)
(* ends by itself first.                                                     *)
SilenceNoticed ==
    worker = "running" /\ heartbeat # Never /\ wall - heartbeat > 2 * HeartbeatEvery
        ~> cancelled \/ worker # "running" \/ wall - heartbeat <= 2 * HeartbeatEvery
=============================================================================
