---------------------------- MODULE KernelEvents ----------------------------
(***************************************************************************)
(* The kernel's states (src/lifecycle/state.rs, phase.rs, transition.rs)   *)
(* and the topics its events are routed by (src/events/kernel_event.rs,    *)
(* topic.rs, src/worker/event.rs).  A topic is a namespace and a suffix:   *)
(* <<"lifecycle", "running">> stands for "kernel.lifecycle.running".       *)
(***************************************************************************)
EXTENDS Naturals

KernelState == {"Created", "Booting", "Loading", "Running", "Degraded",
                "Stopping", "Stopped", "Failed"}

(* LEGAL_TRANSITIONS, row by row *)
Successors ==
    [Created  |-> {"Booting"},
     Booting  |-> {"Loading", "Failed"},
     Loading  |-> {"Running", "Failed"},
     Running  |-> {"Degraded", "Stopping", "Failed"},
     Degraded |-> {"Running", "Stopping", "Failed"},
     Stopping |-> {"Stopped", "Failed"},
     Stopped  |-> {},
     Failed   |-> {}]

(* is_legal; assert_legal gives an error where it is false *)
Legal(from, to) == to \in Successors[from]

(* KernelState::phase, as Phase::ordinal numbers it: Idle, Boot, Load, Exec, *)
(* Shutdown.                                                                 *)
PhaseOrdinal ==
    [Created |-> 0, Booting |-> 1, Loading |-> 2, Running |-> 3, Degraded |-> 3,
     Stopping |-> 4, Stopped |-> 4, Failed |-> 4]

IsTerminal(s) == s \in {"Stopped", "Failed"}
IsRunning(s)  == s \in {"Running", "Degraded"}

-----------------------------------------------------------------------------
(* What the suffix of an event's topic is taken from: as_str() and kind(),   *)
(* the name of a subsystem or of a metric.  A suffix that the builder of its *)
(* namespace does not list becomes "unknown".                                *)

LifecycleSuffix == {"created", "booting", "loading", "running", "degraded", "stopping",
                    "stopped", "failed"}

AsStr == [Created |-> "created", Booting |-> "booting", Loading |-> "loading",
          Running |-> "running", Degraded |-> "degraded", Stopping |-> "stopping",
          Stopped |-> "stopped", Failed |-> "failed"]

(* WorkerLifecycleEvent, by its kind() *)
WorkerKind == {"started", "heartbeat", "idle", "busy", "failed", "panicked",
               "restarted", "stopping", "stopped", "circuit_opened",
               "circuit_half_opened", "circuit_closed", "timeout"}

(* Severity, by its as_str() *)
Severity == {"debug", "info", "warning", "error", "critical", "fatal"}

(* KernelMetric, by its name() without the leading "kernel." *)
KernelMetric == {"lifecycle.phase", "lifecycle.transitions", "errors", "health.aggregate",
                 "workers.running", "workers.failed", "workers.restarted",
                 "shutdown.duration"}

WorkerSuffix == {"placeholder", "started", "heartbeat", "idle", "busy", "failed", "panicked",
                 "restarted", "stopping", "stopped", "circuit_opened",
                 "circuit_half_opened", "circuit_closed", "timeout"}

ErrorSuffix == {"debug", "info", "warning", "error", "critical", "fatal"}

HealthSuffix == {"aggregate", "kernel", "lifecycle", "storage", "events", "errors",
                 "metrics", "workers", "shutdown"}

MetricSuffix == {"lifecycle.phase", "lifecycle.transitions", "errors", "health.aggregate",
                 "workers.running", "workers.failed", "workers.restarted",
                 "shutdown.duration"}

Listed(namespace, suffixes, suffix) ==
    <<namespace, IF suffix \in suffixes THEN suffix ELSE "unknown">>

LifecycleTopic(to) == Listed("lifecycle", LifecycleSuffix, AsStr[to])
WorkerTopic(kind) == Listed("worker", WorkerSuffix, IF kind = "" THEN "placeholder" ELSE kind)
ErrorTopic(severity) == Listed("error", ErrorSuffix, severity)
HealthTopic(subsystem) == Listed("health", HealthSuffix, subsystem)
MetricTopic(name) == Listed("metric", MetricSuffix, name)

(* The events, by their variant and by what topic() looks at; the subsystem  *)
(* and the metric may be of the consumer's naming.                           *)
LifecycleEvent ==
    [type : {"Transition"}, of : KernelState]
    \cup [type : {"ShutdownStarted", "ShutdownCompleted"}, of : {""}]
WorkerEvent == [type : {"Worker"}, of : WorkerKind]
ErrorEvent == [type : {"Error"}, of : Severity]
HealthEvent(subsystems) ==
    [type : {"AggregateChanged"}, of : {""}]
    \cup [type : {"SubsystemChanged"}, of : subsystems]
MetricEvent(metrics) == [type : {"Metric"}, of : metrics]
CustomEvent == [type : {"Custom"}, of : {""}]

KernelEvent(subsystems, metrics) ==
    LifecycleEvent \cup WorkerEvent \cup ErrorEvent \cup HealthEvent(subsystems)
       \cup MetricEvent(metrics) \cup CustomEvent

(* KernelEvent::topic.  The topic that a consumer gives to a CustomEvent is  *)
(* not looked at.                                                            *)
TopicOf(event) ==
    CASE event.type = "Transition"        -> LifecycleTopic(event.of)
      [] event.type = "ShutdownStarted"   -> <<"lifecycle", "shutdown_started">>
      [] event.type = "ShutdownCompleted" -> <<"lifecycle", "shutdown_completed">>
      [] event.type = "Worker"            -> WorkerTopic(event.of)
      [] event.type = "Error"             -> ErrorTopic(event.of)
      [] event.type = "AggregateChanged"  -> HealthTopic("aggregate")
      [] event.type = "SubsystemChanged"  -> HealthTopic(event.of)
      [] event.type = "Metric"            -> MetricTopic(event.of)
      [] event.type = "Custom"            -> <<"custom", "">>
=============================================================================
