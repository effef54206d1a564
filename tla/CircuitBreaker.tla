--------------------------- MODULE CircuitBreaker ---------------------------
(***************************************************************************)
(* CircuitBreaker (src/worker/policy/circuit.rs) as its callers interleave *)
(* on it.  The state and the count are atomics, the two timestamps are     *)
(* each behind a mutex of their own, and no call holds one lock from its   *)
(* first access to its last: every atomic access and every locked section  *)
(* is a step.  Time is a clock that callers read with Instant::now.        *)
(***************************************************************************)
EXTENDS Integers, SequencesExt

CONSTANTS Caller,       \* threads that share the breaker
          Threshold,    \* policy.failure_threshold
          Window,       \* policy.failure_window
          OpenDuration, \* policy.open_duration
          MaxTime       \* bound: the clock stops at MaxTime

ASSUME CircuitAssumption ==
    Threshold \in Nat /\ Window \in Nat /\ OpenDuration \in Nat /\ MaxTime \in Nat

VARIABLES state,           \* AtomicU8
          failures,        \* AtomicU32
          last_failure_at, \* Mutex<Option<Instant>>
          opened_at,       \* Mutex<Option<Instant>>
          clock,
          pc,              \* where each caller is
          at,              \* the `now' each caller read
          result,          \* what each caller's last call returned
          log,             \* the failures a Closed breaker has counted since the
                           \* last success, as far back as the window reaches
          committed        \* the fields as the last call to return left them

fields == <<state, failures, last_failure_at, opened_at>>
vars == <<fields, clock, pc, at, result, log, committed>>

Never == -1 \* None
Moment == 0..MaxTime

(* The end of a history, from start on.  Times are logged in their order.    *)
Since(times, start) ==
    SubSeq(times, Cardinality({i \in DOMAIN times : times[i] < start}) + 1, Len(times))

Idle(c) == pc[c] = "idle"

(* The fields, with the timestamps reduced to whether they are there *)
View == [state |-> state, failures |-> failures,
         last_failure_at |-> last_failure_at # Never, opened_at |-> opened_at # Never]

(* record_success keeps the mutex of opened_at while it clears the other one *)
OpenedAtFree == \A c \in Caller : pc[c] # "forget"

Step(c, from, to) == pc[c] = from /\ pc' = [pc EXCEPT ![c] = to] /\ UNCHANGED <<result, committed>>

Return(c, from, answer) ==
    /\ pc[c] = from /\ pc' = [pc EXCEPT ![c] = "idle"]
    /\ result' = [result EXCEPT ![c] = answer]
    /\ committed' = View'

TimePasses ==
    /\ clock < MaxTime /\ clock' = clock + 1
    /\ UNCHANGED <<fields, pc, at, result, log, committed>>

-----------------------------------------------------------------------------
(* record_failure *)

Fail(c) ==
    /\ Step(c, "idle", "load")
    /\ at' = [at EXCEPT ![c] = clock]
    /\ UNCHANGED <<fields, clock, log>>

FailLoad(c) ==
    /\ UNCHANGED <<fields, clock, at, log>>
    /\ \/ state = "HalfOpen" /\ Step(c, "load", "open")
       \/ state = "Open"     /\ Return(c, "load", "Open")
       \/ state = "Closed"   /\ Step(c, "load", "window")

(* Mutant: the window is open at its end *)
WithinWindow(c) == last_failure_at # Never /\ at[c] - last_failure_at < Window

InWindow(c) == last_failure_at # Never /\ at[c] - last_failure_at <= Window

(* The locked section on last_failure_at; what is counted is logged here     *)
FailWindow(c) ==
    /\ Step(c, "window", IF InWindow(c) THEN "add" ELSE "restart")
    /\ last_failure_at' = at[c]
    /\ log' = Append(Since(log, at[c] - Window), at[c])
    /\ UNCHANGED <<state, failures, opened_at, clock, at>>

FailRestart(c) ==
    /\ Step(c, "restart", "add")
    /\ failures' = 0
    /\ UNCHANGED <<state, last_failure_at, opened_at, clock, at, log>>

FailAdd(c) ==
    /\ failures' = failures + 1
    /\ UNCHANGED <<state, last_failure_at, opened_at, clock, at, log>>
    /\ \/ failures' >= Threshold /\ Step(c, "add", "open")
       \/ failures' < Threshold  /\ Return(c, "add", "Closed")

FailOpen(c) ==
    /\ Step(c, "open", "date")
    /\ state' = "Open"
    /\ UNCHANGED <<failures, last_failure_at, opened_at, clock, at, log>>

FailDate(c) ==
    /\ OpenedAtFree
    /\ opened_at' = at[c]
    /\ UNCHANGED <<state, failures, last_failure_at, clock, at, log>>
    /\ Return(c, "date", "Open")

-----------------------------------------------------------------------------
(* record_success *)

Succeed(c) ==
    /\ Step(c, "idle", "close")
    /\ failures' = 0
    /\ UNCHANGED <<state, last_failure_at, opened_at, clock, at, log>>

SucceedClose(c) ==
    /\ Step(c, "close", "undate")
    /\ state' = "Closed"
    /\ UNCHANGED <<failures, last_failure_at, opened_at, clock, at, log>>

SucceedUndate(c) ==
    /\ OpenedAtFree /\ Step(c, "undate", "forget")
    /\ opened_at' = Never
    /\ UNCHANGED <<state, failures, last_failure_at, clock, at, log>>

(* Mutant: the last failure is remembered *)
SucceedRemembers(c) ==
    /\ log' = <<>>
    /\ UNCHANGED <<state, failures, last_failure_at, opened_at, clock, at>>
    /\ Return(c, "forget", "Closed")

SucceedForget(c) ==
    /\ last_failure_at' = Never
    /\ log' = <<>>
    /\ UNCHANGED <<state, failures, opened_at, clock, at>>
    /\ Return(c, "forget", "Closed")

-----------------------------------------------------------------------------
(* tick *)

TickLoad(c) ==
    /\ \/ state = "Open" /\ Step(c, "idle", "now")
       \/ state # "Open" /\ Step(c, "idle", "reload")
    /\ UNCHANGED <<fields, clock, at, log>>

TickReload(c) ==
    /\ UNCHANGED <<fields, clock, at, log>>
    /\ Return(c, "reload", state)

TickNow(c) ==
    /\ Step(c, "now", "opened")
    /\ at' = [at EXCEPT ![c] = clock]
    /\ UNCHANGED <<fields, clock, log>>

(* Mutant: any recorded trip will do *)
TickReadUntimed(c) ==
    /\ OpenedAtFree
    /\ UNCHANGED <<fields, clock, at, log>>
    /\ IF opened_at # Never THEN Step(c, "opened", "try") ELSE Return(c, "opened", "Open")

TickRead(c) ==
    /\ OpenedAtFree
    /\ UNCHANGED <<fields, clock, at, log>>
    /\ IF opened_at # Never /\ at[c] - opened_at >= OpenDuration
       THEN Step(c, "opened", "try") ELSE Return(c, "opened", "Open")

TickTry(c) ==
    /\ state' = "HalfOpen"
    /\ UNCHANGED <<failures, last_failure_at, opened_at, clock, at, log>>
    /\ Return(c, "try", "HalfOpen")

(* allow() *)
Allow == state # "Open"

-----------------------------------------------------------------------------
Init ==
    /\ state = "Closed" /\ failures = 0
    /\ last_failure_at = Never /\ opened_at = Never
    /\ clock = 0
    /\ pc = [c \in Caller |-> "idle"]
    /\ at = [c \in Caller |-> 0]
    /\ result = [c \in Caller |-> "Closed"]
    /\ log = <<>>
    /\ committed = View

(* What a caller does once it is inside a call *)
Continue(c) ==
    \/ FailLoad(c) \/ FailWindow(c) \/ FailRestart(c) \/ FailAdd(c) \/ FailOpen(c) \/ FailDate(c)
    \/ SucceedClose(c) \/ SucceedUndate(c) \/ SucceedForget(c)
    \/ TickReload(c) \/ TickNow(c) \/ TickRead(c) \/ TickTry(c)

Next ==
    \/ TimePasses
    \/ \E c \in Caller : Fail(c) \/ Succeed(c) \/ TickLoad(c) \/ Continue(c)

Spec == Init /\ [][Next]_vars

-----------------------------------------------------------------------------
(* Properties *)

Atomic == INSTANCE CircuitSpec WITH breaker <- committed

TypeOK ==
    /\ state \in {"Closed", "Open", "HalfOpen"} /\ failures \in Nat
    /\ last_failure_at \in Moment \cup {Never} /\ opened_at \in Moment \cup {Never}
    /\ clock \in Moment
    /\ pc \in [Caller -> {"idle", "load", "window", "restart", "add", "open", "date", "close",
                          "undate", "forget", "reload", "now", "opened", "try"}]
    /\ at \in [Caller -> Moment]
    /\ result \in [Caller -> {"Closed", "Open", "HalfOpen"}]
    /\ log \in Seq(Moment)
    /\ committed \in Atomic!Breaker

Recent == {i \in DOMAIN log : clock - log[i] <= Window}
Quiet == \A c \in Caller : Idle(c)

(* With one caller the breaker is the atomic object the supervisor takes it  *)
(* for: every call leaves the fields as CircuitOps says, whatever the clock  *)
(* does in the meantime.                                                     *)
RefinesCircuitSpec == Atomic!Spec

(* The policy's own words: once failure_threshold failures lie within one    *)
(* failure_window the breaker is no longer Closed.  The code keeps a count   *)
(* and one timestamp; this compares them with the failures themselves.       *)
BurstTrips ==
    Quiet /\ state = "Closed" =>
        Cardinality(Recent) < IF Threshold = 0 THEN 1 ELSE Threshold
=============================================================================
