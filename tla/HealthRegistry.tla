--------------------------- MODULE HealthRegistry ---------------------------
(***************************************************************************)
(* The push-based health registry (src/health/registry.rs).  A report      *)
(* loads the aggregate before it takes the write lock, decides under the   *)
(* lock how the aggregate moves, and emits its events after releasing it,  *)
(* so a report is four steps and reporters interleave between them.        *)
(* Snapshots run under the read lock: they see the map and the aggregate   *)
(* of some state of this module.                                           *)
(***************************************************************************)
EXTENDS Integers

CONSTANTS Subsystem,  \* the names reported under
          Reporter    \* the threads that report

VARIABLES subsystems,  \* RwLock<HashMap>: each subsystem's last status
          aggregate,   \* the atomic aggregate cell
          call,        \* where each reporter is in report(), with its locals
          told         \* what the emitted events have told a subscriber

vars == <<subsystems, aggregate, call, told>>

(* HealthStatus in its declared order, and "no entry" *)
Healthy == 0
Unknown == 4
Status  == Healthy..Unknown
NoEntry == -1

Idle == [pc |-> "idle", subsystem |-> "-", status |-> Healthy,
         prev |-> Healthy, new |-> Healthy]

ASSUME NameAssumption == "-" \notin Subsystem

(* guard.values().max(), Healthy for an empty map *)
Worst(m) ==
    CHOOSE a \in Status : /\ \A s \in Subsystem : m[s] <= a
                          /\ a # Healthy => \E s \in Subsystem : m[s] = a

(* Mutant: an improving report lowers the aggregate to its own status *)
NewAggregateFollows(prev, old, status, m) ==
    IF status > prev \/ (old = prev /\ status < prev) THEN status ELSE prev

(* The incremental rule: raise it, recompute it when the subsystem that held *)
(* it there improves, or leave it                                            *)
NewAggregate(prev, old, status, m) ==
    IF status > prev THEN status
    ELSE IF old = prev /\ status < prev THEN Worst(m) ELSE prev

(* HealthInner::snapshot: the map and the aggregate, under the read lock     *)
HealthSnapshot == [aggregate |-> aggregate, subsystems |-> subsystems]

(* Unhealthy, Critical and Unknown *)
IsActionable(status) == status \in 2..Unknown

UnhealthySubsystems(snapshot) == {s \in Subsystem : IsActionable(snapshot.subsystems[s])}

-----------------------------------------------------------------------------
(* let prev_aggregate = self.aggregate.load() *)
Load(r, s, status) ==
    /\ call[r].pc = "idle"
    /\ call' = [call EXCEPT ![r] = [pc |-> "write", subsystem |-> s, status |-> status,
                                    prev |-> aggregate, new |-> aggregate]]
    /\ UNCHANGED <<subsystems, aggregate, told>>

(* Mutant: the aggregate is computed from the map before the insert *)
WriteStale(r) ==
    LET c   == call[r]
        new == NewAggregate(c.prev, subsystems[c.subsystem], c.status, subsystems)
    IN  /\ c.pc = "write"
        /\ subsystems' = [subsystems EXCEPT ![c.subsystem] = c.status]
        /\ aggregate' = IF new # c.prev THEN new ELSE aggregate
        /\ call' = [call EXCEPT ![r] =
                       IF subsystems[c.subsystem] = c.status THEN Idle
                       ELSE [c EXCEPT !.pc = "emit", !.new = new]]
        /\ UNCHANGED told

(* The write-locked section.  An unchanged status ends the report here.      *)
Write(r) ==
    LET c   == call[r]
        old == subsystems[c.subsystem]
        m   == [subsystems EXCEPT ![c.subsystem] = c.status]
        new == NewAggregate(c.prev, old, c.status, m)
    IN  /\ c.pc = "write"
        /\ subsystems' = m
        /\ aggregate' = IF new # c.prev THEN new ELSE aggregate
        /\ call' = [call EXCEPT ![r] = IF old = c.status THEN Idle
                                       ELSE [c EXCEPT !.pc = "emit", !.new = new]]
        /\ UNCHANGED told

(* Mutant: only reports that leave the aggregate alone emit SubsystemChanged *)
EmitSubsystemOrAggregate(r) ==
    LET c == call[r]
    IN  /\ c.pc = "emit"
        /\ told' = IF c.new # c.prev THEN told
                   ELSE [told EXCEPT !.subsystems[c.subsystem] = c.status]
        /\ call' = [call EXCEPT ![r] = IF c.new # c.prev THEN [c EXCEPT !.pc = "announce"]
                                       ELSE Idle]
        /\ UNCHANGED <<subsystems, aggregate>>

(* SubsystemChanged, then AggregateChanged if this report moved it *)
EmitSubsystem(r) ==
    LET c == call[r]
    IN  /\ c.pc = "emit"
        /\ told' = [told EXCEPT !.subsystems[c.subsystem] = c.status]
        /\ call' = [call EXCEPT ![r] = IF c.new # c.prev THEN [c EXCEPT !.pc = "announce"]
                                       ELSE Idle]
        /\ UNCHANGED <<subsystems, aggregate>>

EmitAggregate(r) ==
    LET c == call[r]
    IN  /\ c.pc = "announce"
        /\ told' = [told EXCEPT !.aggregate = c.new]
        /\ call' = [call EXCEPT ![r] = Idle]
        /\ UNCHANGED <<subsystems, aggregate>>

-----------------------------------------------------------------------------
Init ==
    /\ subsystems = [s \in Subsystem |-> NoEntry]
    /\ aggregate = Healthy
    /\ call = [r \in Reporter |-> Idle]
    /\ told = [subsystems |-> [s \in Subsystem |-> NoEntry], aggregate |-> Healthy]

Next ==
    \E r \in Reporter :
        \/ \E s \in Subsystem, status \in Status : Load(r, s, status)
        \/ Write(r)
        \/ EmitSubsystem(r)
        \/ EmitAggregate(r)

Spec == Init /\ [][Next]_vars

-----------------------------------------------------------------------------
(* Properties *)

Entry == Status \cup {NoEntry}

TypeOK ==
    /\ subsystems \in [Subsystem -> Entry]
    /\ aggregate \in Status
    /\ call \in [Reporter -> [pc : {"idle", "write", "emit", "announce"},
                              subsystem : Subsystem \cup {"-"},
                              status : Status, prev : Status, new : Status]]
    /\ \A r \in Reporter : call[r].pc # "idle" => call[r].subsystem \in Subsystem
    /\ told \in [subsystems : [Subsystem -> Entry], aggregate : Status]

(* No subsystem's status is worse than the aggregate shows.                  *)
WorstNotMasked == \A s \in Subsystem : subsystems[s] <= aggregate

(* The aggregate is the worst status any subsystem last reported, as         *)
(* status.rs states the rule ("max of per-subsystem statuses").  Snapshots   *)
(* read both under the lock, so it has to hold in every state.               *)
AggregateIsMax ==
    /\ WorstNotMasked
    /\ aggregate # Healthy => \E s \in Subsystem : subsystems[s] = aggregate

(* Whoever polls snapshot() and looks at the aggregate alone misses nothing  *)
(* and is not called for nothing: it asks for attention exactly when         *)
(* unhealthy_subsystems() names somebody, at any moment of a report.         *)
AggregateCallsForAttention ==
    IsActionable(HealthSnapshot.aggregate) <=> UnhealthySubsystems(HealthSnapshot) # {}

(* When no report is under way a subscriber that applied every event knows   *)
(* exactly what the registry holds: no change goes unannounced, although     *)
(* events are emitted after the lock is released and unchanged reports       *)
(* return before emitting any.                                               *)
SubscribersUpToDate ==
    (\A r \in Reporter : call[r].pc = "idle") =>
        told = [subsystems |-> subsystems, aggregate |-> aggregate]

(* With one reporter at a time the registry is the atomic one: each report   *)
(* takes effect in one step, at its write lock.                              *)
Abstract == INSTANCE HealthSpec
RefinesHealthSpec == Abstract!Spec
=============================================================================
