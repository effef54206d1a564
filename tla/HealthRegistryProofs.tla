------------------------ MODULE HealthRegistryProofs ------------------------
(***************************************************************************)
(* With one reporter the registry keeps its aggregate exact, tells its     *)
(* subscribers everything and implements HealthSpec, whatever the          *)
(* subsystems are.  HealthRegistryRace.cfg shows why one is needed.        *)
(***************************************************************************)
EXTENDS HealthRegistry, TLAPS

OneReporter == \A r, q \in Reporter : r = q

(* What a subscriber still has to be told, by the stage of the report        *)
Untold(c) ==
    CASE c.pc \in {"idle", "write"} ->
            told.subsystems = subsystems /\ told.aggregate = aggregate
      [] c.pc = "emit" ->
            /\ told.subsystems = [subsystems EXCEPT ![c.subsystem] = told.subsystems[c.subsystem]]
            /\ subsystems[c.subsystem] = c.status
            /\ told.aggregate = c.prev /\ aggregate = c.new
      [] c.pc = "announce" ->
            told.subsystems = subsystems /\ aggregate = c.new

(* The inductive invariant: between the load and the write lock nobody else  *)
(* moves the aggregate                                                       *)
IInv ==
    /\ TypeOK
    /\ AggregateIsMax
    /\ \A r \in Reporter : call[r].pc = "write" => call[r].prev = aggregate
    /\ \A r \in Reporter : Untold(call[r])
    /\ Reporter = {} => told.subsystems = subsystems /\ told.aggregate = aggregate

(* values().max() exists, and is an upper bound of the map that is attained  *)
LEMMA WorstFacts ==
    ASSUME NEW m \in [Subsystem -> Entry]
    PROVE  /\ Worst(m) \in Status
           /\ \A s \in Subsystem : m[s] <= Worst(m)
           /\ Worst(m) # Healthy => \E s \in Subsystem : m[s] = Worst(m)
<1> DEFINE IsWorst(a) == /\ \A s \in Subsystem : m[s] <= a
                         /\ a # Healthy => \E s \in Subsystem : m[s] = a
<1>1. \A s \in Subsystem : m[s] \in {-1, 0, 1, 2, 3, 4}
  BY DEF Entry, Status, NoEntry, Healthy, Unknown
<1>2. Status = {0, 1, 2, 3, 4} /\ Healthy = 0
  BY DEF Status, Healthy, Unknown
<1>3. \E a \in Status : IsWorst(a)
  <2>1. CASE \E s \in Subsystem : m[s] = 4
    BY <1>1, <1>2, <2>1
  <2>2. CASE (\A s \in Subsystem : m[s] < 4) /\ \E s \in Subsystem : m[s] = 3
    BY <1>1, <1>2, <2>2
  <2>3. CASE (\A s \in Subsystem : m[s] < 3) /\ \E s \in Subsystem : m[s] = 2
    BY <1>1, <1>2, <2>3
  <2>4. CASE (\A s \in Subsystem : m[s] < 2) /\ \E s \in Subsystem : m[s] = 1
    BY <1>1, <1>2, <2>4
  <2>5. CASE \A s \in Subsystem : m[s] < 1
    BY <1>1, <1>2, <2>5
  <2>6. QED
    BY <1>1, <2>1, <2>2, <2>3, <2>4, <2>5
<1>4. Worst(m) = CHOOSE a \in Status : IsWorst(a)
  BY DEF Worst
<1>5. QED
  BY <1>3, <1>4

(* The map and the aggregate after an undisturbed report                     *)
Reported(s, status)  == [subsystems EXCEPT ![s] = status]
Recomputed(s, status) ==
    NewAggregate(aggregate, subsystems[s], status, Reported(s, status))

(* The incremental rule computes the maximum of the new map, when the old    *)
(* aggregate was the maximum of the old one; repeating a status moves        *)
(* nothing.                                                                  *)
LEMMA NewAggregateFacts ==
    ASSUME TypeOK, AggregateIsMax, NEW s \in Subsystem, NEW status \in Status
    PROVE  /\ Reported(s, status) \in [Subsystem -> Entry]
           /\ Recomputed(s, status) \in Status
           /\ \A u \in Subsystem : Reported(s, status)[u] <= Recomputed(s, status)
           /\ Recomputed(s, status) # Healthy =>
                \E u \in Subsystem : Reported(s, status)[u] = Recomputed(s, status)
           /\ subsystems[s] = status =>
                Reported(s, status) = subsystems /\ Recomputed(s, status) = aggregate
<1> SUFFICES ASSUME NEW m, m = [subsystems EXCEPT ![s] = status],
                    NEW new, new = NewAggregate(aggregate, subsystems[s], status, m)
             PROVE  /\ m \in [Subsystem -> Entry] /\ new \in Status
                    /\ \A u \in Subsystem : m[u] <= new
                    /\ new # Healthy => \E u \in Subsystem : m[u] = new
                    /\ subsystems[s] = status => m = subsystems /\ new = aggregate
  BY DEF Reported, Recomputed
<1>1. /\ m \in [Subsystem -> Entry] /\ m[s] = status
      /\ \A u \in Subsystem \ {s} : m[u] = subsystems[u]
  BY DEF TypeOK, Entry
<1>2. /\ Status \subseteq Int /\ aggregate \in Int /\ status \in Int
      /\ \A u \in Subsystem : subsystems[u] \in Int /\ m[u] \in Int
  BY <1>1 DEF TypeOK, Entry, Status, Healthy, Unknown, NoEntry
<1>3. /\ \A u \in Subsystem : subsystems[u] <= aggregate
      /\ aggregate # Healthy => \E u \in Subsystem : subsystems[u] = aggregate
  BY DEF AggregateIsMax, WorstNotMasked
<1>4. /\ new \in Status
      /\ \A u \in Subsystem : m[u] <= new
      /\ new # Healthy => \E u \in Subsystem : m[u] = new
  <2>1. CASE status > aggregate
    <3>1. new = status
      BY <2>1 DEF NewAggregate
    <3>2. ASSUME NEW u \in Subsystem PROVE m[u] <= status
      <4>1. subsystems[u] <= aggregate /\ subsystems[u] \in Int
        BY <1>2, <1>3
      <4>2. m[u] = status \/ m[u] = subsystems[u]
        BY <1>1
      <4>3. QED
        BY <1>2, <2>1, <4>1, <4>2
    <3>3. QED
      BY <1>1, <3>1, <3>2
  <2>2. CASE ~(status > aggregate) /\ subsystems[s] = aggregate /\ status < aggregate
    BY <1>1, <2>2, WorstFacts DEF NewAggregate
  <2>3. CASE ~(status > aggregate) /\ ~(subsystems[s] = aggregate /\ status < aggregate)
    <3>1. new = aggregate
      BY <2>3 DEF NewAggregate
    <3>2. ASSUME NEW u \in Subsystem PROVE m[u] <= aggregate
      <4>1. m[u] = status \/ m[u] = subsystems[u]
        BY <1>1
      <4>2. QED
        BY <1>2, <1>3, <2>3, <4>1
    <3>3. ASSUME aggregate # Healthy PROVE \E u \in Subsystem : m[u] = aggregate
      BY <1>1, <1>2, <1>3, <2>3, <3>3
    <3>4. QED
      BY <3>1, <3>2, <3>3 DEF TypeOK
  <2>4. QED
    BY <2>1, <2>2, <2>3
<1>5. ASSUME subsystems[s] = status PROVE m = subsystems /\ new = aggregate
  <2>1. ~(status > aggregate) /\ ~(subsystems[s] = aggregate /\ status < aggregate)
    BY <1>2, <1>3, <1>5
  <2>2. QED
    BY <1>5, <2>1 DEF NewAggregate, TypeOK
<1>6. QED
  BY <1>1, <1>4, <1>5

-----------------------------------------------------------------------------
(* The invariant *)

LEMMA InitIInv == Init => IInv
<1> SUFFICES ASSUME Init PROVE IInv
  OBVIOUS
<1>1. NoEntry \in Entry /\ Healthy \in Status /\ NoEntry <= Healthy
  BY DEF Entry, Status, Healthy, Unknown, NoEntry
<1>2. TypeOK
  BY <1>1 DEF Init, TypeOK, Idle
<1>3. AggregateIsMax
  BY <1>1 DEF Init, AggregateIsMax, WorstNotMasked
<1>4. \A r \in Reporter : call[r].pc = "idle"
  BY DEF Init, Idle
<1>5. told.subsystems = subsystems /\ told.aggregate = aggregate
  BY DEF Init
<1>6. QED
  BY <1>2, <1>3, <1>4, <1>5 DEF IInv, Untold

LEMMA LoadStep ==
    ASSUME OneReporter, IInv, NEW r \in Reporter, NEW s \in Subsystem,
           NEW status \in Status, Load(r, s, status)
    PROVE  IInv'
<1>1. /\ call[r].pc = "idle" /\ Reporter = {r}
      /\ call' = [call EXCEPT ![r] = [pc |-> "write", subsystem |-> s, status |-> status,
                                      prev |-> aggregate, new |-> aggregate]]
      /\ UNCHANGED <<subsystems, aggregate, told>>
  BY DEF Load, OneReporter
<1>2. call'[r] = [pc |-> "write", subsystem |-> s, status |-> status,
                  prev |-> aggregate, new |-> aggregate]
  BY <1>1 DEF IInv, TypeOK
<1>3. TypeOK'
  BY <1>1, <1>2 DEF IInv, TypeOK
<1>4. AggregateIsMax'
  BY <1>1 DEF IInv, AggregateIsMax, WorstNotMasked
<1>5. told.subsystems = subsystems /\ told.aggregate = aggregate
  BY <1>1 DEF IInv, Untold
<1>6. Untold(call[r])'
  <2>1. call'[r].pc = "write"
    BY <1>2
  <2>2. told'.subsystems = subsystems' /\ told'.aggregate = aggregate'
    BY <1>1, <1>5
  <2>3. QED
    BY <2>1, <2>2 DEF Untold
<1>7. QED
  BY <1>1, <1>2, <1>3, <1>4, <1>6 DEF IInv

(* The write-locked section: prev is still the aggregate, so the incremental *)
(* rule is applied to the state it was made for                              *)
LEMMA WriteStep ==
    ASSUME OneReporter, IInv, NEW r \in Reporter, Write(r),
           NEW c, c = call[r], NEW old, old = subsystems[c.subsystem],
           NEW m, m = [subsystems EXCEPT ![c.subsystem] = c.status],
           NEW new, new = NewAggregate(c.prev, old, c.status, m)
    PROVE  IInv'
<1>1. /\ c.pc = "write" /\ Reporter = {r}
      /\ subsystems' = m
      /\ aggregate' = IF new # c.prev THEN new ELSE aggregate
      /\ call' = [call EXCEPT ![r] = IF old = c.status THEN Idle
                                     ELSE [c EXCEPT !.pc = "emit", !.new = new]]
      /\ told' = told
  BY DEF Write, OneReporter
<1>2. /\ c.subsystem \in Subsystem /\ c.status \in Status /\ c.prev = aggregate
      /\ c \in [pc : {"idle", "write", "emit", "announce"}, subsystem : Subsystem \cup {"-"},
                status : Status, prev : Status, new : Status]
      /\ TypeOK /\ AggregateIsMax
      /\ told.subsystems = subsystems /\ told.aggregate = aggregate
  BY <1>1 DEF IInv, TypeOK, Untold
<1>3. /\ m \in [Subsystem -> Entry] /\ new \in Status
      /\ \A u \in Subsystem : m[u] <= new
      /\ new # Healthy => \E u \in Subsystem : m[u] = new
      /\ old = c.status => m = subsystems /\ new = aggregate
  <2>1. PICK s \in Subsystem : s = c.subsystem
    BY <1>2
  <2>2. PICK status \in Status : status = c.status
    BY <1>2
  <2>3. m = Reported(s, status) /\ new = Recomputed(s, status)
    BY <1>2, <2>1, <2>2 DEF Reported, Recomputed
  <2>4. /\ m \in [Subsystem -> Entry] /\ new \in Status
        /\ \A u \in Subsystem : m[u] <= new
        /\ new # Healthy => \E u \in Subsystem : m[u] = new
        /\ subsystems[s] = status => m = subsystems /\ new = aggregate
    <3>1. /\ Reported(s, status) \in [Subsystem -> Entry]
          /\ Recomputed(s, status) \in Status
          /\ \A u \in Subsystem : Reported(s, status)[u] <= Recomputed(s, status)
          /\ Recomputed(s, status) # Healthy =>
                \E u \in Subsystem : Reported(s, status)[u] = Recomputed(s, status)
          /\ subsystems[s] = status =>
                Reported(s, status) = subsystems /\ Recomputed(s, status) = aggregate
      BY <1>2, NewAggregateFacts
    <3>2. QED
      BY <2>3, <3>1
  <2>5. QED
    BY <2>1, <2>2, <2>4
<1>4. aggregate' = new
  BY <1>1, <1>2
<1>5. /\ old = c.status  => call'[r] = Idle
      /\ old # c.status => call'[r] = [c EXCEPT !.pc = "emit", !.new = new]
  BY <1>1, <1>2 DEF TypeOK
<1>6. TypeOK' /\ call'[r].pc # "write"
  <2>1. Healthy \in Status
    BY DEF Status, Healthy, Unknown
  <2>2. /\ call'[r] \in [pc : {"idle", "write", "emit", "announce"},
                         subsystem : Subsystem \cup {"-"},
                         status : Status, prev : Status, new : Status]
        /\ call'[r].pc # "idle" => call'[r].subsystem \in Subsystem
        /\ call'[r].pc # "write"
    <3>1. CASE old = c.status
      BY <1>5, <2>1, <3>1 DEF Idle
    <3>2. CASE old # c.status
      <4>1. call'[r] = [c EXCEPT !.pc = "emit", !.new = new]
        BY <1>5, <3>2
      <4>2. QED
        BY <1>2, <1>3, <4>1
    <3>3. QED
      BY <3>1, <3>2
  <2>3. call' \in [Reporter -> [pc : {"idle", "write", "emit", "announce"},
                                subsystem : Subsystem \cup {"-"},
                                status : Status, prev : Status, new : Status]]
    BY <1>1, <1>2, <2>2 DEF TypeOK
  <2>4. QED
    BY <1>1, <1>2, <1>3, <1>4, <2>2, <2>3 DEF TypeOK
<1>7. AggregateIsMax'
  <2>1. subsystems' = m
    BY <1>1
  <2>2. \A u \in Subsystem : subsystems'[u] <= aggregate'
    BY <1>3, <1>4, <2>1
  <2>3. aggregate' # Healthy => \E u \in Subsystem : subsystems'[u] = aggregate'
    BY <1>3, <1>4, <2>1
  <2>4. QED
    BY <2>2, <2>3 DEF AggregateIsMax, WorstNotMasked
<1>8. call'[r].pc # "write"
  BY <1>6
<1>9. Untold(call[r])'
  <2>1. CASE old = c.status
    <3>1. call'[r].pc = "idle"
      BY <1>5, <2>1 DEF Idle
    <3>2. told'.subsystems = subsystems' /\ told'.aggregate = aggregate'
      BY <1>1, <1>2, <1>3, <1>4, <2>1
    <3>3. QED
      BY <3>1, <3>2 DEF Untold
  <2>2. CASE old # c.status
    <3>1. /\ call'[r].pc = "emit" /\ call'[r].subsystem = c.subsystem
          /\ call'[r].status = c.status /\ call'[r].prev = c.prev /\ call'[r].new = new
      <4>1. call'[r] = [c EXCEPT !.pc = "emit", !.new = new]
        BY <1>5, <2>2
      <4>2. QED
        BY <1>2, <4>1
    <3>2. m = [subsystems EXCEPT ![c.subsystem] = c.status] /\ m[c.subsystem] = c.status
      BY <1>2 DEF TypeOK
    <3>3. subsystems = [m EXCEPT ![c.subsystem] = subsystems[c.subsystem]]
      BY <1>2, <3>2 DEF TypeOK
    <3>4. QED
      BY ZenonT(40), <1>1, <1>2, <1>4, <3>1, <3>2, <3>3 DEF Untold
  <2>3. QED
    BY <2>1, <2>2
<1>10. QED
  BY <1>1, <1>6, <1>7, <1>8, <1>9 DEF IInv

LEMMA EmitStep ==
    ASSUME OneReporter, IInv, NEW r \in Reporter, EmitSubsystem(r) \/ EmitAggregate(r),
           NEW c, c = call[r]
    PROVE  IInv'
<1>1. /\ Reporter = {r} /\ TypeOK
      /\ c \in [pc : {"idle", "write", "emit", "announce"}, subsystem : Subsystem \cup {"-"},
                status : Status, prev : Status, new : Status]
      /\ c.pc # "idle" => c.subsystem \in Subsystem
      /\ told \in [subsystems : [Subsystem -> Entry], aggregate : Status]
      /\ UNCHANGED <<subsystems, aggregate>>
  BY DEF OneReporter, IInv, TypeOK, EmitSubsystem, EmitAggregate
<1>2. AggregateIsMax'
  BY <1>1 DEF IInv, AggregateIsMax, WorstNotMasked
<1>3. SUFFICES /\ call' \in [Reporter -> [pc : {"idle", "write", "emit", "announce"},
                                           subsystem : Subsystem \cup {"-"},
                                           status : Status, prev : Status, new : Status]]
               /\ call'[r].pc # "idle" => call'[r].subsystem \in Subsystem
               /\ call'[r].pc # "write"
               /\ told' \in [subsystems : [Subsystem -> Entry], aggregate : Status]
               /\ Untold(call[r])'
  BY <1>1, <1>2 DEF IInv, TypeOK
<1>4. Idle \in [pc : {"idle", "write", "emit", "announce"}, subsystem : Subsystem \cup {"-"},
                status : Status, prev : Status, new : Status]
  BY DEF Idle, Status, Healthy, Unknown
<1>5. CASE EmitSubsystem(r)
  <2>1. /\ c.pc = "emit" /\ c.subsystem \in Subsystem
        /\ told' = [told EXCEPT !.subsystems[c.subsystem] = c.status]
        /\ c.new # c.prev => call' = [call EXCEPT ![r] = [c EXCEPT !.pc = "announce"]]
        /\ c.new = c.prev => call' = [call EXCEPT ![r] = Idle]
    BY <1>1, <1>5 DEF EmitSubsystem
  <2>2. /\ told.subsystems
             = [subsystems EXCEPT ![c.subsystem] = told.subsystems[c.subsystem]]
        /\ subsystems[c.subsystem] = c.status
        /\ told.aggregate = c.prev /\ aggregate = c.new
    BY <2>1 DEF IInv, Untold
  <2>3. told'.subsystems = [told.subsystems EXCEPT ![c.subsystem] = c.status]
        /\ told'.aggregate = told.aggregate
    BY <1>1, <2>1
  <2>4. told'.subsystems = subsystems'
    BY <1>1, <2>1, <2>2, <2>3 DEF TypeOK
  <2>5. told' \in [subsystems : [Subsystem -> Entry], aggregate : Status]
    BY <1>1, <2>1, <2>2 DEF TypeOK
  <2>6. CASE c.new # c.prev
    <3>1. call'[r] = [c EXCEPT !.pc = "announce"]
      BY <1>1, <2>1, <2>6 DEF TypeOK
    <3>2. call'[r].pc = "announce" /\ call'[r].new = c.new /\ call'[r].subsystem = c.subsystem
      BY <1>1, <3>1
    <3>3. call'[r] \in [pc : {"idle", "write", "emit", "announce"},
                        subsystem : Subsystem \cup {"-"},
                        status : Status, prev : Status, new : Status]
      BY <1>1, <3>1
    <3>4. Untold(call[r])'
      BY <1>1, <2>2, <2>4, <3>2 DEF Untold
    <3>5. QED
      BY <1>1, <2>1, <2>5, <2>6, <3>2, <3>3, <3>4 DEF TypeOK
  <2>7. CASE c.new = c.prev
    <3>1. call'[r] = Idle /\ call'[r].pc = "idle"
      BY <1>1, <2>1, <2>7 DEF TypeOK, Idle
    <3>2. Untold(call[r])'
      BY <1>1, <2>2, <2>3, <2>4, <2>7, <3>1 DEF Untold
    <3>3. QED
      BY <1>1, <1>4, <2>1, <2>5, <2>7, <3>1, <3>2 DEF TypeOK
  <2>8. QED
    BY <2>6, <2>7
<1>6. CASE EmitAggregate(r)
  <2>1. /\ c.pc = "announce" /\ told' = [told EXCEPT !.aggregate = c.new]
        /\ call' = [call EXCEPT ![r] = Idle]
    BY <1>1, <1>6 DEF EmitAggregate
  <2>2. told.subsystems = subsystems /\ aggregate = c.new
    BY <2>1 DEF IInv, Untold
  <2>3. told'.subsystems = subsystems' /\ told'.aggregate = aggregate'
    BY <1>1, <2>1, <2>2
  <2>4. call'[r] = Idle /\ call'[r].pc = "idle"
    BY <1>1, <2>1 DEF TypeOK, Idle
  <2>5. Untold(call[r])'
    BY <2>3, <2>4 DEF Untold
  <2>6. told' \in [subsystems : [Subsystem -> Entry], aggregate : Status]
    BY <1>1, <2>1
  <2>7. QED
    BY <1>1, <1>4, <2>1, <2>4, <2>5, <2>6 DEF TypeOK
<1>7. QED
  BY <1>5, <1>6

LEMMA NextIInv == OneReporter /\ IInv /\ [Next]_vars => IInv'
<1> SUFFICES ASSUME OneReporter, IInv, [Next]_vars PROVE IInv'
  OBVIOUS
<1>1. ASSUME NEW r \in Reporter, NEW s \in Subsystem, NEW status \in Status,
             Load(r, s, status)
      PROVE  IInv'
  BY <1>1, LoadStep
<1>2. ASSUME NEW r \in Reporter, Write(r) PROVE IInv'
  BY <1>2, WriteStep
<1>3. ASSUME NEW r \in Reporter, EmitSubsystem(r) \/ EmitAggregate(r) PROVE IInv'
  BY <1>3, EmitStep
<1>4. CASE UNCHANGED vars
  BY <1>4 DEF vars, IInv, TypeOK, AggregateIsMax, WorstNotMasked, Untold
<1>5. QED
  BY <1>1, <1>2, <1>3, <1>4 DEF Next

-----------------------------------------------------------------------------
(* The results *)

(* With one reporter the aggregate is always the worst status reported last  *)
(* by some subsystem, so no snapshot is inconsistent.                        *)
THEOREM AggregateExact == ASSUME OneReporter PROVE Spec => []AggregateIsMax
<1>1. IInv => AggregateIsMax
  BY DEF IInv
<1>2. IInv /\ [Next]_vars => IInv'
  BY NextIInv
<1>3. QED
  BY <1>1, <1>2, InitIInv, PTL DEF Spec

(* With one reporter the aggregate calls for attention exactly when some     *)
(* subsystem does.                                                           *)
THEOREM AttentionExact == ASSUME OneReporter PROVE Spec => []AggregateCallsForAttention
<1>1. IInv => AggregateCallsForAttention
  <2> SUFFICES ASSUME IInv PROVE AggregateCallsForAttention
    OBVIOUS
  <2>1. /\ subsystems \in [Subsystem -> Status \cup {NoEntry}] /\ aggregate \in Status
        /\ \A s \in Subsystem : subsystems[s] <= aggregate
        /\ aggregate # Healthy => \E s \in Subsystem : subsystems[s] = aggregate
    BY DEF IInv, TypeOK, Entry, AggregateIsMax, WorstNotMasked
  <2>2. ASSUME NEW s \in Subsystem, IsActionable(subsystems[s])
        PROVE  IsActionable(aggregate)
    <3>1. subsystems[s] \in 2..4 /\ aggregate \in 0..4 /\ subsystems[s] <= aggregate
      BY <2>1, <2>2 DEF IsActionable, Status, Healthy, Unknown
    <3>2. QED
      BY <3>1 DEF IsActionable, Unknown
  <2>3. IsActionable(aggregate) <=> \E s \in Subsystem : IsActionable(subsystems[s])
    <3>1. IsActionable(aggregate) => aggregate # Healthy
      BY DEF IsActionable, Healthy, Unknown
    <3>2. QED
      BY <2>1, <2>2, <3>1
  <2>4. QED
    BY <2>3 DEF AggregateCallsForAttention, HealthSnapshot, UnhealthySubsystems
<1>2. IInv /\ [Next]_vars => IInv'
  BY NextIInv
<1>3. QED
  BY <1>1, <1>2, InitIInv, PTL DEF Spec

(* With one reporter, whoever applied every event knows the registry's state *)
(* whenever no report is under way.                                          *)
THEOREM EventsComplete == ASSUME OneReporter PROVE Spec => []SubscribersUpToDate
<1>1. IInv => SubscribersUpToDate
  <2> SUFFICES ASSUME IInv, \A r \in Reporter : call[r].pc = "idle"
               PROVE  told = [subsystems |-> subsystems, aggregate |-> aggregate]
    BY DEF SubscribersUpToDate
  <2>1. told.subsystems = subsystems /\ told.aggregate = aggregate
    BY DEF IInv, Untold
  <2>2. QED
    BY <2>1 DEF IInv, TypeOK
<1>2. IInv /\ [Next]_vars => IInv'
  BY NextIInv
<1>3. QED
  BY <1>1, <1>2, InitIInv, PTL DEF Spec

(* With one reporter the four-step report implements the atomic one.         *)
THEOREM ImplementsHealthSpec == ASSUME OneReporter PROVE Spec => RefinesHealthSpec
<1>1. Init => Abstract!Init
  BY DEF Init, Abstract!Init, NoEntry, Healthy, Abstract!NoEntry, Abstract!Healthy
<1>2. IInv /\ [Next]_vars => IInv'
  BY NextIInv
<1>3. IInv /\ IInv' /\ [Next]_vars => [Abstract!Next]_<<subsystems, aggregate>>
  <2> SUFFICES ASSUME IInv, IInv', [Next]_vars
               PROVE  [Abstract!Next]_<<subsystems, aggregate>>
    OBVIOUS
  <2>1. ASSUME NEW r \in Reporter, Write(r) PROVE Abstract!Next
    <3>1. PICK s \in Subsystem, status \in Status :
            s = call[r].subsystem /\ status = call[r].status
      BY <2>1 DEF IInv, TypeOK, Write
    <3>2. subsystems' = [subsystems EXCEPT ![s] = status]
      BY <2>1, <3>1 DEF Write
    <3>3. /\ \A u \in Subsystem : subsystems'[u] <= aggregate'
          /\ aggregate' # Healthy => \E u \in Subsystem : subsystems'[u] = aggregate'
          /\ aggregate' \in Status
      BY DEF IInv, TypeOK, AggregateIsMax, WorstNotMasked
    <3>4. Abstract!Status = Status /\ Abstract!Healthy = Healthy
      BY DEF Status, Healthy, Unknown, Abstract!Status, Abstract!Healthy, Abstract!Unknown
    <3>5. Abstract!Report(s, status)
      BY <3>2, <3>3, <3>4 DEF Abstract!Report, Abstract!IsAggregate
    <3>6. QED
      BY <3>4, <3>5 DEF Abstract!Next
  <2>2. ASSUME NEW r \in Reporter, \/ \E s \in Subsystem, status \in Status : Load(r, s, status)
                                  \/ EmitSubsystem(r) \/ EmitAggregate(r)
        PROVE  UNCHANGED <<subsystems, aggregate>>
    BY <2>2 DEF Load, EmitSubsystem, EmitAggregate
  <2>3. CASE UNCHANGED vars
    BY <2>3 DEF vars
  <2>4. QED
    BY <2>1, <2>2, <2>3 DEF Next
<1>4. QED
  BY <1>1, <1>2, <1>3, InitIInv, PTL DEF Spec, RefinesHealthSpec, Abstract!Spec
=============================================================================
