------------------------ MODULE WorkerTimelineProofs -------------------------
(***************************************************************************)
(* Proofs about CircuitBreaker, for one caller, and about WorkerTimeline,  *)
(* for any durations, thresholds and policies.  First the breaker by       *)
(* itself: what each access of a call has done to the fields so far, which *)
(* makes the call atomic, and why one count and one time stamp are enough  *)
(* to see every burst.  Then the supervisor loop around it.                *)
(***************************************************************************)
EXTENDS WorkerTimeline, TLAPS, FiniteSetTheorems, SequenceTheorems

In(labels) == pc[Self] \in labels
Dated == opened_at # Never

-----------------------------------------------------------------------------
(* The breaker *)

(* The Closed arm of record_failure, under way: n failures before this one   *)
Counting == committed.state = "Closed" /\ last_failure_at # Never /\ committed.opened_at = Dated
Counted(n) == n = 0 \/ (committed.last_failure_at /\ n = committed.failures)

(* What record_failure has done when it decides to trip *)
Tripping ==
    \/ committed = [View EXCEPT !.state = "HalfOpen"]
    \/ Counting /\ failures >= Threshold /\ Counted(failures - 1)

(* The fields against what they were when the call began *)
Calls ==
    /\ In({"idle", "load", "window", "reload", "now", "opened", "try"}) => committed = View
    /\ In({"window", "restart", "add"}) => state = "Closed"
    /\ In({"restart", "add"}) => Counting
    /\ In({"add"}) => Counted(failures)
    /\ In({"open"}) => Tripping /\ state = committed.state
    /\ In({"date"}) => Tripping /\ state = "Open"
    /\ In({"close", "undate", "forget"}) => failures = 0
    /\ In({"undate", "forget"}) => state = "Closed"
    /\ In({"forget"}) => ~Dated
    /\ In({"reload"}) => state # "Open"
    /\ In({"now", "opened", "try"}) => state = "Open"

(* The count and the time stamp against the failures themselves *)
Bursts ==
    /\ last_failure_at <= clock /\ at[Self] <= clock
    /\ In({"load", "window"}) => last_failure_at <= at[Self]
    /\ \A i \in DOMAIN log : log[i] <= last_failure_at
    /\ state = "Closed" /\ In({"idle", "load", "window", "reload"}) =>
          Len(log) <= failures /\ (failures = 0 \/ failures < Threshold)
    /\ In({"restart"}) => Len(log) <= 1
    /\ In({"add"}) => Len(log) <= failures + 1

(* The state against the date of the trip *)
Trips ==
    /\ state = "HalfOpen" => Dated /\ clock - opened_at >= OpenDuration
    /\ state = "Closed" => ~Dated \/ In({"undate"})
    /\ In({"try"}) => Dated /\ at[Self] - opened_at >= OpenDuration

CircuitInv == TypeOK /\ Calls /\ Bursts /\ Trips

-----------------------------------------------------------------------------
(* The supervisor loop *)

(* Where the loop is in its call of the breaker, and when a worker may run *)
Turns ==
    /\ sup \in {"select", "sleep"} => In({"idle"})
    /\ sup = "circuit" => ~In({"reload", "now", "opened", "try"})
    /\ sup = "tick" => In({"idle", "reload", "now", "opened", "try"})
    /\ sup \in {"circuit", "sleep"} => worker = "none"
    /\ worker # "none" \/ sup = "sleep" => state # "Open"

(* What was read before the call, and what the call answered *)
Answers ==
    /\ sup = "circuit" => prior # "Open"
    /\ sup \in {"circuit", "tick"} =>
          IF In({"idle"}) THEN result[Self] = state ELSE prior = committed.state
    /\ sup = "circuit" /\ In({"idle"}) => state # "HalfOpen"
    /\ sup = "tick" /\ In({"idle"}) => state = prior \/ (prior = "Open" /\ state = "HalfOpen")

Told ==
    told = [circuit |-> IF sup \in {"circuit", "tick"} THEN prior ELSE state,
            running |-> worker # "none"]

(* The handle's count against the failures themselves, while nobody sets the *)
(* wall clock *)
Crashes ==
    ~stepped =>
        /\ wall = clock
        /\ Len(crashes) <= attempts
        /\ last_failure <= clock /\ \A i \in DOMAIN crashes : crashes[i] <= last_failure

IInv ==
    /\ CircuitInv /\ TimelineTypeOK
    /\ Turns /\ Answers /\ Told /\ Crashes /\ TrialWaitsOut /\ RetriesBounded
-----------------------------------------------------------------------------
LEMMA Alone == Self \in Caller /\ Caller = {Self}
BY TimelineAssumption DEF Self

LEMMA UpTo ==
    ASSUME NEW n \in Nat
    PROVE  IsFiniteSet(1..n) /\ Cardinality(1..n) = n
<1>1. IsFiniteSet(1..n) /\ Cardinality(1..n) = IF 1 > n THEN 0 ELSE n - 1 + 1
  BY FS_Interval
<1>2. QED
  BY <1>1

(* A history only gets shorter, and ends when everything in it is too old.   *)
LEMMA SinceShorter ==
    ASSUME NEW times \in Seq(Moment), NEW start \in Int
    PROVE  /\ Since(times, start) \in Seq(Moment)
           /\ Len(Since(times, start)) \in Nat /\ Len(Since(times, start)) <= Len(times)
           /\ \A i \in DOMAIN Since(times, start) : \E j \in DOMAIN times :
                 Since(times, start)[i] = times[j]
           /\ (\A i \in DOMAIN times : times[i] < start) => Len(Since(times, start)) = 0
<1> DEFINE old == {i \in DOMAIN times : times[i] < start}
<1>1. Len(times) \in Nat /\ DOMAIN times = 1..Len(times)
  OBVIOUS
<1>2. IsFiniteSet(old) /\ Cardinality(old) \in Nat /\ Cardinality(old) <= Len(times)
  BY <1>1, UpTo, FS_Subset, FS_CardinalityType
<1>3. PICK n \in Nat : n = Cardinality(old) /\ n <= Len(times)
  BY <1>2
<1>4. Since(times, start) = SubSeq(times, n + 1, Len(times))
  BY <1>3 DEF Since
<1>5. /\ SubSeq(times, n + 1, Len(times)) \in Seq(Moment)
      /\ Len(SubSeq(times, n + 1, Len(times))) = Len(times) - n
      /\ \A i \in 1..(Len(times) - n) : SubSeq(times, n + 1, Len(times))[i] = times[n + i]
  <2>1. /\ n + 1 \in Int /\ Len(times) \in Int
        /\ \A i \in (n + 1)..Len(times) : times[i] \in Moment
    <3>1. \A i \in 1..Len(times) : times[i] \in Moment
      OBVIOUS
    <3>2. \A i \in (n + 1)..Len(times) : i \in 1..Len(times)
      BY <1>1, <1>3
    <3>3. QED
      BY <1>1, <1>3, <3>1, <3>2
  <2>2. /\ SubSeq(times, n + 1, Len(times)) \in Seq(Moment)
        /\ Len(SubSeq(times, n + 1, Len(times))) =
              IF n + 1 <= Len(times) THEN Len(times) - (n + 1) + 1 ELSE 0
        /\ \A i \in 1..(Len(times) - (n + 1) + 1) :
              SubSeq(times, n + 1, Len(times))[i] = times[n + 1 + i - 1]
    BY <2>1, SubSeqProperties
  <2>3. /\ Len(times) - (n + 1) + 1 = Len(times) - n
        /\ (IF n + 1 <= Len(times) THEN Len(times) - (n + 1) + 1 ELSE 0) = Len(times) - n
    BY <1>1, <1>3
  <2>4. \A i \in 1..(Len(times) - n) : n + 1 + i - 1 = n + i
    BY <1>1
  <2>5. \A i \in 1..(Len(times) - n) : SubSeq(times, n + 1, Len(times))[i] = times[n + i]
    BY <2>2, <2>3, <2>4
  <2>6. QED
    BY <2>2, <2>3, <2>5
<1>6. ASSUME \A i \in DOMAIN times : times[i] < start PROVE n = Len(times)
  <2>1. old = 1..Len(times)
    BY <1>1, <1>6
  <2>2. QED
    BY <1>1, <1>3, <2>1, UpTo
<1>7. \A i \in 1..(Len(times) - n) : n + i \in DOMAIN times
  BY <1>1, <1>3
<1>8. QED
  <2> DEFINE recent == SubSeq(times, n + 1, Len(times))
  <2>1. /\ recent \in Seq(Moment) /\ Len(recent) = Len(times) - n
        /\ DOMAIN recent = 1..(Len(times) - n)
        /\ \A i \in 1..(Len(times) - n) : recent[i] = times[n + i] /\ n + i \in DOMAIN times
    BY <1>5, <1>7
  <2> HIDE DEF recent
  <2>2. Len(recent) \in Nat /\ Len(recent) <= Len(times)
    BY <1>1, <1>3, <2>1
  <2>3. (\A i \in DOMAIN times : times[i] < start) => Len(recent) = 0
    <3>1. SUFFICES ASSUME \A i \in DOMAIN times : times[i] < start PROVE Len(recent) = 0
      OBVIOUS
    <3>2. n = Len(times)
      BY <1>6, <3>1
    <3>3. QED
      BY <1>1, <2>1, <3>2
  <2>4. Since(times, start) = recent
    BY <1>4 DEF recent
  <2>5. QED
    BY <2>1, <2>2, <2>3, <2>4

-----------------------------------------------------------------------------
(* The calls of the breaker, access by access                                *)

(* What the bounds and the clock mean for the arithmetic                     *)
LEMMA Typed ==
    ASSUME TypeOK
    PROVE  /\ Self \in Caller /\ DOMAIN pc = Caller /\ DOMAIN at = Caller
           /\ clock \in Nat /\ at[Self] \in Nat /\ at[Self] \in Moment
           /\ last_failure_at \in Nat \cup {-1} /\ opened_at \in Nat \cup {-1}
           /\ failures \in Nat /\ Len(log) \in Nat /\ log \in Seq(Moment)
           /\ Threshold \in Nat /\ Window \in Nat /\ OpenDuration \in Nat /\ Moment \subseteq Nat
           /\ pc \in [Caller -> {"idle", "load", "window", "restart", "add", "open", "date", "close",
                          "undate", "forget", "reload", "now", "opened", "try"}]
BY Alone, CircuitAssumption DEF TypeOK, Moment, Never

(* A call that returns publishes the fields.                                 *)
LEMMA ViewTyped ==
    ASSUME state \in {"Closed", "Open", "HalfOpen"}, failures \in Nat
    PROVE  /\ View \in Atomic!Breaker
           /\ View.state = state /\ View.failures = failures
           /\ View.last_failure_at <=> last_failure_at # Never
           /\ View.opened_at <=> Dated
BY DEF View, Dated, Atomic!Breaker, Atomic!CircuitState

LEMMA Publishes ==
    ASSUME state' \in {"Closed", "Open", "HalfOpen"}, failures' \in Nat, committed' = View'
    PROVE  committed' \in Atomic!Breaker
BY ViewTyped DEF View, Atomic!Breaker, Atomic!CircuitState

LEMMA InitCircuit == Init => CircuitInv
<1> SUFFICES ASSUME Init PROVE CircuitInv
  OBVIOUS
<1>1. Self \in Caller /\ MaxTime \in Nat
  BY Alone, CircuitAssumption
<1>2. TypeOK
  <2>1. committed \in Atomic!Breaker
    BY ViewTyped DEF Init
  <2>2. QED
    BY <1>1, <2>1 DEF Init, TypeOK, Moment, Never
<1>3. Calls
  BY <1>1 DEF Init, Calls, In
<1>4. Bursts
  BY <1>1 DEF Init, Bursts, In, Never
<1>5. Trips
  BY <1>1 DEF Init, Trips, In, Dated
<1>6. QED
  BY <1>2, <1>3, <1>4, <1>5 DEF CircuitInv

LEMMA TimePassesStep ==
    ASSUME CircuitInv, TimePasses
    PROVE  CircuitInv'
<1>1. /\ clock' = clock + 1 /\ clock' \in Moment
      /\ UNCHANGED <<fields, pc, at, result, log, committed>>
  BY CircuitAssumption DEF CircuitInv, TypeOK, TimePasses, Moment
<1>2. TypeOK'
  BY <1>1 DEF CircuitInv, TypeOK, fields
<1>3. Calls'
  BY <1>1 DEF CircuitInv, Calls, In, fields, View, Counting, Counted, Tripping, Dated
<1>4. Bursts'
  BY <1>1, Typed DEF CircuitInv, Bursts, In, fields
<1>5. Trips'
  BY <1>1, Typed DEF CircuitInv, Trips, In, Dated, fields, Never
<1>6. QED
  BY <1>2, <1>3, <1>4, <1>5 DEF CircuitInv

(* record_failure                                                          *)
LEMMA FailureStep ==
    ASSUME CircuitInv, Fail(Self) \/ FailLoad(Self) \/ FailWindow(Self) \/ FailRestart(Self) \/ FailAdd(Self) \/ FailOpen(Self) \/ FailDate(Self)
    PROVE  CircuitInv'
<1>1. CASE Fail(Self)
  <2>1. TypeOK'
    BY <1>1, Typed DEF CircuitInv, TypeOK, Fail, Step, Return, fields
  <2>2. Calls'
    BY <1>1, Typed DEF CircuitInv, Calls, In, Fail, Step, Return, fields, View, Counting,
       Counted, Tripping, Dated
  <2>3. Bursts'
    BY <1>1, Typed DEF CircuitInv, Bursts, Calls, In, Fail, Step, Return, fields
  <2>4. Trips'
    BY <1>1, Typed DEF CircuitInv, Trips, Calls, In, Fail, Step, Return, fields, Dated, Never
  <2>5. QED
    BY <2>1, <2>2, <2>3, <2>4 DEF CircuitInv
<1>2. CASE FailLoad(Self)
  <2>1. TypeOK'
    <3>1. committed' \in Atomic!Breaker
      BY <1>2, Publishes DEF CircuitInv, TypeOK, FailLoad, Step, Return, fields
    <3>2. QED
      BY <1>2, <3>1, Typed DEF CircuitInv, TypeOK, FailLoad, Step, Return, fields
  <2>2. Calls'
    BY <1>2, Typed DEF CircuitInv, Calls, In, FailLoad, Step, Return, fields, View, Counting,
       Counted, Tripping, Dated
  <2>3. Bursts'
    BY <1>2, Typed DEF CircuitInv, Bursts, Calls, In, FailLoad, Step, Return, fields
  <2>4. Trips'
    BY <1>2, Typed DEF CircuitInv, Trips, Calls, In, FailLoad, Step, Return, fields, Dated, Never
  <2>5. QED
    BY <2>1, <2>2, <2>3, <2>4 DEF CircuitInv
<1>3. CASE FailWindow(Self)
  <2> DEFINE kept == Since(log, at[Self] - Window)
             near == last_failure_at # Never /\ at[Self] - last_failure_at <= Window
  <2>1. /\ pc[Self] = "window" /\ pc' = [pc EXCEPT ![Self] = IF near THEN "add" ELSE "restart"]
        /\ last_failure_at' = at[Self] /\ log' = Append(kept, at[Self])
        /\ UNCHANGED <<state, failures, opened_at, clock, at, result, committed>>
    BY <1>3 DEF FailWindow, Step, InWindow
  <2>2. /\ kept \in Seq(Moment) /\ Len(kept) \in Nat /\ Len(kept) <= Len(log)
        /\ \A i \in DOMAIN kept : \E j \in DOMAIN log : kept[i] = log[j]
        /\ (\A i \in DOMAIN log : log[i] < at[Self] - Window) => Len(kept) = 0
    <3>1. PICK start \in Int : start = at[Self] - Window
      BY Typed DEF CircuitInv
    <3>2. log \in Seq(Moment)
      BY Typed DEF CircuitInv
    <3>3. kept = Since(log, start)
      BY <3>1
    <3>4. QED
      BY <3>1, <3>2, <3>3, SinceShorter
  <2> HIDE DEF kept
  <2>3. /\ log' \in Seq(Moment) /\ Len(log') = Len(kept) + 1
        /\ \A i \in DOMAIN log' : (i \in DOMAIN kept /\ log'[i] = kept[i]) \/ log'[i] = at[Self]
    <3>1. at[Self] \in Moment
      BY Typed DEF CircuitInv
    <3>2. QED
      BY <2>1, <2>2, <3>1
  <2>4. pc'[Self] = IF near THEN "add" ELSE "restart"
    BY <2>1, Typed DEF CircuitInv
  <2>5. /\ last_failure_at <= at[Self] /\ at[Self] <= clock /\ state = "Closed"
        /\ committed = View /\ Len(log) <= failures
        /\ \A i \in DOMAIN log : log[i] <= last_failure_at
    BY <2>1 DEF CircuitInv, Bursts, Calls, In
  <2>6. TypeOK'
    <3>1. pc' \in [Caller -> {"idle", "load", "window", "restart", "add", "open", "date", "close",
                          "undate", "forget", "reload", "now", "opened", "try"}]
      BY <2>1, Typed DEF CircuitInv
    <3>2. QED
      BY <2>1, <2>3, <3>1, Typed DEF CircuitInv, TypeOK
  <2>7. Calls'
    <3>1. at[Self] # Never
      BY Typed DEF CircuitInv, Never
    <3>2. Counting'
      BY <2>1, <2>5, <3>1 DEF Counting, Dated, View
    <3>3. near => Counted(failures)'
      BY <2>1, <2>5 DEF Counted, View
    <3>4. QED
      BY <2>1, <2>4, <2>5, <3>2, <3>3 DEF Calls, In
  <2>8. Bursts'
    <3>1. \A i \in DOMAIN log' : log'[i] <= at[Self]
      <4>1. \A i \in DOMAIN kept : kept[i] <= at[Self]
        <5>1. \A j \in DOMAIN log : log[j] \in Int /\ log[j] <= last_failure_at
          BY <2>5, Typed DEF CircuitInv
        <5>2. last_failure_at \in Int /\ at[Self] \in Int
          BY Typed DEF CircuitInv
        <5>3. \A j \in DOMAIN log : log[j] <= at[Self]
          BY <2>5, <5>1, <5>2
        <5>4. QED
          BY <2>2, <5>3
      <4>2. at[Self] <= at[Self]
        BY Typed DEF CircuitInv
      <4>3. QED
        BY <2>3, <4>1, <4>2
    <3>2. ASSUME ~near PROVE Len(kept) = 0
      <4>1. \A j \in DOMAIN log : log[j] \in Nat /\ log[j] <= last_failure_at
        BY <2>5, Typed DEF CircuitInv
      <4>2. \A j \in DOMAIN log : log[j] < at[Self] - Window
        <5>1. /\ last_failure_at \in Nat \cup {-1} /\ at[Self] \in Nat /\ Window \in Nat
          BY Typed DEF CircuitInv
        <5>2. last_failure_at = -1 \/ last_failure_at < at[Self] - Window
          BY <3>2, <5>1 DEF Never
        <5>3. QED
          BY <4>1, <5>1, <5>2
      <4>3. QED
        BY <2>2, <4>2
    <3>3. Len(log') <= failures' + 1 /\ (~near => Len(log') <= 1)
      <4>1. failures \in Nat /\ failures' = failures /\ Len(log) \in Nat
        BY <2>1, Typed DEF CircuitInv
      <4>2. Len(log') = Len(kept) + 1 /\ Len(kept) <= Len(log) /\ Len(log) <= failures
        BY <2>2, <2>3, <2>5
      <4>3. QED
        BY <2>2, <3>2, <4>1, <4>2
    <3>4. QED
      BY <2>1, <2>4, <2>5, <3>1, <3>3, Typed DEF CircuitInv, Bursts, In
  <2>9. Trips'
    BY <1>3, Typed DEF CircuitInv, Trips, Calls, In, FailWindow, Step, Return, fields, Dated, Never
  <2>10. QED
    BY <2>6, <2>7, <2>8, <2>9 DEF CircuitInv
<1>4. CASE FailRestart(Self)
  <2>1. TypeOK'
    BY <1>4, Typed DEF CircuitInv, TypeOK, FailRestart, Step, Return, fields
  <2>2. Calls'
    BY <1>4, Typed DEF CircuitInv, Calls, In, FailRestart, Step, Return, fields, View, Counting,
       Counted, Tripping, Dated
  <2>3. Bursts'
    BY <1>4, Typed DEF CircuitInv, Bursts, Calls, In, FailRestart, Step, Return, fields
  <2>4. Trips'
    BY <1>4, Typed DEF CircuitInv, Trips, Calls, In, FailRestart, Step, Return, fields, Dated, Never
  <2>5. QED
    BY <2>1, <2>2, <2>3, <2>4 DEF CircuitInv
<1>5. CASE FailAdd(Self)
  <2>1. TypeOK'
    <3>1. failures' \in Nat /\ UNCHANGED <<state, last_failure_at, opened_at, clock, at, log>>
      BY <1>5, Typed DEF CircuitInv, FailAdd
    <3>2. (\E to \in {"open", "idle"} : pc' = [pc EXCEPT ![Self] = to])
          /\ (result' = result \/ result' = [result EXCEPT ![Self] = "Closed"])
      BY <1>5 DEF FailAdd, Step, Return
    <3>3. committed' \in Atomic!Breaker
      BY <1>5, <3>1, Publishes DEF CircuitInv, TypeOK, FailAdd, Step, Return
    <3>4. QED
      BY <3>1, <3>2, <3>3 DEF CircuitInv, TypeOK
  <2>2. Calls'
    BY <1>5, Typed DEF CircuitInv, Calls, In, FailAdd, Step, Return, fields, View, Counting,
       Counted, Tripping, Dated
  <2>3. Bursts'
    BY <1>5, Typed DEF CircuitInv, Bursts, Calls, In, FailAdd, Step, Return, fields
  <2>4. Trips'
    BY <1>5, Typed DEF CircuitInv, Trips, Calls, In, FailAdd, Step, Return, fields, Dated, Never
  <2>5. QED
    BY <2>1, <2>2, <2>3, <2>4 DEF CircuitInv
<1>6. CASE FailOpen(Self)
  <2>1. TypeOK'
    BY <1>6, Typed DEF CircuitInv, TypeOK, FailOpen, Step, Return, fields
  <2>2. Calls'
    BY <1>6, Typed DEF CircuitInv, Calls, In, FailOpen, Step, Return, fields, View, Counting,
       Counted, Tripping, Dated
  <2>3. Bursts'
    BY <1>6, Typed DEF CircuitInv, Bursts, Calls, In, FailOpen, Step, Return, fields
  <2>4. Trips'
    BY <1>6, Typed DEF CircuitInv, Trips, Calls, In, FailOpen, Step, Return, fields, Dated, Never
  <2>5. QED
    BY <2>1, <2>2, <2>3, <2>4 DEF CircuitInv
<1>7. CASE FailDate(Self)
  <2>1. TypeOK'
    <3>1. committed' \in Atomic!Breaker
      BY <1>7, Publishes DEF CircuitInv, TypeOK, FailDate, Step, Return, fields
    <3>2. QED
      BY <1>7, <3>1, Typed DEF CircuitInv, TypeOK, FailDate, Step, Return, fields
  <2>2. Calls'
    BY <1>7, Typed DEF CircuitInv, Calls, In, FailDate, Step, Return, fields, View, Counting,
       Counted, Tripping, Dated
  <2>3. Bursts'
    BY <1>7, Typed DEF CircuitInv, Bursts, Calls, In, FailDate, Step, Return, fields
  <2>4. Trips'
    BY <1>7, Typed DEF CircuitInv, Trips, Calls, In, FailDate, Step, Return, fields, Dated, Never
  <2>5. QED
    BY <2>1, <2>2, <2>3, <2>4 DEF CircuitInv
<1>8. QED
  BY <1>1, <1>2, <1>3, <1>4, <1>5, <1>6, <1>7

(* record_success                                                          *)
LEMMA SuccessStep ==
    ASSUME CircuitInv, Succeed(Self) \/ SucceedClose(Self) \/ SucceedUndate(Self) \/ SucceedForget(Self)
    PROVE  CircuitInv'
<1>1. CASE Succeed(Self)
  <2>1. TypeOK'
    BY <1>1, Typed DEF CircuitInv, TypeOK, Succeed, Step, Return, fields
  <2>2. Calls'
    BY <1>1, Typed DEF CircuitInv, Calls, In, Succeed, Step, Return, fields, View, Counting,
       Counted, Tripping, Dated
  <2>3. Bursts'
    BY <1>1, Typed DEF CircuitInv, Bursts, Calls, In, Succeed, Step, Return, fields
  <2>4. Trips'
    BY <1>1, Typed DEF CircuitInv, Trips, Calls, In, Succeed, Step, Return, fields, Dated, Never
  <2>5. QED
    BY <2>1, <2>2, <2>3, <2>4 DEF CircuitInv
<1>2. CASE SucceedClose(Self)
  <2>1. TypeOK'
    BY <1>2, Typed DEF CircuitInv, TypeOK, SucceedClose, Step, Return, fields
  <2>2. Calls'
    BY <1>2, Typed DEF CircuitInv, Calls, In, SucceedClose, Step, Return, fields, View, Counting,
       Counted, Tripping, Dated
  <2>3. Bursts'
    BY <1>2, Typed DEF CircuitInv, Bursts, Calls, In, SucceedClose, Step, Return, fields
  <2>4. Trips'
    BY <1>2, Typed DEF CircuitInv, Trips, Calls, In, SucceedClose, Step, Return, fields, Dated, Never
  <2>5. QED
    BY <2>1, <2>2, <2>3, <2>4 DEF CircuitInv
<1>3. CASE SucceedUndate(Self)
  <2>1. TypeOK'
    BY <1>3, Typed DEF CircuitInv, TypeOK, SucceedUndate, Step, Return, fields
  <2>2. Calls'
    BY <1>3, Typed DEF CircuitInv, Calls, In, SucceedUndate, Step, Return, fields, View, Counting,
       Counted, Tripping, Dated
  <2>3. Bursts'
    BY <1>3, Typed DEF CircuitInv, Bursts, Calls, In, SucceedUndate, Step, Return, fields
  <2>4. Trips'
    BY <1>3, Typed DEF CircuitInv, Trips, Calls, In, SucceedUndate, Step, Return, fields, Dated, Never
  <2>5. QED
    BY <2>1, <2>2, <2>3, <2>4 DEF CircuitInv
<1>4. CASE SucceedForget(Self)
  <2>1. TypeOK'
    <3>1. committed' \in Atomic!Breaker
      BY <1>4, Publishes DEF CircuitInv, TypeOK, SucceedForget, Step, Return, fields
    <3>2. QED
      BY <1>4, <3>1, Typed DEF CircuitInv, TypeOK, SucceedForget, Step, Return, fields
  <2>2. Calls'
    BY <1>4, Typed DEF CircuitInv, Calls, In, SucceedForget, Step, Return, fields, View, Counting,
       Counted, Tripping, Dated
  <2>3. Bursts'
    <3>1. log' = <<>> /\ Len(log') = 0 /\ DOMAIN log' = {} /\ last_failure_at' = -1
      BY <1>4 DEF SucceedForget, Never
    <3>2. QED
      BY <1>4, <3>1, Typed DEF CircuitInv, Bursts, Calls, In, SucceedForget, Return
  <2>4. Trips'
    BY <1>4, Typed DEF CircuitInv, Trips, Calls, In, SucceedForget, Step, Return, fields, Dated, Never
  <2>5. QED
    BY <2>1, <2>2, <2>3, <2>4 DEF CircuitInv
<1>5. QED
  BY <1>1, <1>2, <1>3, <1>4

(* tick                                                                    *)
LEMMA TickStep ==
    ASSUME CircuitInv, TickLoad(Self) \/ TickReload(Self) \/ TickNow(Self) \/ TickRead(Self) \/ TickTry(Self)
    PROVE  CircuitInv'
<1>1. CASE TickLoad(Self)
  <2>1. TypeOK'
    BY <1>1, Typed DEF CircuitInv, TypeOK, TickLoad, Step, Return, fields
  <2>2. Calls'
    BY <1>1, Typed DEF CircuitInv, Calls, In, TickLoad, Step, Return, fields, View, Counting,
       Counted, Tripping, Dated
  <2>3. Bursts'
    BY <1>1, Typed DEF CircuitInv, Bursts, Calls, In, TickLoad, Step, Return, fields
  <2>4. Trips'
    BY <1>1, Typed DEF CircuitInv, Trips, Calls, In, TickLoad, Step, Return, fields, Dated, Never
  <2>5. QED
    BY <2>1, <2>2, <2>3, <2>4 DEF CircuitInv
<1>2. CASE TickReload(Self)
  <2>1. TypeOK'
    <3>1. committed' \in Atomic!Breaker
      BY <1>2, Publishes DEF CircuitInv, TypeOK, TickReload, Step, Return, fields
    <3>2. QED
      BY <1>2, <3>1, Typed DEF CircuitInv, TypeOK, TickReload, Step, Return, fields
  <2>2. Calls'
    BY <1>2, Typed DEF CircuitInv, Calls, In, TickReload, Step, Return, fields, View, Counting,
       Counted, Tripping, Dated
  <2>3. Bursts'
    BY <1>2, Typed DEF CircuitInv, Bursts, Calls, In, TickReload, Step, Return, fields
  <2>4. Trips'
    BY <1>2, Typed DEF CircuitInv, Trips, Calls, In, TickReload, Step, Return, fields, Dated, Never
  <2>5. QED
    BY <2>1, <2>2, <2>3, <2>4 DEF CircuitInv
<1>3. CASE TickNow(Self)
  <2>1. TypeOK'
    BY <1>3, Typed DEF CircuitInv, TypeOK, TickNow, Step, Return, fields
  <2>2. Calls'
    BY <1>3, Typed DEF CircuitInv, Calls, In, TickNow, Step, Return, fields, View, Counting,
       Counted, Tripping, Dated
  <2>3. Bursts'
    BY <1>3, Typed DEF CircuitInv, Bursts, Calls, In, TickNow, Step, Return, fields
  <2>4. Trips'
    BY <1>3, Typed DEF CircuitInv, Trips, Calls, In, TickNow, Step, Return, fields, Dated, Never
  <2>5. QED
    BY <2>1, <2>2, <2>3, <2>4 DEF CircuitInv
<1>4. CASE TickRead(Self)
  <2>1. TypeOK'
    <3>1. committed' \in Atomic!Breaker
      BY <1>4, Publishes DEF CircuitInv, TypeOK, TickRead, Step, Return, fields
    <3>2. QED
      BY <1>4, <3>1, Typed DEF CircuitInv, TypeOK, TickRead, Step, Return, fields
  <2>2. Calls'
    BY <1>4, Typed DEF CircuitInv, Calls, In, TickRead, Step, Return, fields, View, Counting,
       Counted, Tripping, Dated
  <2>3. Bursts'
    BY <1>4, Typed DEF CircuitInv, Bursts, Calls, In, TickRead, Step, Return, fields
  <2>4. Trips'
    BY <1>4, Typed DEF CircuitInv, Trips, Calls, In, TickRead, Step, Return, fields, Dated, Never
  <2>5. QED
    BY <2>1, <2>2, <2>3, <2>4 DEF CircuitInv
<1>5. CASE TickTry(Self)
  <2>1. TypeOK'
    <3>1. committed' \in Atomic!Breaker
      BY <1>5, Publishes DEF CircuitInv, TypeOK, TickTry, Step, Return, fields
    <3>2. QED
      BY <1>5, <3>1, Typed DEF CircuitInv, TypeOK, TickTry, Step, Return, fields
  <2>2. Calls'
    BY <1>5, Typed DEF CircuitInv, Calls, In, TickTry, Step, Return, fields, View, Counting,
       Counted, Tripping, Dated
  <2>3. Bursts'
    BY <1>5, Typed DEF CircuitInv, Bursts, Calls, In, TickTry, Step, Return, fields
  <2>4. Trips'
    <3>1. Dated /\ at[Self] - opened_at >= OpenDuration /\ at[Self] <= clock /\ opened_at \in Int
      BY <1>5, Typed DEF CircuitInv, Trips, Bursts, In, TickTry, Return
    <3>2. clock - opened_at >= OpenDuration
      BY <3>1, Typed DEF CircuitInv
    <3>3. QED
      BY <1>5, <3>1, <3>2, Typed DEF CircuitInv, Trips, In, TickTry, Return, Dated
  <2>5. QED
    BY <2>1, <2>2, <2>3, <2>4 DEF CircuitInv
<1>6. QED
  BY <1>1, <1>2, <1>3, <1>4, <1>5

LEMMA CircuitNext == CircuitInv /\ [Next]_vars => CircuitInv'
<1> SUFFICES ASSUME CircuitInv, [Next]_vars PROVE CircuitInv'
  OBVIOUS
<1>1. CASE TimePasses
  BY <1>1, TimePassesStep
<1>2. CASE \E c \in Caller : Fail(c) \/ Succeed(c) \/ TickLoad(c) \/ Continue(c)
  <2>1. Fail(Self) \/ Succeed(Self) \/ TickLoad(Self) \/ Continue(Self)
    BY <1>2, Alone
  <2>2. QED
    BY <2>1, FailureStep, SuccessStep, TickStep DEF Continue
<1>3. CASE UNCHANGED vars
  <2>1. UNCHANGED <<state, failures, last_failure_at, opened_at, clock, pc, at, result, log,
                    committed>>
    BY <1>3 DEF vars, fields
  <2>2. TypeOK' /\ Bursts'
    BY <2>1 DEF CircuitInv, TypeOK, Bursts, In
  <2>3. Calls' /\ Trips'
    BY <2>1 DEF CircuitInv, Calls, Trips, In, Dated, View, Counting, Counted, Tripping
  <2>4. QED
    BY <2>2, <2>3 DEF CircuitInv
<1>4. QED
  BY <1>1, <1>2, <1>3 DEF Next

(* The count sees every burst.                                               *)
LEMMA CountSeesBursts == CircuitInv => BurstTrips
<1> SUFFICES ASSUME CircuitInv, Quiet, state = "Closed"
             PROVE  Cardinality(Recent) < IF Threshold = 0 THEN 1 ELSE Threshold
  BY DEF BurstTrips
<1>1. Len(log) <= failures /\ (failures = 0 \/ failures < Threshold)
  BY Alone DEF CircuitInv, Bursts, In, Quiet, Idle
<1>2. DOMAIN log = 1..Len(log) /\ Len(log) \in Nat /\ failures \in Nat /\ Threshold \in Nat
  BY Typed DEF CircuitInv
<1>3. Cardinality(Recent) \in Nat /\ Cardinality(Recent) <= Len(log)
  <2>1. Recent \in SUBSET (1..Len(log))
    BY <1>2 DEF Recent
  <2>2. QED
    <3>1. IsFiniteSet(1..Len(log)) /\ Cardinality(1..Len(log)) = Len(log)
      BY <1>2, UpTo
    <3>2. IsFiniteSet(Recent) /\ Cardinality(Recent) <= Cardinality(1..Len(log))
      BY <2>1, <3>1, FS_Subset
    <3>3. QED
      BY <3>1, <3>2, FS_CardinalityType
<1>4. QED
  BY <1>1, <1>2, <1>3

-----------------------------------------------------------------------------
(* Every call takes effect at once when it returns.                          *)

LEMMA SameBreaker ==
    ASSUME NEW b \in Atomic!Breaker, NEW d \in Atomic!Breaker,
           b.state = d.state, b.failures = d.failures,
           b.last_failure_at = d.last_failure_at, b.opened_at = d.opened_at
    PROVE  b = d
BY DEF Atomic!Breaker

(* What CircuitOps makes of a failure that a Closed breaker counts           *)
LEMMA CountsFailure ==
    ASSUME NEW b \in Atomic!Breaker, NEW inWindow \in BOOLEAN, NEW n \in Nat,
           b.state = "Closed", n = IF b.last_failure_at /\ inWindow THEN b.failures + 1 ELSE 1
    PROVE  /\ Atomic!RecordFailure(b, inWindow, Threshold) =
                 [state |-> IF n >= Threshold THEN "Open" ELSE "Closed", failures |-> n,
                  last_failure_at |-> TRUE,
                  opened_at |-> IF n >= Threshold THEN TRUE ELSE b.opened_at]
<1>1. /\ b = [state |-> b.state, failures |-> b.failures, last_failure_at |-> b.last_failure_at,
              opened_at |-> b.opened_at]
  BY DEF Atomic!Breaker
<1>2. Atomic!RecordFailure(b, inWindow, Threshold) = Atomic!CountFailure(b, inWindow, Threshold)
  BY DEF Atomic!RecordFailure
<1>3. [b EXCEPT !.failures = n, !.last_failure_at = TRUE] =
         [state |-> b.state, failures |-> n, last_failure_at |-> TRUE, opened_at |-> b.opened_at]
  <2> DEFINE c == [b EXCEPT !.failures = n, !.last_failure_at = TRUE]
             d == [state |-> b.state, failures |-> n, last_failure_at |-> TRUE,
                   opened_at |-> b.opened_at]
  <2>1. /\ c \in Atomic!Breaker /\ c.state = b.state /\ c.failures = n
        /\ c.last_failure_at = TRUE /\ c.opened_at = b.opened_at
    BY DEF Atomic!Breaker
  <2>2. d \in Atomic!Breaker
    BY DEF Atomic!Breaker
  <2>3. /\ d.state = b.state /\ d.failures = n
        /\ d.last_failure_at = TRUE /\ d.opened_at = b.opened_at
    OBVIOUS
  <2> HIDE DEF c, d
  <2>4. c = d
    BY <2>1, <2>2, <2>3, SameBreaker
  <2>5. QED
    BY <2>4 DEF c, d
<1>4. Atomic!CountFailure(b, inWindow, Threshold) =
         IF n >= Threshold
         THEN Atomic!OpenBreaker([b EXCEPT !.failures = n, !.last_failure_at = TRUE])
         ELSE [b EXCEPT !.failures = n, !.last_failure_at = TRUE]
  BY DEF Atomic!CountFailure
<1>5. QED
  BY <1>2, <1>3, <1>4 DEF Atomic!OpenBreaker

LEMMA WindowOf ==
    ASSUME NEW n \in Nat, Counted(n)
    PROVE  \E inWindow \in BOOLEAN :
              n + 1 = IF committed.last_failure_at /\ inWindow THEN committed.failures + 1 ELSE 1
<1>1. CASE n = 0
  <2>1. n + 1 = IF committed.last_failure_at /\ FALSE THEN committed.failures + 1 ELSE 1
    BY <1>1
  <2>2. QED
    BY <2>1
<1>2. CASE committed.last_failure_at /\ n = committed.failures
  <2>1. n + 1 = IF committed.last_failure_at /\ TRUE THEN committed.failures + 1 ELSE 1
    BY <1>2
  <2>2. QED
    BY <2>1
<1>3. QED
  BY <1>1, <1>2 DEF Counted

LEMMA CircuitStepMaps ==
    ASSUME CircuitInv, [Next]_vars
    PROVE  [Atomic!Next]_committed
<1>1. TypeOK /\ Calls /\ committed \in Atomic!Breaker /\ TypeOK' /\ committed' \in Atomic!Breaker
  BY CircuitNext DEF CircuitInv, TypeOK
<1>2. CASE TimePasses \/ UNCHANGED vars
  BY <1>2 DEF TimePasses, vars
<1>3. CASE \/ Fail(Self) \/ FailWindow(Self) \/ FailRestart(Self) \/ FailOpen(Self)
           \/ Succeed(Self) \/ SucceedClose(Self) \/ SucceedUndate(Self)
           \/ TickLoad(Self) \/ TickNow(Self)
  BY <1>3 DEF Fail, FailWindow, FailRestart, FailOpen, Succeed, SucceedClose, SucceedUndate,
     TickLoad, TickNow, Step
<1>4. CASE FailLoad(Self) \/ TickReload(Self) \/ TickRead(Self)
  <2>1. committed' = committed \/ (committed' = View' /\ View' = View)
    BY <1>4 DEF FailLoad, TickReload, TickRead, Step, Return, View, fields
  <2>2. committed = View
    BY <1>4 DEF FailLoad, TickReload, TickRead, Step, Return, CircuitInv, Calls, In
  <2>3. QED
    BY <2>1, <2>2
<1>5. CASE FailAdd(Self)
  <2>1. CASE committed' = committed
    BY <2>1
  <2>2. CASE Return(Self, "add", "Closed") /\ failures' < Threshold
    <3>1. /\ committed.state = "Closed" /\ state = "Closed" /\ Counting /\ Counted(failures)
      BY <1>1, <2>2 DEF Calls, In, Return, Counting
    <3>2. /\ committed' = View' /\ failures' = failures + 1
          /\ UNCHANGED <<state, last_failure_at, opened_at>>
      BY <1>5, <2>2 DEF Return, FailAdd
    <3>3. /\ committed'.state = "Closed" /\ committed'.failures = failures + 1
          /\ committed'.last_failure_at = TRUE /\ committed'.opened_at = committed.opened_at
      BY <3>1, <3>2 DEF View, Counting, Dated
    <3>4. PICK n \in Nat, inWindow \in BOOLEAN :
             /\ n = failures + 1
             /\ n = IF committed.last_failure_at /\ inWindow THEN committed.failures + 1 ELSE 1
      <4>1. failures \in Nat /\ failures + 1 \in Nat
        BY <1>1, Typed
      <4>2. QED
        BY <3>1, <4>1, WindowOf
    <3>5. ~(n >= Threshold)
      BY <1>1, <2>2, <3>2, <3>4, Typed
    <3>6. committed' = [state |-> "Closed", failures |-> n, last_failure_at |-> TRUE,
                        opened_at |-> committed.opened_at]
      BY <1>1, <3>3, <3>4 DEF Atomic!Breaker
    <3>7. committed' = Atomic!RecordFailure(committed, inWindow, Threshold)
      BY <1>1, <3>1, <3>4, <3>5, <3>6, CountsFailure
    <3>8. QED
      BY <3>7 DEF Atomic!Next, Atomic!Failure
  <2>3. QED
    BY <1>5, <2>1, <2>2 DEF FailAdd, Step
<1>6. CASE FailDate(Self)
  <2>1. /\ Tripping /\ state = "Open" /\ committed' = View' /\ Dated'
        /\ UNCHANGED <<state, failures, last_failure_at>>
    <3>1. at[Self] # Never
      BY <1>1, Typed DEF Never
    <3>2. QED
      BY <1>1, <1>6, <3>1 DEF FailDate, Return, Calls, In, Dated
  <2>2. /\ committed'.state = "Open" /\ committed'.failures = failures
        /\ committed'.last_failure_at = (last_failure_at # Never) /\ committed'.opened_at = TRUE
    BY <2>1 DEF View, Dated
  <2>3. CASE committed = [View EXCEPT !.state = "HalfOpen"]
    <3>1. /\ committed.state = "HalfOpen" /\ committed.failures = failures
          /\ committed.last_failure_at = (last_failure_at # Never)
      BY <2>3 DEF View
    <3>2. committed' = Atomic!OpenBreaker(committed)
      <4>1. committed' = [state |-> "Open", failures |-> committed.failures,
                          last_failure_at |-> committed.last_failure_at, opened_at |-> TRUE]
        BY <1>1, <2>2, <3>1 DEF Atomic!Breaker
      <4>2. [committed EXCEPT !.state = "Open", !.opened_at = TRUE] \in Atomic!Breaker
        BY <1>1 DEF Atomic!Breaker, Atomic!CircuitState
      <4>3. QED
        BY <1>1, <3>1, <2>2, <4>2, SameBreaker DEF Atomic!OpenBreaker, Atomic!Breaker
    <3>3. committed' = Atomic!RecordFailure(committed, TRUE, Threshold)
      BY <3>1, <3>2 DEF Atomic!RecordFailure
    <3>4. QED
      BY <3>3 DEF Atomic!Next, Atomic!Failure
  <2>4. CASE Counting /\ failures >= Threshold /\ Counted(failures - 1)
    <3>1. PICK n \in Nat, inWindow \in BOOLEAN :
             /\ n = failures
             /\ n = IF committed.last_failure_at /\ inWindow THEN committed.failures + 1 ELSE 1
      <4>1. PICK m \in Nat : m = failures - 1 /\ m + 1 = failures
        <5>1. failures \in Nat /\ committed.failures \in Nat
          BY <1>1, Typed DEF Atomic!Breaker
        <5>2. failures - 1 \in Nat
          BY <2>4, <5>1 DEF Counted
        <5>3. QED
          BY <5>1, <5>2
      <4>2. QED
        BY <2>4, <4>1, WindowOf
    <3>2. committed' = [state |-> "Open", failures |-> n, last_failure_at |-> TRUE,
                        opened_at |-> TRUE]
      <4>1. last_failure_at # Never
        BY <2>4 DEF Counting
      <4>2. /\ committed'.state = "Open" /\ committed'.failures = n
            /\ committed'.last_failure_at = TRUE /\ committed'.opened_at = TRUE
        BY <2>2, <3>1, <4>1
      <4>3. QED
        BY <1>1, <4>2 DEF Atomic!Breaker
    <3>3. committed' = Atomic!RecordFailure(committed, inWindow, Threshold)
      <4>1. committed.state = "Closed" /\ committed.opened_at = Dated /\ n >= Threshold
        BY <2>4, <3>1 DEF Counting
      <4>2. QED
        BY <1>1, <3>1, <3>2, <4>1, CountsFailure
    <3>4. QED
      BY <3>3 DEF Atomic!Next, Atomic!Failure
  <2>5. QED
    BY <2>1, <2>3, <2>4 DEF Tripping
<1>7. CASE SucceedForget(Self)
  <2>1. /\ committed' = View' /\ state' = "Closed" /\ failures' = 0 /\ last_failure_at' = Never
        /\ opened_at' = Never
    BY <1>1, <1>7 DEF SucceedForget, Return, Calls, In, Dated
  <2>2. committed' = Atomic!NewBreaker
    BY <2>1 DEF View, Atomic!NewBreaker
  <2>3. QED
    BY <2>2 DEF Atomic!Next, Atomic!Success, Atomic!RecordSuccess
<1>8. CASE TickTry(Self)
  <2>1. /\ committed' = View' /\ committed = View /\ state = "Open" /\ Dated
        /\ state' = "HalfOpen" /\ UNCHANGED <<failures, last_failure_at, opened_at>>
    BY <1>8 DEF TickTry, Return, CircuitInv, Calls, Trips, In
  <2>2. committed' = [committed EXCEPT !.state = "HalfOpen"]
    BY <2>1 DEF View
  <2>3. committed.state = "Open" /\ committed.opened_at
    BY <2>1 DEF View, Dated
  <2>4. committed' = Atomic!Tick(committed, TRUE)
    BY <2>2, <2>3 DEF Atomic!Tick
  <2>5. QED
    BY <2>4 DEF Atomic!Next, Atomic!Ticked
<1>9. QED
  BY <1>2, <1>3, <1>4, <1>5, <1>6, <1>7, <1>8, Alone DEF Next, Continue

-----------------------------------------------------------------------------
(* The supervisor loop around the breaker                                    *)

LEMMA TakesCircuitSteps == [TimelineNext]_allVars => [Next]_vars
<1> SUFFICES ASSUME [TimelineNext]_allVars PROVE [Next]_vars
  OBVIOUS
<1>1. \/ UNCHANGED vars
      \/ TimePasses \/ Fail(Self) \/ Succeed(Self) \/ TickLoad(Self) \/ Continue(Self)
  BY DEF TimelineNext, allVars, Beat, Exit, Joined, Decide, Respawn, WatchdogTick, Ticked,
     ClocksAdvance, WallClockSteps
<1>2. QED
  BY <1>1, Alone DEF Next

(* BackoffPolicy::delay stays within its cap, however many failures there    *)
(* were.                                                                     *)
LEMMA DelayCapped ==
    ASSUME NEW attempt \in Nat
    PROVE  Delay(attempt) \in Nat /\ Delay(attempt) <= Cap
<1>1. Base \in Nat /\ Cap \in Nat
  BY TimelineAssumption
<1>2. PICK m \in Nat : m = Min({attempt, 63})
  BY DEF Min
<1>3. PICK n \in Nat : n = Base * 2^m
  <2>1. 2^m \in Nat \* the number of subsets of 1..m
    <3>1. IsFiniteSet(1..m) /\ Cardinality(1..m) = m
      BY UpTo
    <3>2. IsFiniteSet(SUBSET (1..m)) /\ Cardinality(SUBSET (1..m)) = 2^m
      BY <3>1, FS_SUBSET
    <3>3. QED
      BY <3>2, FS_CardinalityType
  <2>2. \A b, k \in Nat : b * k \in Nat
    OBVIOUS
  <2>3. Base * 2^m \in Nat
    BY <1>1, <2>1, <2>2
  <2>4. QED
    BY <2>3
<1>4. Min({n, Cap}) \in {n, Cap} /\ Min({n, Cap}) <= Cap
  BY <1>1 DEF Min
<1>5. QED
  BY <1>1, <1>2, <1>3, <1>4 DEF Delay

LEMMA InitTimeline == TimelineInit => IInv
<1> SUFFICES ASSUME TimelineInit PROVE IInv
  OBVIOUS
<1>1. CircuitInv /\ TypeOK
  BY InitCircuit DEF TimelineInit, CircuitInv
<1>2. TimelineTypeOK
  <2>1. /\ restart \in Restarting /\ heartbeat = Never /\ last_failure = Never
        /\ sup = "select" /\ worker = "running" /\ failed = FALSE /\ prior = "Closed"
        /\ told = [circuit |-> "Closed", running |-> TRUE] /\ timeout = FALSE /\ cancelled = FALSE
        /\ attempts = 0 /\ wake = 0 /\ crashes = <<>> /\ wall = 0 /\ stepped = FALSE
    BY DEF TimelineInit
  <2>2. told \in [circuit : {"Closed", "Open", "HalfOpen"}, running : BOOLEAN]
    BY <2>1
  <2>3. crashes \in Seq(Moment)
    BY <2>1
  <2>4. heartbeat \in Nat \cup {Never} /\ last_failure \in Nat \cup {Never}
    BY <2>1
  <2>5. {attempts, wake, wall} \subseteq Nat
    BY <2>1
  <2>6. {failed, timeout, cancelled} \subseteq BOOLEAN /\ stepped \in BOOLEAN
    BY <2>1, Zenon
  <2>7. QED
    BY <1>1, <2>1, <2>2, <2>3, <2>4, <2>5, <2>6 DEF TimelineTypeOK
<1>3. Turns /\ Answers
  BY Alone DEF TimelineInit, Init, Turns, Answers, In
<1>4. Told
  BY DEF TimelineInit, Init, Told
<1>5. Crashes
  <2>1. crashes = <<>> /\ Len(crashes) = 0 /\ DOMAIN crashes = {}
    BY DEF TimelineInit
  <2>2. QED
    BY <2>1 DEF TimelineInit, Init, Crashes, Never
<1>6. TrialWaitsOut /\ RetriesBounded
  BY DEF TimelineInit, Init, TrialWaitsOut, RetriesBounded, Exhausted
<1>7. QED
  BY <1>1, <1>2, <1>3, <1>4, <1>5, <1>6 DEF IInv

(* A step inside a call, as far as the loop can tell                         *)
LEMMA ContinueEffect ==
    ASSUME CircuitInv, Continue(Self)
    PROVE  /\ pc[Self] # "idle" /\ clock' = clock
           /\ pc'[Self] # "idle" => committed' = committed
           /\ pc'[Self] = "idle" => result'[Self] = state'
           /\ IF In({"reload", "now", "opened", "try"})
              THEN /\ pc'[Self] \in {"idle", "opened", "try"}
                   /\ opened_at' = opened_at /\ (state' = state \/ state' = "HalfOpen")
                   /\ state = committed.state
                   /\ state' # state => state = "Open"
              ELSE /\ pc'[Self] \notin {"reload", "now", "opened", "try"}
                   /\ pc'[Self] = "idle" => state' # "HalfOpen"
<1>1. /\ Self \in Caller /\ DOMAIN pc = Caller /\ DOMAIN result = Caller
      /\ pc \in [Caller -> {"idle", "load", "window", "restart", "add", "open", "date", "close",
                     "undate", "forget", "reload", "now", "opened", "try"}]
  BY Typed DEF CircuitInv, TypeOK
<1>2. In({"reload", "now", "opened", "try"}) => state = committed.state
  BY DEF CircuitInv, Calls, In, View
<1>3. CASE FailLoad(Self) \/ FailWindow(Self) \/ FailRestart(Self) \/ FailAdd(Self)
  BY <1>1, <1>3 DEF FailLoad, FailWindow, FailRestart, FailAdd, Step, Return, fields, In, CircuitInv,
     Calls
<1>4. CASE FailOpen(Self) \/ FailDate(Self)
  BY <1>1, <1>4 DEF FailOpen, FailDate, Step, Return, In, CircuitInv, Calls
<1>5. CASE SucceedClose(Self) \/ SucceedUndate(Self) \/ SucceedForget(Self)
  BY <1>1, <1>5 DEF SucceedClose, SucceedUndate, SucceedForget, Step, Return, In, CircuitInv, Calls
<1>6. CASE TickReload(Self) \/ TickNow(Self) \/ TickRead(Self) \/ TickTry(Self)
  BY <1>1, <1>2, <1>6 DEF TickReload, TickNow, TickRead, TickTry, Step, Return, fields, In,
     CircuitInv, Calls
<1>7. QED
  BY <1>3, <1>4, <1>5, <1>6 DEF Continue

LEMMA ContinueStep ==
    ASSUME IInv, Continue(Self), UNCHANGED <<loop, wallClock>>, CircuitInv'
    PROVE  IInv'
<1>1. /\ UNCHANGED <<restart, sup, worker, failed, prior, told, timeout, cancelled, heartbeat,
                     last_failure, attempts, wake, crashes, wall, stepped>>
      /\ CircuitInv /\ TypeOK' /\ Turns /\ Answers /\ Told /\ pc[Self] # "idle" /\ clock' = clock
  BY ContinueEffect DEF IInv, CircuitInv, loop, policies, wallClock
<1>2. sup \in {"circuit", "tick"} /\ prior = committed.state
  BY <1>1 DEF IInv, TimelineTypeOK, Turns, Answers, In
<1>3. TimelineTypeOK'
  BY <1>1 DEF IInv, TimelineTypeOK
<1>4. Turns'
  BY <1>1, <1>2, ContinueEffect DEF Turns, In
<1>5. Answers'
  BY <1>1, <1>2, ContinueEffect DEF Turns, Answers, In
<1>6. Told'
  BY <1>1, <1>2 DEF Told
<1>7. Crashes'
  BY <1>1 DEF IInv, Crashes
<1>8. TrialWaitsOut'
  BY <1>1, <1>2, ContinueEffect DEF IInv, Turns, TrialWaitsOut, In
<1>9. RetriesBounded' \* a call that finds the worker's task leaves the state alone
  <2>1. worker # "none" => state' = state
    BY <1>1, <1>2, ContinueEffect DEF Turns, In
  <2>2. QED
    BY <1>1, <2>1 DEF IInv, RetriesBounded, Exhausted
<1>10. QED
  BY <1>3, <1>4, <1>5, <1>6, <1>7, <1>8, <1>9 DEF IInv

LEMMA ClockStep ==
    ASSUME IInv, ClocksAdvance, CircuitInv'
    PROVE  IInv'
<1>1. /\ UNCHANGED <<restart, sup, worker, failed, prior, told, timeout, cancelled, heartbeat,
                     last_failure, attempts, wake, crashes, stepped>>
      /\ UNCHANGED <<state, failures, last_failure_at, opened_at, pc, at, result, log, committed>>
      /\ clock' = clock + 1 /\ wall' = wall + 1 /\ TypeOK' /\ clock \in Nat /\ wall \in Nat
  BY Typed DEF IInv, CircuitInv, TimelineTypeOK, loop, policies, ClocksAdvance, TimePasses, fields
<1>2. TimelineTypeOK'
  BY <1>1 DEF IInv, TimelineTypeOK
<1>3. Turns' /\ Answers'
  BY <1>1 DEF IInv, Turns, Answers, In
<1>4. Told'
  BY <1>1 DEF IInv, Told
<1>5. Crashes'
  <2>1. last_failure \in Int
    BY DEF IInv, TimelineTypeOK, Never
  <2>2. QED
    BY <1>1, <2>1 DEF IInv, Crashes
<1>6. TrialWaitsOut'
  BY <1>1, Typed DEF IInv, CircuitInv, TrialWaitsOut
<1>7. RetriesBounded'
  BY <1>1 DEF IInv, RetriesBounded, Exhausted
<1>8. QED
  BY <1>2, <1>3, <1>4, <1>5, <1>6, <1>7 DEF IInv

LEMMA WallClockStep ==
    ASSUME IInv, WallClockSteps, CircuitInv'
    PROVE  IInv'
<1>1. /\ UNCHANGED <<restart, sup, worker, failed, prior, told, timeout, cancelled, heartbeat,
                     last_failure, attempts, wake, crashes>>
      /\ UNCHANGED <<state, failures, last_failure_at, opened_at, clock, pc, at, result, log,
                     committed>>
      /\ stepped' = TRUE /\ wall' \in Moment
  BY DEF WallClockSteps, loop, policies, vars, fields
<1>2. TimelineTypeOK'
  <2>1. wall' \in Nat
    BY <1>1, CircuitAssumption DEF Moment
  <2>2. QED
    BY <1>1, <2>1 DEF IInv, CircuitInv, TimelineTypeOK
<1>3. Turns' /\ Answers' /\ Told' /\ TrialWaitsOut'
  BY <1>1 DEF IInv, Turns, Answers, Told, TrialWaitsOut, In
<1>4. Crashes' /\ RetriesBounded'
  BY <1>1 DEF Crashes, RetriesBounded
<1>5. QED
  BY <1>2, <1>3, <1>4 DEF IInv

(* The worker's own steps                                                    *)
LEMMA WorkerStep ==
    ASSUME IInv, Beat \/ (\E hasFailed \in BOOLEAN : Exit(hasFailed)), CircuitInv'
    PROVE  IInv'
<1>1. /\ UNCHANGED <<restart, sup, failed, prior, told, timeout, cancelled,
                     last_failure, attempts, wake, crashes, wall, stepped>>
      /\ UNCHANGED <<state, failures, last_failure_at, opened_at, pc, at, result, log, committed,
                     clock>>
      /\ worker = "running" /\ worker' \in {"running", "failed", "completed"}
      /\ heartbeat' \in {heartbeat, wall} /\ TypeOK'
  BY DEF IInv, CircuitInv, policies, wallClock, Beat, Exit, vars, fields
<1>2. TimelineTypeOK'
  BY <1>1 DEF IInv, TimelineTypeOK
<1>3. Turns' /\ Answers'
  BY <1>1 DEF IInv, Turns, Answers, In
<1>4. Told'
  BY <1>1 DEF IInv, Told
<1>5. Crashes' /\ TrialWaitsOut' /\ RetriesBounded'
  BY <1>1 DEF IInv, Crashes, TrialWaitsOut, RetriesBounded, Exhausted
<1>6. QED
  BY <1>2, <1>3, <1>4, <1>5 DEF IInv

(* The outcome of a worker: its breaker was not open.                        *)
LEMMA JoinedStep ==
    ASSUME IInv, Joined, CircuitInv'
    PROVE  IInv'
<1>1. /\ sup = "select" /\ pc[Self] = "idle" /\ worker \in {"failed", "completed"}
      /\ failed' = (worker = "failed") /\ prior' = state /\ worker' = "none" /\ sup' = "circuit"
      /\ told' = [told EXCEPT !.running = FALSE] /\ clock' = clock
      /\ UNCHANGED <<restart, timeout, cancelled, heartbeat, last_failure, attempts, wake, crashes,
                     wall, stepped>>
      /\ Fail(Self) \/ Succeed(Self)
  BY DEF Joined, At, Idle, policies, wallClock, Fail, Succeed
<1>2. committed' = committed /\ pc'[Self] \in {"load", "close"} /\ TypeOK /\ TypeOK'
  BY <1>1, Typed DEF Fail, Succeed, Step, IInv, CircuitInv
<1>3. state # "Open" /\ committed.state = state
  BY <1>1 DEF IInv, Turns, CircuitInv, Calls, In, View
<1>4. TimelineTypeOK'
  BY <1>1, <1>2 DEF IInv, TimelineTypeOK, TypeOK
<1>5. Turns' /\ Answers'
  BY <1>1, <1>2, <1>3 DEF Turns, Answers, In
<1>6. Told'
  BY <1>1 DEF IInv, Told
<1>7. Crashes' /\ TrialWaitsOut' /\ RetriesBounded'
  BY <1>1 DEF IInv, Crashes, TrialWaitsOut, RetriesBounded, Exhausted
<1>8. QED
  BY <1>4, <1>5, <1>6, <1>7 DEF IInv

(* maybe_restart: the handle's count goes on whenever the failure before it  *)
(* is near, so it never falls behind the failures of the window.             *)
LEMMA CountKeepsUp ==
    ASSUME IInv
    PROVE  /\ CountedFailures \in Nat
           /\ Since(crashes, clock - FailureWindow) \in Seq(Moment)
           /\ Len(Since(crashes, clock - FailureWindow)) \in Nat
           /\ ~stepped => Len(Since(crashes, clock - FailureWindow)) + 1 <= CountedFailures
           /\ ~stepped => \A i \in DOMAIN Since(crashes, clock - FailureWindow) :
                 Since(crashes, clock - FailureWindow)[i] <= clock
<1>1. /\ crashes \in Seq(Moment) /\ Len(crashes) \in Nat /\ attempts \in Nat
      /\ last_failure \in Nat \cup {-1} /\ wall \in Nat
      /\ \A i \in DOMAIN crashes : crashes[i] \in Nat
  <2>1. Moment \subseteq Nat
    BY CircuitAssumption DEF Moment
  <2>2. /\ crashes \in Seq(Moment) /\ attempts \in Nat /\ last_failure \in Nat \cup {Never}
        /\ wall \in Nat
    BY DEF IInv, TimelineTypeOK
  <2>3. Len(crashes) \in Nat /\ \A i \in DOMAIN crashes : crashes[i] \in Moment
    BY <2>2
  <2>4. QED
    BY <2>1, <2>2, <2>3 DEF Never
<1>2. clock \in Nat /\ FailureWindow \in Nat
  BY Typed, TimelineAssumption DEF IInv, CircuitInv
<1>3. PICK start \in Int : start = clock - FailureWindow
  BY <1>2
<1>4. PICK recent : recent = Since(crashes, start)
  OBVIOUS
<1>5. /\ recent \in Seq(Moment) /\ Len(recent) \in Nat /\ Len(recent) <= Len(crashes)
      /\ \A i \in DOMAIN recent : \E j \in DOMAIN crashes : recent[i] = crashes[j]
      /\ (\A i \in DOMAIN crashes : crashes[i] < start) => Len(recent) = 0
  BY <1>1, <1>3, <1>4, SinceShorter
<1>6. CountedFailures \in Nat
  BY <1>1 DEF CountedFailures
<1>7. ASSUME ~stepped
      PROVE  /\ Len(recent) + 1 <= CountedFailures
             /\ \A i \in DOMAIN recent : recent[i] <= clock
  <2>1. /\ wall = clock /\ Len(crashes) <= attempts /\ last_failure <= clock
        /\ \A i \in DOMAIN crashes : crashes[i] <= last_failure
    BY <1>7 DEF IInv, Crashes
  <2>2. \A i \in DOMAIN recent : recent[i] <= clock
    <3>1. \A j \in DOMAIN crashes : crashes[j] <= clock
      BY <1>1, <1>2, <2>1
    <3>2. QED
      BY <1>5, <3>1
  <2>3. CASE last_failure = Never \/ clock - last_failure > FailureWindow
    <3>1. \A i \in DOMAIN crashes : crashes[i] < start
      BY <1>1, <1>2, <1>3, <2>1, <2>3 DEF Never
    <3>2. QED
      BY <1>5, <2>1, <2>2, <2>3, <3>1 DEF CountedFailures
  <2>4. CASE ~(last_failure = Never \/ clock - last_failure > FailureWindow)
    BY <1>1, <1>5, <2>1, <2>2, <2>4 DEF CountedFailures
  <2>5. QED
    BY <2>3, <2>4
<1>8. QED
  BY <1>3, <1>4, <1>5, <1>6, <1>7

LEMMA DecideStep ==
    ASSUME IInv, Decide, CircuitInv'
    PROVE  IInv'
<1> DEFINE counted == IF failed THEN CountedFailures ELSE 0
           recent  == Since(crashes, clock - FailureWindow)
<1>1. /\ sup = "circuit" /\ pc[Self] = "idle" /\ sup' \in {"sleep", "select"}
      /\ sup' = "sleep" => ShouldRestart(failed, counted) /\ Allow
      /\ wake' \in {wake, clock + Delay(counted)}
      /\ attempts' = IF failed THEN counted ELSE attempts
      /\ last_failure' = IF failed THEN wall ELSE last_failure
      /\ crashes' = IF failed THEN Append(recent, clock) ELSE crashes
      /\ told' = [told EXCEPT !.circuit = CircuitEvent(result[Self])]
      /\ UNCHANGED <<restart, worker, failed, prior, timeout, cancelled, heartbeat, wall, stepped>>
      /\ UNCHANGED <<state, failures, last_failure_at, opened_at, clock, pc, at, result, log,
                     committed>>
  BY DEF Decide, At, Idle, vars, fields, wallClock
<1>2. /\ CountedFailures \in Nat /\ recent \in Seq(Moment) /\ Len(recent) \in Nat
      /\ ~stepped => /\ Len(recent) + 1 <= CountedFailures
                     /\ \A i \in DOMAIN recent : recent[i] <= clock
  BY CountKeepsUp
<1> HIDE DEF recent
<1>3. counted \in Nat /\ clock \in Nat /\ clock \in Moment
  BY <1>2, Typed DEF IInv, CircuitInv, TypeOK
<1>4. /\ Append(recent, clock) \in Seq(Moment) /\ Len(Append(recent, clock)) = Len(recent) + 1
      /\ ~stepped => \A i \in DOMAIN Append(recent, clock) : Append(recent, clock)[i] <= clock
  <2>1. \A i \in DOMAIN Append(recent, clock) :
           \/ i \in DOMAIN recent /\ Append(recent, clock)[i] = recent[i]
           \/ Append(recent, clock)[i] = clock
    BY <1>2, <1>3
  <2>2. clock <= clock
    BY <1>3
  <2>3. QED
    BY <1>2, <1>3, <2>1, <2>2
<1>5. /\ worker = "none" /\ prior \in {"Closed", "HalfOpen"} /\ result[Self] = state
      /\ state \in {"Closed", "Open"} /\ told = [circuit |-> prior, running |-> FALSE]
  BY <1>1 DEF IInv, CircuitInv, TypeOK, TimelineTypeOK, Turns, Answers, Told, In
<1>6. told' = [circuit |-> state, running |-> FALSE]
  BY <1>1, <1>5 DEF CircuitEvent
<1>7. TimelineTypeOK'
  <2>1. Delay(counted) \in Nat
    BY <1>3, DelayCapped
  <2>2. wake' \in Nat /\ attempts' \in Nat
    BY <1>1, <1>3, <2>1 DEF IInv, TimelineTypeOK
  <2>3. crashes' \in Seq(Moment) /\ last_failure' \in Nat \cup {Never}
    BY <1>1, <1>3, <1>4 DEF IInv, TimelineTypeOK
  <2>4. told' \in [circuit : {"Closed", "Open", "HalfOpen"}, running : BOOLEAN]
    BY <1>5, <1>6
  <2>5. QED
    BY <1>1, <2>2, <2>3, <2>4 DEF IInv, TimelineTypeOK, CircuitInv
<1>8. Turns' /\ Answers'
  BY <1>1, <1>5 DEF Turns, Answers, Allow, In
<1>9. Told'
  BY <1>1, <1>5, <1>6 DEF Told
<1>10. Crashes'
  <2>1. CASE failed /\ ~stepped
    <3>1. Len(crashes') <= attempts'
      BY <1>1, <1>2, <1>3, <1>4, <2>1
    <3>2. wall' = clock' /\ last_failure' = clock' /\ last_failure' <= clock'
      BY <1>1, <1>3, <2>1 DEF IInv, Crashes
    <3>3. \A i \in DOMAIN crashes' : crashes'[i] <= last_failure'
      BY <1>1, <1>4, <2>1, <3>2
    <3>4. QED
      BY <3>1, <3>2, <3>3 DEF Crashes
  <2>2. CASE ~failed \/ stepped
    BY <1>1, <2>2 DEF IInv, Crashes
  <2>3. QED
    BY <2>1, <2>2
<1>11. TrialWaitsOut'
  BY <1>1, <1>5 DEF TrialWaitsOut
<1>12. RetriesBounded' \* the policy was asked, and the count is no less than the crashes
  <2>1. SUFFICES ASSUME sup' = "sleep", ~stepped
                 PROVE  ~Exhausted'
    BY <1>1, <1>5 DEF RetriesBounded
  <2>2. CASE restart = "MaxRetries"
    <3>1. failed /\ counted < Retries /\ attempts' = counted
      BY <1>1, <2>1, <2>2 DEF ShouldRestart
    <3>2. Len(crashes') <= attempts' /\ Len(crashes') \in Nat
      BY <1>1, <1>2, <1>4, <1>10, <2>1, <3>1 DEF Crashes
    <3>3. Retries \in Nat
      BY TimelineAssumption
    <3>4. QED
      BY <1>1, <1>3, <2>2, <3>1, <3>2, <3>3 DEF Exhausted
  <2>3. CASE restart # "MaxRetries"
    BY <1>1, <2>1, <2>3 DEF ShouldRestart, Exhausted
  <2>4. QED
    BY <2>2, <2>3
<1>13. QED
  BY <1>7, <1>8, <1>9, <1>10, <1>11, <1>12 DEF IInv

LEMMA RespawnStep ==
    ASSUME IInv, Respawn, CircuitInv'
    PROVE  IInv'
<1>1. /\ sup = "sleep" /\ pc[Self] = "idle" /\ sup' = "select" /\ worker' = "running"
      /\ told' = [told EXCEPT !.running = TRUE]
      /\ UNCHANGED <<restart, failed, prior, timeout, cancelled, heartbeat, last_failure, attempts,
                     wake, crashes, wall, stepped>>
      /\ UNCHANGED <<state, failures, last_failure_at, opened_at, clock, pc, at, result, log,
                     committed>>
  BY DEF Respawn, Spawn, At, Idle, vars, fields, policies, wallClock
<1>2. state # "Open" /\ told = [circuit |-> state, running |-> FALSE] /\ TypeOK
  BY <1>1 DEF IInv, CircuitInv, Turns, Told
<1>3. TimelineTypeOK'
  BY <1>1, <1>2 DEF IInv, TimelineTypeOK, CircuitInv, TypeOK
<1>4. Turns' /\ Answers'
  BY <1>1, <1>2 DEF Turns, Answers, In
<1>5. Told'
  BY <1>1, <1>2 DEF Told
<1>6. Crashes'
  BY <1>1 DEF IInv, Crashes
<1>7. TrialWaitsOut'
  BY <1>1, <1>2 DEF IInv, CircuitInv, TypeOK, Trips, TrialWaitsOut, Dated, In
<1>8. RetriesBounded'
  BY <1>1 DEF IInv, RetriesBounded, Exhausted
<1>9. QED
  BY <1>3, <1>4, <1>5, <1>6, <1>7, <1>8 DEF IInv

LEMMA WatchdogTickStep ==
    ASSUME IInv, WatchdogTick, CircuitInv'
    PROVE  IInv'
<1>1. /\ sup = "select" /\ sup' = "tick" /\ prior' = state /\ timeout' = Silent
      /\ UNCHANGED <<restart, worker, failed, told, cancelled, heartbeat, last_failure, attempts,
                     wake, crashes, wall, stepped>>
      /\ UNCHANGED <<state, failures, last_failure_at, opened_at, clock, at, result, log,
                     committed>>
      /\ pc[Self] = "idle" /\ pc'[Self] \in {"now", "reload"} /\ TypeOK
  <2>1. TypeOK /\ Self \in DOMAIN pc
    BY Typed DEF IInv, CircuitInv
  <2>2. QED
    BY <2>1 DEF WatchdogTick, TickLoad, Step, At, Idle, fields, policies, wallClock
<1>2. committed.state = state /\ Silent \in BOOLEAN
  BY <1>1 DEF IInv, CircuitInv, Calls, View, In, Silent
<1>3. TimelineTypeOK'
  BY <1>1, <1>2 DEF IInv, TimelineTypeOK, CircuitInv, TypeOK
<1>4. Turns' /\ Answers'
  BY <1>1, <1>2 DEF IInv, Turns, Answers, In
<1>5. Told'
  BY <1>1 DEF IInv, Told
<1>6. Crashes' /\ TrialWaitsOut' /\ RetriesBounded'
  BY <1>1 DEF IInv, Crashes, TrialWaitsOut, RetriesBounded, Exhausted
<1>7. QED
  BY <1>3, <1>4, <1>5, <1>6 DEF IInv

(* spawn_one_if_idle: the breaker is half open, so its wait is over.         *)
LEMMA TickedStep ==
    ASSUME IInv, Ticked, CircuitInv'
    PROVE  IInv'
<1>1. /\ sup = "tick" /\ pc[Self] = "idle" /\ sup' = "select" /\ Trial
      /\ cancelled' = (cancelled \/ timeout)
      /\ UNCHANGED <<restart, failed, prior, timeout, heartbeat, last_failure, attempts, wake,
                     crashes, wall, stepped>>
      /\ UNCHANGED <<state, failures, last_failure_at, opened_at, clock, pc, at, result, log,
                     committed>>
  BY DEF Ticked, At, Idle, vars, fields, policies, wallClock
<1>2. /\ result[Self] = state /\ (state = prior \/ (prior = "Open" /\ state = "HalfOpen"))
      /\ told = [circuit |-> prior, running |-> worker # "none"] /\ TypeOK
  BY <1>1 DEF IInv, CircuitInv, Answers, Told, In
<1>3. /\ told' = [circuit |-> state, running |-> worker' # "none"]
      /\ worker' = worker \/ (worker' = "running" /\ state = "HalfOpen")
  BY <1>1, <1>2 DEF Trial, Spawn
<1>4. TimelineTypeOK'
  <2>1. cancelled' \in BOOLEAN
    BY <1>1
  <2>2. QED
    BY <1>1, <1>2, <1>3, <2>1 DEF IInv, TimelineTypeOK, CircuitInv, TypeOK
<1>5. Turns' /\ Answers'
  BY <1>1, <1>3 DEF IInv, Turns, Answers, In
<1>6. Told'
  BY <1>1, <1>3 DEF Told
<1>7. Crashes'
  BY <1>1 DEF IInv, Crashes
<1>8. TrialWaitsOut'
  BY <1>1, <1>3 DEF IInv, CircuitInv, Trips, TrialWaitsOut, Dated
<1>9. RetriesBounded'
  BY <1>1, <1>3 DEF IInv, RetriesBounded, Exhausted
<1>10. QED
  BY <1>4, <1>5, <1>6, <1>7, <1>8, <1>9 DEF IInv

LEMMA NextIInv ==
    ASSUME IInv, [TimelineNext]_allVars
    PROVE  IInv'
<1>1. CircuitInv'
  BY TakesCircuitSteps, CircuitNext DEF IInv
<1>2. CASE UNCHANGED allVars
  <2>1. /\ UNCHANGED <<restart, sup, worker, failed, prior, told, timeout, cancelled, heartbeat,
                       last_failure, attempts, wake, crashes, wall, stepped>>
        /\ UNCHANGED <<state, failures, last_failure_at, opened_at, clock, pc, at, result, log,
                       committed>>
    BY <1>2 DEF allVars, vars, fields, loop, policies, wallClock
  <2>2. TimelineTypeOK'
    BY <1>1, <2>1 DEF IInv, TimelineTypeOK, CircuitInv
  <2>3. Turns' /\ Answers' /\ Told' /\ Crashes' /\ TrialWaitsOut' /\ RetriesBounded'
    BY <2>1 DEF IInv, Turns, Answers, Told, Crashes, TrialWaitsOut, RetriesBounded, Exhausted, In
  <2>4. QED
    BY <1>1, <2>2, <2>3 DEF IInv
<1>3. CASE Beat \/ \E hasFailed \in BOOLEAN : Exit(hasFailed)
  BY <1>1, <1>3, WorkerStep
<1>4. CASE Joined
  BY <1>1, <1>4, JoinedStep
<1>5. CASE Decide
  BY <1>1, <1>5, DecideStep
<1>6. CASE Respawn
  BY <1>1, <1>6, RespawnStep
<1>7. CASE WatchdogTick
  BY <1>1, <1>7, WatchdogTickStep
<1>8. CASE Ticked
  BY <1>1, <1>8, TickedStep
<1>9. CASE Continue(Self) /\ UNCHANGED <<loop, wallClock>>
  BY <1>1, <1>9, ContinueStep
<1>10. CASE ClocksAdvance
  BY <1>1, <1>10, ClockStep
<1>11. CASE WallClockSteps
  BY <1>1, <1>11, WallClockStep
<1>12. QED
  BY <1>2, <1>3, <1>4, <1>5, <1>6, <1>7, <1>8, <1>9, <1>10, <1>11 DEF TimelineNext

-----------------------------------------------------------------------------
(* Everything above holds throughout, for any thresholds, durations and      *)
(* policies: of a call of the breaker cut at any access, and of an outcome   *)
(* or a tick of the supervisor loop cut at any step.                         *)
THEOREM Invariance == TimelineSpec => []IInv
<1>1. TimelineInit => IInv
  BY InitTimeline
<1>2. IInv /\ [TimelineNext]_allVars => IInv'
  BY NextIInv
<1>3. QED
  BY <1>1, <1>2, PTL DEF TimelineSpec

(* The breaker's and the loop's variables keep their types: no state byte    *)
(* but the three that from_u8 knows, no restart policy but the configured.   *)
THEOREM TimelineTyped == TimelineSpec => []TimelineTypeOK
<1>1. IInv => TimelineTypeOK
  BY DEF IInv
<1>2. QED
  BY <1>1, Invariance, PTL

(* record_failure trips on every burst: although it keeps a count and one    *)
(* time stamp, a Closed breaker never has failure_threshold failures within  *)
(* one failure_window behind it.                                             *)
THEOREM BurstsTrip == TimelineSpec => []BurstTrips
<1>1. IInv => BurstTrips
  BY CountSeesBursts DEF IInv
<1>2. QED
  BY <1>1, Invariance, PTL

(* tick and spawn_one_if_idle: between a trip and open_duration later the    *)
(* supervisor has no task of the worker running, neither from a restart that *)
(* was asleep nor from a tick under way.                                     *)
THEOREM TrialsWait == TimelineSpec => []TrialWaitsOut
<1>1. IInv => TrialWaitsOut
  BY DEF IInv
<1>2. QED
  BY <1>1, Invariance, PTL

(* maybe_restart and watchdog_tick: while nobody sets the wall clock, a      *)
(* worker that its policy grants no further run - Never after a failure,     *)
(* MaxRetries with Retries failures in the window - neither waits for a      *)
(* restart nor runs, except while its breaker is half open: the handle's     *)
(* count and one time stamp never miss a failure of the window, and the      *)
(* trial of the breaker is the one way around the policy.                    *)
THEOREM RetriesKept == TimelineSpec => []RetriesBounded
<1>1. IInv => RetriesBounded
  BY DEF IInv
<1>2. QED
  BY <1>1, Invariance, PTL

(* advance_circuit, watchdog_tick and spawn_one: whoever has followed the    *)
(* worker's events knows its breaker's state and whether it runs, each time  *)
(* the loop is back at its select.                                           *)
THEOREM EventsTell == TimelineSpec => []EventsTellAll
<1>1. IInv => EventsTellAll
  BY DEF IInv, Told, EventsTellAll, At
<1>2. QED
  BY <1>1, Invariance, PTL

(* With the supervisor loop as its only caller the breaker, whose calls are  *)
(* sequences of atomic accesses and locked sections, is the atomic object    *)
(* of CircuitSpec.                                                           *)
THEOREM ImplementsCircuitSpec == TimelineSpec => RefinesCircuitSpec
<1>1. TimelineInit => Atomic!Init
  BY DEF TimelineInit, Init, View, Atomic!Init, Atomic!NewBreaker
<1>2. IInv /\ [TimelineNext]_allVars => [Atomic!Next]_committed
  BY TakesCircuitSteps, CircuitStepMaps DEF IInv
<1>3. QED
  BY <1>1, <1>2, Invariance, PTL DEF TimelineSpec, RefinesCircuitSpec, Atomic!Spec
=============================================================================
