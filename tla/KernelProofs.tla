---------------------------- MODULE KernelProofs ----------------------------
(***************************************************************************)
(* Whatever the number of subsystems and of threads that boot, run and     *)
(* snapshot one kernel: the subsystems' hooks run once and in order,       *)
(* nothing stays loaded, and a snapshot never shows a phase half done.     *)
(***************************************************************************)
EXTENDS Kernel, TLAPS

-----------------------------------------------------------------------------
(* The inductive invariant *)

AllAre(x) == \A s \in Subsystem : sub[s] = x

(* The list between two hooks of a booting or loading walk: up to k done     *)
Split(k, done, todo) ==
    \A s \in Subsystem : sub[s] = IF s < k THEN done ELSE todo

(* A failed load: everything before k was loaded and recorded                *)
FailedAt(k) ==
    /\ k \in Subsystem /\ sub[k] = "failed"
    /\ \A s \in Subsystem : s < k => sub[s] = "loaded"
    /\ \A s \in Subsystem : s > k => sub[s] = "booted"
    /\ recorded["load"] = 1..(k - 1)

Booted == recorded["boot"] = Subsystem
Loaded == Booted /\ recorded["load"] = Subsystem

NoneLoaded == \A s \in Subsystem : sub[s] # "loaded"
SomeFailed == \E s \in Subsystem : sub[s] = "failed"

(* A booting or loading walk that is about to call hook k                    *)
Walking(t, k) ==
    \/ /\ phase[t] = "boot" /\ state = "Booting"
       /\ Split(k, "booted", "fresh")
       /\ recorded["boot"] = 1..(at[t] - 1) /\ recorded["load"] = {}
    \/ /\ phase[t] = "load" /\ state = "Loading"
       /\ Split(k, "loaded", "booted")
       /\ Booted /\ recorded["load"] = 1..(at[t] - 1)

(* A stopping walk that is about to look at position at[t]                   *)
Stopping(t) ==
    /\ at[t] \in 0..Size
    /\ \A s \in Subsystem : sub[s] = "loaded" <=> s \in toStop[t] /\ s <= at[t]
    /\ \E k \in 0..Size : toStop[t] = 1..k
    /\ \/ /\ phase[t] = "shutdown" /\ state = "Stopping" /\ Loaded
          /\ toStop[t] = Subsystem
          /\ \A s \in Subsystem : s > at[t] => sub[s] = "stopped"
       \/ phase[t] = "rollback" /\ state = "Loading" /\ Booted /\ SomeFailed

(* What the position of the thread that drives the kernel says               *)
Position(t) ==
    /\ pc[t] \in {"lock", "hook", "record", "booted", "loaded", "rollback", "fail",
                  "exec", "hooks", "hung", "drained", "stop", "unhook", "stopped"}
    /\ pc[t] = "lock" =>
           \/ /\ phase[t] = "boot" /\ state = "Booting"
              /\ AllAre("fresh") /\ recorded = NoneRecorded
           \/ /\ phase[t] = "load" /\ state = "Loading"
              /\ AllAre("booted") /\ Booted /\ recorded["load"] = {}
    /\ pc[t] = "hook" => at[t] \in 1..(Size + 1) /\ Walking(t, at[t])
    /\ pc[t] = "record" => at[t] \in Subsystem /\ Walking(t, at[t] + 1)
    /\ pc[t] = "booted" =>
           state = "Booting" /\ AllAre("booted") /\ Booted /\ recorded["load"] = {}
    /\ pc[t] = "loaded" => state = "Loading" /\ AllAre("loaded") /\ Loaded
    /\ pc[t] = "rollback" => state = "Loading" /\ Booted /\ FailedAt(at[t])
    /\ pc[t] = "fail" =>
           /\ NoneLoaded /\ SomeFailed
           /\ state = "Booting" \/ (state = "Loading" /\ Booted)
    /\ pc[t] \in {"exec", "hooks", "hung", "drained"} =>
           state = "Running" /\ AllAre("loaded") /\ Loaded
    /\ pc[t] = "stop" =>
           \/ /\ phase[t] = "shutdown" /\ state = "Stopping"
              /\ AllAre("loaded") /\ Loaded /\ toStop[t] = Subsystem
           \/ /\ phase[t] = "rollback" /\ state = "Loading"
              /\ Booted /\ toStop[t] = recorded["load"]
              /\ \E k \in Subsystem : FailedAt(k)
    /\ pc[t] = "unhook" => Stopping(t)
    /\ pc[t] = "stopped" => state = "Stopping" /\ AllAre("stopped") /\ Loaded

(* ... and what holds while nobody drives it                                 *)
Resting ==
    \/ state = "Created" /\ AllAre("fresh") /\ recorded = NoneRecorded
    \/ state = "Running" /\ AllAre("loaded") /\ Loaded
    \/ state = "Stopped" /\ AllAre("stopped") /\ Loaded
    \/ state = "Failed" /\ NoneLoaded /\ SomeFailed

OneDriver == \A t, u \in Runner : pc[t] # "idle" /\ pc[u] # "idle" => t = u

Locks ==
    /\ \A t \in Runner : subsLock = t <=> pc[t] \in {"hook", "record", "unhook"}
    /\ \A m \in Snapshotter : bookLock = m <=> pc[m] = "list"

(* Snapshots only ever lag: what a snapshot's state implies about the        *)
(* bookkeeping stays true until the list is read                             *)
SnapshotsLag ==
    \A m \in Snapshotter :
       /\ pc[m] \in {"idle", "book", "list"}
       /\ snap[m].state = "Loading" => Booted
       /\ snap[m].state \in {"Running", "Stopping", "Stopped"} => Loaded

IInv ==
    /\ TypeOK
    /\ OneDriver
    /\ Locks
    /\ \A t \in Runner : pc[t] # "idle" => Position(t)
    /\ (\A t \in Runner : pc[t] = "idle") => Resting
    /\ SnapshotsLag
    /\ SnapshotNotBehind
    /\ SnapshotSeesWholePhases

-----------------------------------------------------------------------------
LEMMA LegalFacts ==
    /\ \A s : <<s, "Booting">> \in Legal <=> s = "Created"
    /\ <<"Booting", "Loading">> \in Legal
    /\ <<"Booting", "Failed">> \in Legal
    /\ <<"Loading", "Running">> \in Legal
    /\ <<"Loading", "Failed">> \in Legal
    /\ <<"Running", "Stopping">> \in Legal
    /\ <<"Stopping", "Stopped">> \in Legal
BY DEF Legal

LEMMA InitIInv == Init => IInv
<1> SUFFICES ASSUME Init PROVE IInv
  OBVIOUS
<1>1. TypeOK
  <2>1. NoneRecorded \in Recorded
    BY DEF NoneRecorded, Recorded, Walk
  <2>2. snap \in [Snapshotter -> [state : KernelState, complete : BOOLEAN,
                                 recorded : Recorded]]
    BY <2>1 DEF Init, KernelState
  <2>3. at \in [Runner -> 0..(Size + 1)]
    BY SizeAssumption DEF Init
  <2>4. QED
    BY <2>1, <2>2, <2>3 DEF Init, TypeOK, KernelState
<1>2. OneDriver /\ Locks /\ SnapshotsLag /\ Resting
  BY ThreadAssumption DEF Init, OneDriver, Locks, SnapshotsLag, Resting, AllAre, Thread
<1>3. SnapshotNotBehind /\ SnapshotSeesWholePhases
  BY DEF Init, SnapshotNotBehind, SnapshotSeesWholePhases, NoneRecorded, Walk
<1>4. \A t \in Runner : pc[t] = "idle"
  BY DEF Init, Thread
<1>5. QED
  BY <1>1, <1>2, <1>3, <1>4 DEF IInv

(* What a runner's step has to keep: the other runners are idle, and the     *)
(* bookkeeping and the failures only grow                                    *)
LEMMA RunnerStep ==
    ASSUME IInv, NEW t \in Runner,
           TypeOK', Locks', snap' = snap,
           \A u \in Thread : u # t => pc'[u] = pc[u],
           \A u \in Runner : u # t => pc[u] = "idle",
           pc'[t] = "idle" => Resting',
           pc'[t] # "idle" => Position(t)',
           Booted => Booted', Loaded => Loaded', SomeFailed => SomeFailed'
    PROVE  IInv'
<1>1. OneDriver'
  BY DEF OneDriver, Thread
<1>2. \A u \in Runner : pc'[u] # "idle" => Position(u)'
  BY DEF Thread
<1>3. (\A u \in Runner : pc'[u] = "idle") => Resting'
  OBVIOUS
<1>4. \A m \in Snapshotter : pc'[m] = pc[m]
  BY ThreadAssumption DEF Thread
<1>5. SnapshotsLag'
  BY <1>4 DEF IInv, SnapshotsLag
<1>6. SnapshotNotBehind' /\ SnapshotSeesWholePhases'
  BY DEF IInv, SnapshotNotBehind, SnapshotSeesWholePhases, SomeFailed
<1>7. QED
  BY <1>1, <1>2, <1>3, <1>5, <1>6 DEF IInv

(* A driving runner leaves all others idle                                   *)
LEMMA Driver ==
    ASSUME IInv, NEW t \in Runner, pc[t] # "idle"
    PROVE  /\ Position(t)
           /\ \A u \in Runner : u # t => pc[u] = "idle"
BY DEF IInv, OneDriver

LEMMA DriverState ==
    ASSUME NEW t \in Runner, Position(t)
    PROVE  state \in {"Booting", "Loading", "Running", "Stopping"}
BY DEF Position, Walking, Stopping

(* ... and the steps of one change no other program counter                  *)
LEMMA GotoFacts ==
    ASSUME TypeOK, NEW t \in Runner, NEW label, Goto(t, label)
    PROVE  /\ pc'[t] = label
           /\ \A u \in Thread : u # t => pc'[u] = pc[u]
BY DEF TypeOK, Goto, Thread

(* One call more of one hook                                                 *)
LEMMA CallFacts ==
    ASSUME TypeOK, NEW hook \in Hook, NEW k \in Subsystem, CallHook(hook, k)
    PROVE  /\ called' \in [Hook -> [Subsystem -> Nat]]
           /\ called'[hook][k] = called[hook][k] + 1
           /\ \A h \in Hook : h # hook => called'[h] = called[h]
           /\ \A s \in Subsystem : s # k => called'[hook][s] = called[hook][s]
BY DEF TypeOK, CallHook

-----------------------------------------------------------------------------
(* boot() *)

LEMMA StartStep ==
    ASSUME IInv, NEW t \in Runner, Start(t)
    PROVE  IInv'
<1> USE DEF Start
<1>1. TypeOK'
  BY DEF IInv, TypeOK, Advance, Goto, KernelState, outside, hooks
<1>2. Locks' /\ snap' = snap /\ sub' = sub /\ recorded' = recorded
  BY DEF IInv, TypeOK, Locks, Advance, Goto, outside, hooks, Thread
<1>3. CASE state = "Created"
  <2>1. state' = "Booting" /\ Goto(t, "lock")
    BY <1>3, LegalFacts DEF Advance
  <2>2. \A u \in Runner : pc[u] = "idle"
    BY <1>3, DriverState DEF IInv
  <2>3. AllAre("fresh") /\ recorded = NoneRecorded
    BY <1>3, <2>2 DEF IInv, Resting
  <2>4. Position(t)'
    BY <1>2, <2>1, <2>3, GotoFacts DEF IInv, TypeOK, Position, AllAre
  <2>5. QED
    BY <1>1, <1>2, <2>1, <2>2, <2>4, GotoFacts, RunnerStep
       DEF IInv, Booted, Loaded, SomeFailed
<1>4. CASE state # "Created"
  <2>1. state' = state /\ pc' = pc
    BY <1>4, LegalFacts DEF Advance, Goto, IInv, TypeOK
  <2>2. ASSUME NEW u \in Runner, pc[u] # "idle" PROVE Position(u)'
    <3>1. phase'[u] = phase[u] /\ at' = at /\ toStop' = toStop
      BY <2>2 DEF IInv, TypeOK
    <3>2. Position(u)
      BY <2>2 DEF IInv
    <3>3. QED
      BY <1>2, <2>1, <3>1, <3>2 DEF Position, Walking, Stopping, AllAre, Split, FailedAt,
         Booted, Loaded, NoneLoaded, SomeFailed
  <2>3. (\A u \in Runner : pc[u] = "idle") => Resting'
    BY <1>2, <2>1 DEF IInv, Resting, AllAre, Booted, Loaded, NoneLoaded, SomeFailed
  <2>4. (OneDriver /\ SnapshotsLag /\ SnapshotNotBehind /\ SnapshotSeesWholePhases)'
    BY <1>2, <2>1 DEF IInv, OneDriver, SnapshotsLag, SnapshotNotBehind,
       SnapshotSeesWholePhases, Booted, Loaded
  <2>5. QED
    BY <1>1, <1>2, <2>1, <2>2, <2>3, <2>4 DEF IInv
<1>5. QED
  BY <1>3, <1>4

LEMMA LockListStep ==
    ASSUME IInv, NEW t \in Runner, LockList(t)
    PROVE  IInv'
<1> USE DEF LockList
<1>1. TypeOK'
  <2>1. 1 \in 0..(Size + 1)
    BY SizeAssumption
  <2>2. QED
    BY <2>1 DEF IInv, TypeOK, Goto, outside, hooks
<1>2. Locks'
  BY ThreadAssumption DEF IInv, TypeOK, Locks, Goto, Thread
<1>3. Position(t) /\ \A u \in Runner : u # t => pc[u] = "idle"
  BY Driver
<1>4. at'[t] = 1 /\ phase' = phase /\ sub' = sub /\ recorded' = recorded /\ state' = state
  BY DEF IInv, TypeOK, hooks
<1>5. Walking(t, at[t])'
  <2>1. /\ \A s \in Subsystem : ~(s < 1)
        /\ 1..(1 - 1) = {}
        /\ NoneRecorded["boot"] = {} /\ NoneRecorded["load"] = {}
    BY DEF Subsystem, NoneRecorded, Walk
  <2>2. CASE /\ phase[t] = "boot" /\ state = "Booting"
             /\ AllAre("fresh") /\ recorded = NoneRecorded
    BY <1>4, <2>1, <2>2 DEF Walking, AllAre, Split
  <2>3. CASE /\ phase[t] = "load" /\ state = "Loading"
             /\ AllAre("booted") /\ Booted /\ recorded["load"] = {}
    BY <1>4, <2>1, <2>3 DEF Walking, AllAre, Split, Booted
  <2>4. QED
    BY <1>3, <2>2, <2>3 DEF Position
<1>6. Position(t)'
  BY <1>4, <1>5, SizeAssumption, GotoFacts DEF IInv, Position
<1>7. QED
  BY <1>1, <1>2, <1>3, <1>4, <1>6, GotoFacts, RunnerStep
     DEF IInv, Booted, Loaded, SomeFailed, outside, hooks

LEMMA HookSucceedsStep ==
    ASSUME IInv, NEW t \in Runner, HookSucceeds(t)
    PROVE  IInv'
<1> USE DEF HookSucceeds
<1>1. Walking(t, at[t]) /\ \A u \in Runner : u # t => pc[u] = "idle"
  BY Driver DEF Position
<1>2. TypeOK' /\ Locks'
  <2>1. called' \in [Hook -> [Subsystem -> Nat]]
    BY <1>1, CallFacts DEF IInv, Walking, Hook
  <2>2. TypeOK'
    BY <2>1 DEF IInv, TypeOK, Goto, Thread, walk, outside
  <2>3. Locks'
    BY ThreadAssumption DEF IInv, TypeOK, Locks, Goto, Thread
  <2>4. QED
    BY <2>2, <2>3
<1>3. /\ at' = at /\ phase' = phase /\ recorded' = recorded /\ state' = state
      /\ snap' = snap
      /\ sub' = [sub EXCEPT ![at[t]] = IF phase[t] = "boot" THEN "booted" ELSE "loaded"]
  BY DEF walk, outside, hooks
<1>4. \A s \in Subsystem : s < at[t] + 1 <=> s < at[t] \/ s = at[t]
  BY SizeAssumption DEF Subsystem
<1>5. Walking(t, at[t] + 1)'
  BY <1>1, <1>3, <1>4 DEF IInv, TypeOK, Walking, Split, Booted
<1>6. Position(t)'
  BY <1>3, <1>5, GotoFacts DEF IInv, Position
<1>7. SomeFailed => SomeFailed'
  BY <1>1 DEF Walking, Split, SomeFailed
<1>8. QED
  BY <1>2, <1>1, <1>3, <1>6, <1>7, GotoFacts, RunnerStep DEF IInv, Booted, Loaded

LEMMA RecordStep ==
    ASSUME IInv, NEW t \in Runner, Record(t)
    PROVE  IInv'
<1> USE DEF Record
<1>1. /\ Walking(t, at[t] + 1) /\ at[t] \in Subsystem
      /\ \A u \in Runner : u # t => pc[u] = "idle"
  BY Driver DEF Position
<1>2. phase[t] \in Walk
  BY <1>1 DEF Walking, Walk
<1>3. /\ at[t] + 1 \in 0..(Size + 1) /\ at[t] + 1 \in 1..(Size + 1)
      /\ 1..((at[t] + 1) - 1) = 1..(at[t] - 1) \cup {at[t]}
      /\ 1..((at[t] + 1) - 1) \subseteq Subsystem
  BY <1>1, SizeAssumption DEF Subsystem
<1>4. TypeOK'
  <2>1. recorded' \in Recorded
    BY <1>1, <1>2 DEF IInv, TypeOK, Recorded
  <2>2. QED
    BY <1>3, <2>1 DEF IInv, TypeOK, Goto, outside, hooks
<1>5. Locks'
  BY ThreadAssumption DEF IInv, TypeOK, Locks, Goto, Thread
<1>6. /\ at'[t] = at[t] + 1 /\ phase' = phase /\ sub' = sub /\ state' = state /\ snap' = snap
      /\ recorded'[phase[t]] = recorded[phase[t]] \cup {at[t]}
      /\ \A p \in Walk : p # phase[t] => recorded'[p] = recorded[p]
  BY <1>2 DEF IInv, TypeOK, Recorded, outside, hooks
<1>7. Walking(t, at[t])'
  <2>1. CASE phase[t] = "boot"
    BY <1>1, <1>3, <1>6, <2>1 DEF Walking, Split, Walk
  <2>2. CASE phase[t] = "load"
    BY <1>1, <1>3, <1>6, <2>2 DEF Walking, Split, Walk, Booted
  <2>3. QED
    BY <1>2, <2>1, <2>2 DEF Walk
<1>8. Position(t)'
  BY <1>3, <1>6, <1>7, GotoFacts DEF IInv, Position
<1>9. (Booted => Booted') /\ (Loaded => Loaded') /\ (SomeFailed => SomeFailed')
  BY <1>1, <1>2, <1>6 DEF Booted, Loaded, SomeFailed, Walk
<1>10. QED
  BY <1>1, <1>4, <1>5, <1>6, <1>8, <1>9, GotoFacts, RunnerStep DEF IInv

LEMMA HookFailsStep ==
    ASSUME IInv, NEW t \in Runner, HookFails(t)
    PROVE  IInv'
<1>1. Walking(t, at[t]) /\ \A u \in Runner : u # t => pc[u] = "idle"
  BY Driver DEF HookFails, Position
<1>2. TypeOK' /\ Locks'
  <2>1. called' \in [Hook -> [Subsystem -> Nat]]
    BY <1>1, CallFacts DEF HookFails, IInv, Walking, Hook
  <2>2. TypeOK'
    BY <2>1 DEF HookFails, IInv, TypeOK, Goto, Thread, walk, outside
  <2>3. Locks'
    BY ThreadAssumption DEF HookFails, IInv, TypeOK, Locks, Goto, Thread
  <2>4. QED
    BY <2>2, <2>3
<1>3. /\ at' = at /\ phase' = phase /\ recorded' = recorded /\ state' = state
      /\ snap' = snap /\ at[t] \in Subsystem
      /\ Goto(t, IF phase[t] = "load" THEN "rollback" ELSE "fail")
      /\ sub'[at[t]] = "failed"
      /\ \A s \in Subsystem : s # at[t] => sub'[s] = sub[s]
  BY DEF HookFails, walk, outside, hooks, IInv, TypeOK
<1>4. SomeFailed'
  BY <1>3 DEF SomeFailed
<1>5. CASE phase[t] = "boot"
  <2>1. NoneLoaded'
    BY <1>1, <1>3, <1>5 DEF Walking, Split, NoneLoaded
  <2>2. pc'[t] = "fail" /\ state' = "Booting"
    BY <1>1, <1>3, <1>5, GotoFacts DEF IInv, Walking
  <2>3. QED
    BY <1>4, <2>1, <2>2, <1>2, <1>1, <1>3, GotoFacts, RunnerStep
       DEF IInv, Position, Booted, Loaded
<1>6. CASE phase[t] = "load"
  <2>1. FailedAt(at[t])'
    <3>1. Split(at[t], "loaded", "booted") /\ recorded["load"] = 1..(at[t] - 1)
      BY <1>1, <1>6 DEF Walking
    <3>2. ASSUME NEW s \in Subsystem
          PROVE  /\ s < at[t] => sub'[s] = "loaded"
                 /\ s > at[t] => sub'[s] = "booted"
      <4>1. sub[s] = IF s < at[t] THEN "loaded" ELSE "booted"
        BY <3>1 DEF Split
      <4>2. s # at[t] => sub'[s] = sub[s]
        BY <1>3
      <4>3. /\ s > at[t] => ~(s < at[t]) /\ s # at[t]
            /\ s < at[t] => s # at[t]
        BY <1>3, SizeAssumption DEF Subsystem
      <4>4. QED
        BY <4>1, <4>2, <4>3
    <3>3. QED
      BY <1>3, <3>1, <3>2 DEF FailedAt
  <2>2. pc'[t] = "rollback" /\ state' = "Loading" /\ Booted'
    BY <1>1, <1>3, <1>6, GotoFacts DEF IInv, Walking, Booted
  <2>3. QED
    BY <1>4, <2>1, <2>2, <1>2, <1>1, <1>3, GotoFacts, RunnerStep
       DEF IInv, Position, Booted, Loaded
<1>7. QED
  BY <1>1, <1>5, <1>6 DEF Walking

LEMMA PhaseEndsStep ==
    ASSUME IInv, NEW t \in Runner, PhaseEnds(t)
    PROVE  IInv'
<1> USE DEF PhaseEnds
<1>1. TypeOK' /\ Locks'
  BY ThreadAssumption DEF IInv, TypeOK, Locks, Goto, Thread, walk, outside, hooks
<1>2. /\ Walking(t, at[t]) /\ at[t] \in 1..(Size + 1)
      /\ \A u \in Runner : u # t => pc[u] = "idle"
  BY Driver DEF Position
<1>3. /\ \A s \in Subsystem : s < at[t]
      /\ 1..(at[t] - 1) = Subsystem
  BY <1>2, SizeAssumption DEF Subsystem
<1>4. /\ sub' = sub /\ recorded' = recorded /\ state' = state /\ snap' = snap
  BY DEF outside, hooks
<1>5. Position(t)'
  <2>1. CASE phase[t] = "boot"
    <3>1. pc'[t] = "booted" /\ AllAre("booted") /\ Booted /\ recorded["load"] = {}
      BY <1>2, <1>3, <2>1, GotoFacts DEF IInv, Walking, Split, AllAre, Booted
    <3>2. QED
      BY <1>2, <1>4, <2>1, <3>1 DEF Position, Walking, AllAre, Booted
  <2>2. CASE phase[t] = "load"
    <3>1. pc'[t] = "loaded" /\ AllAre("loaded") /\ Loaded
      BY <1>2, <1>3, <2>2, GotoFacts DEF IInv, Walking, Split, AllAre, Booted, Loaded
    <3>2. QED
      BY <1>2, <1>4, <2>2, <3>1 DEF Position, Walking, AllAre, Booted, Loaded
  <2>3. QED
    BY <1>2, <2>1, <2>2 DEF Walking
<1>6. QED
  BY <1>1, <1>2, <1>4, <1>5, GotoFacts, RunnerStep DEF IInv, Booted, Loaded, SomeFailed

(* The lifecycle transitions of boot() and run(): none of them is refused    *)
LEMMA TransitionStep ==
    ASSUME IInv, NEW t \in Runner,
           \/ ToLoading(t) \/ ToRunning(t) \/ ToFailed(t) \/ ToStopping(t) \/ ToStopped(t)
    PROVE  IInv'
<1> USE DEF ToLoading, ToRunning, ToFailed, ToStopping, ToStopped
<1>1. TypeOK' /\ Locks'
  <2>1. /\ \E to \in KernelState :
              \E label \in {"lock", "exec", "idle", "stop"} : Advance(t, to, label)
        /\ pc[t] \in {"booted", "loaded", "fail", "drained", "stopped"}
        /\ UNCHANGED <<subsLock, bookLock>>
    BY DEF KernelState
  <2>2. TypeOK'
    <3>1. CASE ToLoading(t)
      BY <3>1 DEF IInv, TypeOK, Advance, Goto, Thread, KernelState, walk, outside, hooks
    <3>2. CASE ToRunning(t)
      BY <3>2 DEF IInv, TypeOK, Advance, Goto, Thread, KernelState, walk, outside, hooks
    <3>3. CASE ToFailed(t)
      BY <3>3 DEF IInv, TypeOK, Advance, Goto, Thread, KernelState, walk, outside, hooks
    <3>4. CASE ToStopping(t)
      BY <3>4 DEF IInv, TypeOK, Advance, Goto, Thread, KernelState, walk, outside, hooks
    <3>5. CASE ToStopped(t)
      BY <3>5 DEF IInv, TypeOK, Advance, Goto, Thread, KernelState, walk, outside, hooks
    <3>6. QED
      BY <3>1, <3>2, <3>3, <3>4, <3>5
  <2>3. /\ pc'[t] \in {"lock", "exec", "idle", "stop"}
        /\ \A u \in Thread : u # t => pc'[u] = pc[u]
    BY <2>1 DEF IInv, TypeOK, Advance, Goto, Thread
  <2>4. Locks'
    BY <2>1, <2>3, ThreadAssumption DEF IInv, Locks, Thread
  <2>5. QED
    BY <2>2, <2>4
<1>2. Position(t) /\ \A u \in Runner : u # t => pc[u] = "idle"
  BY Driver
<1>3. /\ sub' = sub /\ recorded' = recorded /\ snap' = snap
  BY DEF outside, hooks
<1> SUFFICES /\ \A u \in Thread : u # t => pc'[u] = pc[u]
             /\ pc'[t] = "idle" => Resting'
             /\ pc'[t] # "idle" => Position(t)'
  BY <1>1, <1>2, <1>3, RunnerStep DEF Booted, Loaded, SomeFailed
<1>4. CASE ToLoading(t)
  <2>1. state' = "Loading" /\ Goto(t, "lock")
    BY <1>2, <1>4, LegalFacts DEF Position, Advance
  <2>2. pc'[t] = "lock" /\ phase'[t] = "load"
    BY <1>4, <2>1, GotoFacts DEF IInv, TypeOK
  <2>3. QED
    BY <1>2, <1>3, <1>4, <2>1, <2>2, GotoFacts DEF IInv, Position, AllAre, Booted
<1>5. CASE ToRunning(t)
  <2>1. state' = "Running" /\ Goto(t, IF call[t] = "run" THEN "exec" ELSE "idle")
    BY <1>2, <1>5, LegalFacts DEF Position, Advance
  <2>2. pc'[t] \in {"exec", "idle"}
    BY <2>1, GotoFacts DEF IInv
  <2>3. QED
    BY <1>2, <1>3, <1>5, <2>1, <2>2, GotoFacts
       DEF IInv, Position, AllAre, Booted, Loaded, Resting
<1>6. CASE ToFailed(t)
  <2>1. state' = "Failed" /\ Goto(t, "idle")
    BY <1>2, <1>6, LegalFacts DEF Position, Advance
  <2>2. QED
    BY <1>2, <1>3, <1>6, <2>1, GotoFacts DEF IInv, Position, NoneLoaded, SomeFailed, Resting
<1>7. CASE ToStopping(t)
  <2>1. state' = "Stopping" /\ Goto(t, "stop")
    BY <1>2, <1>7, LegalFacts DEF Position, Advance
  <2>2. phase'[t] = "shutdown" /\ toStop'[t] = Subsystem
    BY <1>7 DEF IInv, TypeOK
  <2>3. QED
    BY <1>2, <1>3, <1>7, <2>1, <2>2, GotoFacts DEF IInv, Position, AllAre, Booted, Loaded
<1>8. CASE ToStopped(t)
  <2>1. state' = "Stopped" /\ Goto(t, "idle")
    BY <1>2, <1>8, LegalFacts DEF Position, Advance
  <2>2. QED
    BY <1>2, <1>3, <1>8, <2>1, GotoFacts DEF IInv, Position, AllAre, Booted, Loaded, Resting
<1>9. QED
  BY <1>4, <1>5, <1>6, <1>7, <1>8

-----------------------------------------------------------------------------
(* The rest of run(), and the rollback *)

LEMMA ExecStep ==
    ASSUME IInv, NEW t \in Runner,
           ExecEnds(t) \/ CoordinatorEnds(t) \/ Misfortunes(t)
    PROVE  IInv'
<1> USE DEF ExecEnds, CoordinatorEnds, Misfortunes, RuntimeFails, HookPanics, Hang, Abandon
<1>1. /\ state' = state /\ sub' = sub /\ recorded' = recorded /\ snap' = snap
      /\ subsLock' = subsLock /\ bookLock' = bookLock /\ signalled' = signalled
      /\ called' = called /\ walk' = walk /\ pc[t] \in {"exec", "hooks"}
      /\ \E label \in {"hooks", "hung", "drained", "idle"} : Goto(t, label)
  BY DEF walk, outside, hooks
<1>2. token' \in BOOLEAN /\ abandoned' \in BOOLEAN
  BY DEF IInv, TypeOK, outside
<1>3. TypeOK'
  BY <1>1, <1>2 DEF IInv, TypeOK, Goto, Thread, walk
<1>4. Locks'
  BY <1>1, ThreadAssumption DEF IInv, TypeOK, Locks, Goto, Thread
<1>5. /\ pc'[t] \in {"hooks", "hung", "drained", "idle"}
      /\ \A u \in Thread : u # t => pc'[u] = pc[u]
  BY <1>1, GotoFacts DEF IInv
<1>6. state = "Running" /\ AllAre("loaded") /\ Loaded
  BY <1>1, Driver DEF Position
<1>7. state' = "Running" /\ AllAre("loaded")' /\ Loaded'
  BY <1>1, <1>6 DEF AllAre, Booted, Loaded
<1>8. /\ pc'[t] # "idle" => Position(t)'
      /\ pc'[t] = "idle" => Resting'
  BY <1>5, <1>7 DEF Position, Resting
<1>9. \A u \in Runner : u # t => pc[u] = "idle"
  BY <1>1, Driver
<1>10. QED
  BY <1>1, <1>3, <1>4, <1>5, <1>8, <1>9, RunnerStep DEF Booted, Loaded, SomeFailed

LEMMA ReadLoadedStep ==
    ASSUME IInv, NEW t \in Runner, ReadLoaded(t)
    PROVE  IInv'
<1> USE DEF ReadLoaded
<1>1. TypeOK' /\ Locks'
  BY DEF IInv, TypeOK, Recorded, Walk, Locks, Goto, Thread, outside, hooks
<1>2. Position(t) /\ \A u \in Runner : u # t => pc[u] = "idle"
  BY Driver
<1>3. /\ sub' = sub /\ recorded' = recorded /\ snap' = snap /\ state' = state
      /\ toStop'[t] = recorded["load"] /\ phase'[t] = "rollback"
  BY DEF IInv, TypeOK, outside, hooks
<1>4. FailedAt(at[t]) /\ at[t] \in Subsystem
  BY <1>2 DEF Position, FailedAt
<1>5. \E k \in Subsystem : FailedAt(k)'
  BY <1>3, <1>4 DEF FailedAt
<1>6. Position(t)'
  BY <1>2, <1>3, <1>5, GotoFacts DEF IInv, Position, Booted
<1>7. QED
  BY <1>1, <1>2, <1>3, <1>6, GotoFacts, RunnerStep DEF IInv, Booted, Loaded, SomeFailed

LEMMA LockForStoppingStep ==
    ASSUME IInv, NEW t \in Runner, LockForStopping(t)
    PROVE  IInv'
<1> USE DEF LockForStopping
<1>1. TypeOK'
  <2>1. Size \in 0..(Size + 1)
    BY SizeAssumption
  <2>2. QED
    BY <2>1 DEF IInv, TypeOK, Goto, outside, hooks
<1>2. Locks'
  BY ThreadAssumption DEF IInv, TypeOK, Locks, Goto, Thread
<1>3. Position(t) /\ \A u \in Runner : u # t => pc[u] = "idle"
  BY Driver
<1>4. /\ sub' = sub /\ recorded' = recorded /\ snap' = snap /\ state' = state
      /\ toStop' = toStop /\ phase' = phase /\ at'[t] = Size
  BY DEF IInv, TypeOK, outside, hooks
<1>5. Size \in 0..Size /\ \A s \in Subsystem : s <= Size /\ ~(s > Size)
  BY SizeAssumption DEF Subsystem
<1>6. Stopping(t)'
  <2>1. CASE /\ phase[t] = "shutdown" /\ state = "Stopping"
             /\ AllAre("loaded") /\ Loaded /\ toStop[t] = Subsystem
    <3>1. toStop'[t] = 1..Size
      BY <1>4, <2>1 DEF Subsystem
    <3>2. QED
      BY <1>4, <1>5, <2>1, <3>1 DEF Stopping, AllAre, Booted, Loaded
  <2>2. CASE /\ phase[t] = "rollback" /\ state = "Loading"
             /\ Booted /\ toStop[t] = recorded["load"]
             /\ \E k \in Subsystem : FailedAt(k)
    <3>1. PICK k \in Subsystem : FailedAt(k)
      BY <2>2
    <3>2. k - 1 \in 0..Size /\ toStop'[t] = 1..(k - 1)
      BY <1>4, <2>2, <3>1, SizeAssumption DEF FailedAt, Subsystem
    <3>3. ASSUME NEW s \in Subsystem PROVE sub[s] = "loaded" <=> s \in 1..(k - 1)
      <4>1. s < k \/ s = k \/ s > k
        BY SizeAssumption DEF Subsystem
      <4>2. s \in 1..(k - 1) <=> s < k
        BY SizeAssumption DEF Subsystem
      <4>3. s > k => ~(s < k)
        BY SizeAssumption DEF Subsystem
      <4>4. QED
        BY <3>1, <4>1, <4>2, <4>3 DEF FailedAt
    <3>4. \A s \in Subsystem : sub'[s] = "loaded" <=> s \in toStop'[t] /\ s <= at'[t]
      BY <1>4, <1>5, <3>2, <3>3
    <3>5. SomeFailed' /\ Booted'
      BY <1>4, <2>2, <3>1 DEF SomeFailed, FailedAt, Booted
    <3>6. QED
      BY <1>4, <1>5, <2>2, <3>2, <3>4, <3>5 DEF Stopping
  <2>3. QED
    BY <1>3, <2>1, <2>2 DEF Position
<1>7. Position(t)'
  BY <1>6, GotoFacts DEF IInv, Position
<1>8. QED
  BY <1>1, <1>2, <1>3, <1>4, <1>7, GotoFacts, RunnerStep
     DEF IInv, Booted, Loaded, SomeFailed

LEMMA StopHookStep ==
    ASSUME IInv, NEW t \in Runner, StopHook(t)
    PROVE  IInv'
<1>1. /\ Stopping(t) /\ at[t] \in Subsystem
      /\ \A u \in Runner : u # t => pc[u] = "idle"
  BY Driver DEF Position, StopHook
<1>2. /\ recorded' = recorded /\ snap' = snap /\ state' = state /\ pc' = pc
      /\ toStop' = toStop /\ phase' = phase /\ at'[t] = at[t] - 1
      /\ \A s \in Subsystem : sub'[s] = IF s = at[t] /\ s \in toStop[t] THEN "stopped" ELSE sub[s]
  BY DEF IInv, TypeOK, StopHook, outside, hooks
<1>3. at[t] - 1 \in 0..Size /\ at[t] - 1 \in 0..(Size + 1)
  BY <1>1, SizeAssumption DEF Subsystem
<1>4. TypeOK' /\ Locks'
  <2>1. called' \in [Hook -> [Subsystem -> Nat]]
    BY CallFacts DEF StopHook, IInv, TypeOK, Hook, hooks
  <2>2. sub' \in [Subsystem -> {"fresh", "booted", "loaded", "failed", "stopped"}]
    BY DEF StopHook, IInv, TypeOK, hooks
  <2>3. TypeOK'
    BY <1>3, <2>1, <2>2 DEF IInv, TypeOK, StopHook, outside
  <2>4. Locks'
    BY DEF IInv, Locks, StopHook
  <2>5. QED
    BY <2>3, <2>4
<1>5. ASSUME NEW s \in Subsystem
      PROVE  /\ s <= at[t] - 1 <=> s <= at[t] /\ s # at[t]
             /\ s > at[t] - 1 <=> s > at[t] \/ s = at[t]
             /\ s = at[t] => s <= at[t]
  BY <1>1, SizeAssumption DEF Subsystem
<1>6. Stopping(t)'
  <2>1. ASSUME NEW s \in Subsystem
        PROVE  sub'[s] = "loaded" <=> s \in toStop'[t] /\ s <= at'[t]
    <3>1. sub[s] = "loaded" <=> s \in toStop[t] /\ s <= at[t]
      BY <1>1 DEF Stopping
    <3>2. QED
      BY <1>2, <1>5, <3>1
  <2>2. CASE /\ phase[t] = "shutdown" /\ state = "Stopping" /\ Loaded
             /\ toStop[t] = Subsystem
             /\ \A s \in Subsystem : s > at[t] => sub[s] = "stopped"
    <3>1. ASSUME NEW s \in Subsystem, s > at'[t] PROVE sub'[s] = "stopped"
      BY <1>2, <1>5, <2>2, <3>1
    <3>2. QED
      BY <1>1, <1>2, <1>3, <2>1, <2>2, <3>1 DEF Stopping, Booted, Loaded
  <2>3. CASE phase[t] = "rollback" /\ state = "Loading" /\ Booted /\ SomeFailed
    <3>1. PICK s \in Subsystem : sub[s] = "failed"
      BY <2>3 DEF SomeFailed
    <3>2. ~(s = at[t] /\ s \in toStop[t])
      BY <1>1, <1>5, <3>1 DEF Stopping
    <3>3. SomeFailed'
      BY <1>2, <3>1, <3>2 DEF SomeFailed
    <3>4. QED
      BY <1>1, <1>2, <1>3, <2>1, <2>3, <3>3 DEF Stopping, Booted
  <2>4. QED
    BY <1>1, <2>2, <2>3 DEF Stopping
<1>7. SomeFailed => SomeFailed'
  <2> SUFFICES ASSUME NEW s \in Subsystem, sub[s] = "failed" PROVE sub'[s] = "failed"
    BY DEF SomeFailed
  <2>1. ~(s = at[t] /\ s \in toStop[t])
    BY <1>1, <1>5 DEF Stopping
  <2>2. QED
    BY <1>2, <2>1
<1>8. pc[t] = "unhook"
  BY DEF StopHook
<1>9. Position(t)'
  BY <1>2, <1>6, <1>8 DEF Position
<1>10. QED
  BY <1>1, <1>2, <1>4, <1>7, <1>8, <1>9, RunnerStep DEF Booted, Loaded

LEMMA StoppingEndsStep ==
    ASSUME IInv, NEW t \in Runner, StoppingEnds(t)
    PROVE  IInv'
<1> USE DEF StoppingEnds
<1>1. TypeOK' /\ Locks'
  BY ThreadAssumption DEF IInv, TypeOK, Locks, Goto, Thread, walk, outside, hooks
<1>2. Stopping(t) /\ \A u \in Runner : u # t => pc[u] = "idle"
  BY Driver DEF Position
<1>3. /\ sub' = sub /\ recorded' = recorded /\ snap' = snap /\ state' = state
  BY DEF outside, hooks
<1>4. \A s \in Subsystem : ~(s <= 0) /\ s > 0
  BY DEF Subsystem
<1>5. Position(t)'
  <2>1. CASE phase[t] = "shutdown"
    <3>1. pc'[t] = "stopped" /\ AllAre("stopped") /\ Loaded /\ state = "Stopping"
      BY <1>2, <1>4, <2>1, GotoFacts DEF IInv, Stopping, AllAre
    <3>2. QED
      BY <1>3, <3>1 DEF Position, AllAre, Booted, Loaded
  <2>2. CASE phase[t] = "rollback"
    <3>1. pc'[t] = "fail" /\ NoneLoaded /\ SomeFailed /\ state = "Loading" /\ Booted
      BY <1>2, <1>4, <2>2, GotoFacts DEF IInv, Stopping, NoneLoaded
    <3>2. QED
      BY <1>3, <3>1 DEF Position, NoneLoaded, SomeFailed, Booted
  <2>3. QED
    BY <1>2, <2>1, <2>2 DEF Stopping
<1>6. QED
  BY <1>1, <1>2, <1>3, <1>5, GotoFacts, RunnerStep DEF IInv, Booted, Loaded, SomeFailed

-----------------------------------------------------------------------------
(* Everybody else *)

(* A step that leaves the kernel's side alone leaves the drivers' positions  *)
LEMMA KernelUntouched ==
    ASSUME IInv,
           state' = state, recorded' = recorded, sub' = sub, walk' = walk,
           \A t \in Runner : pc'[t] = pc[t]
    PROVE  /\ OneDriver'
           /\ \A t \in Runner : pc'[t] # "idle" => Position(t)'
           /\ (\A t \in Runner : pc'[t] = "idle") => Resting'
<1>1. OneDriver'
  BY DEF IInv, OneDriver
<1>2. ASSUME NEW t \in Runner, pc'[t] # "idle" PROVE Position(t)'
  BY <1>2 DEF IInv, walk, Position, Walking, Stopping, AllAre, Split, FailedAt,
     Booted, Loaded, NoneLoaded, SomeFailed
<1>3. (\A t \in Runner : pc'[t] = "idle") => Resting'
  BY DEF IInv, Resting, AllAre, Booted, Loaded, NoneLoaded, SomeFailed
<1>4. QED
  BY <1>1, <1>2, <1>3

LEMMA OutsideStep ==
    ASSUME IInv, Signal \/ CancelToken
    PROVE  IInv'
<1> USE DEF Signal, CancelToken
<1>1. /\ state' = state /\ recorded' = recorded /\ sub' = sub /\ pc' = pc /\ walk' = walk
      /\ snap' = snap /\ subsLock' = subsLock /\ bookLock' = bookLock
      /\ called' = called
  BY DEF hooks
<1>2. TypeOK'
  BY <1>1 DEF IInv, TypeOK, walk
<1>3. (Locks /\ SnapshotsLag /\ SnapshotNotBehind /\ SnapshotSeesWholePhases)'
  BY <1>1 DEF IInv, Locks, SnapshotsLag, SnapshotNotBehind, SnapshotSeesWholePhases,
     Booted, Loaded
<1>4. QED
  BY <1>1, <1>2, <1>3, KernelUntouched DEF IInv

(* While no runner holds the list, no phase is half recorded                 *)
LEMMA FreeListIsWhole ==
    ASSUME IInv, subsLock = NoThread, NEW p \in Walk
    PROVE  recorded[p] \in {{}, Subsystem} \/ SomeFailed
<1>1. p = "boot" \/ p = "load"
  BY DEF Walk
<1>2. NoneRecorded["boot"] = {} /\ NoneRecorded["load"] = {}
  BY DEF NoneRecorded, Walk
<1>3. CASE \A t \in Runner : pc[t] = "idle"
  BY <1>1, <1>2, <1>3 DEF IInv, Resting, Booted, Loaded
<1>4. CASE \E t \in Runner : pc[t] # "idle"
  <2>1. PICK t \in Runner : pc[t] # "idle"
    BY <1>4
  <2>2. Position(t)
    BY <2>1 DEF IInv
  <2>3. pc[t] \notin {"hook", "record", "unhook"}
    BY ThreadAssumption DEF IInv, Locks
  <2>4. QED
    BY <1>1, <1>2, <2>2, <2>3 DEF Position, Booted, Loaded, FailedAt, SomeFailed
<1>5. QED
  BY <1>3, <1>4

(* What the state read first by snapshot() says of the bookkeeping           *)
LEMMA StateSays ==
    ASSUME IInv
    PROVE  /\ state = "Loading" => Booted
           /\ state \in {"Running", "Stopping", "Stopped"} => Loaded
<1>1. CASE \A t \in Runner : pc[t] = "idle"
  BY <1>1 DEF IInv, Resting
<1>2. CASE \E t \in Runner : pc[t] # "idle"
  <2>1. PICK t \in Runner : pc[t] # "idle"
    BY <1>2
  <2>2. Position(t)
    BY <2>1 DEF IInv
  <2>3. QED
    BY <2>1, <2>2 DEF Position, Walking, Stopping, Loaded
<1>3. QED
  BY <1>1, <1>2

LEMMA SnapshotStep ==
    ASSUME IInv, NEW m \in Snapshotter,
           \/ SnapLifecycle(m) \/ SnapLockBook(m) \/ SnapRead(m)
    PROVE  IInv'
<1> USE DEF SnapLifecycle, SnapLockBook, SnapRead
<1>1. /\ state' = state /\ recorded' = recorded /\ sub' = sub /\ walk' = walk
      /\ subsLock' = subsLock /\ called' = called
  BY DEF outside, hooks
<1>2. NoneRecorded \in Recorded
  BY DEF NoneRecorded, Recorded, Walk
<1>3. TypeOK'
  <2> DEFINE Snap == [state : KernelState, complete : BOOLEAN, recorded : Recorded]
  <2>1. snap' \in [Snapshotter -> Snap]
    <3>1. snap \in [Snapshotter -> Snap] /\ state \in KernelState /\ recorded \in Recorded
      BY DEF IInv, TypeOK
    <3>2. [state |-> state, complete |-> FALSE, recorded |-> NoneRecorded] \in Snap
      BY <1>2, <3>1
    <3>3. [state |-> snap[m].state, complete |-> TRUE, recorded |-> recorded] \in Snap
      BY <3>1
    <3>4. QED
      BY <3>1, <3>2, <3>3 DEF outside, hooks
  <2>2. bookLock' \in Snapshotter \cup {NoThread}
    BY DEF IInv, TypeOK
  <2>3. signalled' = signalled /\ token' = token /\ abandoned' = abandoned
    BY DEF outside, hooks
  <2> DEFINE Place == {"idle", "lock", "hook", "record", "booted", "loaded", "fail",
                       "exec", "hooks", "hung", "drained", "rollback", "stop", "unhook",
                       "stopped", "book", "list"}
  <2>4. pc' \in [Thread -> Place]
    BY DEF IInv, TypeOK, Goto, Thread
  <2>5. call' = call /\ phase' = phase /\ at' = at /\ toStop' = toStop
    BY <1>1 DEF walk
  <2>6. QED
    BY <1>1, <2>1, <2>2, <2>3, <2>4, <2>5 DEF IInv, TypeOK
<1>4. \A u \in Thread : u # m => pc'[u] = pc[u]
  BY DEF IInv, TypeOK, Goto
<1>5. \A t \in Runner : t # m /\ pc'[t] = pc[t]
  BY <1>4, ThreadAssumption DEF Thread
<1>6. Locks'
  BY <1>5, ThreadAssumption DEF IInv, TypeOK, Locks, Goto, Thread
<1>7. (SnapshotsLag /\ SnapshotNotBehind /\ SnapshotSeesWholePhases)'
  <2>1. CASE SnapLifecycle(m)
    <3>1. /\ snap'[m] = [state |-> state, complete |-> FALSE, recorded |-> NoneRecorded]
          /\ \A n \in Snapshotter : n # m => snap'[n] = snap[n]
          /\ pc'[m] = "book"
      BY <2>1 DEF IInv, TypeOK, Goto, Thread
    <3>2. \A p \in Walk : NoneRecorded[p] = {}
      BY DEF NoneRecorded
    <3>3. SnapshotsLag'
      BY <1>1, <1>4, <3>1, StateSays DEF IInv, SnapshotsLag, Booted, Loaded, Thread
    <3>4. QED
      BY <1>1, <3>1, <3>2, <3>3 DEF IInv, SnapshotNotBehind, SnapshotSeesWholePhases
  <2>2. CASE SnapLockBook(m)
    <3>1. snap' = snap /\ pc'[m] = "list"
      BY <2>2 DEF IInv, TypeOK, Goto, Thread, outside, hooks
    <3>2. QED
      BY <1>1, <1>4, <3>1 DEF IInv, SnapshotsLag, SnapshotNotBehind,
         SnapshotSeesWholePhases, Booted, Loaded, Thread
  <2>3. CASE SnapRead(m)
    <3>1. /\ snap'[m] = [state |-> snap[m].state, complete |-> TRUE, recorded |-> recorded]
          /\ \A n \in Snapshotter : n # m => snap'[n] = snap[n]
          /\ pc'[m] = "idle"
      BY <2>3 DEF IInv, TypeOK, Goto, Thread
    <3>2. SnapshotsLag'
      BY <1>1, <1>4, <3>1 DEF IInv, SnapshotsLag, Booted, Loaded, Thread
    <3>3. SnapshotNotBehind'
      BY <3>1 DEF IInv, SnapshotsLag, SnapshotNotBehind, Booted, Loaded
    <3>4. \A p \in Walk : recorded[p] \in {{}, Subsystem} \/ SomeFailed
      BY <2>3, FreeListIsWhole
    <3>5. SnapshotSeesWholePhases'
      BY <1>1, <3>1, <3>4 DEF IInv, SnapshotSeesWholePhases, SomeFailed
    <3>6. QED
      BY <3>2, <3>3, <3>5
  <2>4. QED
    BY <2>1, <2>2, <2>3
<1>8. QED
  BY <1>1, <1>3, <1>5, <1>6, <1>7, KernelUntouched DEF IInv

-----------------------------------------------------------------------------
LEMMA NextIInv == IInv /\ [Next]_vars => IInv'
<1> SUFFICES ASSUME IInv, [Next]_vars PROVE IInv'
  OBVIOUS
<1>1. ASSUME NEW t \in Runner, Start(t) \/ Acquires(t) \/ Proceeds(t) \/ Misfortunes(t)
      PROVE  IInv'
  <2>1. CASE Start(t)
    BY <2>1, StartStep
  <2>2. CASE Acquires(t)
    BY <2>2, LockListStep, RecordStep, ReadLoadedStep, LockForStoppingStep DEF Acquires
  <2>3. CASE Proceeds(t)
    BY <2>3, HookSucceedsStep, HookFailsStep, PhaseEndsStep, TransitionStep,
       ExecStep, StopHookStep, StoppingEndsStep DEF Proceeds
  <2>4. QED
    BY <1>1, <2>1, <2>2, <2>3, ExecStep
<1>2. ASSUME NEW m \in Snapshotter, SnapLifecycle(m) \/ Snapshots(m) PROVE IInv'
  BY <1>2, SnapshotStep DEF Snapshots
<1>3. CASE Signal \/ CancelToken
  BY <1>3, OutsideStep
<1>4. CASE UNCHANGED vars
  <2>1. /\ state' = state /\ recorded' = recorded /\ sub' = sub /\ pc' = pc
        /\ walk' = walk /\ snap' = snap /\ subsLock' = subsLock /\ bookLock' = bookLock
    BY <1>4 DEF vars, walk
  <2>2. (TypeOK /\ Locks /\ SnapshotsLag /\ SnapshotNotBehind /\ SnapshotSeesWholePhases)'
    BY <1>4 DEF vars, IInv, TypeOK, Locks, SnapshotsLag, SnapshotNotBehind,
       SnapshotSeesWholePhases, Booted, Loaded
  <2>3. QED
    BY <2>1, <2>2, KernelUntouched DEF IInv
<1>5. QED
  BY <1>1, <1>2, <1>3, <1>4 DEF Next

(* IInv is an invariant of the kernel, for any number of subsystems and      *)
(* threads.                                                                  *)
THEOREM Invariance == Spec => []IInv
BY InitIInv, NextIInv, PTL DEF Spec

(* Every variable keeps its type: no walk leaves the list, only runners hold *)
(* the list and only snapshots the bookkeeping across a step.                *)
THEOREM TypeCorrect == Spec => []TypeOK
<1>1. IInv => TypeOK
  BY DEF IInv
<1>2. QED
  BY <1>1, Invariance, PTL

-----------------------------------------------------------------------------
LEMMA LoadedPrefix == IInv => LoadedOnLoaded
<1> SUFFICES ASSUME IInv, NEW s \in Subsystem, sub[s] = "loaded", NEW d \in 1..(s - 1)
             PROVE  sub[d] = "loaded"
  BY DEF LoadedOnLoaded
<1>1. d \in Subsystem /\ d < s
  BY SizeAssumption DEF Subsystem
<1>2. CASE \A t \in Runner : pc[t] = "idle"
  BY <1>1, <1>2 DEF IInv, Resting, AllAre, NoneLoaded
<1>3. CASE \E t \in Runner : pc[t] # "idle"
  <2>1. PICK t \in Runner : pc[t] # "idle"
    BY <1>3
  <2>2. Position(t)
    BY <2>1 DEF IInv
  <2>3. ASSUME NEW k \in Nat, Split(k, "loaded", "booted") PROVE sub[d] = "loaded"
    <3>1. s < k
      BY <2>3 DEF Split
    <3>2. d < k
      BY <1>1, <3>1, SizeAssumption DEF Subsystem
    <3>3. QED
      BY <1>1, <2>3, <3>2 DEF Split
  <2>4. ASSUME NEW k \in Subsystem, FailedAt(k) PROVE sub[d] = "loaded"
    <3>1. s < k \/ s = k \/ s > k
      BY SizeAssumption DEF Subsystem
    <3>2. s < k
      BY <2>4, <3>1 DEF FailedAt
    <3>3. d < k
      BY <1>1, <3>2, SizeAssumption DEF Subsystem
    <3>4. QED
      BY <1>1, <2>4, <3>3 DEF FailedAt
  <2>5. CASE pc[t] = "hook"
    <3>1. at[t] \in Nat
      BY <2>2, <2>5, SizeAssumption DEF Position
    <3>2. QED
      BY <2>2, <2>3, <2>5, <3>1 DEF Position, Walking, Split
  <2>6. CASE pc[t] = "record"
    <3>1. at[t] + 1 \in Nat
      BY <2>2, <2>6, SizeAssumption DEF Position, Subsystem
    <3>2. QED
      BY <2>2, <2>3, <2>6, <3>1 DEF Position, Walking, Split
  <2>7. CASE pc[t] = "unhook"
    <3>1. Stopping(t)
      BY <2>2, <2>7 DEF Position
    <3>2. PICK k \in 0..Size : toStop[t] = 1..k
      BY <3>1 DEF Stopping
    <3>3. s \in toStop[t] /\ s <= at[t] /\ at[t] \in 0..Size
      BY <3>1 DEF Stopping
    <3>4. d \in toStop[t] /\ d <= at[t]
      BY <1>1, <3>2, <3>3, SizeAssumption DEF Subsystem
    <3>5. QED
      BY <1>1, <3>1, <3>4 DEF Stopping
  <2>8. CASE pc[t] = "rollback"
    <3>1. at[t] \in Subsystem /\ FailedAt(at[t])
      BY <2>2, <2>8 DEF Position, FailedAt
    <3>2. QED
      BY <2>4, <3>1
  <2>9. CASE pc[t] = "stop"
    BY <1>1, <2>2, <2>4, <2>9 DEF Position, AllAre
  <2>10. CASE pc[t] \in {"lock", "booted", "loaded", "fail", "exec", "hooks", "hung",
                        "drained", "stopped"}
    BY <1>1, <2>2, <2>10 DEF Position, AllAre, NoneLoaded
  <2>11. QED
    BY <2>2, <2>5, <2>6, <2>7, <2>8, <2>9, <2>10 DEF Position
<1>4. QED
  BY <1>2, <1>3

(* A loaded subsystem never outlives one that boots before it, whichever     *)
(* hook fails and wherever the rollback starts.                              *)
THEOREM DependenciesLoaded == Spec => []LoadedOnLoaded
BY LoadedPrefix, Invariance, PTL

(* When the kernel is Stopped or Failed every loaded subsystem has been shut *)
(* down.                                                                     *)
THEOREM EverythingStopped == Spec => []NothingLeftLoaded
<1>1. IInv => NothingLeftLoaded
  <2> SUFFICES ASSUME IInv, state \in {"Stopped", "Failed"} PROVE NoneLoaded
    BY DEF NothingLeftLoaded, NoneLoaded
  <2>1. \A t \in Runner : pc[t] = "idle"
    BY DriverState DEF IInv
  <2>2. QED
    BY <2>1 DEF IInv, Resting, AllAre, NoneLoaded
<1>2. QED
  BY <1>1, Invariance, PTL

(* No snapshot ever shows a phase half done, although it takes neither mutex *)
(* for the phase.                                                            *)
THEOREM SnapshotsWhole == Spec => []SnapshotSeesWholePhases
<1>1. IInv => SnapshotSeesWholePhases
  BY DEF IInv
<1>2. QED
  BY <1>1, Invariance, PTL

(* The list a snapshot shows is never behind the state it shows.             *)
THEOREM SnapshotsCurrent == Spec => []SnapshotNotBehind
<1>1. IInv => SnapshotNotBehind
  BY DEF IInv
<1>2. QED
  BY <1>1, Invariance, PTL

(* A snapshot agrees with itself in these two respects, whatever happens     *)
(* between the locks it takes.                                               *)
THEOREM SnapshotsCoherent == Spec => []SnapshotCoherent
BY SnapshotsWhole, SnapshotsCurrent, PTL DEF SnapshotCoherent

-----------------------------------------------------------------------------
(* What has become of a subsystem tells which of its hooks were called       *)
Calls(s, b, l, d) ==
    called["boot"][s] = b /\ called["load"][s] = l /\ called["shutdown"][s] = d

CallsTold ==
    \A s \in Subsystem :
       /\ sub[s] = "fresh"   => Calls(s, 0, 0, 0)
       /\ sub[s] = "booted"  => Calls(s, 1, 0, 0)
       /\ sub[s] = "loaded"  => Calls(s, 1, 1, 0)
       /\ sub[s] = "stopped" => Calls(s, 1, 1, 1)
       /\ sub[s] = "failed"  => Calls(s, 1, 0, 0) \/ Calls(s, 1, 1, 0)

(* A walk calls the next hook of a subsystem that has had the ones before it *)
LEMMA CallsStep == IInv /\ CallsTold /\ [Next]_vars => CallsTold'
<1> SUFFICES ASSUME IInv, CallsTold, [Next]_vars PROVE CallsTold'
  OBVIOUS
<1>1. TypeOK /\ "boot" \in Hook /\ "load" \in Hook /\ "shutdown" \in Hook
  BY DEF IInv, Hook
<1>2. CASE sub' = sub /\ called' = called
  BY <1>2 DEF CallsTold, Calls
<1>3. ASSUME NEW t \in Runner, HookSucceeds(t) \/ HookFails(t) PROVE CallsTold'
  <2>1. Walking(t, at[t]) /\ at[t] \in Subsystem /\ CallHook(phase[t], at[t])
    BY <1>3, Driver DEF Position, HookSucceeds, HookFails
  <2>2. /\ ~(at[t] < at[t])
        /\ phase[t] = "boot" \/ phase[t] = "load"
    BY <2>1, SizeAssumption DEF Walking, Subsystem
  <2>3. sub[at[t]] = IF phase[t] = "boot" THEN "fresh" ELSE "booted"
    BY <2>1, <2>2 DEF Walking, Split
  <2>4. /\ \A s \in Subsystem : s # at[t] => sub'[s] = sub[s]
        /\ \/ sub'[at[t]] = IF phase[t] = "boot" THEN "booted" ELSE "loaded"
           \/ sub'[at[t]] = "failed"
    BY <1>1, <1>3, <2>1 DEF HookSucceeds, HookFails, TypeOK
  <2>5. ASSUME NEW s \in Subsystem, s # at[t]
        PROVE  \A h \in Hook : called'[h][s] = called[h][s]
    BY <1>1, <2>1, <2>2, <2>5, CallFacts
  <2>6. CASE phase[t] = "boot"
    <3>1. /\ called'["boot"][at[t]] = 1 /\ called'["load"][at[t]] = 0
          /\ called'["shutdown"][at[t]] = 0
      BY <1>1, <2>1, <2>3, <2>6, CallFacts DEF CallsTold, Calls
    <3>2. QED
      BY <1>1, <2>4, <2>5, <2>6, <3>1 DEF CallsTold, Calls
  <2>7. CASE phase[t] = "load"
    <3>1. /\ called'["boot"][at[t]] = 1 /\ called'["load"][at[t]] = 1
          /\ called'["shutdown"][at[t]] = 0
      BY <1>1, <2>1, <2>3, <2>7, CallFacts DEF CallsTold, Calls
    <3>2. QED
      BY <1>1, <2>4, <2>5, <2>7, <3>1 DEF CallsTold, Calls
  <2>8. QED
    BY <2>2, <2>6, <2>7
<1>4. ASSUME NEW t \in Runner, StopHook(t) PROVE CallsTold'
  <2>1. Stopping(t) /\ at[t] \in Subsystem
    BY <1>4, Driver DEF Position, StopHook
  <2>2. CASE at[t] \in toStop[t]
    <3>1. /\ CallHook("shutdown", at[t])
          /\ sub'[at[t]] = "stopped"
          /\ \A s \in Subsystem : s # at[t] => sub'[s] = sub[s]
      BY <1>1, <1>4, <2>1, <2>2 DEF StopHook, TypeOK
    <3>2. sub[at[t]] = "loaded"
      BY <2>1, <2>2, SizeAssumption DEF Stopping, Subsystem
    <3>3. /\ called'["boot"][at[t]] = 1 /\ called'["load"][at[t]] = 1
          /\ called'["shutdown"][at[t]] = 1
      BY <1>1, <2>1, <3>1, <3>2, CallFacts DEF CallsTold, Calls
    <3>4. ASSUME NEW s \in Subsystem, s # at[t]
          PROVE  \A h \in Hook : called'[h][s] = called[h][s]
      BY <1>1, <2>1, <3>1, <3>4, CallFacts
    <3>5. QED
      BY <1>1, <3>1, <3>3, <3>4 DEF CallsTold, Calls
  <2>3. CASE at[t] \notin toStop[t]
    BY <1>2, <1>4, <2>3 DEF StopHook, hooks
  <2>4. QED
    BY <2>2, <2>3
<1>5. QED
  BY <1>2, <1>3, <1>4
     DEF Next, vars, hooks, Acquires, Proceeds, Misfortunes, Snapshots, Start, LockList, Record,
     ReadLoaded, LockForStopping, PhaseEnds, ToLoading, ToRunning, ToFailed, ExecEnds,
     CoordinatorEnds, RuntimeFails, HookPanics, Hang, ToStopping, StoppingEnds, ToStopped,
     SnapLifecycle, SnapLockBook, SnapRead, Signal, CancelToken

(* However many threads call boot() and run(), and however often, each hook  *)
(* of a subsystem is called at most once: boot(), then load(), then          *)
(* shutdown().                                                               *)
THEOREM HooksOnce == Spec => []HooksOnceInOrder
<1>1. Init => CallsTold
  BY DEF Init, CallsTold, Calls, Hook
<1>2. IInv /\ CallsTold => HooksOnceInOrder
  <2> SUFFICES ASSUME IInv, CallsTold, NEW s \in Subsystem
               PROVE  /\ called["boot"][s] <= 1
                      /\ called["load"][s] <= called["boot"][s]
                      /\ called["shutdown"][s] <= called["load"][s]
    BY DEF HooksOnceInOrder
  <2>1. sub[s] \in {"fresh", "booted", "loaded", "failed", "stopped"}
    BY DEF IInv, TypeOK
  <2>2. QED
    BY <2>1 DEF CallsTold, Calls
<1>3. QED
  BY <1>1, <1>2, CallsStep, Invariance, PTL DEF Spec
=============================================================================
