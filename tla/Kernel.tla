------------------------------- MODULE Kernel -------------------------------
(***************************************************************************)
(* Kernel::boot, Kernel::run and Kernel::snapshot (src/kernel/core.rs) as  *)
(* called by any number of threads on clones of one kernel.  Two mutexes   *)
(* are shared: the one around the subsystem list, held for a whole phase,  *)
(* and the one around the bookkeeping, held while a subsystem is recorded. *)
(* The subsystems are numbered in boot order.                              *)
(***************************************************************************)
EXTENDS Naturals

CONSTANTS Runner,      \* threads that call boot() or run()
          Snapshotter, \* threads that call snapshot()
          Size,        \* the number of subsystems
          NoThread     \* a mutex is free

ASSUME SizeAssumption == Size \in Nat \ {0}
ASSUME ThreadAssumption ==
    /\ Runner \cap Snapshotter = {}
    /\ NoThread \notin Runner \cup Snapshotter

VARIABLES state,     \* the lifecycle state
          subsLock,  \* the holder of the subsystem list's mutex
          bookLock,  \* the holder of the bookkeeping's mutex
          recorded,  \* booted_at and loaded_at: the subsystems in each
          sub,       \* what has become of each subsystem
          called,    \* how often each hook of each subsystem was called (history)
          signalled, \* the flag behind every ShutdownHandle
          token,     \* the coordinator's ShutdownToken is cancelled
          pc,        \* where each thread is
          call,      \* the function a runner is in
          phase,     \* the list walk a runner is in
          at,        \* its position in the list
          toStop,    \* the subsystems a stopping walk calls
          abandoned, \* run() was left with the kernel Running (history)
          snap       \* the latest snapshot each snapshotter took

vars == <<state, subsLock, bookLock, recorded, sub, called, signalled, token, pc,
          call, phase, at, toStop, abandoned, snap>>
walk == <<call, phase, at, toStop>>
outside == <<signalled, token, snap, abandoned>>
hooks == <<sub, called>>

Subsystem == 1..Size
Walk == {"boot", "load"}
Hook == {"boot", "load", "shutdown"}
NoneRecorded == [p \in Walk |-> {}]
Thread == Runner \cup Snapshotter

KernelState == {"Created", "Booting", "Loading", "Running", "Degraded",
                "Stopping", "Stopped", "Failed"}

Legal ==
    {<<"Created", "Booting">>,
     <<"Booting", "Loading">>, <<"Booting", "Failed">>,
     <<"Loading", "Running">>, <<"Loading", "Failed">>,
     <<"Running", "Degraded">>, <<"Running", "Stopping">>, <<"Running", "Failed">>,
     <<"Degraded", "Running">>, <<"Degraded", "Stopping">>, <<"Degraded", "Failed">>,
     <<"Stopping", "Stopped">>, <<"Stopping", "Failed">>}

Goto(t, label) == pc' = [pc EXCEPT ![t] = label]

(* A subsystem's hook is called, whatever comes of it.                       *)
CallHook(hook, s) == called' = [called EXCEPT ![hook][s] = @ + 1]

(* A transition the controller refuses makes the caller return Err.          *)
Advance(t, to, label) ==
    IF <<state, to>> \in Legal
    THEN state' = to /\ Goto(t, label)
    ELSE UNCHANGED state /\ Goto(t, "idle")

-----------------------------------------------------------------------------
(* boot(), also as the first statement of run() *)

(* Mutant: a kernel that has run is booted again *)
StartTrustsCaller(t) ==
    /\ pc[t] = "idle"
    /\ \E f \in {"boot", "run"} : call' = [call EXCEPT ![t] = f]
    /\ IF state = "Stopped"
       THEN state' = "Booting" /\ Goto(t, "lock")
       ELSE Advance(t, "Booting", "lock")
    /\ phase' = [phase EXCEPT ![t] = "boot"]
    /\ UNCHANGED <<subsLock, bookLock, recorded, hooks, at, toStop, outside>>

Start(t) ==
    /\ pc[t] = "idle"
    /\ \E f \in {"boot", "run"} : call' = [call EXCEPT ![t] = f]
    /\ Advance(t, "Booting", "lock")
    /\ phase' = [phase EXCEPT ![t] = "boot"]
    /\ UNCHANGED <<subsLock, bookLock, recorded, hooks, at, toStop, outside>>

(* run_boot_phase and run_load_phase take the list for the whole phase.      *)
LockList(t) ==
    /\ pc[t] = "lock" /\ subsLock = NoThread
    /\ subsLock' = t
    /\ at' = [at EXCEPT ![t] = 1]
    /\ Goto(t, "hook")
    /\ UNCHANGED <<state, bookLock, recorded, hooks, call, phase, toStop, outside>>

HookSucceeds(t) ==
    /\ pc[t] = "hook" /\ at[t] \in Subsystem
    /\ sub' = [sub EXCEPT ![at[t]] = IF phase[t] = "boot" THEN "booted" ELSE "loaded"]
    /\ CallHook(phase[t], at[t])
    /\ Goto(t, "record")
    /\ UNCHANGED <<state, subsLock, bookLock, recorded, walk, outside>>

(* record_booted or record_loaded, under the bookkeeping's mutex *)
Record(t) ==
    /\ pc[t] = "record" /\ bookLock = NoThread
    /\ recorded' = [recorded EXCEPT ![phase[t]] = @ \cup {at[t]}]
    /\ at' = [at EXCEPT ![t] = @ + 1]
    /\ Goto(t, "hook")
    /\ UNCHANGED <<state, subsLock, bookLock, hooks, call, phase, toStop, outside>>

(* Mutant: a failed load fails the kernel at once *)
HookFailsNoRollback(t) ==
    /\ pc[t] = "hook" /\ at[t] \in Subsystem
    /\ sub' = [sub EXCEPT ![at[t]] = "failed"]
    /\ CallHook(phase[t], at[t])
    /\ subsLock' = NoThread
    /\ Goto(t, "fail")
    /\ UNCHANGED <<state, bookLock, recorded, walk, outside>>

(* The hook returns Err or panics.  The phase ends there and its guard is    *)
(* dropped; a failed load is rolled back.                                    *)
HookFails(t) ==
    /\ pc[t] = "hook" /\ at[t] \in Subsystem
    /\ sub' = [sub EXCEPT ![at[t]] = "failed"]
    /\ CallHook(phase[t], at[t])
    /\ subsLock' = NoThread
    /\ Goto(t, IF phase[t] = "load" THEN "rollback" ELSE "fail")
    /\ UNCHANGED <<state, bookLock, recorded, walk, outside>>

PhaseEnds(t) ==
    /\ pc[t] = "hook" /\ at[t] > Size
    /\ subsLock' = NoThread
    /\ Goto(t, IF phase[t] = "boot" THEN "booted" ELSE "loaded")
    /\ UNCHANGED <<state, bookLock, recorded, hooks, walk, outside>>

ToLoading(t) ==
    /\ pc[t] = "booted"
    /\ Advance(t, "Loading", "lock")
    /\ phase' = [phase EXCEPT ![t] = "load"]
    /\ UNCHANGED <<subsLock, bookLock, recorded, hooks, call, at, toStop, outside>>

(* boot() returns; run() goes on to the Exec phase.                          *)
ToRunning(t) ==
    /\ pc[t] = "loaded"
    /\ Advance(t, "Running", IF call[t] = "run" THEN "exec" ELSE "idle")
    /\ UNCHANGED <<subsLock, bookLock, recorded, hooks, walk, outside>>

ToFailed(t) ==
    /\ pc[t] = "fail"
    /\ Advance(t, "Failed", "idle")
    /\ UNCHANGED <<subsLock, bookLock, recorded, hooks, walk, outside>>

-----------------------------------------------------------------------------
(* The rest of run() *)

(* Mutant: the Exec phase waits for the coordinator's token *)
ExecWaitsForToken(t) ==
    /\ pc[t] = "exec" /\ token
    /\ Goto(t, "hooks")
    /\ UNCHANGED <<state, subsLock, bookLock, recorded, hooks, walk, outside>>

(* run_exec_phase waits for the shutdown signal, with or without workers, and *)
(* then for the supervisor to end.                                            *)
ExecEnds(t) ==
    /\ pc[t] = "exec" /\ signalled
    /\ Goto(t, "hooks")
    /\ UNCHANGED <<state, subsLock, bookLock, recorded, hooks, walk, outside>>

(* The coordinator cancels the token and its hooks run, unless                *)
(* run_coordinator_blocking gets no runtime to run it on.                     *)
CoordinatorEnds(t) ==
    /\ pc[t] = "hooks"
    /\ token' \in {token, TRUE}
    /\ Goto(t, "drained")
    /\ UNCHANGED <<state, subsLock, bookLock, recorded, hooks, walk, signalled, snap,
                   abandoned>>

(* run() is left with the kernel Running: the runtime for the workers cannot  *)
(* be built, or a shutdown hook panics, which nothing catches.                *)
Abandon(t) == Goto(t, "idle") /\ abandoned' = TRUE

RuntimeFails(t) ==
    /\ pc[t] = "exec"
    /\ Abandon(t)
    /\ UNCHANGED <<state, subsLock, bookLock, recorded, hooks, walk, signalled, token, snap>>

HookPanics(t) ==
    /\ pc[t] = "hooks"
    /\ token' = TRUE
    /\ Abandon(t)
    /\ UNCHANGED <<state, subsLock, bookLock, recorded, hooks, walk, signalled, snap>>

(* A sync worker that has started and ignores its token is waited for without *)
(* a bound, for abort_all has no effect on it (supervisor.rs); a shutdown hook*)
(* that blocks its thread keeps the coordinator's timer from firing.          *)
Hang(t) ==
    /\ pc[t] \in {"exec", "hooks"} /\ signalled
    /\ Goto(t, "hung")
    /\ UNCHANGED <<state, subsLock, bookLock, recorded, hooks, walk, outside>>

ToStopping(t) ==
    /\ pc[t] = "drained"
    /\ Advance(t, "Stopping", "stop")
    /\ phase' = [phase EXCEPT ![t] = "shutdown"]
    /\ toStop' = [toStop EXCEPT ![t] = Subsystem]
    /\ UNCHANGED <<subsLock, bookLock, recorded, hooks, call, at, outside>>

(* run_shutdown_phase_to_loaded copies loaded_at before it takes the list.   *)
ReadLoaded(t) ==
    /\ pc[t] = "rollback" /\ bookLock = NoThread
    /\ toStop' = [toStop EXCEPT ![t] = recorded["load"]]
    /\ phase' = [phase EXCEPT ![t] = "rollback"]
    /\ Goto(t, "stop")
    /\ UNCHANGED <<state, subsLock, bookLock, recorded, hooks, call, at, outside>>

LockForStopping(t) ==
    /\ pc[t] = "stop" /\ subsLock = NoThread
    /\ subsLock' = t
    /\ at' = [at EXCEPT ![t] = Size]
    /\ Goto(t, "unhook")
    /\ UNCHANGED <<state, bookLock, recorded, hooks, call, phase, toStop, outside>>

(* Mutant: shutdown hooks are called in boot order *)
StopHookForward(t) ==
    /\ pc[t] = "unhook" /\ at[t] \in Subsystem
    /\ LET s == Size + 1 - at[t] IN
       IF s \in toStop[t]
       THEN sub' = [sub EXCEPT ![s] = "stopped"] /\ CallHook("shutdown", s)
       ELSE UNCHANGED hooks
    /\ at' = [at EXCEPT ![t] = @ - 1]
    /\ UNCHANGED <<state, subsLock, bookLock, recorded, pc, call, phase, toStop, outside>>

(* shutdown() of one subsystem.  An Err or a panic stops neither walk: it    *)
(* only becomes the value run() returns, which is not modelled.              *)
StopHook(t) ==
    /\ pc[t] = "unhook" /\ at[t] \in Subsystem
    /\ IF at[t] \in toStop[t]
       THEN sub' = [sub EXCEPT ![at[t]] = "stopped"] /\ CallHook("shutdown", at[t])
       ELSE UNCHANGED hooks
    /\ at' = [at EXCEPT ![t] = @ - 1]
    /\ UNCHANGED <<state, subsLock, bookLock, recorded, pc, call, phase, toStop, outside>>

StoppingEnds(t) ==
    /\ pc[t] = "unhook" /\ at[t] = 0
    /\ subsLock' = NoThread
    /\ Goto(t, IF phase[t] = "shutdown" THEN "stopped" ELSE "fail")
    /\ UNCHANGED <<state, bookLock, recorded, hooks, walk, outside>>

(* run() returns, with Ok or the first shutdown error.                       *)
ToStopped(t) ==
    /\ pc[t] = "stopped"
    /\ Advance(t, "Stopped", "idle")
    /\ UNCHANGED <<subsLock, bookLock, recorded, hooks, walk, outside>>

-----------------------------------------------------------------------------
(* snapshot() *)

SnapLifecycle(m) ==
    /\ pc[m] = "idle"
    /\ Goto(m, "book")
    /\ snap' = [snap EXCEPT ![m] = [state |-> state, complete |-> FALSE,
                                    recorded |-> NoneRecorded]]
    /\ UNCHANGED <<state, subsLock, bookLock, recorded, hooks, signalled, token, walk, abandoned>>

SnapLockBook(m) ==
    /\ pc[m] = "book" /\ bookLock = NoThread
    /\ bookLock' = m
    /\ Goto(m, "list")
    /\ UNCHANGED <<state, subsLock, recorded, hooks, walk, outside>>

(* Mutant: the list is read without its mutex *)
SnapReadUnlocked(m) ==
    /\ pc[m] = "list"
    /\ bookLock' = NoThread
    /\ snap' = [snap EXCEPT ![m] = [state |-> @.state, complete |-> TRUE,
                                    recorded |-> recorded]]
    /\ Goto(m, "idle")
    /\ UNCHANGED <<state, subsLock, recorded, hooks, signalled, token, walk, abandoned>>

(* With both mutexes held the entries are copied; both are then released.    *)
SnapRead(m) ==
    /\ pc[m] = "list" /\ subsLock = NoThread
    /\ bookLock' = NoThread
    /\ snap' = [snap EXCEPT ![m] = [state |-> @.state, complete |-> TRUE,
                                    recorded |-> recorded]]
    /\ Goto(m, "idle")
    /\ UNCHANGED <<state, subsLock, recorded, hooks, signalled, token, walk, abandoned>>

-----------------------------------------------------------------------------
(* Kernel::shutdown or ShutdownHandle::signal, from any thread *)
Signal ==
    /\ ~signalled
    /\ signalled' = TRUE
    /\ UNCHANGED <<state, subsLock, bookLock, recorded, hooks, token, pc, walk, snap, abandoned>>

(* The consumer cancels the token it got from Kernel::shutdown_token.        *)
CancelToken ==
    /\ ~token
    /\ token' = TRUE
    /\ UNCHANGED <<state, subsLock, bookLock, recorded, hooks, signalled, pc, walk, snap, abandoned>>

Init ==
    /\ state = "Created"
    /\ subsLock = NoThread
    /\ bookLock = NoThread
    /\ recorded = NoneRecorded
    /\ sub = [s \in Subsystem |-> "fresh"]
    /\ called = [hook \in Hook |-> [s \in Subsystem |-> 0]]
    /\ signalled = FALSE
    /\ token = FALSE
    /\ pc = [t \in Thread |-> "idle"]
    /\ call = [t \in Runner |-> "boot"]
    /\ phase = [t \in Runner |-> "boot"]
    /\ at = [t \in Runner |-> 0]
    /\ toStop = [t \in Runner |-> {}]
    /\ abandoned = FALSE
    /\ snap = [m \in Snapshotter |-> [state |-> "Created", complete |-> FALSE,
                                      recorded |-> NoneRecorded]]

Acquires(t) == LockList(t) \/ Record(t) \/ ReadLoaded(t) \/ LockForStopping(t)

Proceeds(t) ==
    \/ HookSucceeds(t) \/ HookFails(t) \/ PhaseEnds(t) \/ ToLoading(t)
    \/ ToRunning(t) \/ ToFailed(t) \/ ExecEnds(t) \/ CoordinatorEnds(t)
    \/ ToStopping(t) \/ StopHook(t) \/ StoppingEnds(t) \/ ToStopped(t)

(* What may happen to a run, and need not                                    *)
Misfortunes(t) == RuntimeFails(t) \/ HookPanics(t) \/ Hang(t)

Snapshots(m) == SnapLockBook(m) \/ SnapRead(m)

Next ==
    \/ \E t \in Runner : Start(t) \/ Acquires(t) \/ Proceeds(t) \/ Misfortunes(t)
    \/ \E m \in Snapshotter : SnapLifecycle(m) \/ Snapshots(m)
    \/ Signal
    \/ CancelToken

Spec == Init /\ [][Next]_vars

(* Subsystem hooks return, a running call goes on, and a mutex that is freed *)
(* again and again is not kept from a thread that waits for it.  Nothing has *)
(* to be called.                                                             *)
Fairness ==
    /\ \A t \in Runner : WF_vars(Proceeds(t)) /\ SF_vars(Acquires(t))
    /\ \A m \in Snapshotter : SF_vars(SnapLockBook(m)) /\ SF_vars(SnapRead(m))

FairSpec == Spec /\ Fairness

-----------------------------------------------------------------------------
(* Properties *)

Recorded == [Walk -> SUBSET Subsystem]

TypeOK ==
    /\ state \in KernelState
    /\ subsLock \in Runner \cup {NoThread}
    /\ bookLock \in Snapshotter \cup {NoThread}
    /\ recorded \in Recorded
    /\ sub \in [Subsystem -> {"fresh", "booted", "loaded", "failed", "stopped"}]
    /\ called \in [Hook -> [Subsystem -> Nat]]
    /\ signalled \in BOOLEAN /\ token \in BOOLEAN /\ abandoned \in BOOLEAN
    /\ pc \in [Thread -> {"idle", "lock", "hook", "record", "booted", "loaded", "fail",
                          "exec", "hooks", "hung", "drained", "rollback", "stop", "unhook", "stopped",
                          "book", "list"}]
    /\ call \in [Runner -> {"boot", "run"}]
    /\ phase \in [Runner -> {"boot", "load", "rollback", "shutdown"}]
    /\ at \in [Runner -> 0..(Size + 1)]
    /\ toStop \in [Runner -> SUBSET Subsystem]
    /\ snap \in [Snapshotter -> [state : KernelState, complete : BOOLEAN, recorded : Recorded]]

(* A loaded subsystem never outlives one it may depend on: the reverse walk  *)
(* of run_shutdown_phase and of the rollback keeps every earlier subsystem   *)
(* loaded while a later one is.                                              *)
LoadedOnLoaded ==
    \A s \in Subsystem : sub[s] = "loaded" => \A d \in 1..(s - 1) : sub[d] = "loaded"

(* When the kernel has reached Stopped or Failed, every subsystem that was   *)
(* loaded has been shut down, whichever hook failed.                         *)
NothingLeftLoaded ==
    state \in {"Stopped", "Failed"} => \A s \in Subsystem : sub[s] # "loaded"

(* However many threads call boot() and run(), and however often: boot(),    *)
(* load() and shutdown() of a subsystem are each called at most once, load() *)
(* only after boot() and shutdown() only after load().                       *)
HooksOnceInOrder ==
    \A s \in Subsystem :
       /\ called["boot"][s] <= 1
       /\ called["load"][s] <= called["boot"][s]
       /\ called["shutdown"][s] <= called["load"][s]

(* A snapshot never shows a phase half done: a subsystem missing from        *)
(* booted_at or loaded_at next to one that is there means that a hook failed.*)
SnapshotSeesWholePhases ==
    \A m \in Snapshotter, p \in Walk :
       snap[m].recorded[p] \notin {{}, Subsystem} => \E s \in Subsystem : sub[s] = "failed"

(* snapshot() reads the lifecycle before the list: the list is never behind  *)
(* the state shown next to it.                                               *)
SnapshotNotBehind ==
    \A m \in Snapshotter : snap[m].complete =>
       /\ snap[m].state = "Loading" => snap[m].recorded["boot"] = Subsystem
       /\ snap[m].state \in {"Running", "Stopping", "Stopped"} =>
            snap[m].recorded["load"] = Subsystem

(* snapshot() takes three locks one after the other.  What it pieces together*)
(* agrees in these two respects only: it need not be a state the kernel has  *)
(* been in, since a lifecycle read as Created or Booting may stand next to a *)
(* list that is loaded by the time it is copied.                             *)
SnapshotCoherent == SnapshotSeesWholePhases /\ SnapshotNotBehind

(* A boot that holds the list waits for the bookkeeping, a snapshot that     *)
(* holds the bookkeeping waits for the list.                                 *)
CircularWait ==
    \E t \in Runner, m \in Snapshotter :
       /\ subsLock = t /\ pc[t] = "record"
       /\ bookLock = m /\ pc[m] = "list"

(* A signal takes run(), wherever it finds it, to a kernel that is Stopped or*)
(* Failed, with three exceptions: the two mutexes have been taken in opposite*)
(* orders; a worker or a hook never gives its thread back; run() was left by *)
(* a hook's panic or for want of a runtime.                                  *)
SignalEndsRun ==
    \A t \in Runner :
       (signalled /\ call[t] = "run" /\ pc[t] # "idle") ~>
          \/ pc[t] = "idle" /\ state \in {"Stopped", "Failed"}
          \/ CircularWait \/ pc[t] = "hung" \/ abandoned

(* What the documentation of ShutdownHandle says: run() observes the signal, *)
(* and returns; here with workers and hooks that all end.                    *)
RunObservesSignal ==
    \A t \in Runner :
       (signalled /\ call[t] = "run" /\ pc[t] # "idle") ~> (pc[t] \in {"idle", "hung"})
=============================================================================
