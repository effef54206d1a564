------------------------------- MODULE Drain -------------------------------
(***************************************************************************)
(* drain() (src/shutdown/drain.rs) called by a shutdown hook: a JoinSet is *)
(* joined until it is empty or the grace period of the drain is over, then *)
(* what is left is aborted and joined.  The drain is itself a future that  *)
(* the coordinator polls under its own deadline and drops when that        *)
(* passes, wherever it is.                                                 *)
(***************************************************************************)
EXTENDS Coordinator

CONSTANTS DrainHook,  \* the hook whose body drains the set
          Task,       \* the tasks of the set
          Blocking,   \* those made by spawn_blocking, which an abort does not reach
          DrainGrace  \* the grace period of the drain

ASSUME DrainAssumption ==
    /\ DrainHook \in Hook
    /\ Blocking \subseteq Task
    /\ IsFiniteSet(Task)
    /\ DrainGrace \in Nat

VARIABLES task,      \* each task: what it does or how it ended; "joined"
          drain,     \* where drain() is, with its counts
          allowance  \* time until the deadline of the drain

drainVars == <<task, drain, allowance>>
allVars == <<vars, drainVars>>

Unjoined == {t \in Task : task[t] # "joined"}
Polled(c) == At(c, "hook") /\ Current(c) = DrainHook
In(pc) == drain.pc = pc

-----------------------------------------------------------------------------
(* The tasks *)

TaskEnds(t) ==
    /\ task[t] \in {"running", "aborting"}
    /\ \/ task' = [task EXCEPT ![t] = "ok"]
       \/ task' = [task EXCEPT ![t] = "panicked"]
       \/ task[t] = "aborting" /\ t \notin Blocking /\ task' = [task EXCEPT ![t] = "cancelled"]
    /\ UNCHANGED <<vars, drain, allowance>>

(* Somebody holds the AbortHandle of a task.                                 *)
AbortHandle(t) ==
    /\ task[t] = "running"
    /\ task' = [task EXCEPT ![t] = "aborting"]
    /\ UNCHANGED <<vars, drain, allowance>>

-----------------------------------------------------------------------------
(* drain() *)

Begin(c) ==
    /\ Polled(c) /\ In("idle")
    /\ drain' = [drain EXCEPT !.pc = IF Unjoined = {} THEN "returned" ELSE "join"]
    /\ allowance' = DrainGrace
    /\ UNCHANGED <<vars, task>>

(* One result of join_next is counted; the two loops differ in where they    *)
(* put a panic.                                                              *)
Joined(t, drainedWhen) ==
    /\ task' = [task EXCEPT ![t] = "joined"]
    /\ drain' = IF task[t] \in drainedWhen THEN [drain EXCEPT !.drained = @ + 1]
                                          ELSE [drain EXCEPT !.aborted = @ + 1]

Joinable(t) == task[t] \in {"ok", "panicked", "cancelled"}

(* The deadline is looked at first.                                          *)
JoinNext(c, t) ==
    /\ Polled(c) /\ In("join") /\ allowance > 0
    /\ Joinable(t) /\ Joined(t, {"ok", "panicked"})
    /\ UNCHANGED <<vars, allowance>>

AllJoined(c) ==
    /\ Polled(c) /\ In("join") /\ allowance > 0
    /\ Unjoined = {}
    /\ drain' = [drain EXCEPT !.pc = "returned"]
    /\ UNCHANGED <<vars, task, allowance>>

(* Mutant: the set is aborted and not joined any more *)
AbortAndReturn(c) ==
    /\ Polled(c) /\ In("join") /\ allowance = 0
    /\ drain' = [drain EXCEPT !.pc = "returned"]
    /\ task' = [t \in Task |-> IF task[t] = "running" THEN "aborting" ELSE task[t]]
    /\ UNCHANGED <<vars, allowance>>

(* The deadline has passed: abort_all, unless everything is joined by now.   *)
AbortAll(c) ==
    /\ Polled(c) /\ In("join") /\ allowance = 0
    /\ drain' = [drain EXCEPT !.pc = "abort"]
    /\ task' = [t \in Task |-> IF task[t] = "running" THEN "aborting" ELSE task[t]]
    /\ UNCHANGED <<vars, allowance>>

JoinAborted(c, t) ==
    /\ Polled(c) /\ In("abort")
    /\ Joinable(t) /\ Joined(t, {"ok"})
    /\ UNCHANGED <<vars, allowance>>

AbortsJoined(c) ==
    /\ Polled(c) /\ In("abort")
    /\ Unjoined = {}
    /\ drain' = [drain EXCEPT !.pc = "returned"]
    /\ UNCHANGED <<vars, task, allowance>>

-----------------------------------------------------------------------------
(* The hook returns with its drain; other hooks as they like.                *)
DrainingHookReturns(c) ==
    /\ Polled(c) => In("returned")
    /\ HookReturns(c)
    /\ UNCHANGED drainVars

(* Dropped by the coordinator's timeout, the drain stays where it was.       *)
DrainingHookTimesOut(c) == HookTimesOut(c) /\ UNCHANGED drainVars

(* One clock drives both deadlines.                                          *)
DrainTick(c) ==
    /\ Tick(c)
    /\ allowance' = IF allowance > 0 /\ In("join") THEN allowance - 1 ELSE allowance
    /\ UNCHANGED <<task, drain>>

-----------------------------------------------------------------------------
DrainInit ==
    /\ Init
    /\ task = [t \in Task |-> "running"]
    /\ drain = [pc |-> "idle", drained |-> 0, aborted |-> 0]
    /\ allowance = 0

(* What shutdown() does by itself *)
Goes(c) ==
    \/ /\ Announce(c) \/ SignalToken(c) \/ Take(c) \/ StartHook(c) \/ SkipHook(c)
          \/ LoopEnds(c) \/ Finish(c)
       /\ UNCHANGED drainVars
    \/ DrainingHookTimesOut(c)

Draining(c) ==
    \/ Begin(c) \/ AllJoined(c) \/ AbortAll(c) \/ AbortsJoined(c)
    \/ \E t \in Task : JoinNext(c, t) \/ JoinAborted(c, t)

DrainNext ==
    \/ \E h \in Hook : Register(h) /\ UNCHANGED drainVars
    \/ CancelToken /\ UNCHANGED drainVars
    \/ \E c \in Caller :
          \/ (Enter(c) \/ HookPanics(c)) /\ UNCHANGED drainVars
          \/ Goes(c) \/ Draining(c) \/ DrainingHookReturns(c) \/ DrainTick(c)
    \/ \E t \in Task : TaskEnds(t) \/ AbortHandle(t)

DrainSpec == DrainInit /\ [][DrainNext]_allVars

DrainFairSpec ==
    DrainSpec /\ \A c \in Caller : WF_allVars(Goes(c)) /\ WF_allVars(DrainTick(c))

-----------------------------------------------------------------------------
(* Properties *)

DrainTypeOK ==
    /\ TypeOK
    /\ task \in [Task -> {"running", "aborting", "ok", "panicked", "cancelled", "joined"}]
    /\ drain \in [pc : {"idle", "join", "abort", "returned"}, drained : Nat, aborted : Nat]
    /\ allowance \in 0..DrainGrace

(* Tasks end, panic and are aborted from outside while the deadline of the   *)
(* drain passes, in any order, and the drain may be cut off by the           *)
(* coordinator's.  Every task that was joined is counted once, as drained or *)
(* as aborted; and a drain that returns has counted them all: none of them   *)
(* is still at work.                                                         *)
DrainAddsUp ==
    /\ drain.drained + drain.aborted = Cardinality(Task \ Unjoined)
    /\ In("returned") => drain.drained + drain.aborted = Cardinality(Task)
=============================================================================
