---------------------------- MODULE Coordinator -----------------------------
(***************************************************************************)
(* ShutdownCoordinator (src/shutdown/coordinator.rs): shutdown() called    *)
(* from any number of tasks, while hooks are registered and the token is   *)
(* cancelled by others.  Hooks share one deadline, Grace ticks of the      *)
(* clock after the call; a hook may finish, fail, hang or panic.           *)
(***************************************************************************)
EXTENDS Naturals, SequencesExt

CONSTANTS Hook,    \* the hooks that may be registered, each once
          Caller,  \* the tasks that call shutdown()
          Grace    \* the grace period

ASSUME GraceAssumption == Grace \in Nat

VARIABLES hooks,     \* the coordinator's list of hooks
          completed, \* shutdown() has been called
          token,     \* the coordinator's token is cancelled
          events,    \* what was emitted
          call,      \* each caller's shutdown(): its position and its locals
          new,       \* the hooks not registered yet
          early,     \* the hooks that were registered when the token was signalled
          ran        \* the hooks that were started, in order

vars == <<hooks, completed, token, events, call, new, early, ran>>

(* The locals of shutdown(): the hooks taken, how many are done with, the    *)
(* time until the deadline, and the two lists of the report                  *)
Local(pc, left) == [pc |-> pc, taken |-> <<>>, done |-> 0, left |-> left,
                    succeeded |-> <<>>, failed |-> <<>>]

At(c, pc) == call[c].pc = pc
Current(c) == call[c].taken[call[c].done + 1]

-----------------------------------------------------------------------------
Register(h) ==
    /\ h \in new
    /\ hooks' = Append(hooks, h)
    /\ new' = new \ {h}
    /\ UNCHANGED <<completed, token, events, call, early, ran>>

(* A consumer cancels its clone of the token.                                *)
CancelToken ==
    /\ ~token
    /\ token' = TRUE
    /\ UNCHANGED <<hooks, completed, events, call, new, early, ran>>

(* The first call goes on, every other one returns an empty report.          *)
Enter(c) ==
    /\ At(c, "idle") \/ At(c, "returned")
    /\ completed' = TRUE
    /\ call' = [call EXCEPT ![c] = IF completed THEN Local("returned", 0)
                                   ELSE Local("announce", Grace)]
    /\ UNCHANGED <<hooks, token, events, new, early, ran>>

Announce(c) ==
    /\ At(c, "announce")
    /\ events' = Append(events, "ShutdownStarted")
    /\ call' = [call EXCEPT ![c].pc = "signal"]
    /\ UNCHANGED <<hooks, completed, token, new, early, ran>>

SignalToken(c) ==
    /\ At(c, "signal")
    /\ token' = TRUE
    /\ early' = Hook \ new
    /\ call' = [call EXCEPT ![c].pc = "take"]
    /\ UNCHANGED <<hooks, completed, events, new, ran>>

(* Mutant: the list is copied, and cleared by a second lock *)
TakeCopy(c) ==
    /\ At(c, "take")
    /\ call' = [call EXCEPT ![c].pc = "loop", ![c].taken = hooks]
    /\ UNCHANGED <<hooks, completed, token, events, new, early, ran>>

(* mem::take: the list is moved out and left empty.                          *)
Take(c) ==
    /\ At(c, "take")
    /\ call' = [call EXCEPT ![c].pc = "loop", ![c].taken = hooks]
    /\ hooks' = <<>>
    /\ UNCHANGED <<completed, token, events, new, early, ran>>

(* The next hook is started, if the deadline allows it.                      *)
StartHook(c) ==
    /\ At(c, "loop") /\ call[c].done < Len(call[c].taken)
    /\ call[c].left > 0
    /\ call' = [call EXCEPT ![c].pc = "hook"]
    /\ ran' = Append(ran, Current(c))
    /\ UNCHANGED <<hooks, completed, token, events, new, early>>

(* Mutant: past the deadline the loop ends *)
BreakAtDeadline(c) ==
    /\ At(c, "loop") /\ call[c].done < Len(call[c].taken)
    /\ call[c].left = 0
    /\ call' = [call EXCEPT ![c].pc = "finish"]
    /\ UNCHANGED <<hooks, completed, token, events, new, early, ran>>

(* Past the deadline a hook fails without having been started.               *)
SkipHook(c) ==
    /\ At(c, "loop") /\ call[c].done < Len(call[c].taken)
    /\ call[c].left = 0
    /\ call' = [call EXCEPT ![c].done = @ + 1, ![c].failed = Append(@, Current(c))]
    /\ UNCHANGED <<hooks, completed, token, events, new, early, ran>>

(* The timeout polls the hook before it looks at the clock, so that a hook   *)
(* may still return when the deadline has passed.                            *)
HookReturns(c) ==
    /\ At(c, "hook")
    /\ \/ call' = [call EXCEPT ![c].pc = "loop", ![c].done = @ + 1,
                               ![c].succeeded = Append(@, Current(c))]
       \/ call' = [call EXCEPT ![c].pc = "loop", ![c].done = @ + 1,
                               ![c].failed = Append(@, Current(c))]
    /\ UNCHANGED <<hooks, completed, token, events, new, early, ran>>

(* Mutant: a timed out hook is recorded but stays the current one *)
TimesOutWithoutAdvancing(c) ==
    /\ At(c, "hook") /\ call[c].left = 0
    /\ call' = [call EXCEPT ![c].pc = "loop", ![c].failed = Append(@, Current(c))]
    /\ UNCHANGED <<hooks, completed, token, events, new, early, ran>>

(* Mutant: the timed out hook is left to run *)
WaitForHook(c) == At(c, "hook") /\ FALSE /\ UNCHANGED vars

HookTimesOut(c) ==
    /\ At(c, "hook") /\ call[c].left = 0
    /\ call' = [call EXCEPT ![c].pc = "loop", ![c].done = @ + 1,
                            ![c].failed = Append(@, Current(c))]
    /\ UNCHANGED <<hooks, completed, token, events, new, early, ran>>

(* Nothing catches a panic: it leaves shutdown(), and no report is made.     *)
HookPanics(c) ==
    /\ At(c, "hook")
    /\ call' = [call EXCEPT ![c] = Local("unwound", 0)]
    /\ UNCHANGED <<hooks, completed, token, events, new, early, ran>>

LoopEnds(c) ==
    /\ At(c, "loop") /\ call[c].done = Len(call[c].taken)
    /\ call' = [call EXCEPT ![c].pc = "finish"]
    /\ UNCHANGED <<hooks, completed, token, events, new, early, ran>>

Finish(c) ==
    /\ At(c, "finish")
    /\ events' = Append(events, "ShutdownCompleted")
    /\ call' = [call EXCEPT ![c].pc = "returned"]
    /\ UNCHANGED <<hooks, completed, token, new, early, ran>>

(* Time passes for the call that set a deadline.                             *)
Tick(c) ==
    /\ call[c].left > 0
    /\ call[c].pc \notin {"idle", "returned", "unwound"}
    /\ call' = [call EXCEPT ![c].left = @ - 1]
    /\ UNCHANGED <<hooks, completed, token, events, new, early, ran>>

-----------------------------------------------------------------------------
Init ==
    /\ hooks = <<>>
    /\ completed = FALSE
    /\ token = FALSE
    /\ events = <<>>
    /\ call = [c \in Caller |-> Local("idle", 0)]
    /\ new = Hook
    /\ early = {}
    /\ ran = <<>>

(* What the call does by itself, whatever its hooks do *)
Proceeds(c) ==
    \/ Announce(c) \/ SignalToken(c) \/ Take(c)
    \/ StartHook(c) \/ SkipHook(c) \/ HookTimesOut(c) \/ LoopEnds(c) \/ Finish(c)

Next ==
    \/ \E h \in Hook : Register(h)
    \/ CancelToken
    \/ \E c \in Caller : Enter(c) \/ Proceeds(c) \/ HookReturns(c) \/ HookPanics(c) \/ Tick(c)

Spec == Init /\ [][Next]_vars

(* The runtime polls the task and the clock runs.  No hook has to return; a  *)
(* hook that hangs does so in an await, where the timeout gets hold of it.   *)
FairSpec == Spec /\ \A c \in Caller : WF_vars(Proceeds(c)) /\ WF_vars(Tick(c))

-----------------------------------------------------------------------------
(* Properties *)

TypeOK ==
    /\ hooks \in Seq(Hook) /\ ran \in Seq(Hook)
    /\ completed \in BOOLEAN /\ token \in BOOLEAN
    /\ events \in {<<>>, <<"ShutdownStarted">>, <<"ShutdownStarted", "ShutdownCompleted">>}
    /\ new \subseteq Hook /\ early \subseteq Hook
    /\ call \in [Caller -> [pc : {"idle", "announce", "signal", "take", "loop", "hook",
                                "finish", "returned", "unwound"},
                          left : 0..Grace, done : Nat, taken : Seq(Hook),
                          succeeded : Seq(Hook), failed : Seq(Hook)]]
    /\ \A c \in Caller : call[c].done <= Len(call[c].taken)

(* However many tasks call shutdown() and whenever hooks are registered,     *)
(* hooks are started at most once, in registration order without a gap,      *)
(* after the token was signalled, and none that came too late to be taken.   *)
HooksRunOnce ==
    /\ IsInjective(ran)
    /\ ran # <<>> => token
    /\ ToSet(ran) \cap (ToSet(hooks) \cup new) = {}
    /\ \A c \in Caller : call[c].taken # <<>> => IsPrefix(ran, call[c].taken)

(* The report accounts for each hook that was taken: it is listed exactly    *)
(* once, as succeeded or as failed, and only a started hook has succeeded.   *)
ReportAddsUp ==
    \A c \in Caller :
       LET listed == call[c].succeeded \o call[c].failed
       IN  /\ IsInjective(listed)
           /\ ToSet(listed) = {call[c].taken[i] : i \in 1..call[c].done}
           /\ ToSet(call[c].succeeded) \subseteq ToSet(ran)

(* A hook that was registered when the token was signalled is in the report  *)
(* of the call that ran the sequence, unless a hook panicked.                *)
EarlyHooksReported ==
    \A c \in Caller :
       (At(c, "finish") \/ (At(c, "returned") /\ call[c].taken # <<>>)) =>
          early \subseteq ToSet(call[c].succeeded) \cup ToSet(call[c].failed)

(* Every call of shutdown() ends, although hooks may hang.                   *)
ShutdownEnds ==
    \A c \in Caller : ~At(c, "idle") ~> At(c, "returned") \/ At(c, "unwound")
=============================================================================
