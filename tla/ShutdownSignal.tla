--------------------------- MODULE ShutdownSignal ---------------------------
(***************************************************************************)
(* ShutdownInner (src/kernel/handles.rs): the flag, the mutex and the      *)
(* condvar behind every ShutdownHandle.  Signallers store the flag under   *)
(* the mutex and notify after releasing it; waiters test the flag under    *)
(* the mutex and park on the condvar, some of them with a deadline.        *)
(* Condvar::wait releases the mutex and parks in one step, and may wake    *)
(* for no reason.                                                          *)
(***************************************************************************)
CONSTANTS Signaller,   \* threads that call signal()
          Waiter,      \* threads that call wait_for_signal or ..._until
          TimedWaiter, \* the waiters that call wait_for_signal_until
          NoThread     \* the mutex is free

ASSUME ThreadAssumption ==
    /\ Signaller \cap Waiter = {}
    /\ TimedWaiter \subseteq Waiter
    /\ NoThread \notin Signaller \cup Waiter

VARIABLES signalled, \* the flag
          parker,    \* the holder of the mutex
          pc,        \* where each thread is
          expired,   \* the waiters whose deadline has passed
          outcome    \* what each wait returned

vars == <<signalled, parker, pc, expired, outcome>>

Thread == Signaller \cup Waiter

Goto(t, label) == pc' = [pc EXCEPT ![t] = label]

Lock(t)   == parker = NoThread /\ parker' = t
Unlock(t) == parker = t /\ parker' = NoThread

-----------------------------------------------------------------------------
(* signal() *)

SignalLock(t) ==
    /\ pc[t] = "idle" /\ Lock(t)
    /\ Goto(t, "store")
    /\ UNCHANGED <<signalled, expired, outcome>>

(* Mutant: the flag is stored without taking the mutex *)
StoreWithoutLock(t) ==
    /\ pc[t] = "idle"
    /\ signalled' = TRUE
    /\ Goto(t, "notify")
    /\ UNCHANGED <<parker, expired, outcome>>

(* The end of the block drops the guard *)
SignalStore(t) ==
    /\ pc[t] = "store" /\ Unlock(t)
    /\ signalled' = TRUE
    /\ Goto(t, "notify")
    /\ UNCHANGED <<expired, outcome>>

(* Mutant: notify_one *)
NotifyOne(t) ==
    /\ pc[t] = "notify"
    /\ \/ \E w \in Waiter :
            /\ pc[w] = "parked"
            /\ pc' = [pc EXCEPT ![t] = "idle", ![w] = "woken"]
       \/ (\A w \in Waiter : pc[w] # "parked") /\ Goto(t, "idle")
    /\ UNCHANGED <<signalled, parker, expired, outcome>>

(* notify_all, outside the mutex.  A handle may be signalled again.          *)
NotifyAll(t) ==
    /\ pc[t] = "notify"
    /\ pc' = [u \in Thread |-> IF u = t THEN "idle"
                               ELSE IF pc[u] = "parked" THEN "woken" ELSE pc[u]]
    /\ UNCHANGED <<signalled, parker, expired, outcome>>

-----------------------------------------------------------------------------
(* wait_for_signal and wait_for_signal_until *)

WaitLock(w) ==
    /\ pc[w] = "start" /\ Lock(w)
    /\ Goto(w, "check")
    /\ UNCHANGED <<signalled, expired, outcome>>

Finish(w, result) ==
    /\ Unlock(w)
    /\ Goto(w, "returned")
    /\ outcome' = [outcome EXCEPT ![w] = result]
    /\ UNCHANGED <<signalled, expired>>

(* The loop's condition, then the deadline of a timed wait *)
Check(w) ==
    /\ pc[w] = "check"
    /\ \/ signalled /\ Finish(w, "true")
       \/ ~signalled /\ w \in TimedWaiter /\ w \in expired /\ Finish(w, "false")
       \/ /\ ~signalled /\ ~(w \in TimedWaiter /\ w \in expired)
          /\ Goto(w, "park")
          /\ UNCHANGED <<signalled, parker, expired, outcome>>

Park(w) ==
    /\ pc[w] = "park" /\ Unlock(w)
    /\ Goto(w, "parked")
    /\ UNCHANGED <<signalled, expired, outcome>>

SpuriousWakeup(w) ==
    /\ pc[w] = "parked"
    /\ Goto(w, "woken")
    /\ UNCHANGED <<signalled, parker, expired, outcome>>

(* Mutant: a timed wait parks like an untimed one *)
TimeoutIgnored(w) == pc[w] = "parked" /\ FALSE /\ UNCHANGED vars

Timeout(w) ==
    /\ w \in TimedWaiter /\ w \in expired /\ pc[w] = "parked"
    /\ Goto(w, "timedout")
    /\ UNCHANGED <<signalled, parker, expired, outcome>>

(* Mutant: wait_timeout's result is believed without looking at the flag *)
RelockTrustsTimeout(w) ==
    /\ pc[w] \in {"woken", "timedout"} /\ parker = NoThread
    /\ \/ pc[w] = "timedout" /\ Goto(w, "returned")
          /\ outcome' = [outcome EXCEPT ![w] = "false"] /\ UNCHANGED parker
       \/ pc[w] = "woken" /\ Goto(w, "check") /\ parker' = w /\ UNCHANGED outcome
    /\ UNCHANGED <<signalled, expired>>

(* The condvar hands the mutex back.  A wait that timed out gives up, unless *)
(* the flag came up in the meantime.                                         *)
Relock(w) ==
    /\ pc[w] \in {"woken", "timedout"} /\ parker = NoThread
    /\ \/ /\ pc[w] = "timedout" /\ ~signalled
          /\ Goto(w, "returned")
          /\ outcome' = [outcome EXCEPT ![w] = "false"]
          /\ UNCHANGED parker
       \/ /\ pc[w] = "woken" \/ signalled
          /\ Goto(w, "check")
          /\ parker' = w
          /\ UNCHANGED outcome
    /\ UNCHANGED <<signalled, expired>>

DeadlinePasses(w) ==
    /\ w \in TimedWaiter /\ w \notin expired
    /\ expired' = expired \cup {w}
    /\ UNCHANGED <<signalled, parker, pc, outcome>>

-----------------------------------------------------------------------------
Init ==
    /\ signalled = FALSE
    /\ parker = NoThread
    /\ pc = [t \in Thread |-> IF t \in Signaller THEN "idle" ELSE "start"]
    /\ expired = {}
    /\ outcome = [w \in Waiter |-> "none"]

Signalling(t) == SignalLock(t) \/ SignalStore(t) \/ NotifyAll(t)

Waiting(w) == WaitLock(w) \/ Check(w) \/ Park(w) \/ Timeout(w) \/ Relock(w)

Next ==
    \/ \E t \in Signaller : Signalling(t)
    \/ \E w \in Waiter : Waiting(w) \/ SpuriousWakeup(w) \/ DeadlinePasses(w)

Spec == Init /\ [][Next]_vars

(* Every started call keeps running, deadlines pass, and the mutex is not    *)
(* kept from a thread that asks for it again and again.  Nobody has to call  *)
(* signal() and no wakeup is spurious unless it wants to be.                 *)
Fairness ==
    /\ \A t \in Signaller : WF_vars(SignalStore(t)) /\ WF_vars(NotifyAll(t))
    /\ \A w \in Waiter : /\ SF_vars(WaitLock(w)) /\ SF_vars(Relock(w))
                         /\ WF_vars(Check(w)) /\ WF_vars(Park(w))
                         /\ WF_vars(Timeout(w)) /\ WF_vars(DeadlinePasses(w))

FairSpec == Spec /\ Fairness

-----------------------------------------------------------------------------
(* Properties *)

TypeOK ==
    /\ signalled \in BOOLEAN
    /\ parker \in Thread \cup {NoThread}
    /\ pc \in [Thread -> {"idle", "store", "notify", "start", "check", "park",
                          "parked", "woken", "timedout", "returned"}]
    /\ expired \subseteq TimedWaiter
    /\ outcome \in [Waiter -> {"none", "true", "false"}]

(* No wakeup is lost: a waiter asleep although the signal is up is one that  *)
(* a signaller is still about to notify.                                     *)
NoLostWakeup ==
    signalled => \A w \in Waiter : pc[w] \in {"park", "parked"} =>
                    \E t \in Signaller : pc[t] = "notify"

(* The handle implements the latch: no wait reports a signal that is not up, *)
(* and none gives up once the signal is up.                                  *)
Abstract == INSTANCE Latch WITH signalled <- signalled, outcome <- outcome
RefinesLatch == Abstract!Spec

(* Kernel::run wakes up: after a signal every wait returns, however the      *)
(* threads interleave and however often they wake for nothing.               *)
SignalWakesAll == signalled ~> \A w \in Waiter : pc[w] = "returned"

(* A wait with a deadline ends even if nobody ever signals.                  *)
TimedWaitEnds == \A w \in TimedWaiter : <>(pc[w] = "returned")
=============================================================================
