------------------------------- MODULE Latch --------------------------------
(***************************************************************************)
(* What ShutdownHandle promises (src/kernel/handles.rs): a one-way signal. *)
(* A wait ends with TRUE only once the signal is up; a wait with a         *)
(* deadline may also end with FALSE, but not when the signal has arrived.  *)
(***************************************************************************)
CONSTANTS Waiter, TimedWaiter

VARIABLES signalled, outcome

Init ==
    /\ signalled = FALSE
    /\ outcome = [w \in Waiter |-> "none"]

Signal ==
    /\ signalled' = TRUE
    /\ UNCHANGED outcome

Return(w) ==
    /\ signalled /\ outcome[w] = "none"
    /\ outcome' = [outcome EXCEPT ![w] = "true"]
    /\ UNCHANGED signalled

GiveUp(w) ==
    /\ w \in TimedWaiter /\ ~signalled /\ outcome[w] = "none"
    /\ outcome' = [outcome EXCEPT ![w] = "false"]
    /\ UNCHANGED signalled

Next == Signal \/ \E w \in Waiter : Return(w) \/ GiveUp(w)

Spec == Init /\ [][Next]_<<signalled, outcome>>
=============================================================================
