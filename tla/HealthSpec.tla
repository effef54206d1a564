----------------------------- MODULE HealthSpec -----------------------------
(***************************************************************************)
(* What the health registry promises (src/health/registry.rs and           *)
(* status.rs): a report replaces the subsystem's status, and the aggregate *)
(* is at every moment the worst status any subsystem last reported.        *)
(***************************************************************************)
EXTENDS Integers

CONSTANT Subsystem

VARIABLES subsystems,  \* the last report of each subsystem
          aggregate    \* the kernel's status

(* HealthStatus in its declared order *)
Healthy  == 0
Unknown  == 4
Status   == Healthy..Unknown
NoEntry  == -1         \* the map has no entry for the subsystem

(* a is the maximum of m's entries, Healthy when there are none *)
IsAggregate(a, m) ==
    /\ \A s \in Subsystem : m[s] <= a
    /\ a # Healthy => \E s \in Subsystem : m[s] = a

Init ==
    /\ subsystems = [s \in Subsystem |-> NoEntry]
    /\ aggregate = Healthy

Report(s, status) ==
    /\ subsystems' = [subsystems EXCEPT ![s] = status]
    /\ aggregate' \in Status
    /\ IsAggregate(aggregate', subsystems')

Next == \E s \in Subsystem, status \in Status : Report(s, status)

Spec == Init /\ [][Next]_<<subsystems, aggregate>>
=============================================================================
