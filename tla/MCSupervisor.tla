---------------------------- MODULE MCSupervisor ----------------------------
(* Instances of Supervisor for TLC.                                          *)
EXTENDS Supervisor, TLC

(* A registration, by the fields a model tells apart *)
Reg(kind, restart, delayed, crit, breaker, watched) ==
    [kind |-> kind, restart |-> restart, retries |-> MaxFailures, delayed |-> delayed,
     criticality |-> crit, breaker |-> breaker, threshold |-> 2,
     watched |-> watched, cooperative |-> TRUE]

(* One worker of every restart policy, criticality and kind; with and        *)
(* without backoff, breaker and watchdog                                     *)
MCSpecs == {
    Reg("Async", "OnFailure",  TRUE,  "Essential",  TRUE,  FALSE),
    Reg("Sync",  "Always",     FALSE, "Optional",   TRUE,  TRUE),
    Reg("Async", "MaxRetries", FALSE, "Critical",   FALSE, FALSE),
    Reg("Sync",  "Never",      FALSE, "Background", TRUE,  FALSE) }

(* For liveness: an async worker that ignores its token and sleeps before    *)
(* each restart, next to a Critical sync worker that does watch its token    *)
MCLiveSpecs == {
    [Reg("Async", "OnFailure", TRUE, "Essential", TRUE, FALSE)
        EXCEPT !.cooperative = FALSE],
    Reg("Sync", "Always", FALSE, "Critical", TRUE, FALSE) }

MCSymmetry == Permutations(Worker) \cup Permutations(TaskId)
=============================================================================
