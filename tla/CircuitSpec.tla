---------------------------- MODULE CircuitSpec -----------------------------
(***************************************************************************)
(* The circuit breaker as an atomic object: every call of record_failure,  *)
(* record_success and tick (src/worker/policy/circuit.rs) is one step, and *)
(* does what the operator of CircuitOps says.  The Supervisor module uses  *)
(* the breaker like this.                                                  *)
(***************************************************************************)
EXTENDS CircuitOps

CONSTANT Threshold \* policy.failure_threshold

VARIABLE breaker

Init == breaker = NewBreaker

Failure == \E inWindow \in BOOLEAN : breaker' = RecordFailure(breaker, inWindow, Threshold)

Success == breaker' = RecordSuccess(breaker)

Ticked == \E elapsed \in BOOLEAN : breaker' = Tick(breaker, elapsed)

Next == Failure \/ Success \/ Ticked

Spec == Init /\ [][Next]_breaker
=============================================================================
