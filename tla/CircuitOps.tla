----------------------------- MODULE CircuitOps -----------------------------
(***************************************************************************)
(* The circuit breaker's operations (src/worker/policy/circuit.rs) as      *)
(* functions of the breaker's fields, one call at a time.  The supervisor  *)
(* is the only caller in the kernel and runs on one task, so these are the *)
(* breaker the Supervisor module uses.                                     *)
(*                                                                         *)
(* The two timestamps are kept as "has one been recorded" flags.  Whether  *)
(* the previous failure lies within failure_window, and whether            *)
(* open_duration has elapsed, depend on the clock alone, so they are       *)
(* parameters that the caller of an operator leaves open.                  *)
(***************************************************************************)
EXTENDS Naturals

CircuitState == {"Closed", "Open", "HalfOpen"}

(* state, failures, last_failure_at.is_some(), opened_at.is_some() *)
Breaker == [state : CircuitState, failures : Nat,
            last_failure_at : BOOLEAN, opened_at : BOOLEAN]

(* CircuitBreaker::new, and what record_success leaves behind *)
NewBreaker == [state |-> "Closed", failures |-> 0,
               last_failure_at |-> FALSE, opened_at |-> FALSE]

(* Mutant: tripping does not record when it happened *)
OpenBreakerUndated(b) == [b EXCEPT !.state = "Open"]

OpenBreaker(b) == [b EXCEPT !.state = "Open", !.opened_at = TRUE]

(* The Closed arm of record_failure: restart the count when the previous   *)
(* failure is outside the window, count this one, trip at the threshold.   *)
CountFailure(b, inWindow, threshold) ==
    LET count == IF b.last_failure_at /\ inWindow THEN b.failures + 1 ELSE 1
        counted == [b EXCEPT !.failures = count, !.last_failure_at = TRUE]
    IN  IF count >= threshold THEN OpenBreaker(counted) ELSE counted

RecordFailure(b, inWindow, threshold) ==
    CASE b.state = "HalfOpen" -> OpenBreaker(b)
      [] b.state = "Open"     -> b
      [] b.state = "Closed"   -> CountFailure(b, inWindow, threshold)

RecordSuccess(b) == NewBreaker

Tick(b, elapsed) ==
    IF b.state = "Open" /\ b.opened_at /\ elapsed
    THEN [b EXCEPT !.state = "HalfOpen"] ELSE b
=============================================================================
