----------------------------- MODULE MCBuilder ------------------------------
(* An instance of Builder for TLC.                                           *)
EXTENDS Builder

(* Up to two dependencies, a repeated one and the subsystem itself included  *)
DepLists(names) == BoundedSeq(names, 2)

(* Three subsystems with every dependency graph over them; the third may also *)
(* depend on a built-in                                                       *)
Graphs ==
    {[named |-> TRUE, consumer |-> <<Sub("a", d), Sub("b", e), Sub("c", f)>>] :
        d, e \in DepLists({"a", "b", "c"}), f \in DepLists({"a", "b", "c", "events"})}

(* What the checks are about: reserved, repeated and missing names *)
Rejects ==
    {[named |-> n, consumer |-> s] :
        n \in BOOLEAN,
        s \in BoundedSeq({Sub(m, d) : m \in {"a", "b", "events"},
                                      d \in BoundedSeq({"a", "b", "x"}, 1)}, 2)}

MCInputs == Graphs \cup Rejects
=============================================================================
