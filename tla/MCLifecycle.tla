---------------------------- MODULE MCLifecycle -----------------------------
(***************************************************************************)
(* Two threads that subscribe and unsubscribe, two that transition and     *)
(* emit.  The threads of each kind are interchangeable.                    *)
(***************************************************************************)
EXTENDS LifecycleController

CONSTANTS c1, c2, e1, e2

MCTopic == {LifecycleTopic("Running"), <<"custom", "">>}
MCWirings == {{"events", "metrics"}, {}}
MCPublished == {[type |-> "Custom", of |-> "db.ready"]}
Threads == Permutations({c1, c2}) \cup Permutations({e1, e2})
=============================================================================
