------------------------ MODULE LifecycleController -------------------------
(***************************************************************************)
(* LifecycleController (src/lifecycle/controller.rs) shared by threads     *)
(* that call transition(), on top of the dispatcher its events go through. *)
(* Only the check and the set are made under the lock.  The event, the     *)
(* phase gauge and the counter follow with no lock held, so that the       *)
(* announcements of two transitions interleave.  A handler may itself call *)
(* transition() or emit(): its call is that of another emitter, taken      *)
(* while the first one waits.                                              *)
(***************************************************************************)
EXTENDS EventDispatcher, KernelEvents

CONSTANTS Start,         \* the states in which observation begins
          Wirings,       \* what is attached to the controller: "events", "metrics"
          Published,     \* the events that consumers emit themselves
          MaxTransitions \* bound: no more transitions than this

ASSUME LifecycleAssumption ==
    /\ Start \subseteq KernelState
    /\ Wirings \subseteq SUBSET {"events", "metrics"}
    /\ MaxTransitions \in Nat
    /\ IsFiniteSet(Emitter)

VARIABLES state,   \* inner.state
          wired,   \* the handles that are attached
          call,    \* the transition() each emitter is in
          gauge,   \* kernel.lifecycle.phase
          counter, \* kernel.lifecycle.transitions, by label
          entered, \* how often each state was entered
          raced    \* the last transition was made while another was being announced

controller == <<state, wired, call, gauge, counter, entered, raced>>
allVars == <<vars, controller>>

(* audience holds the subscribers of the transition's topic when it was      *)
(* made, heard those that its emit called.                                   *)
NoCall == [pc |-> "idle", to |-> "Created", audience |-> {}, heard |-> {}]

In(e, pc) == call[e].pc = pc
Goes(e, pc) == call' = [call EXCEPT ![e].pc = pc]
AllReturned == \A e \in Emitter : In(e, "idle")
Made == LET add(s, n) == entered[s] + n IN FoldSet(add, 0, KernelState)

-----------------------------------------------------------------------------
(* transition() *)

(* A refused transition returns its error and changes nothing.               *)
Transition(e, to) ==
    /\ In(e, "idle") /\ emit[e].pc = "idle" /\ Made < MaxTransitions
    /\ Legal(state, to)
    /\ state' = to
    /\ entered' = [entered EXCEPT ![to] = @ + 1]
    /\ raced' = ~AllReturned
    /\ call' = [call EXCEPT ![e] =
                   [pc |-> IF "events" \in wired THEN "emit" ELSE "measure", to |-> to,
                    audience |-> {i \in known \ left : by_id[i] = LifecycleTopic(to)},
                    heard |-> {}]]
    /\ UNCHANGED <<vars, wired, gauge, counter>>

Announce(e) ==
    /\ In(e, "emit") /\ LifecycleTopic(call[e].to) \in Topic
    /\ EmitCalled(e, LifecycleTopic(call[e].to))
    /\ Goes(e, "emitting")
    /\ UNCHANGED <<state, wired, gauge, counter, entered, raced>>

(* A topic that nobody has ever subscribed to has no entry.                  *)
AnnounceToNobody(e) ==
    /\ In(e, "emit") /\ LifecycleTopic(call[e].to) \notin Topic
    /\ Goes(e, "measure")
    /\ UNCHANGED <<vars, state, wired, gauge, counter, entered, raced>>

Announced(e) ==
    /\ In(e, "emitting")
    /\ EmitReturns(e)
    /\ call' = [call EXCEPT ![e].pc = "measure", ![e].heard = ToSet(emit[e].called)]
    /\ UNCHANGED <<state, wired, gauge, counter, entered, raced>>

(* Mutant: the gauge shows the phase that was left *)
SetGaugeBehind(e) ==
    /\ In(e, "measure") /\ "metrics" \in wired
    /\ \E from \in KernelState : Legal(from, call[e].to) /\ gauge' = PhaseOrdinal[from]
    /\ Goes(e, "count")
    /\ UNCHANGED <<vars, state, wired, counter, entered, raced>>

SetGauge(e) ==
    /\ In(e, "measure") /\ "metrics" \in wired
    /\ gauge' = PhaseOrdinal[call[e].to]
    /\ Goes(e, "count")
    /\ UNCHANGED <<vars, state, wired, counter, entered, raced>>

(* Mutant: counted under the state that holds by now *)
CountCurrent(e) ==
    /\ In(e, "count")
    /\ counter' = [counter EXCEPT ![state] = @ + 1]
    /\ Goes(e, "idle")
    /\ UNCHANGED <<vars, state, wired, gauge, entered, raced>>

Count(e) ==
    /\ In(e, "count")
    /\ counter' = [counter EXCEPT ![call[e].to] = @ + 1]
    /\ Goes(e, "idle")
    /\ UNCHANGED <<vars, state, wired, gauge, entered, raced>>

Unmeasured(e) ==
    /\ In(e, "measure") /\ "metrics" \notin wired
    /\ Goes(e, "idle")
    /\ UNCHANGED <<vars, state, wired, gauge, counter, entered, raced>>

-----------------------------------------------------------------------------
(* Consumers emit events of their own *)

Publish(e, event) ==
    /\ In(e, "idle") /\ TopicOf(event) \in Topic
    /\ EmitCalled(e, TopicOf(event))
    /\ UNCHANGED controller

PublishReturns(e) == In(e, "idle") /\ EmitReturns(e) /\ UNCHANGED controller

-----------------------------------------------------------------------------
ControllerInit ==
    /\ Init
    /\ state \in Start /\ wired \in Wirings
    /\ call = [e \in Emitter |-> NoCall]
    /\ gauge = PhaseOrdinal[state]
    /\ counter = [s \in KernelState |-> 0] /\ entered = counter
    /\ raced = FALSE

Subscriptions ==
    \E t \in Client :
       \/ \E topic \in Topic : SubscribeId(t, topic)
       \/ SubscribeRoute(t) \/ SubscribeIndex(t)
       \/ \E i \in Id : UnsubscribeIndex(t, i)
       \/ UnsubscribeRoute(t)

ControllerNext ==
    \/ Subscriptions /\ UNCHANGED controller
    \/ \E e \in Emitter :
          \/ \E to \in KernelState : Transition(e, to)
          \/ Announce(e) \/ AnnounceToNobody(e) \/ Announced(e)
          \/ SetGauge(e) \/ Count(e) \/ Unmeasured(e)
          \/ (EmitCopies(e) \/ EmitCalls(e)) /\ UNCHANGED controller
          \/ \E event \in Published : Publish(e, event)
          \/ PublishReturns(e)

ControllerSpec == ControllerInit /\ [][ControllerNext]_allVars

-----------------------------------------------------------------------------
(* Properties *)

ControllerTypeOK ==
    /\ TypeOK
    /\ state \in KernelState /\ wired \in SUBSET {"events", "metrics"}
    /\ call \in [Emitter -> [pc : {"idle", "emit", "emitting", "measure", "count"},
                             to : KernelState, audience : SUBSET Id, heard : SUBSET Id]]
    /\ gauge \in 0..4 /\ counter \in [KernelState -> Nat] /\ entered \in [KernelState -> Nat]
    /\ raced \in BOOLEAN

(* Whoever had subscribed to a state's topic when the state was entered, and *)
(* has not given the subscription up, is called before transition() returns, *)
(* although the emit comes after the lock and other transitions may have     *)
(* overtaken it.                                                             *)
EntryIsHeard ==
    "events" \in wired =>
       \A e \in Emitter : In(e, "measure") \/ In(e, "count") =>
          call[e].audience \ left \subseteq call[e].heard

(* The counter of each state is the number of times it was entered, less the *)
(* calls that have yet to count.                                             *)
CountersExact ==
    "metrics" \in wired =>
       \A s \in KernelState :
          counter[s] + Cardinality({e \in Emitter : ~In(e, "idle") /\ call[e].to = s})
             = entered[s]

(* The phase gauge never shows a phase that has not been reached; and when   *)
(* all calls have returned it shows the current one, provided that the last  *)
(* transition was not made while another was still being announced.          *)
GaugeTruthful ==
    "metrics" \in wired =>
       /\ gauge <= PhaseOrdinal[state]
       /\ AllReturned /\ ~raced => gauge = PhaseOrdinal[state]
=============================================================================
