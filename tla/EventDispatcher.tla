-------------------------- MODULE EventDispatcher ---------------------------
(***************************************************************************)
(* The event dispatcher (src/events/dispatcher.rs) as used from any number *)
(* of threads through its handles.  Registrations are kept twice, by topic *)
(* and by id, each under a lock of its own, and the two are never held     *)
(* together: every locked section is a step.  emit() copies the handlers   *)
(* of a topic and calls them with no lock held, so that handlers may       *)
(* themselves subscribe, unsubscribe and emit.  A handler's panic is       *)
(* caught and dropped: it is a call like any other.                        *)
(***************************************************************************)
EXTENDS Naturals, SequencesExt

CONSTANTS Topic,    \* the topics used
          Client,   \* threads that subscribe and unsubscribe
          Emitter,  \* threads that emit
          MaxId,    \* bound: no more than MaxId subscriptions are made
          NoTopic   \* by_id has no entry

ASSUME DispatcherAssumption == MaxId \in Nat /\ NoTopic \notin Topic

VARIABLES next_id, \* the identifier counter
          routes,  \* the registrations of each topic, by their identifiers
          by_id,   \* each registration's topic
          client,  \* the call each client is in
          emit,    \* the call each emitter is in
          known,   \* the identifiers that subscribe() has returned
          left,    \* those that unsubscribe() was called with
          removed  \* those it answered true for

vars == <<next_id, routes, by_id, client, emit, known, left, removed>>
answers == <<known, left, removed>>

Id == 0..(MaxId - 1)

Idle == [pc |-> "idle", id |-> 0, topic |-> NoTopic]
Calling(t, pc) == client[t].pc = pc

(* An emit with the handlers still to be called and those already called.    *)
(* due and gone are the subscriptions that were there and that were removed  *)
(* for good when it was called.                                              *)
Silent == [pc |-> "idle", topic |-> NoTopic, pending |-> <<>>, called |-> <<>>,
           due |-> {}, gone |-> {}]

-----------------------------------------------------------------------------
(* subscribe() *)

SubscribeId(t, topic) ==
    /\ Calling(t, "idle") /\ next_id < MaxId
    /\ next_id' = next_id + 1
    /\ client' = [client EXCEPT ![t] = [pc |-> "route", id |-> next_id, topic |-> topic]]
    /\ UNCHANGED <<routes, by_id, emit, answers>>

SubscribeRoute(t) ==
    /\ Calling(t, "route")
    /\ routes' = [routes EXCEPT ![client[t].topic] = Append(@, client[t].id)]
    /\ client' = [client EXCEPT ![t].pc = "index"]
    /\ UNCHANGED <<next_id, by_id, emit, answers>>

SubscribeIndex(t) ==
    /\ Calling(t, "index")
    /\ by_id' = [by_id EXCEPT ![client[t].id] = client[t].topic]
    /\ known' = known \cup {client[t].id}
    /\ client' = [client EXCEPT ![t] = Idle]
    /\ UNCHANGED <<next_id, routes, emit, left, removed>>

-----------------------------------------------------------------------------
(* unsubscribe(), with an identifier that subscribe() returned.  Whoever     *)
(* removes the entry of by_id goes on to the routes.                         *)

UnsubscribeIndex(t, i) ==
    /\ Calling(t, "idle") /\ i \in known
    /\ left' = left \cup {i}
    /\ IF by_id[i] = NoTopic
       THEN UNCHANGED <<client, by_id>>
       ELSE /\ client' = [client EXCEPT ![t] = [pc |-> "unroute", id |-> i, topic |-> by_id[i]]]
            /\ by_id' = [by_id EXCEPT ![i] = NoTopic]
    /\ UNCHANGED <<next_id, routes, emit, known, removed>>

(* Mutant: the topic's oldest registration is removed *)
UnsubscribeOldest(t) ==
    /\ Calling(t, "unroute")
    /\ LET topic == client[t].topic
       IN  /\ routes[topic] # <<>>
           /\ routes' = [routes EXCEPT ![topic] = Tail(@)]
    /\ removed' = removed \cup {client[t].id}
    /\ client' = [client EXCEPT ![t] = Idle]
    /\ UNCHANGED <<next_id, by_id, emit, known, left>>

UnsubscribeRoute(t) ==
    /\ Calling(t, "unroute")
    /\ LET i     == client[t].id
           topic == client[t].topic
       IN  /\ routes' = [routes EXCEPT ![topic] = RemoveFirst(@, i)]
           /\ removed' = IF i \in ToSet(routes[topic]) THEN removed \cup {i} ELSE removed
    /\ client' = [client EXCEPT ![t] = Idle]
    /\ UNCHANGED <<next_id, by_id, emit, known, left>>

-----------------------------------------------------------------------------
(* emit() *)

EmitCalled(e, topic) ==
    /\ emit[e].pc = "idle"
    /\ emit' = [emit EXCEPT ![e] =
                   [pc |-> "copy", topic |-> topic, pending |-> <<>>, called |-> <<>>,
                    due |-> {i \in known \ left : by_id[i] = topic}, gone |-> removed]]
    /\ UNCHANGED <<next_id, routes, by_id, client, answers>>

EmitCopies(e) ==
    /\ emit[e].pc = "copy"
    /\ emit' = [emit EXCEPT ![e].pc = "call", ![e].pending = routes[emit[e].topic]]
    /\ UNCHANGED <<next_id, routes, by_id, client, answers>>

(* Mutant: a handler that panics is called again *)
EmitRetries(e) ==
    /\ emit[e].pc = "call" /\ emit[e].pending # <<>>
    /\ \E rest \in {emit[e].pending, Tail(emit[e].pending)} :
          emit' = [emit EXCEPT ![e].pending = rest,
                               ![e].called = Append(@, Head(emit[e].pending))]
    /\ UNCHANGED <<next_id, routes, by_id, client, answers>>

(* Mutant: a panic ends the emit *)
EmitStopsAtPanic(e) ==
    /\ emit[e].pc = "call" /\ emit[e].pending # <<>>
    /\ \E rest \in {<<>>, Tail(emit[e].pending)} :
          emit' = [emit EXCEPT ![e].pending = rest,
                               ![e].called = Append(@, Head(emit[e].pending))]
    /\ UNCHANGED <<next_id, routes, by_id, client, answers>>

EmitCalls(e) ==
    /\ emit[e].pc = "call" /\ emit[e].pending # <<>>
    /\ emit' = [emit EXCEPT ![e].pending = Tail(@),
                            ![e].called = Append(@, Head(emit[e].pending))]
    /\ UNCHANGED <<next_id, routes, by_id, client, answers>>

EmitReturns(e) ==
    /\ emit[e].pc = "call" /\ emit[e].pending = <<>>
    /\ emit' = [emit EXCEPT ![e] = Silent]
    /\ UNCHANGED <<next_id, routes, by_id, client, answers>>

-----------------------------------------------------------------------------
Init ==
    /\ next_id = 0
    /\ routes = [topic \in Topic |-> <<>>]
    /\ by_id = [i \in Id |-> NoTopic]
    /\ client = [t \in Client |-> Idle]
    /\ emit = [e \in Emitter |-> Silent]
    /\ known = {} /\ left = {} /\ removed = {}

Next ==
    \/ \E t \in Client :
          \/ \E topic \in Topic : SubscribeId(t, topic)
          \/ SubscribeRoute(t) \/ SubscribeIndex(t)
          \/ \E i \in Id : UnsubscribeIndex(t, i)
          \/ UnsubscribeRoute(t)
    \/ \E e \in Emitter :
          \/ \E topic \in Topic : EmitCalled(e, topic)
          \/ EmitCopies(e) \/ EmitCalls(e) \/ EmitReturns(e)

Spec == Init /\ [][Next]_vars

-----------------------------------------------------------------------------
(* Properties *)

TypeOK ==
    /\ next_id \in 0..MaxId
    /\ routes \in [Topic -> Seq(Id)]
    /\ by_id \in [Id -> Topic \cup {NoTopic}]
    /\ client \in [Client -> [pc : {"idle", "route", "index", "unroute"},
                              id : Nat, topic : Topic \cup {NoTopic}]]
    /\ emit \in [Emitter -> [pc : {"idle", "copy", "call"}, topic : Topic \cup {NoTopic},
                            pending : Seq(Id), called : Seq(Id),
                            due : SUBSET Id, gone : SUBSET Id]]
    /\ known \subseteq Id /\ left \subseteq known
    /\ removed \subseteq left

Occurs(i, topic) == Cardinality({k \in DOMAIN routes[topic] : routes[topic][k] = i})
Unrouting(i) == \E t \in Client : Calling(t, "unroute") /\ client[t].id = i

(* The two tables agree on every subscription that no call is working on:    *)
(* one that subscribe() returned and nobody gave up is registered once,      *)
(* under the topic its entry names and no other; one that was given up is in *)
(* neither table.                                                            *)
TablesAgree ==
    /\ \A i \in known \ left : by_id[i] # NoTopic
    /\ \A i \in known, topic \in Topic :
          ~Unrouting(i) => Occurs(i, topic) = IF by_id[i] = topic THEN 1 ELSE 0
    /\ \A i \in removed : by_id[i] = NoTopic

(* Of all the calls that give up one subscription, racing ones included,     *)
(* exactly one is answered true: nobody is refused unless another call has   *)
(* been or will be told that it removed the subscription.                    *)
OneUnsubscribeWins ==
    /\ \A i \in left : i \in removed \/ Unrouting(i)
    /\ \A t, u \in Client :
          Calling(t, "unroute") /\ Calling(u, "unroute") /\ client[t].id = client[u].id => t = u
    /\ \A i \in removed : ~Unrouting(i)

(* Whatever is subscribed and unsubscribed while it runs, an emit calls each *)
(* handler at most once, calls every subscriber that was there when it began *)
(* and was not given up since, and none whose removal was confirmed before.  *)
EmitReachesSubscribers ==
    \A e \in Emitter : emit[e].pc = "call" =>
       LET handlers == emit[e].called \o emit[e].pending
       IN  /\ IsInjective(handlers)
           /\ emit[e].due \ left \subseteq ToSet(handlers)
           /\ emit[e].gone \cap ToSet(handlers) = {}
=============================================================================
