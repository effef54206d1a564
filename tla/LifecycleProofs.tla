--------------------------- MODULE LifecycleProofs ---------------------------
(***************************************************************************)
(* Proofs about EventDispatcher and about LifecycleController on top of    *)
(* it, for any number of threads, topics, subscriptions and transitions.   *)
(* First the dispatcher by itself.  Its two tables are related through the *)
(* calls that are between their two locked sections: an identifier is in a *)
(* route exactly when its entry says so or a client is on its way with it. *)
(* Then the controller, whose steps are steps of the dispatcher, so that   *)
(* the dispatcher's invariant is at hand; it adds what the calls still owe *)
(* to the gauge, to the counters and to the subscribers.                   *)
(***************************************************************************)
EXTENDS LifecycleController, TLAPS, FiniteSetTheorems, SequenceTheorems

-----------------------------------------------------------------------------
(* The dispatcher                                                            *)

Routed(i, topic) == i \in ToSet(routes[topic])
Busy(t) == ~Calling(t, "idle")
Carries(t, i, topic) ==
    /\ Calling(t, "index") \/ Calling(t, "unroute")
    /\ client[t].id = i /\ client[t].topic = topic

(* No two clients work on the same identifier.                               *)
ClientsApart ==
    \A t, u \in Client : Busy(t) /\ Busy(u) /\ client[t].id = client[u].id => t = u

ClientSound(t) ==
    /\ Busy(t) => client[t].topic \in Topic /\ client[t].id \in Id /\ client[t].id < next_id
    /\ Calling(t, "route") =>
          client[t].id \notin known /\ \A topic \in Topic : ~Routed(client[t].id, topic)
    /\ Calling(t, "index") => client[t].id \notin known
    /\ Calling(t, "unroute") =>
          client[t].id \in left \ removed /\ by_id[client[t].id] = NoTopic
    /\ Calling(t, "index") \/ Calling(t, "unroute") => Routed(client[t].id, client[t].topic)
ClientsSound == \A t \in Client : ClientSound(t)

EntriesSound ==
    /\ \A i \in known : i < next_id
    /\ \A i \in known \ left : by_id[i] # NoTopic
    /\ \A i \in Id : by_id[i] # NoTopic => i \in known \ left /\ Routed(i, by_id[i])

RoutesSound ==
    \A topic \in Topic :
       /\ IsInjective(routes[topic])
       /\ \A i \in ToSet(routes[topic]) :
             i < next_id /\ (by_id[i] = topic \/ \E t \in Client : Carries(t, i, topic))

Tables == ClientsApart /\ ClientsSound /\ EntriesSound /\ RoutesSound

(* What an emit has still to find in the routes, and what it cannot find.    *)
EmitsSound ==
    \A e \in Emitter :
       /\ emit[e].gone \subseteq removed
       /\ emit[e].pc = "copy" =>
             /\ emit[e].topic \in Topic /\ emit[e].called = <<>>
             /\ \A i \in emit[e].due \ left : i \in known /\ by_id[i] = emit[e].topic

IInv == TypeOK /\ Tables /\ EmitsSound /\ EmitReachesSubscribers

tables == <<next_id, routes, by_id, client, known, left, removed>>

-----------------------------------------------------------------------------
(* Sequences *)

LEMMA AppendOnce ==
    ASSUME NEW S, NEW s \in Seq(S), NEW x \in S
    PROVE  /\ Append(s, x) \in Seq(S)
           /\ ToSet(Append(s, x)) = ToSet(s) \cup {x}
           /\ IsInjective(s) /\ x \notin ToSet(s) => IsInjective(Append(s, x))
<1>1. /\ Append(s, x) \in Seq(S)
      /\ DOMAIN s = 1..Len(s) /\ Len(s) \in Nat
      /\ DOMAIN Append(s, x) = 1..(Len(s) + 1)
      /\ Append(s, x)[Len(s) + 1] = x
      /\ \A i \in 1..Len(s) : Append(s, x)[i] = s[i]
  OBVIOUS
<1>2. ToSet(Append(s, x)) = ToSet(s) \cup {x}
  BY <1>1 DEF ToSet
<1>3. ASSUME IsInjective(s), x \notin ToSet(s) PROVE IsInjective(Append(s, x))
  BY <1>1, <1>3 DEF IsInjective, ToSet
<1>4. QED
  BY <1>1, <1>2, <1>3

LEMMA RemoveOnce ==
    ASSUME NEW S, NEW s \in Seq(S), IsInjective(s), NEW x
    PROVE  /\ RemoveFirst(s, x) \in Seq(S)
           /\ ToSet(RemoveFirst(s, x)) = ToSet(s) \ {x}
           /\ IsInjective(RemoveFirst(s, x))
<1>1. /\ DOMAIN s = 1..Len(s) /\ Len(s) \in Nat
      /\ \A i \in 1..Len(s) : s[i] \in S
  OBVIOUS
<1>2. CASE x \notin ToSet(s)
  <2>1. RemoveFirst(s, x) = s
    BY <1>1, <1>2 DEF RemoveFirst, ToSet
  <2>2. QED
    BY <1>2, <2>1
<1>3. CASE x \in ToSet(s)
  <2>1. PICK k \in 1..Len(s) : s[k] = x
    BY <1>1, <1>3 DEF ToSet
  <2>2. {i \in 1..Len(s) : s[i] = x} = {k}
    BY <1>1, <2>1 DEF IsInjective
  <2>3. SelectInSeq(s, LAMBDA v : v = x) = k
    BY <2>1, <2>2 DEF SelectInSeq, Min
  <2> DEFINE r == SubSeq(s, 1, k - 1) \o SubSeq(s, k + 1, Len(s))
  <2>4. RemoveFirst(s, x) = r
    BY <2>1, <2>3 DEF RemoveFirst, RemoveAt
  <2>5. /\ r \in Seq(S)
        /\ Len(r) = Len(s) - 1
        /\ \A i \in 1..(Len(s) - 1) : r[i] = IF i < k THEN s[i] ELSE s[i + 1]
    <3> DEFINE a == SubSeq(s, 1, k - 1)
               b == SubSeq(s, k + 1, Len(s))
    <3>1. a \in Seq(S) /\ Len(a) = k - 1 /\ \A i \in 1..(k - 1) : a[i] = s[i]
      BY <1>1, <2>1
    <3>2. b \in Seq(S) /\ Len(b) = Len(s) - k /\ \A i \in 1..(Len(s) - k) : b[i] = s[k + i]
      <4>1. /\ k + 1 \in Int /\ Len(s) \in Int
            /\ \A i \in (k + 1)..Len(s) : s[i] \in S
        BY <1>1, <2>1
      <4>2. /\ b \in Seq(S)
            /\ Len(b) = IF k + 1 <= Len(s) THEN Len(s) - (k + 1) + 1 ELSE 0
            /\ \A i \in 1..(Len(s) - (k + 1) + 1) : b[i] = s[(k + 1) + i - 1]
        BY <4>1, SubSeqProperties
      <4> HIDE DEF b
      <4>3. Len(b) = Len(s) - k
        <5>1. CASE k + 1 <= Len(s)
          BY <1>1, <2>1, <4>2, <5>1
        <5>2. CASE ~(k + 1 <= Len(s))
          <6>1. k = Len(s)
            <7>1. k \in Nat /\ Len(s) \in Nat /\ k <= Len(s)
              BY <1>1, <2>1
            <7>2. QED
              BY <5>2, <7>1
          <6>2. Len(b) = 0
            BY <4>2, <5>2
          <6>3. QED
            BY <1>1, <6>1, <6>2
        <5>3. QED
          BY <5>1, <5>2
      <4>4. \A i \in 1..(Len(s) - k) :
               i \in 1..(Len(s) - (k + 1) + 1) /\ (k + 1) + i - 1 = k + i
        BY <1>1, <2>1
      <4>5. QED
        BY <4>2, <4>3, <4>4
    <3>0. r = a \o b
      OBVIOUS
    <3> HIDE DEF a, b, r
    <3>3. /\ r \in Seq(S) /\ Len(r) = Len(a) + Len(b)
          /\ \A i \in 1..(Len(a) + Len(b)) :
                r[i] = IF i <= Len(a) THEN a[i] ELSE b[i - Len(a)]
      BY <3>0, <3>1, <3>2, ConcatProperties
    <3>4. \A i \in 1..(Len(s) - 1) : r[i] = IF i < k THEN s[i] ELSE s[i + 1]
      <4> TAKE i \in 1..(Len(s) - 1)
      <4>1. i \in 1..(Len(a) + Len(b))
        BY <1>1, <2>1, <3>1, <3>2
      <4>2. CASE i < k
        BY <1>1, <2>1, <3>1, <3>3, <4>1, <4>2
      <4>3. CASE ~(i < k)
        <5>1. /\ i - Len(a) \in 1..(Len(s) - k) /\ k + (i - Len(a)) = i + 1
              /\ ~(i <= Len(a))
          BY <1>1, <2>1, <3>1, <4>3
        <5>2. QED
          BY <3>2, <3>3, <4>1, <4>3, <5>1
      <4>4. QED
        BY <4>2, <4>3
    <3>5. QED
      BY <1>1, <2>1, <3>1, <3>2, <3>3, <3>4
  <2> HIDE DEF r
  <2>6. DOMAIN r = 1..(Len(s) - 1)
    BY <2>5
  <2>7. IsInjective(r)
    BY SMTT(20), <1>1, <2>1, <2>5, <2>6 DEF IsInjective
  <2>8. ToSet(r) = ToSet(s) \ {x}
    <3>1. \A i \in 1..(Len(s) - 1) : r[i] \in ToSet(s) \ {x}
      BY SMTT(20), <1>1, <2>1, <2>5 DEF ToSet, IsInjective
    <3>2. \A j \in 1..Len(s) : s[j] # x => s[j] \in ToSet(r)
      <4> TAKE j \in 1..Len(s)
      <4> HAVE s[j] # x
      <4>1. CASE j < k
        <5>1. j \in 1..(Len(s) - 1) /\ r[j] = s[j]
          BY <1>1, <2>1, <2>5, <4>1
        <5>2. QED
          BY <2>6, <5>1 DEF ToSet
      <4>2. CASE j > k
        <5>1. j - 1 \in 1..(Len(s) - 1) /\ r[j - 1] = s[j]
          BY <1>1, <2>1, <2>5, <4>2
        <5>2. QED
          BY <2>6, <5>1 DEF ToSet
      <4>3. QED
        BY <1>1, <2>1, <4>1, <4>2
    <3>3. QED
      BY <1>1, <2>6, <3>1, <3>2 DEF ToSet
  <2>9. QED
    BY <2>4, <2>5, <2>7, <2>8
<1>4. QED
  BY <1>2, <1>3

(* What is called next moves from one list to the other.                     *)
LEMMA MoveHead ==
    ASSUME NEW S, NEW p \in Seq(S), NEW c \in Seq(S), p # <<>>
    PROVE  /\ Tail(p) \in Seq(S) /\ Append(c, Head(p)) \in Seq(S)
           /\ Append(c, Head(p)) \o Tail(p) = c \o p
OBVIOUS

-----------------------------------------------------------------------------
(* Every invariant of the tables speaks of the tables only, and the emits    *)
(* need of them that a registration stays until it is given up.              *)

LEMMA EmitStep ==
    ASSUME Tables, UNCHANGED tables
    PROVE  Tables'
BY DEF tables, Tables, ClientsApart, ClientsSound, EntriesSound, ClientSound, RoutesSound,
       Routed, Busy, Carries, Calling

Grows ==
    /\ known \subseteq known' /\ left \subseteq left' /\ removed \subseteq removed'
    /\ \A i \in known \ left' : by_id'[i] = by_id[i]

LEMMA TableStep ==
    ASSUME EmitsSound, EmitReachesSubscribers, Grows, UNCHANGED emit
    PROVE  EmitsSound' /\ EmitReachesSubscribers'
<1>1. EmitsSound'
  BY DEF EmitsSound, Grows
<1>2. EmitReachesSubscribers'
  BY DEF EmitReachesSubscribers, Grows
<1>3. QED
  BY <1>1, <1>2

(* A step of one client leaves the others where they are, and what they rely *)
(* on in the tables, as long as it concerns another identifier.              *)
OthersStay(t) == \A u \in Client \ {t} : client'[u] = client[u]

Untouched(i) ==
    /\ i \in known' <=> i \in known
    /\ i \in left \ removed => i \in left' \ removed'
    /\ by_id[i] = NoTopic => by_id'[i] = NoTopic
    /\ \A topic \in Topic : i \in ToSet(routes'[topic]) <=> i \in ToSet(routes[topic])

LEMMA OtherClient ==
    ASSUME NEW u, ClientSound(u), client'[u] = client[u], next_id \in Nat, next_id' \in Nat,
           next_id <= next_id', Id \subseteq Nat, Busy(u) => Untouched(client[u].id)
    PROVE  ClientSound(u)'
<1>1. /\ Busy(u)' <=> Busy(u)
      /\ \A pc : Calling(u, pc)' <=> Calling(u, pc)
  BY DEF Busy, Calling
<1>2. CASE ~Busy(u)
  BY <1>1, <1>2 DEF ClientSound, Busy, Calling
<1>3. CASE Busy(u)
  <2>1. PICK i \in Id, topic \in Topic :
           i = client[u].id /\ topic = client[u].topic /\ i < next_id /\ Untouched(i)
    BY <1>3 DEF ClientSound
  <2>2. i = client'[u].id /\ topic = client'[u].topic /\ i < next_id'
    BY <2>1
  <2>3. Busy(u)' => client'[u].topic \in Topic /\ client'[u].id \in Id /\ client'[u].id < next_id'
    BY <2>2
  <2>4. ASSUME Calling(u, "route")'
        PROVE  i \notin known' /\ \A other \in Topic : i \notin ToSet(routes'[other])
    BY <1>1, <2>1, <2>4 DEF ClientSound, Routed, Untouched
  <2>5. ASSUME Calling(u, "index")'
        PROVE  i \notin known'
    BY <1>1, <2>1, <2>5 DEF ClientSound, Untouched
  <2>6. ASSUME Calling(u, "unroute")'
        PROVE  i \in left' \ removed' /\ by_id'[i] = NoTopic
    BY <1>1, <2>1, <2>6 DEF ClientSound, Untouched
  <2>7. ASSUME Calling(u, "index")' \/ Calling(u, "unroute")'
        PROVE  i \in ToSet(routes'[topic])
    BY <1>1, <2>1, <2>7 DEF ClientSound, Routed, Untouched
  <2>8. QED
    BY <2>2, <2>3, <2>4, <2>5, <2>6, <2>7 DEF ClientSound, Routed
<1>4. QED
  BY <1>2, <1>3

-----------------------------------------------------------------------------
LEMMA SubscribeIdStep ==
    ASSUME IInv, NEW t \in Client, NEW topic \in Topic, SubscribeId(t, topic)
    PROVE  IInv'
<1> USE DEF IInv, Tables
<1>1. /\ next_id \in Id /\ next_id' = next_id + 1 /\ next_id' \in 0..MaxId /\ next_id \in Nat
      /\ client'[t] = [pc |-> "route", id |-> next_id, topic |-> topic]
      /\ OthersStay(t) /\ ~Busy(t)
      /\ UNCHANGED <<routes, by_id, emit, known, left, removed>>
  BY DispatcherAssumption DEF SubscribeId, TypeOK, Id, Calling, OthersStay, Busy, answers
<1>2. TypeOK'
  BY <1>1 DEF SubscribeId, TypeOK, Id
<1>3. ClientsApart'
  BY <1>1 DEF ClientsApart, ClientsSound, ClientSound, Busy, Calling, OthersStay
<1>4. ClientsSound'
  <2>1. next_id \notin known /\ \A other \in Topic : ~Routed(next_id, other)
    BY <1>1 DEF EntriesSound, RoutesSound, Routed
  <2>2. ClientSound(t)'
    BY <1>1, <2>1 DEF ClientSound, Calling, Busy, Routed
  <2>3. \A u \in Client \ {t} : ClientSound(u)'
    BY <1>1, OtherClient DEF ClientsSound, OthersStay, Untouched, Id
  <2>4. QED
    BY <2>2, <2>3 DEF ClientsSound
<1>5. EntriesSound'
  <2>1. \A i \in known : i < next_id'
    BY <1>1 DEF EntriesSound, TypeOK, Id
  <2>2. QED
    BY <1>1, <2>1 DEF EntriesSound, Routed
<1>6. RoutesSound'
  <2>1. \A i, other : Carries(t, i, other) => FALSE
    BY <1>1 DEF Carries, Busy, Calling
  <2>2. \A u \in Client : \A i, other : Carries(u, i, other) => Carries(u, i, other)'
    BY <1>1, <2>1 DEF Carries, OthersStay, Calling
  <2>3. \A other \in Topic : \A i \in ToSet(routes[other]) : i \in Id
    BY DEF TypeOK, ToSet
  <2>4. QED
    BY <1>1, <2>2, <2>3 DEF RoutesSound, Id
<1>7. EmitsSound' /\ EmitReachesSubscribers'
  BY <1>1, TableStep DEF Grows
<1>8. QED
  BY <1>2, <1>3, <1>4, <1>5, <1>6, <1>7

LEMMA SubscribeRouteStep ==
    ASSUME IInv, NEW t \in Client, SubscribeRoute(t)
    PROVE  IInv'
<1> USE DEF IInv, Tables
<1>0. PICK i, topic : i = client[t].id /\ topic = client[t].topic
  OBVIOUS
<1>1. /\ i \in Id /\ i < next_id /\ topic \in Topic /\ i \notin known
      /\ \A other \in Topic : ~Routed(i, other)
      /\ routes[topic] \in Seq(Id) /\ DOMAIN routes = Topic
      /\ client'[t].pc = "index" /\ client'[t].id = i /\ client'[t].topic = topic
      /\ OthersStay(t) /\ Calling(t, "route")
      /\ UNCHANGED <<next_id, by_id, emit, known, left, removed>>
  BY <1>0 DEF SubscribeRoute, ClientsSound, ClientSound, Busy, Calling, TypeOK, OthersStay, answers
<1>2. routes' = [routes EXCEPT ![topic] = Append(@, i)]
  BY <1>0 DEF SubscribeRoute
<1>3. /\ routes'[topic] \in Seq(Id)
      /\ ToSet(routes'[topic]) = ToSet(routes[topic]) \cup {i}
      /\ IsInjective(routes'[topic])
      /\ \A other \in Topic \ {topic} : routes'[other] = routes[other]
  BY <1>1, <1>2, AppendOnce DEF RoutesSound, Routed
<1>4. TypeOK'
  <2>1. routes' \in [Topic -> Seq(Id)]
    BY <1>1, <1>2, <1>3 DEF TypeOK
  <2>2. client' \in [Client -> [pc : {"idle", "route", "index", "unroute"},
                                id : Nat, topic : Topic \cup {NoTopic}]]
    BY DEF TypeOK, SubscribeRoute
  <2>3. QED
    BY <1>1, <2>1, <2>2 DEF TypeOK
<1>5. ClientsApart'
  BY <1>0, <1>1 DEF ClientsApart, Busy, Calling, OthersStay
<1>6. \A j \in Id, other \in Topic : Routed(j, other) => Routed(j, other)'
  BY <1>3 DEF Routed
<1>7. ClientsSound'
  <2>1. ClientSound(t)'
    BY <1>1, <1>3 DEF ClientSound, Calling, Busy, Routed
  <2>2. \A u \in Client \ {t} : Busy(u) => client[u].id # i
    BY <1>0, <1>1 DEF ClientsApart, Busy, Calling
  <2>3. \A u \in Client \ {t} : Busy(u) => Untouched(client[u].id)
    BY <1>1, <1>3, <2>2 DEF Untouched
  <2>4. next_id \in Nat /\ next_id' \in Nat /\ next_id <= next_id' /\ Id \subseteq Nat
    BY <1>1 DEF TypeOK, Id
  <2>5. \A u \in Client \ {t} : ClientSound(u)'
    BY <1>1, <2>3, <2>4, OtherClient DEF ClientsSound, OthersStay
  <2>6. QED
    BY <2>1, <2>5 DEF ClientsSound
<1>8. EntriesSound'
  BY <1>1, <1>6 DEF EntriesSound, TypeOK
<1>9. RoutesSound'
  <2>1. \A u \in Client : \A j, other : Carries(u, j, other) => Carries(u, j, other)'
    BY <1>1 DEF Carries, OthersStay, Calling
  <2>2. Carries(t, i, topic)'
    BY <1>1 DEF Carries, Calling
  <2>3. QED
    BY <1>1, <1>3, <2>1, <2>2 DEF RoutesSound
<1>10. EmitsSound' /\ EmitReachesSubscribers'
  BY <1>1, TableStep DEF Grows
<1>11. QED
  BY <1>4, <1>5, <1>7, <1>8, <1>9, <1>10

LEMMA SubscribeIndexStep ==
    ASSUME IInv, NEW t \in Client, SubscribeIndex(t)
    PROVE  IInv'
<1> USE DEF IInv, Tables
<1>0. PICK i, topic : i = client[t].id /\ topic = client[t].topic
  OBVIOUS
<1>1. /\ i \in Id /\ i < next_id /\ topic \in Topic /\ i \notin known
      /\ Routed(i, topic) /\ topic # NoTopic
      /\ by_id' = [by_id EXCEPT ![i] = topic] /\ known' = known \cup {i}
      /\ client'[t] = Idle /\ OthersStay(t) /\ Calling(t, "index")
      /\ UNCHANGED <<next_id, routes, emit, left, removed>>
  BY <1>0, DispatcherAssumption
     DEF SubscribeIndex, ClientsSound, ClientSound, Busy, Calling, TypeOK, OthersStay
<1>2. TypeOK'
  <2>1. client' \in [Client -> [pc : {"idle", "route", "index", "unroute"},
                                id : Nat, topic : Topic \cup {NoTopic}]]
    BY DEF SubscribeIndex, TypeOK, Idle
  <2>2. QED
    BY <1>1, <2>1 DEF TypeOK
<1>3. /\ by_id'[i] = topic /\ i \notin left
      /\ \A j \in Id \ {i} : by_id'[j] = by_id[j]
  BY <1>1 DEF TypeOK
<1>4. \A u \in Client \ {t} : Busy(u) => client[u].id # i
  BY <1>0, <1>1 DEF ClientsApart, Busy, Calling
<1>5. ~Busy(t)'
  BY <1>1 DEF Busy, Calling, Idle
<1>6. ClientsApart'
  BY <1>1, <1>5 DEF ClientsApart, Busy, Calling, OthersStay
<1>7. ClientsSound'
  <2>1. \A u \in Client \ {t} : Busy(u) => Untouched(client[u].id)
    BY <1>1, <1>3, <1>4 DEF Untouched, ClientsSound, ClientSound
  <2>2. \A u \in Client \ {t} : ClientSound(u)'
    BY <1>1, <2>1, OtherClient DEF ClientsSound, OthersStay, TypeOK, Id
  <2>3. ClientSound(t)'
    BY <1>5 DEF ClientSound, Busy, Calling
  <2>4. QED
    BY <2>2, <2>3 DEF ClientsSound
<1>8. EntriesSound'
  BY <1>1, <1>3 DEF EntriesSound, Routed, TypeOK
<1>9. RoutesSound'
  <2>1. \A u \in Client \ {t} : \A j, other : Carries(u, j, other) => Carries(u, j, other)'
    BY <1>1 DEF Carries, OthersStay, Calling
  <2>2. \A j, other : Carries(t, j, other) => j = i /\ other = topic
    BY <1>0 DEF Carries
  <2>3. \A other \in Topic : \A j \in ToSet(routes[other]) : j \in Id
    BY DEF TypeOK, ToSet
  <2>4. by_id[i] = NoTopic
    BY <1>1 DEF EntriesSound
  <2>5. \A other \in Topic : other # NoTopic
    BY DispatcherAssumption
  <2>6. \A other \in Topic : Routed(i, other) => other = topic
    BY <1>4, <2>2, <2>4, <2>5 DEF RoutesSound, Routed, Carries, Busy, Calling
  <2>7. ASSUME NEW other \in Topic, NEW j \in ToSet(routes[other])
        PROVE  j < next_id /\ (by_id'[j] = other \/ \E u \in Client : Carries(u, j, other)')
    <3>1. CASE j = i
      BY <1>1, <1>3, <2>6, <2>7, <3>1 DEF Routed
    <3>2. CASE j # i
      BY <1>3, <2>1, <2>2, <2>3, <2>7, <3>2 DEF RoutesSound
    <3>3. QED
      BY <3>1, <3>2
  <2>8. QED
    BY <1>1, <2>7 DEF RoutesSound
<1>10. EmitsSound' /\ EmitReachesSubscribers'
  BY <1>1, <1>3, TableStep DEF Grows, TypeOK
<1>11. QED
  BY <1>2, <1>6, <1>7, <1>8, <1>9, <1>10

LEMMA UnsubscribeIndexStep ==
    ASSUME IInv, NEW t \in Client, NEW i \in Id, UnsubscribeIndex(t, i)
    PROVE  IInv'
<1> USE DEF IInv, Tables
<1>1. /\ i \in known /\ left' = left \cup {i} /\ ~Busy(t)
      /\ UNCHANGED <<next_id, routes, emit, known, removed>>
  BY DEF UnsubscribeIndex, Calling, Busy
<1>2. CASE by_id[i] = NoTopic
  <2>1. UNCHANGED <<client, by_id>>
    BY <1>2 DEF UnsubscribeIndex
  <2>2. TypeOK'
    BY <1>1, <2>1 DEF TypeOK
  <2>3. ClientsApart'
    BY <2>1 DEF ClientsApart, Busy, Calling
  <2>4. ClientsSound'
    BY <1>1, <2>1 DEF ClientsSound, ClientSound, Busy, Calling, Routed
  <2>5. EntriesSound' /\ RoutesSound'
    BY <1>1, <1>2, <2>1 DEF EntriesSound, RoutesSound, Routed, Carries, Calling
  <2>6. EmitsSound' /\ EmitReachesSubscribers'
    BY <1>1, <2>1, TableStep DEF Grows
  <2>7. QED
    BY <2>2, <2>3, <2>4, <2>5, <2>6
<1>3. CASE by_id[i] # NoTopic
  <2>1. PICK topic \in Topic : topic = by_id[i]
    BY <1>3 DEF TypeOK
  <2>2. /\ client'[t] = [pc |-> "unroute", id |-> i, topic |-> topic] /\ OthersStay(t)
        /\ by_id'[i] = NoTopic /\ \A j \in Id \ {i} : by_id'[j] = by_id[j]
        /\ i \notin left /\ Routed(i, topic) /\ i < next_id
    BY <1>1, <1>3, <2>1 DEF UnsubscribeIndex, TypeOK, OthersStay, EntriesSound
  <2>3. TypeOK'
    <3>1. by_id' \in [Id -> Topic \cup {NoTopic}]
      BY <1>3 DEF UnsubscribeIndex, TypeOK
    <3>2. client' \in [Client -> [pc : {"idle", "route", "index", "unroute"},
                                  id : Nat, topic : Topic \cup {NoTopic}]]
      <4>1. client' = [client EXCEPT ![t] = [pc |-> "unroute", id |-> i, topic |-> topic]]
        BY <1>3, <2>1 DEF UnsubscribeIndex
      <4>2. i \in Nat
        BY DispatcherAssumption DEF Id
      <4>3. QED
        BY <4>1, <4>2 DEF TypeOK
    <3>3. QED
      BY <1>1, <3>1, <3>2 DEF TypeOK
  <2>4. \A u \in Client : Busy(u) => client[u].id # i
    BY <1>1, <1>3, <2>2 DEF ClientsSound, ClientSound, Busy, Calling, TypeOK
  <2>5. ClientsApart'
    BY <2>2, <2>4 DEF ClientsApart, Busy, Calling, OthersStay
  <2>6. ClientsSound'
    <3>1. next_id \in Nat /\ next_id' \in Nat /\ next_id <= next_id' /\ Id \subseteq Nat
      BY <1>1 DEF TypeOK, Id
    <3>2. \A u \in Client \ {t} : Busy(u) => Untouched(client[u].id)
      BY <1>1, <2>2, <2>4 DEF Untouched, ClientsSound, ClientSound
    <3>3. \A u \in Client \ {t} : ClientSound(u)'
      BY <2>2, <3>1, <3>2, OtherClient DEF ClientsSound, OthersStay
    <3>4. ClientSound(t)'
      BY <1>1, <2>2 DEF ClientSound, Busy, Calling, Routed, TypeOK
    <3>5. QED
      BY <3>3, <3>4 DEF ClientsSound
  <2>7. EntriesSound'
    BY <1>1, <2>2 DEF EntriesSound, Routed, TypeOK
  <2>8. RoutesSound'
    <3>1. \A u \in Client \ {t} : \A j, other : Carries(u, j, other) => Carries(u, j, other)'
      BY <2>2 DEF Carries, OthersStay, Calling
    <3>2. \A j, other : ~Carries(t, j, other)
      BY <1>1 DEF Carries, Busy, Calling
    <3>3. Carries(t, i, topic)'
      BY <2>2 DEF Carries, Calling
    <3>4. \A other \in Topic : \A j \in ToSet(routes[other]) : j \in Id
      BY DEF TypeOK, ToSet
    <3>5. ASSUME NEW other \in Topic, NEW j \in ToSet(routes[other])
          PROVE  by_id'[j] = other \/ \E u \in Client : Carries(u, j, other)'
      <4>1. CASE by_id[j] = other /\ j = i
        BY <2>1, <3>3, <4>1
      <4>2. CASE by_id[j] = other /\ j # i
        BY <2>2, <3>4, <3>5, <4>2
      <4>3. CASE by_id[j] # other
        BY <3>1, <3>2, <3>5, <4>3 DEF RoutesSound
      <4>4. QED
        BY <4>1, <4>2, <4>3
    <3>6. \A other \in Topic :
             /\ IsInjective(routes[other])
             /\ \A j \in ToSet(routes[other]) : j < next_id
      BY DEF RoutesSound
    <3>7. routes' = routes /\ next_id' = next_id
      BY <1>1
    <3>8. QED
      BY <3>5, <3>6, <3>7 DEF RoutesSound
  <2>9. EmitsSound' /\ EmitReachesSubscribers'
    BY <1>1, <2>2, TableStep DEF Grows, TypeOK
  <2>10. QED
    BY <2>3, <2>5, <2>6, <2>7, <2>8, <2>9
<1>4. QED
  BY <1>2, <1>3

LEMMA UnsubscribeRouteStep ==
    ASSUME IInv, NEW t \in Client, UnsubscribeRoute(t)
    PROVE  IInv'
<1> USE DEF IInv, Tables
<1>0. PICK i, topic : i = client[t].id /\ topic = client[t].topic
  OBVIOUS
<1>1. /\ i \in Id /\ i < next_id /\ topic \in Topic /\ i \in left \ removed
      /\ by_id[i] = NoTopic /\ Routed(i, topic)
      /\ client'[t] = Idle /\ OthersStay(t) /\ Calling(t, "unroute")
      /\ routes' = [routes EXCEPT ![topic] = RemoveFirst(@, i)]
      /\ removed' = removed \cup {i}
      /\ UNCHANGED <<next_id, by_id, emit, known, left>>
  BY <1>0 DEF UnsubscribeRoute, ClientsSound, ClientSound, Busy, Calling, TypeOK, OthersStay,
              Routed
<1>2. /\ routes'[topic] \in Seq(Id)
      /\ ToSet(routes'[topic]) = ToSet(routes[topic]) \ {i}
      /\ IsInjective(routes'[topic])
      /\ \A other \in Topic \ {topic} : routes'[other] = routes[other]
  BY <1>1, RemoveOnce DEF RoutesSound, TypeOK
<1>3. TypeOK'
  <2>1. routes' \in [Topic -> Seq(Id)]
    BY <1>1, <1>2 DEF TypeOK
  <2>2. client' \in [Client -> [pc : {"idle", "route", "index", "unroute"},
                                id : Nat, topic : Topic \cup {NoTopic}]]
    BY DEF UnsubscribeRoute, TypeOK, Idle
  <2>3. QED
    BY <1>1, <2>1, <2>2 DEF TypeOK
<1>4. \A u \in Client \ {t} : Busy(u) => client[u].id # i
  BY <1>0, <1>1 DEF ClientsApart, Busy, Calling
<1>5. ~Busy(t)'
  BY <1>1 DEF Busy, Calling, Idle
<1>6. ClientsApart'
  BY <1>1, <1>5 DEF ClientsApart, Busy, Calling, OthersStay
<1>7. ClientsSound'
  <2>1. next_id \in Nat /\ next_id' \in Nat /\ next_id <= next_id' /\ Id \subseteq Nat
    BY <1>1 DEF TypeOK, Id
  <2>2. \A u \in Client \ {t} : Busy(u) => Untouched(client[u].id)
    BY <1>1, <1>2, <1>4 DEF Untouched
  <2>3. \A u \in Client \ {t} : ClientSound(u)'
    BY <1>1, <2>1, <2>2, OtherClient DEF ClientsSound, OthersStay
  <2>4. ClientSound(t)'
    BY <1>5 DEF ClientSound, Busy, Calling
  <2>5. QED
    BY <2>3, <2>4 DEF ClientsSound
<1>8. EntriesSound'
  BY <1>1, <1>2 DEF EntriesSound, Routed
<1>9. RoutesSound'
  <2>1. \A u \in Client \ {t} : \A j, other : Carries(u, j, other) => Carries(u, j, other)'
    BY <1>1 DEF Carries, OthersStay, Calling
  <2>2. \A j, other : Carries(t, j, other) => j = i /\ other = topic
    BY <1>0 DEF Carries
  <2>3. ASSUME NEW other \in Topic, NEW j \in ToSet(routes'[other])
        PROVE  j < next_id /\ (by_id[j] = other \/ \E u \in Client : Carries(u, j, other)')
    <3>1. j \in ToSet(routes[other]) /\ (other = topic => j # i)
      BY <1>2, <2>3
    <3>2. QED
      BY <2>1, <2>2, <3>1 DEF RoutesSound
  <2>4. \A other \in Topic : IsInjective(routes'[other])
    BY <1>2 DEF RoutesSound
  <2>5. QED
    BY <1>1, <2>3, <2>4 DEF RoutesSound
<1>10. EmitsSound' /\ EmitReachesSubscribers'
  BY <1>1, TableStep DEF Grows
<1>11. QED
  BY <1>3, <1>6, <1>7, <1>8, <1>9, <1>10

-----------------------------------------------------------------------------
(* emit() *)

EmitState == [pc : {"idle", "copy", "call"}, topic : Topic \cup {NoTopic},
              pending : Seq(Id), called : Seq(Id), due : SUBSET Id, gone : SUBSET Id]

LEMMA EmitTyped ==
    ASSUME TypeOK, UNCHANGED tables, NEW e \in Emitter, NEW to \in EmitState,
           emit' = [emit EXCEPT ![e] = to]
    PROVE  /\ TypeOK'
           /\ emit'[e] = to /\ \A f \in Emitter \ {e} : emit'[f] = emit[f]
BY DEF TypeOK, EmitState, tables

LEMMA EmitCalledStep ==
    ASSUME IInv, NEW e \in Emitter, NEW topic \in Topic, EmitCalled(e, topic)
    PROVE  IInv'
<1> DEFINE due == {i \in known \ left : by_id[i] = topic}
<1>1. /\ emit' = [emit EXCEPT ![e] = [pc |-> "copy", topic |-> topic, pending |-> <<>>,
                                      called |-> <<>>, due |-> due, gone |-> removed]]
      /\ UNCHANGED tables
  BY DEF EmitCalled, tables, answers
<1>2. TypeOK'
  <2>1. due \in SUBSET Id /\ removed \in SUBSET Id /\ <<>> \in Seq(Id)
    BY DEF IInv, TypeOK
  <2> HIDE DEF due
  <2>2. [pc |-> "copy", topic |-> topic, pending |-> <<>>, called |-> <<>>,
         due |-> due, gone |-> removed] \in EmitState
    BY <2>1 DEF EmitState
  <2>3. QED
    BY <1>1, <2>2, EmitTyped DEF IInv
<1>3. EmitsSound'
  BY <1>1 DEF IInv, EmitsSound, TypeOK, tables
<1>4. EmitReachesSubscribers'
  BY <1>1 DEF IInv, EmitReachesSubscribers, TypeOK, tables
<1>5. QED
  BY <1>1, <1>2, <1>3, <1>4, EmitStep DEF IInv

(* What is copied is what is registered, each registration once.             *)
LEMMA EmitCopiesStep ==
    ASSUME IInv, NEW e \in Emitter, EmitCopies(e)
    PROVE  IInv'
<1>1. PICK topic \in Topic : topic = emit[e].topic
  BY DEF IInv, EmitCopies, EmitsSound
<1>2. /\ emit[e].pc = "copy"
      /\ emit' = [emit EXCEPT ![e].pc = "call", ![e].pending = routes[topic]]
      /\ UNCHANGED tables
  BY <1>1 DEF EmitCopies, tables, answers
<1>3. /\ routes[topic] \in Seq(Id) /\ IsInjective(routes[topic])
      /\ emit[e].called \in Seq(Id)
  BY DEF IInv, TypeOK, Tables, RoutesSound
<1>4. TypeOK'
  <2>1. emit[e] \in EmitState
    BY DEF IInv, TypeOK, EmitState
  <2>2. [emit[e] EXCEPT !.pc = "call", !.pending = routes[topic]] \in EmitState
    BY <1>3, <2>1 DEF EmitState
  <2>3. emit' = [emit EXCEPT ![e] = [emit[e] EXCEPT !.pc = "call", !.pending = routes[topic]]]
    BY <1>2
  <2>4. QED
    BY <1>2, <2>2, <2>3, EmitTyped DEF IInv
<1>5. EmitsSound'
  BY <1>2 DEF IInv, EmitsSound, TypeOK, tables
<1>6. emit[e].due \ left \subseteq ToSet(routes[topic])
  BY <1>1, <1>2, DispatcherAssumption
     DEF IInv, EmitsSound, TypeOK, Tables, EntriesSound, Routed
<1>7. removed \cap ToSet(routes[topic]) = {}
  <2>1. ASSUME NEW i \in removed, i \in ToSet(routes[topic]) PROVE FALSE
    <3>1. by_id[i] = topic \/ \E t \in Client : Carries(t, i, topic)
      BY <2>1 DEF IInv, Tables, RoutesSound
    <3>2. i \in known /\ i \in left /\ i \in Id
      BY DEF IInv, TypeOK
    <3>3. by_id[i] = NoTopic
      BY <3>2 DEF IInv, Tables, EntriesSound
    <3>4. \A t \in Client : ~Carries(t, i, topic)
      BY <3>2 DEF IInv, Tables, ClientsSound, ClientSound, Carries
    <3>5. QED
      BY <3>1, <3>3, <3>4, DispatcherAssumption
  <2>2. QED
    BY <2>1
<1>8. ASSUME emit[e].called = <<>>
      PROVE  EmitReachesSubscribers'
  <2>1. <<>> \o routes[topic] = routes[topic]
    BY <1>3
  <2>2. emit[e].gone \subseteq removed
    BY DEF IInv, EmitsSound
  <2>3. /\ emit'[e].called = <<>> /\ emit'[e].pending = routes[topic]
        /\ emit'[e].due = emit[e].due /\ emit'[e].gone = emit[e].gone
        /\ \A f \in Emitter \ {e} : emit'[f] = emit[f]
        /\ left' = left
    BY <1>2, <1>8 DEF IInv, TypeOK, tables
  <2>4. /\ IsInjective(emit'[e].called \o emit'[e].pending)
        /\ emit'[e].due \ left' \subseteq ToSet(emit'[e].called \o emit'[e].pending)
        /\ emit'[e].gone \cap ToSet(emit'[e].called \o emit'[e].pending) = {}
    BY <1>3, <1>6, <1>7, <2>1, <2>2, <2>3
  <2>5. QED
    BY <2>3, <2>4 DEF IInv, EmitReachesSubscribers
<1>9. QED
  BY <1>2, <1>4, <1>5, <1>8, EmitStep DEF IInv, EmitsSound

LEMMA EmitCallsStep ==
    ASSUME IInv, NEW e \in Emitter, EmitCalls(e)
    PROVE  IInv'
<1>1. /\ emit[e].pc = "call" /\ emit[e].pending # <<>>
      /\ emit[e].pending \in Seq(Id) /\ emit[e].called \in Seq(Id)
      /\ emit' = [emit EXCEPT ![e].pending = Tail(emit[e].pending),
                              ![e].called = Append(emit[e].called, Head(emit[e].pending))]
      /\ UNCHANGED tables
  BY DEF IInv, TypeOK, EmitCalls, tables, answers
<1>2. /\ Tail(emit[e].pending) \in Seq(Id)
      /\ Append(emit[e].called, Head(emit[e].pending)) \in Seq(Id)
      /\ Append(emit[e].called, Head(emit[e].pending)) \o Tail(emit[e].pending)
            = emit[e].called \o emit[e].pending
  BY <1>1, MoveHead
<1>3. TypeOK'
  <2> DEFINE to == [emit[e] EXCEPT !.pending = Tail(emit[e].pending),
                                   !.called = Append(emit[e].called, Head(emit[e].pending))]
  <2>1. emit[e] \in EmitState
    BY DEF IInv, TypeOK, EmitState
  <2>2. to \in EmitState
    BY <1>2, <2>1 DEF EmitState
  <2>3. emit' = [emit EXCEPT ![e] = to]
    BY <1>1
  <2>4. QED
    BY <1>1, <2>2, <2>3, EmitTyped DEF IInv
<1>4. EmitsSound'
  BY <1>1 DEF IInv, EmitsSound, TypeOK, tables
<1>5. EmitReachesSubscribers'
  <2>1. /\ emit'[e].called \o emit'[e].pending = emit[e].called \o emit[e].pending
        /\ emit'[e].pc = emit[e].pc
        /\ emit'[e].due = emit[e].due /\ emit'[e].gone = emit[e].gone
        /\ \A f \in Emitter \ {e} : emit'[f] = emit[f]
        /\ left' = left
    BY <1>1, <1>2 DEF IInv, TypeOK, tables
  <2>2. QED
    BY <2>1 DEF IInv, EmitReachesSubscribers
<1>6. QED
  BY <1>1, <1>3, <1>4, <1>5, EmitStep DEF IInv

LEMMA EmitReturnsStep ==
    ASSUME IInv, NEW e \in Emitter, EmitReturns(e)
    PROVE  IInv'
<1>1. emit' = [emit EXCEPT ![e] = Silent] /\ UNCHANGED tables
  BY DEF EmitReturns, tables, answers
<1>2. TypeOK'
  BY <1>1 DEF IInv, TypeOK, tables, Silent
<1>3. EmitsSound' /\ EmitReachesSubscribers'
  BY <1>1 DEF IInv, EmitsSound, EmitReachesSubscribers, TypeOK, tables, Silent
<1>4. QED
  BY <1>1, <1>2, <1>3, EmitStep DEF IInv

-----------------------------------------------------------------------------
LEMMA InitIInv == Init => IInv
<1> SUFFICES ASSUME Init PROVE IInv
  OBVIOUS
<1>1. TypeOK
  BY DispatcherAssumption DEF Init, TypeOK, Id, Idle, Silent
<1>2. ClientsApart /\ ClientsSound
  BY DEF Init, ClientsApart, ClientsSound, ClientSound, Busy, Calling, Idle
<1>3. EntriesSound /\ RoutesSound
  BY DEF Init, EntriesSound, RoutesSound, ToSet, IsInjective
<1>4. EmitsSound /\ EmitReachesSubscribers
  BY DEF Init, EmitsSound, EmitReachesSubscribers, Silent
<1>5. QED
  BY <1>1, <1>2, <1>3, <1>4 DEF IInv, Tables

LEMMA NextIInv == IInv /\ [Next]_vars => IInv'
<1> SUFFICES ASSUME IInv, [Next]_vars PROVE IInv'
  OBVIOUS
<1>1. ASSUME NEW t \in Client, NEW topic \in Topic, SubscribeId(t, topic) PROVE IInv'
  BY <1>1, SubscribeIdStep
<1>2. ASSUME NEW t \in Client, SubscribeRoute(t) \/ SubscribeIndex(t) \/ UnsubscribeRoute(t)
      PROVE  IInv'
  BY <1>2, SubscribeRouteStep, SubscribeIndexStep, UnsubscribeRouteStep
<1>3. ASSUME NEW t \in Client, NEW i \in Id, UnsubscribeIndex(t, i) PROVE IInv'
  BY <1>3, UnsubscribeIndexStep
<1>4. ASSUME NEW e \in Emitter, NEW topic \in Topic, EmitCalled(e, topic) PROVE IInv'
  BY <1>4, EmitCalledStep
<1>5. ASSUME NEW e \in Emitter, EmitCopies(e) \/ EmitCalls(e) \/ EmitReturns(e) PROVE IInv'
  BY <1>5, EmitCopiesStep, EmitCallsStep, EmitReturnsStep
<1>6. ASSUME UNCHANGED vars PROVE IInv'
  <2>1. UNCHANGED tables /\ emit' = emit
    BY <1>6 DEF vars, tables
  <2>2. TypeOK' /\ EmitsSound' /\ EmitReachesSubscribers'
    BY <2>1 DEF IInv, TypeOK, EmitsSound, EmitReachesSubscribers, tables
  <2>3. QED
    BY <2>1, <2>2, EmitStep DEF IInv
<1>7. QED
  BY <1>1, <1>2, <1>3, <1>4, <1>5, <1>6 DEF Next

THEOREM Invariance == Spec => []IInv
<1>1. QED
  BY InitIInv, NextIInv, PTL DEF Spec

-----------------------------------------------------------------------------
(* TypeOK: every state stays within the shape the code gives it.             *)
THEOREM TypesCorrect == Spec => []TypeOK
<1>1. IInv => TypeOK
  BY DEF IInv
<1>2. QED
  BY <1>1, Invariance, PTL

(* EmitReachesSubscribers: emit() calls every handler at most once, calls    *)
(* all that were subscribed when it began and stayed, and none whose         *)
(* unsubscribe() had been answered true before.                              *)
THEOREM EmitReaches == Spec => []EmitReachesSubscribers
<1>1. IInv => EmitReachesSubscribers
  BY DEF IInv
<1>2. QED
  BY <1>1, Invariance, PTL

(* TablesAgree: an established subscription is in both tables, once, and a   *)
(* given up one in neither.                                                  *)
THEOREM TablesConsistent == Spec => []TablesAgree
<1>1. ASSUME IInv PROVE TablesAgree
  <2> USE <1>1 DEF IInv, Tables
  <2>1. ASSUME NEW i \in known, NEW topic \in Topic, ~Unrouting(i)
        PROVE  Occurs(i, topic) = IF by_id[i] = topic THEN 1 ELSE 0
    <3> DEFINE places == {k \in DOMAIN routes[topic] : routes[topic][k] = i}
    <3>1. i \in Id /\ \A t \in Client : ~Carries(t, i, topic)
      BY <2>1 DEF TypeOK, Carries, Unrouting, ClientsSound, ClientSound
    <3>2. CASE by_id[i] = topic
      <4>1. i \in ToSet(routes[topic])
        BY <3>1, <3>2, DispatcherAssumption DEF EntriesSound, Routed
      <4>2. PICK k \in DOMAIN routes[topic] : routes[topic][k] = i
        BY <4>1 DEF ToSet
      <4>3. places = {k}
        BY <4>2 DEF RoutesSound, IsInjective
      <4>4. QED
        BY <3>2, <4>3, FS_Singleton DEF Occurs
    <3>3. CASE by_id[i] # topic
      <4>1. i \notin ToSet(routes[topic])
        BY <3>1, <3>3 DEF RoutesSound
      <4>2. places = {}
        BY <4>1 DEF ToSet
      <4>3. QED
        BY <3>3, <4>2, FS_EmptySet DEF Occurs
    <3>4. QED
      BY <3>2, <3>3
  <2>2. \A i \in known \ left : by_id[i] # NoTopic
    BY DEF EntriesSound
  <2>3. \A i \in removed : by_id[i] = NoTopic
    BY DEF EntriesSound, TypeOK
  <2>4. QED
    BY <2>1, <2>2, <2>3 DEF TablesAgree
<1>2. QED
  BY <1>1, Invariance, PTL

(* OneUnsubscribeWins: whoever gives a subscription up that another call has *)
(* taken out of the index finds that call on its way to the routes, or done. *)
THEOREM OneWins == Spec => []OneUnsubscribeWins
<1> DEFINE Answered == \A i \in left : i \in removed \/ Unrouting(i)
<1>1. Init => Answered
  BY DEF Init
<1>2. ASSUME IInv, Answered, [Next]_vars PROVE Answered'
  <2>1. ASSUME NEW t \in Client, ~Calling(t, "unroute"),
               \A u \in Client \ {t} : client'[u] = client[u],
               UNCHANGED <<left, removed>>
        PROVE  Answered'
    BY <1>2, <2>1 DEF Unrouting, Calling
  <2>2. ASSUME NEW t \in Client, NEW topic \in Topic, SubscribeId(t, topic) PROVE Answered'
    BY <2>1, <2>2 DEF SubscribeId, Calling, IInv, TypeOK, answers
  <2>3. ASSUME NEW t \in Client, SubscribeRoute(t) \/ SubscribeIndex(t) PROVE Answered'
    BY <2>1, <2>3, <1>2 DEF SubscribeRoute, SubscribeIndex, Calling, IInv, TypeOK, answers
  <2>4. ASSUME NEW t \in Client, NEW i \in Id, UnsubscribeIndex(t, i) PROVE Answered'
    <3>1. \A j, u : u \in Client /\ Calling(u, "unroute") => client'[u] = client[u]
      BY <1>2, <2>4 DEF UnsubscribeIndex, IInv, TypeOK, Calling
    <3>2. \A j : Unrouting(j) => Unrouting(j)'
      BY <3>1 DEF Unrouting, Calling
    <3>3. CASE by_id[i] = NoTopic
      <4>1. i \in left
        BY <1>2, <2>4, <3>3 DEF UnsubscribeIndex, IInv, Tables, EntriesSound
      <4>2. QED
        BY <1>2, <2>4, <3>2, <4>1 DEF UnsubscribeIndex
    <3>4. CASE by_id[i] # NoTopic
      <4>1. Unrouting(i)'
        BY <1>2, <2>4, <3>4 DEF UnsubscribeIndex, Unrouting, Calling, IInv, TypeOK
      <4>2. QED
        BY <1>2, <2>4, <3>2, <4>1 DEF UnsubscribeIndex
    <3>5. QED
      BY <3>3, <3>4
  <2>5. ASSUME NEW t \in Client, UnsubscribeRoute(t) PROVE Answered'
    <3>1. PICK i : i = client[t].id
      OBVIOUS
    <3>2. /\ removed' = removed \cup {i} /\ left' = left
          /\ \A u \in Client \ {t} : client'[u] = client[u]
      BY <1>2, <2>5, <3>1
         DEF UnsubscribeRoute, IInv, TypeOK, Tables, ClientsSound, ClientSound, Routed, Calling
    <3>3. \A j : Unrouting(j) => j = i \/ Unrouting(j)'
      BY <3>1, <3>2 DEF Unrouting, Calling
    <3>4. QED
      BY <1>2, <3>2, <3>3
  <2>6. ASSUME UNCHANGED <<client, left, removed>> PROVE Answered'
    BY <1>2, <2>6 DEF Unrouting, Calling
  <2>7. ASSUME NEW e \in Emitter,
               (\E topic \in Topic : EmitCalled(e, topic)) \/ EmitCopies(e) \/ EmitCalls(e)
                  \/ EmitReturns(e)
        PROVE  Answered'
    BY <2>6, <2>7 DEF EmitCalled, EmitCopies, EmitCalls, EmitReturns, answers
  <2>8. QED
    BY <1>2, <2>2, <2>3, <2>4, <2>5, <2>6, <2>7 DEF Next, vars
<1>3. ASSUME IInv, Answered PROVE OneUnsubscribeWins
  BY <1>3 DEF OneUnsubscribeWins, Unrouting, IInv, Tables, ClientsApart, ClientsSound,
              ClientSound, Busy, Calling
<1> HIDE DEF Answered
<1>4. QED
  BY <1>1, <1>2, <1>3, Invariance, PTL DEF Spec

-----------------------------------------------------------------------------
(* The tables of KernelEvents *)

LEMMA OrdinalType == \A s \in KernelState : PhaseOrdinal[s] \in 0..4
BY DEF KernelState, PhaseOrdinal

LEMMA LegalTyped == \A from \in KernelState : \A to : Legal(from, to) => to \in KernelState
BY DEF KernelState, Legal, Successors

(* PhaseOrdinal never decreases along LEGAL_TRANSITIONS: no transition goes  *)
(* back to an earlier phase.                                                 *)
THEOREM PhasesAdvance ==
    \A from, to \in KernelState : Legal(from, to) => PhaseOrdinal[from] <= PhaseOrdinal[to]
BY DEF KernelState, Legal, Successors, PhaseOrdinal

(* is_terminal() and is_running() agree with the transition table and with   *)
(* the phases.                                                               *)
THEOREM PredicatesMatchTable ==
    \A s \in KernelState :
       /\ IsTerminal(s) <=> Successors[s] = {}
       /\ IsRunning(s) <=> PhaseOrdinal[s] = 3
       /\ ~IsTerminal(s) /\ s # "Created" => Legal(s, "Failed")
BY DEF KernelState, IsTerminal, IsRunning, Successors, PhaseOrdinal, Legal

(* KernelEvent::topic, whatever the consumer names its subsystems, workers   *)
(* and metrics: the events that end up under an "unknown" topic are exactly  *)
(* the health changes of names that are not in the list - a worker's own     *)
(* name, under which apply_criticality reports, among them - and the metrics *)
(* of other names than the kernel's.                                         *)
THEOREM UnknownTopics ==
    ASSUME NEW subsystems, NEW metrics, NEW event \in KernelEvent(subsystems, metrics)
    PROVE  TopicOf(event)[2] = "unknown" <=>
              \/ event.type = "SubsystemChanged" /\ event.of \notin HealthSuffix
              \/ event.type = "Metric" /\ event.of \notin KernelMetric
<1>1. CASE event \in LifecycleEvent
  <2>1. CASE event.type = "Transition"
    <3>1. event.of \in KernelState
      BY <1>1, <2>1 DEF LifecycleEvent
    <3>2. \A s \in KernelState : AsStr[s] \in LifecycleSuffix
      BY DEF KernelState, AsStr, LifecycleSuffix
    <3>3. \A suffix \in LifecycleSuffix : suffix # "unknown"
      BY DEF LifecycleSuffix
    <3>4. QED
      BY <2>1, <3>1, <3>2, <3>3 DEF TopicOf, LifecycleTopic, Listed
  <2>2. CASE event.type \in {"ShutdownStarted", "ShutdownCompleted"}
    BY <2>2 DEF TopicOf
  <2>3. QED
    BY <1>1, <2>1, <2>2 DEF LifecycleEvent
<1>2. CASE event \in WorkerEvent
  BY <1>2 DEF WorkerEvent, TopicOf, WorkerTopic, Listed, WorkerKind, WorkerSuffix
<1>3. CASE event \in ErrorEvent
  BY <1>3 DEF ErrorEvent, TopicOf, ErrorTopic, Listed, Severity, ErrorSuffix
<1>4. CASE event \in HealthEvent(subsystems)
  <2>1. CASE event.type = "AggregateChanged"
    BY <2>1 DEF TopicOf, HealthTopic, Listed, HealthSuffix
  <2>2. CASE event.type = "SubsystemChanged"
    <3>1. TopicOf(event) = HealthTopic(event.of)
      BY <2>2 DEF TopicOf
    <3>2. \A suffix \in HealthSuffix : suffix # "unknown"
      BY DEF HealthSuffix
    <3>3. QED
      BY <2>2, <3>1, <3>2 DEF HealthTopic, Listed
  <2>3. QED
    BY <1>4, <2>1, <2>2 DEF HealthEvent
<1>5. CASE event \in MetricEvent(metrics)
  <2>1. event.type = "Metric" /\ TopicOf(event) = MetricTopic(event.of)
    BY <1>5 DEF MetricEvent, TopicOf
  <2>2. MetricSuffix = KernelMetric /\ \A name \in MetricSuffix : name # "unknown"
    BY DEF MetricSuffix, KernelMetric
  <2>3. QED
    BY <2>1, <2>2 DEF MetricTopic, Listed
<1>6. CASE event \in CustomEvent
  BY <1>6 DEF CustomEvent, TopicOf
<1>7. QED
  BY <1>1, <1>2, <1>3, <1>4, <1>5, <1>6 DEF KernelEvent

-----------------------------------------------------------------------------
(* The controller's steps are steps of the dispatcher.                       *)

LEMMA ControllerInitDispatches == ControllerInit => Init
BY DEF ControllerInit

LEMMA ControllerDispatches == [ControllerNext]_allVars => [Next]_vars
BY DEF ControllerNext, allVars, Subscriptions, Next, Transition, Announce, AnnounceToNobody,
       Announced, SetGauge, Count, Unmeasured, Publish, PublishReturns

LEMMA DispatcherInvariance == ControllerSpec => []IInv
<1>1. QED
  BY ControllerInitDispatches, ControllerDispatches, InitIInv, NextIInv, PTL
     DEF ControllerSpec

(* No step of the dispatcher loses a registration that was not given up.     *)
LEMMA NextGrows == ASSUME IInv, [Next]_vars PROVE Grows
<1> USE DEF Grows
<1>1. ASSUME NEW t \in Client, SubscribeIndex(t) PROVE Grows
  BY <1>1 DEF SubscribeIndex, IInv, Tables, ClientsSound, ClientSound, Calling, TypeOK
<1>2. ASSUME NEW t \in Client, NEW i \in Id, UnsubscribeIndex(t, i) PROVE Grows
  BY <1>2 DEF UnsubscribeIndex, IInv, TypeOK
<1>3. ASSUME NEW t \in Client, UnsubscribeRoute(t) PROVE Grows
  BY <1>3 DEF UnsubscribeRoute
<1>4. ASSUME NEW t \in Client,
             (\E topic \in Topic : SubscribeId(t, topic)) \/ SubscribeRoute(t)
      PROVE  Grows
  BY <1>4 DEF SubscribeId, SubscribeRoute, answers
<1>5. ASSUME NEW e \in Emitter,
             (\E topic \in Topic : EmitCalled(e, topic)) \/ EmitCopies(e) \/ EmitCalls(e)
                \/ EmitReturns(e)
      PROVE  Grows
  BY <1>5 DEF EmitCalled, EmitCopies, EmitCalls, EmitReturns, answers
<1>6. ASSUME UNCHANGED vars PROVE Grows
  BY <1>6 DEF vars
<1>7. QED
  BY <1>1, <1>2, <1>3, <1>4, <1>5, <1>6 DEF Next

-----------------------------------------------------------------------------
(* What holds of the controller *)

Working(e) == ~In(e, "idle")

(* Calls stand for phases that were reached.  Unless the last transition was *)
(* made while another was being announced, every call at work is that one,   *)
(* and has set the gauge or is about to.                                     *)
GaugeSound ==
    /\ \A e \in Emitter : Working(e) => PhaseOrdinal[call[e].to] <= PhaseOrdinal[state]
    /\ "metrics" \in wired => gauge <= PhaseOrdinal[state]
    /\ "metrics" \in wired /\ ~raced =>
          /\ \A e \in Emitter : Working(e) => call[e].to = state
          /\ \/ gauge = PhaseOrdinal[state]
             \/ \E e \in Emitter : In(e, "emit") \/ In(e, "emitting") \/ In(e, "measure")

(* Where the audience of a transition is while its event is under way.       *)
AudienceSound ==
    \A e \in Emitter :
       /\ In(e, "emit") =>
             \A i \in call[e].audience \ left :
                i \in known /\ by_id[i] = LifecycleTopic(call[e].to)
       /\ In(e, "emitting") =>
             emit[e].pc # "idle" /\ call[e].audience \ left \subseteq emit[e].due
       /\ In(e, "measure") \/ In(e, "count") =>
             ("events" \in wired => call[e].audience \ left \subseteq call[e].heard)

CallState == [pc : {"idle", "emit", "emitting", "measure", "count"},
              to : KernelState, audience : SUBSET Id, heard : SUBSET Id]

ControllerShape ==
    /\ state \in KernelState /\ wired \in SUBSET {"events", "metrics"}
    /\ call \in [Emitter -> CallState]
    /\ gauge \in 0..4 /\ counter \in [KernelState -> Nat] /\ entered \in [KernelState -> Nat]
    /\ raced \in BOOLEAN

LInv == ControllerShape /\ GaugeSound /\ AudienceSound /\ CountersExact

OtherCallsStay(e) == \A f \in Emitter \ {e} : call'[f] = call[f]
Pending(s) == {e \in Emitter : ~In(e, "idle") /\ call[e].to = s}

LEMMA PendingFinite == \A s : IsFiniteSet(Pending(s)) /\ Cardinality(Pending(s)) \in Nat
BY LifecycleAssumption, FS_Subset, FS_CardinalityType DEF Pending

-----------------------------------------------------------------------------
LEMMA InitLInv == ControllerInit => LInv
<1> SUFFICES ASSUME ControllerInit PROVE LInv
  OBVIOUS
<1>1. ControllerShape
  <2>1. state \in KernelState /\ wired \in SUBSET {"events", "metrics"}
    BY LifecycleAssumption DEF ControllerInit
  <2>2. NoCall \in CallState
    BY DEF NoCall, CallState, KernelState
  <2>3. QED
    BY <2>1, <2>2, OrdinalType DEF ControllerInit, ControllerShape
<1>2. \A e \in Emitter : In(e, "idle")
  BY DEF ControllerInit, In, NoCall
<1>3. gauge <= PhaseOrdinal[state]
  BY <1>1, OrdinalType DEF ControllerInit, ControllerShape
<1>4. GaugeSound /\ AudienceSound
  BY <1>2, <1>3 DEF GaugeSound, AudienceSound, Working, ControllerInit, In
<1>5. CountersExact
  <2>1. \A s : {e \in Emitter : ~In(e, "idle") /\ call[e].to = s} = {}
    BY <1>2
  <2>2. QED
    BY <2>1, FS_EmptySet DEF ControllerInit, CountersExact
<1>6. QED
  BY <1>1, <1>4, <1>5 DEF LInv

(* The tables move under the calls.                                          *)
LEMMA AudienceStays ==
    ASSUME AudienceSound, Grows, UNCHANGED <<call, wired>>,
           \A e \in Emitter : emit[e].pc # "idle" /\ In(e, "emitting") =>
              emit'[e].pc # "idle" /\ emit'[e].due = emit[e].due
    PROVE  AudienceSound'
BY DEF AudienceSound, Grows, In

LEMMA QuietStep ==
    ASSUME LInv, Grows, UNCHANGED controller,
           \A e \in Emitter : emit[e].pc # "idle" /\ In(e, "emitting") =>
              emit'[e].pc # "idle" /\ emit'[e].due = emit[e].due
    PROVE  LInv'
<1>1. ControllerShape' /\ GaugeSound'
  BY DEF LInv, ControllerShape, GaugeSound, Working, In, controller
<1>2. CountersExact'
  BY DEF LInv, CountersExact, In, controller
<1>3. AudienceSound'
  BY AudienceStays DEF LInv, controller
<1>4. QED
  BY <1>1, <1>2, <1>3 DEF LInv

(* A call that goes on announcing owes what it owed.                         *)
LEMMA PendingSame ==
    ASSUME CountersExact, UNCHANGED <<counter, entered, wired>>,
           NEW e \in Emitter, OtherCallsStay(e),
           Working(e), Working(e)', call'[e].to = call[e].to
    PROVE  CountersExact'
<1>1. \A s : Pending(s)' = Pending(s)
  BY DEF Pending, Working, In, OtherCallsStay
<1>2. QED
  BY <1>1 DEF CountersExact, Pending

-----------------------------------------------------------------------------
LEMMA TransitionStep ==
    ASSUME LInv, IInv, NEW e \in Emitter, NEW to \in KernelState, Transition(e, to)
    PROVE  LInv'
<1> DEFINE made == [pc |-> IF "events" \in wired THEN "emit" ELSE "measure", to |-> to,
                    audience |-> {i \in known \ left : by_id[i] = LifecycleTopic(to)},
                    heard |-> {}]
<1>1. /\ In(e, "idle") /\ Legal(state, to) /\ state' = to /\ state \in KernelState
      /\ call' = [call EXCEPT ![e] = made]
      /\ raced' = ~AllReturned
      /\ entered' = [entered EXCEPT ![to] = @ + 1]
      /\ UNCHANGED <<known, left, by_id, emit, wired, gauge, counter>>
  BY DEF LInv, ControllerShape, Transition, vars
<1>2. /\ call'[e].to = to /\ call'[e].heard = {} /\ OtherCallsStay(e)
      /\ call'[e].pc \in {"emit", "measure"}
      /\ call'[e].pc = "measure" => "events" \notin wired
      /\ \A i \in call'[e].audience : i \in known /\ by_id[i] = LifecycleTopic(to)
  BY <1>1 DEF LInv, ControllerShape, OtherCallsStay
<1>3. ControllerShape'
  <2>1. made.audience \subseteq known
    OBVIOUS
  <2>2. made \in CallState
    BY <2>1 DEF CallState, IInv, TypeOK
  <2>3. call' \in [Emitter -> CallState]
    BY <1>1, <2>2 DEF LInv, ControllerShape
  <2>4. entered' \in [KernelState -> Nat] /\ raced' \in BOOLEAN
    BY <1>1 DEF LInv, ControllerShape, AllReturned
  <2>5. QED
    BY <1>1, <2>3, <2>4 DEF LInv, ControllerShape
<1>4. GaugeSound'
  <2>1. PhaseOrdinal[state] <= PhaseOrdinal[to]
        /\ PhaseOrdinal[state] \in Nat /\ PhaseOrdinal[to] \in Nat
    BY <1>1, PhasesAdvance, OrdinalType
  <2>2. ASSUME NEW f \in Emitter, Working(f)'
        PROVE  PhaseOrdinal[call'[f].to] <= PhaseOrdinal[state']
    <3>1. CASE f = e
      BY <1>1, <1>2, <2>1, <3>1
    <3>2. CASE f # e
      <4>1. call'[f] = call[f] /\ Working(f) /\ call[f].to \in KernelState
        BY <1>2, <2>2, <3>2 DEF OtherCallsStay, Working, In, LInv, ControllerShape, CallState
      <4>2. PhaseOrdinal[call[f].to] <= PhaseOrdinal[state]
            /\ PhaseOrdinal[call[f].to] \in Nat
        BY <4>1, OrdinalType DEF LInv, GaugeSound
      <4>3. QED
        BY <1>1, <2>1, <4>1, <4>2
    <3>3. QED
      BY <3>1, <3>2
  <2>3. "metrics" \in wired => gauge' <= PhaseOrdinal[state']
    BY <1>1, <2>1 DEF LInv, GaugeSound, ControllerShape
  <2>4. ASSUME ~raced'
        PROVE  /\ \A f \in Emitter : Working(f)' => call'[f].to = state'
               /\ In(e, "emit")' \/ In(e, "measure")'
    <3>1. \A f \in Emitter : In(f, "idle")
      BY <1>1, <2>4 DEF AllReturned
    <3>2. QED
      BY <1>1, <1>2, <3>1 DEF Working, In, OtherCallsStay
  <2>5. QED
    BY <1>1, <2>2, <2>3, <2>4 DEF GaugeSound
<1>5. AudienceSound'
  BY <1>1, <1>2 DEF LInv, AudienceSound, OtherCallsStay, In
<1>6. CountersExact'
  <2>1. \A s : s # to => Pending(s)' = Pending(s)
    BY <1>1, <1>2 DEF Pending, In, OtherCallsStay
  <2>2. Pending(to)' = Pending(to) \cup {e} /\ e \notin Pending(to)
    BY <1>1, <1>2 DEF Pending, In, OtherCallsStay
  <2>3. Cardinality(Pending(to)') = Cardinality(Pending(to)) + 1
    BY <2>2, PendingFinite, FS_AddElement
  <2>4. ASSUME NEW s \in KernelState, "metrics" \in wired
        PROVE  counter'[s] + Cardinality(Pending(s)') = entered'[s]
    <3>1. counter[s] + Cardinality(Pending(s)) = entered[s]
          /\ counter[s] \in Nat /\ entered[s] \in Nat /\ Cardinality(Pending(s)) \in Nat
      BY <2>4, PendingFinite DEF LInv, ControllerShape, CountersExact, Pending
    <3>2. CASE s = to
      BY <1>1, <2>3, <3>1, <3>2 DEF LInv, ControllerShape
    <3>3. CASE s # to
      BY <1>1, <2>1, <3>1, <3>3 DEF LInv, ControllerShape
    <3>4. QED
      BY <3>2, <3>3
  <2>5. QED
    BY <1>1, <2>4 DEF CountersExact, Pending
<1>7. QED
  BY <1>3, <1>4, <1>5, <1>6 DEF LInv

LEMMA AnnounceStep ==
    ASSUME LInv, IInv, NEW e \in Emitter, Announce(e) \/ AnnounceToNobody(e) \/ Announced(e)
    PROVE  LInv'
<1>1. /\ OtherCallsStay(e) /\ Working(e) /\ Working(e)' /\ call'[e].to = call[e].to
      /\ call'[e].pc \in {"emitting", "measure"}
      /\ UNCHANGED <<state, wired, gauge, counter, entered, raced, known, left, by_id>>
  BY DEF Announce, AnnounceToNobody, Announced, Goes, EmitCalled, EmitReturns, Working, In,
         OtherCallsStay, LInv, ControllerShape, CallState, vars, answers
<1>2. ControllerShape'
  <2>1. ASSUME NEW pc \in {"emitting", "measure"}, call' = [call EXCEPT ![e].pc = pc]
        PROVE  call' \in [Emitter -> CallState]
    BY <2>1 DEF LInv, ControllerShape, CallState
  <2>2. CASE Announced(e)
    <3>1. ToSet(emit[e].called) \in SUBSET Id
      BY DEF IInv, TypeOK, ToSet
    <3>2. call' \in [Emitter -> CallState]
      <4>1. PICK heard \in SUBSET Id : heard = ToSet(emit[e].called)
        BY <3>1
      <4>2. [call[e] EXCEPT !.pc = "measure", !.heard = heard] \in CallState
        BY DEF LInv, ControllerShape, CallState
      <4>3. call' = [call EXCEPT ![e] = [call[e] EXCEPT !.pc = "measure", !.heard = heard]]
        BY <2>2, <4>1 DEF Announced
      <4>4. QED
        BY <4>2, <4>3 DEF LInv, ControllerShape
    <3>3. QED
      BY <1>1, <3>2 DEF LInv, ControllerShape
  <2>3. CASE Announce(e) \/ AnnounceToNobody(e)
    <3>1. call' \in [Emitter -> CallState]
      BY <2>1, <2>3 DEF Announce, AnnounceToNobody, Goes
    <3>2. QED
      BY <1>1, <3>1 DEF LInv, ControllerShape
  <2>4. QED
    BY <2>2, <2>3
<1>3. GaugeSound'
  BY <1>1 DEF LInv, GaugeSound, Working, In, OtherCallsStay
<1>4. CountersExact'
  BY <1>1, PendingSame DEF LInv
<1>5. \A f \in Emitter \ {e} : emit'[f] = emit[f]
  BY DEF Announce, AnnounceToNobody, Announced, EmitCalled, EmitReturns, IInv, TypeOK, vars
<1>6. AudienceSound'
  <2>1. CASE Announce(e)
    <3>1. /\ In(e, "emit") /\ call'[e].pc = "emitting" /\ call'[e].audience = call[e].audience
          /\ emit'[e].pc = "copy"
          /\ emit'[e].due = {i \in known \ left : by_id[i] = LifecycleTopic(call[e].to)}
      BY <2>1 DEF Announce, Goes, EmitCalled, IInv, TypeOK, LInv, ControllerShape, CallState
    <3>2. call'[e].audience \ left \subseteq emit'[e].due
      BY <3>1 DEF LInv, AudienceSound
    <3>3. QED
      BY <1>1, <1>5, <3>1, <3>2 DEF LInv, AudienceSound, In, OtherCallsStay
  <2>2. CASE AnnounceToNobody(e)
    <3>1. /\ In(e, "emit") /\ call'[e].pc = "measure" /\ call'[e].audience = call[e].audience
          /\ LifecycleTopic(call[e].to) \notin Topic
      BY <2>2 DEF AnnounceToNobody, Goes, LInv, ControllerShape, CallState
    <3>2. \A i \in known \ left : by_id[i] \in Topic
      BY DEF IInv, Tables, EntriesSound, TypeOK
    <3>3. call'[e].audience \ left = {}
      BY <3>1, <3>2 DEF LInv, AudienceSound
    <3>4. QED
      BY <1>1, <1>5, <3>1, <3>3 DEF LInv, AudienceSound, In, OtherCallsStay
  <2>3. CASE Announced(e)
    <3>1. /\ In(e, "emitting") /\ call'[e].pc = "measure"
          /\ call'[e].audience = call[e].audience /\ call'[e].heard = ToSet(emit[e].called)
          /\ emit[e].pc = "call" /\ emit[e].pending = <<>> /\ emit[e].called \in Seq(Id)
      BY <2>3 DEF Announced, EmitReturns, IInv, TypeOK, LInv, ControllerShape, CallState
    <3>2. emit[e].called \o emit[e].pending = emit[e].called
      BY <3>1
    <3>3. emit[e].due \ left \subseteq ToSet(emit[e].called)
      BY <3>1, <3>2 DEF IInv, EmitReachesSubscribers
    <3>4. call'[e].audience \ left \subseteq call'[e].heard
      BY <3>1, <3>3 DEF LInv, AudienceSound
    <3>5. QED
      BY <1>1, <1>5, <3>1, <3>4 DEF LInv, AudienceSound, In, OtherCallsStay
  <2>4. QED
    BY <2>1, <2>2, <2>3
<1>7. QED
  BY <1>2, <1>3, <1>4, <1>6 DEF LInv

LEMMA MeasureStep ==
    ASSUME LInv, NEW e \in Emitter, SetGauge(e) \/ Count(e) \/ Unmeasured(e)
    PROVE  LInv'
<1>1. PICK to \in KernelState : to = call[e].to
  BY DEF LInv, ControllerShape, CallState
<1>2. PICK pc \in {"count", "idle"} : call' = [call EXCEPT ![e].pc = pc]
  BY DEF SetGauge, Count, Unmeasured, Goes
<1>3. /\ Working(e) /\ OtherCallsStay(e) /\ call'[e].pc = pc /\ call'[e].to = to
      /\ call'[e].audience = call[e].audience /\ call'[e].heard = call[e].heard
      /\ In(e, "measure") \/ In(e, "count")
      /\ UNCHANGED <<state, wired, entered, raced, known, left, by_id, emit>>
  BY <1>1, <1>2 DEF SetGauge, Count, Unmeasured, Working, In, OtherCallsStay, vars, LInv,
                    ControllerShape, CallState
<1>4. ControllerShape'
  <2>1. call' \in [Emitter -> CallState]
    BY <1>2 DEF LInv, ControllerShape, CallState
  <2>2. gauge' \in 0..4
    BY <1>1, OrdinalType DEF SetGauge, Count, Unmeasured, LInv, ControllerShape
  <2>3. counter' \in [KernelState -> Nat]
    BY <1>1 DEF SetGauge, Count, Unmeasured, LInv, ControllerShape
  <2>4. QED
    BY <1>3, <2>1, <2>2, <2>3 DEF LInv, ControllerShape
<1>5. AudienceSound'
  BY <1>3 DEF LInv, AudienceSound, In, OtherCallsStay
<1>6. CASE SetGauge(e)
  <2>1. /\ pc = "count" /\ gauge' = PhaseOrdinal[to] /\ In(e, "measure")
        /\ UNCHANGED counter
    BY <1>1, <1>2, <1>3, <1>6 DEF SetGauge, Goes, LInv, ControllerShape, CallState
  <2>2. CountersExact'
    BY <1>1, <1>3, <2>1, PendingSame DEF LInv, Working, In
  <2>3. GaugeSound'
    <3>1. \A f \in Emitter : Working(f)' => Working(f) /\ call'[f].to = call[f].to
      BY <1>1, <1>3 DEF Working, In, OtherCallsStay
    <3>2. PhaseOrdinal[to] <= PhaseOrdinal[state]
      BY <1>1, <1>3 DEF LInv, GaugeSound
    <3>3. "metrics" \in wired /\ ~raced => to = state
      BY <1>1, <1>3 DEF LInv, GaugeSound
    <3>4. QED
      BY <1>3, <2>1, <3>1, <3>2, <3>3 DEF LInv, GaugeSound
  <2>4. QED
    BY <1>4, <1>5, <2>2, <2>3 DEF LInv
<1>7. CASE Count(e)
  <2>1. /\ pc = "idle" /\ counter' = [counter EXCEPT ![to] = @ + 1] /\ In(e, "count")
        /\ UNCHANGED gauge
    BY <1>1, <1>2, <1>3, <1>7 DEF Count, Goes, LInv, ControllerShape, CallState, In
  <2>2. GaugeSound'
    <3>1. \A f \in Emitter : Working(f)' => Working(f) /\ call'[f].to = call[f].to
      BY <1>1, <1>3 DEF Working, In, OtherCallsStay
    <3>2. \A f \in Emitter : In(f, "emit") \/ In(f, "emitting") \/ In(f, "measure") =>
             In(f, "emit")' \/ In(f, "emitting")' \/ In(f, "measure")'
      BY <1>3, <2>1 DEF In, OtherCallsStay
    <3>3. QED
      BY <1>3, <2>1, <3>1, <3>2 DEF LInv, GaugeSound
  <2>3. CountersExact'
    <3>1. \A s : s # to => Pending(s)' = Pending(s)
      BY <1>1, <1>3 DEF Pending, In, OtherCallsStay
    <3>2. Pending(to)' = Pending(to) \ {e} /\ e \in Pending(to)
      BY <1>1, <1>3, <2>1 DEF Pending, In, OtherCallsStay, Working
    <3>3. Cardinality(Pending(to)') = Cardinality(Pending(to)) - 1
      BY <3>2, PendingFinite, FS_RemoveElement
    <3>4. ASSUME NEW s \in KernelState, "metrics" \in wired
          PROVE  counter'[s] + Cardinality(Pending(s)') = entered[s]
      <4>1. counter[s] + Cardinality(Pending(s)) = entered[s]
            /\ counter[s] \in Nat /\ entered[s] \in Nat /\ Cardinality(Pending(s)) \in Nat
        BY <3>4, PendingFinite DEF LInv, ControllerShape, CountersExact, Pending
      <4>2. CASE s = to
        BY <2>1, <3>3, <4>1, <4>2 DEF LInv, ControllerShape
      <4>3. CASE s # to
        BY <2>1, <3>1, <4>1, <4>3 DEF LInv, ControllerShape
      <4>4. QED
        BY <4>2, <4>3
    <3>5. QED
      BY <1>3, <3>4 DEF CountersExact, Pending
  <2>4. QED
    BY <1>4, <1>5, <2>2, <2>3 DEF LInv
<1>8. CASE Unmeasured(e)
  <2>1. /\ "metrics" \notin wired /\ pc = "idle" /\ UNCHANGED <<gauge, counter>>
    BY <1>2, <1>3, <1>8 DEF Unmeasured, Goes, LInv, ControllerShape, CallState
  <2>2. GaugeSound'
    BY <1>1, <1>3, <2>1 DEF LInv, GaugeSound, Working, In, OtherCallsStay
  <2>3. CountersExact'
    BY <1>3, <2>1 DEF CountersExact
  <2>4. QED
    BY <1>4, <1>5, <2>2, <2>3 DEF LInv
<1>9. QED
  BY <1>6, <1>7, <1>8

-----------------------------------------------------------------------------
LEMMA NextLInv == IInv /\ LInv /\ [ControllerNext]_allVars => LInv'
<1> SUFFICES ASSUME IInv, LInv, [ControllerNext]_allVars PROVE LInv'
  OBVIOUS
<1>1. Grows
  BY ControllerDispatches, NextGrows
<1>2. ASSUME Subscriptions, UNCHANGED controller PROVE LInv'
  <2>1. emit' = emit
    BY <1>2 DEF Subscriptions, SubscribeId, SubscribeRoute, SubscribeIndex, UnsubscribeIndex,
                UnsubscribeRoute, answers
  <2>2. QED
    BY <1>1, <1>2, <2>1, QuietStep
<1>3. ASSUME NEW e \in Emitter,
             ((EmitCopies(e) \/ EmitCalls(e)) /\ UNCHANGED controller)
                \/ (\E event \in Published : Publish(e, event)) \/ PublishReturns(e)
      PROVE  LInv'
  <2>1. UNCHANGED controller
    BY <1>3 DEF Publish, PublishReturns
  <2>2. ASSUME NEW f \in Emitter, emit[f].pc # "idle", In(f, "emitting")
        PROVE  emit'[f].pc # "idle" /\ emit'[f].due = emit[f].due
    <3>1. CASE EmitCopies(e)
      BY <2>2, <3>1 DEF EmitCopies, IInv, TypeOK
    <3>2. CASE EmitCalls(e)
      BY <2>2, <3>2 DEF EmitCalls, IInv, TypeOK
    <3>3. CASE PublishReturns(e)
      BY <2>2, <3>3 DEF PublishReturns, EmitReturns, In
    <3>4. ASSUME NEW event \in Published, Publish(e, event)
          PROVE  emit'[f].pc # "idle" /\ emit'[f].due = emit[f].due
      <4>1. f # e /\ \E to : emit' = [emit EXCEPT ![e] = to]
        BY <2>2, <3>4 DEF Publish, EmitCalled, In
      <4>2. QED
        BY <2>2, <4>1
    <3>5. QED
      BY <1>3, <3>1, <3>2, <3>3, <3>4
  <2>3. QED
    BY <1>1, <2>1, <2>2, QuietStep
<1>4. ASSUME NEW e \in Emitter, NEW to \in KernelState, Transition(e, to) PROVE LInv'
  BY <1>4, TransitionStep
<1>5. ASSUME NEW e \in Emitter, Announce(e) \/ AnnounceToNobody(e) \/ Announced(e) PROVE LInv'
  BY <1>5, AnnounceStep
<1>6. ASSUME NEW e \in Emitter, SetGauge(e) \/ Count(e) \/ Unmeasured(e) PROVE LInv'
  BY <1>6, MeasureStep
<1>7. ASSUME UNCHANGED allVars PROVE LInv'
  BY <1>1, <1>7, QuietStep DEF allVars, vars
<1>8. QED
  BY <1>2, <1>3, <1>4, <1>5, <1>6, <1>7 DEF ControllerNext

THEOREM ControllerInvariance == ControllerSpec => []LInv
<1>1. QED
  BY InitLInv, NextLInv, DispatcherInvariance, PTL DEF ControllerSpec

(* ControllerTypeOK: the phase gauge is an ordinal, the state one of the     *)
(* eight, whatever handlers and threads do between the lock and the emit.    *)
THEOREM ControllerTypesCorrect == ControllerSpec => []ControllerTypeOK
<1>1. IInv /\ LInv => ControllerTypeOK
  BY DEF IInv, LInv, ControllerShape, ControllerTypeOK, CallState
<1>2. QED
  BY <1>1, ControllerInvariance, DispatcherInvariance, PTL

(* CountersExact: kernel.lifecycle.transitions counts every transition once, *)
(* under the state it entered.                                               *)
THEOREM CountersAreExact == ControllerSpec => []CountersExact
<1>1. LInv => CountersExact
  BY DEF LInv
<1>2. QED
  BY <1>1, ControllerInvariance, PTL

(* GaugeTruthful: kernel.lifecycle.phase is never ahead of the state, and    *)
(* exact at rest unless two transitions overlapped.                          *)
THEOREM GaugeIsTruthful == ControllerSpec => []GaugeTruthful
<1>1. LInv => GaugeTruthful
  BY DEF LInv, GaugeSound, GaugeTruthful, AllReturned, Working, In
<1>2. QED
  BY <1>1, ControllerInvariance, PTL

(* EntryIsHeard: the subscribers that a state's topic had when the state was *)
(* entered, and that stayed, are called before transition() returns.         *)
THEOREM EntriesHeard == ControllerSpec => []EntryIsHeard
<1>1. LInv => EntryIsHeard
  BY DEF LInv, AudienceSound, EntryIsHeard
<1>2. QED
  BY <1>1, ControllerInvariance, PTL

(* The dispatcher's properties hold of the composition: the controller's     *)
(* own emits, and those of the handlers, are calls like any other.           *)
THEOREM DispatcherUnderController ==
    ControllerSpec => [](TablesAgree /\ EmitReachesSubscribers)
<1>1. ControllerSpec => Spec
  BY ControllerInitDispatches, ControllerDispatches, PTL DEF ControllerSpec, Spec
<1>2. QED
  BY <1>1, TablesConsistent, EmitReaches, PTL
=============================================================================
