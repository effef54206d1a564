----------------------------- MODULE DrainProofs -----------------------------
(***************************************************************************)
(* Proofs about Coordinator and Drain, for any number of callers, hooks    *)
(* and tasks and any grace periods.  One call of shutdown() runs, all the  *)
(* others rest: what that one has taken, started and reported is related   *)
(* to the list of hooks and to the hooks that are yet to be registered.    *)
(***************************************************************************)
EXTENDS Drain, TLAPS, FiniteSetTheorems, SequenceTheorems

Resting(c) ==
    /\ call[c].pc \in {"idle", "returned", "unwound"}
    /\ call[c].taken = <<>> /\ call[c].done = 0
    /\ call[c].succeeded = <<>> /\ call[c].failed = <<>>

(* The report lists what the loop has gone through, and each hook once.      *)
Reported(c) ==
    /\ IsInjective(call[c].succeeded) /\ IsInjective(call[c].failed)
    /\ ToSet(call[c].succeeded) \cap ToSet(call[c].failed) = {}
    /\ ToSet(call[c].succeeded) \cup ToSet(call[c].failed)
          = {call[c].taken[i] : i \in 1..call[c].done}
    /\ ToSet(call[c].succeeded) \subseteq ToSet(ran)

(* The hooks that were started are the first of those that were taken; with  *)
(* time left, they are all that the loop has gone through.                   *)
Started(c) ==
    /\ Len(ran) <= Len(call[c].taken)
    /\ \A i \in 1..Len(ran) : ran[i] = call[c].taken[i]
    /\ At(c, "loop") => Len(ran) <= call[c].done
    /\ At(c, "loop") /\ call[c].left > 0 => Len(ran) = call[c].done
    /\ At(c, "hook") => Len(ran) = call[c].done + 1
    /\ At(c, "finish") \/ At(c, "returned") => call[c].done = Len(call[c].taken)

Taken(c) ==
    /\ IsInjective(call[c].taken)
    /\ ToSet(call[c].taken) \cap (ToSet(hooks) \cup new) = {}
    /\ call[c].pc \in {"announce", "signal", "take"} =>
          call[c].taken = <<>> /\ ran = <<>> /\ Hook \ new \subseteq ToSet(hooks)
    /\ At(c, "take") => early \subseteq Hook \ new
    /\ call[c].pc \in {"loop", "hook", "finish", "returned"} => early \subseteq ToSet(call[c].taken)

Runs(c) ==
    /\ completed
    /\ call[c].pc \notin {"idle", "unwound"}
    /\ At(c, "announce") => events = <<>>
    /\ call[c].pc \in {"signal", "take", "loop", "hook", "finish"} => events = <<"ShutdownStarted">>
    /\ call[c].pc \in {"take", "loop", "hook", "finish"} => token
    /\ Taken(c) /\ Started(c) /\ Reported(c)

Shared ==
    /\ ~completed =>
          /\ \A c \in Caller : Resting(c)
          /\ ran = <<>> /\ events = <<>> /\ Hook \ new \subseteq ToSet(hooks)
    /\ IsInjective(hooks) /\ ToSet(hooks) \cap new = {}
    /\ IsInjective(ran) /\ ToSet(ran) \cap (ToSet(hooks) \cup new) = {}
    /\ ran # <<>> => token

OneRuns == \A c, d \in Caller : ~Resting(c) /\ ~Resting(d) => c = d

IInv == TypeOK /\ Shared /\ OneRuns /\ \A c \in Caller : Resting(c) \/ Runs(c)

-----------------------------------------------------------------------------
(* Sequences *)

LEMMA AppendOnce ==
    ASSUME NEW S, NEW s \in Seq(S), NEW x \in S
    PROVE  /\ Append(s, x) \in Seq(S)
           /\ Len(Append(s, x)) = Len(s) + 1
           /\ Append(s, x)[Len(s) + 1] = x
           /\ \A i \in 1..Len(s) : Append(s, x)[i] = s[i]
           /\ ToSet(Append(s, x)) = ToSet(s) \cup {x}
           /\ IsInjective(s) /\ x \notin ToSet(s) => IsInjective(Append(s, x))
<1>1. /\ Append(s, x) \in Seq(S) /\ Len(Append(s, x)) = Len(s) + 1
      /\ DOMAIN s = 1..Len(s) /\ Len(s) \in Nat
      /\ DOMAIN Append(s, x) = 1..(Len(s) + 1)
      /\ Append(s, x)[Len(s) + 1] = x
      /\ \A i \in 1..Len(s) : Append(s, x)[i] = s[i]
  OBVIOUS
<1>2. ToSet(Append(s, x)) = ToSet(s) \cup {x}
  BY <1>1 DEF ToSet
<1>3. ASSUME IsInjective(s), x \notin ToSet(s) PROVE IsInjective(Append(s, x))
  BY <1>1, <1>3 DEF IsInjective, ToSet
<1>4. QED
  BY <1>1, <1>2, <1>3

LEMMA EmptyOnce == ToSet(<<>>) = {} /\ IsInjective(<<>>) /\ Len(<<>>) = 0
BY DEF ToSet, IsInjective

LEMMA ConcatOnce ==
    ASSUME NEW S, NEW s \in Seq(S), NEW t \in Seq(S), IsInjective(s), IsInjective(t),
           ToSet(s) \cap ToSet(t) = {}
    PROVE  IsInjective(s \o t) /\ ToSet(s \o t) = ToSet(s) \cup ToSet(t)
<1> DEFINE u == s \o t
<1>1. /\ u \in Seq(S) /\ Len(u) = Len(s) + Len(t)
      /\ \A i \in 1..(Len(s) + Len(t)) : u[i] = IF i <= Len(s) THEN s[i] ELSE t[i - Len(s)]
  BY ConcatProperties
<1> HIDE DEF u
<1>2. /\ DOMAIN s = 1..Len(s) /\ DOMAIN t = 1..Len(t) /\ DOMAIN u = 1..(Len(s) + Len(t))
      /\ Len(s) \in Nat /\ Len(t) \in Nat
  BY <1>1
<1>3. \A i \in DOMAIN u :
         \/ i \in DOMAIN s /\ u[i] = s[i]
         \/ i - Len(s) \in DOMAIN t /\ u[i] = t[i - Len(s)] /\ i > Len(s)
  BY <1>1, <1>2
<1>4. \A i \in DOMAIN s : i \in DOMAIN u /\ u[i] = s[i]
  BY <1>1, <1>2
<1>5. \A i \in DOMAIN t : i + Len(s) \in DOMAIN u /\ u[i + Len(s)] = t[i]
  <2> TAKE i \in DOMAIN t
  <2>1. i + Len(s) \in 1..(Len(s) + Len(t)) /\ ~(i + Len(s) <= Len(s)) /\ (i + Len(s)) - Len(s) = i
    BY <1>2
  <2>2. QED
    BY <1>1, <1>2, <2>1
<1>6. ToSet(u) = ToSet(s) \cup ToSet(t)
  BY <1>3, <1>4, <1>5 DEF ToSet
<1>7. IsInjective(u)
  <2> SUFFICES ASSUME NEW i \in DOMAIN u, NEW j \in DOMAIN u, u[i] = u[j] PROVE i = j
    BY DEF IsInjective
  <2>1. i \in Int /\ j \in Int
    BY <1>2
  <2>2. \A k \in DOMAIN s, m \in DOMAIN t : s[k] # t[m]
    BY DEF ToSet
  <2>3. CASE i \in DOMAIN s /\ u[i] = s[i]
    BY <1>3, <2>2, <2>3 DEF IsInjective
  <2>4. CASE i - Len(s) \in DOMAIN t /\ u[i] = t[i - Len(s)] /\ i > Len(s)
    <3>1. j - Len(s) \in DOMAIN t /\ u[j] = t[j - Len(s)]
      BY <1>3, <2>2, <2>4
    <3>2. i - Len(s) = j - Len(s)
      BY <2>4, <3>1 DEF IsInjective
    <3>3. QED
      BY <1>2, <2>1, <3>2
  <2>5. QED
    BY <1>3, <2>3, <2>4
<1>8. QED
  BY <1>6, <1>7 DEF u

LEMMA PrefixOf ==
    ASSUME NEW S, NEW s \in Seq(S), NEW t \in Seq(S), Len(s) <= Len(t),
           \A i \in 1..Len(s) : s[i] = t[i]
    PROVE  IsPrefix(s, t)
<1>1. /\ SubSeq(s, 1, Len(s)) \in Seq(S) /\ Len(SubSeq(s, 1, Len(s))) = Len(s)
      /\ \A i \in 1..Len(s) : SubSeq(s, 1, Len(s))[i] = s[i]
  OBVIOUS
<1>2. /\ SubSeq(t, 1, Len(s)) \in Seq(S) /\ Len(SubSeq(t, 1, Len(s))) = Len(s)
      /\ \A i \in 1..Len(s) : SubSeq(t, 1, Len(s))[i] = t[i]
  OBVIOUS
<1>3. SubSeq(s, 1, Len(s)) = SubSeq(t, 1, Len(s))
  BY <1>1, <1>2
<1>4. QED
  BY <1>3 DEF IsPrefix

-----------------------------------------------------------------------------
(* The steps of shutdown() *)

CallState == [pc : {"idle", "announce", "signal", "take", "loop", "hook",
                    "finish", "returned", "unwound"},
              left : 0..Grace, done : Nat, taken : Seq(Hook),
              succeeded : Seq(Hook), failed : Seq(Hook)]

LEMMA Typed ==
    ASSUME IInv, NEW c \in Caller
    PROVE  /\ call \in [Caller -> CallState] /\ call[c] \in CallState
           /\ call[c].taken \in Seq(Hook) /\ call[c].done \in Nat
           /\ call[c].succeeded \in Seq(Hook) /\ call[c].failed \in Seq(Hook)
           /\ call[c].left \in Nat /\ call[c].done <= Len(call[c].taken)
           /\ hooks \in Seq(Hook) /\ ran \in Seq(Hook)
BY DEF IInv, TypeOK, CallState

(* One call moves, and the others, which are at rest, stay there.            *)
LEMMA RunnerMoves ==
    ASSUME IInv, NEW c \in Caller, ~Resting(c), NEW to \in CallState,
           call' = [call EXCEPT ![c] = to], to.done <= Len(to.taken),
           hooks' \in Seq(Hook), ran' \in Seq(Hook), new' \subseteq Hook, early' \subseteq Hook,
           token' \in BOOLEAN, completed' = completed,
           events' \in {<<>>, <<"ShutdownStarted">>, <<"ShutdownStarted", "ShutdownCompleted">>},
           completed => Shared', Runs(c) => Resting(c)' \/ Runs(c)'
    PROVE  IInv'
<1>1. call'[c] = to /\ \A d \in Caller \ {c} : call'[d] = call[d]
  BY Typed
<1>2. Runs(c) /\ completed
  BY DEF IInv, Runs
<1>3. TypeOK'
  BY <1>1, <1>2, Typed DEF TypeOK, CallState, IInv
<1>4. \A d \in Caller \ {c} : Resting(d)
  BY DEF IInv, OneRuns
<1>5. \A d \in Caller \ {c} : Resting(d)'
  BY <1>1, <1>4 DEF Resting
<1>6. OneRuns'
  BY <1>5 DEF OneRuns
<1>7. QED
  BY <1>2, <1>3, <1>5, <1>6 DEF IInv

LEMMA NotResting ==
    ASSUME NEW c \in Caller, call[c].pc \notin {"idle", "returned", "unwound"}
    PROVE  ~Resting(c)
BY DEF Resting

LEMMA RegisterStep == ASSUME IInv, NEW h \in Hook, Register(h) PROVE IInv'
<1>1. /\ h \in new /\ hooks \in Seq(Hook) /\ hooks' = Append(hooks, h) /\ new' = new \ {h}
      /\ UNCHANGED <<completed, token, events, call, early, ran>>
  BY DEF IInv, TypeOK, Register
<1>2. /\ hooks' \in Seq(Hook) /\ ToSet(hooks') = ToSet(hooks) \cup {h}
      /\ IsInjective(hooks')
  BY <1>1, AppendOnce DEF IInv, Shared
<1>3. TypeOK'
  BY <1>1, <1>2 DEF IInv, TypeOK
<1>4. \A c \in Caller : Resting(c)' <=> Resting(c)
  BY <1>1 DEF Resting
<1>5. Shared'
  BY <1>1, <1>2, <1>4 DEF IInv, Shared
<1>6. OneRuns'
  BY <1>4 DEF IInv, OneRuns
<1>7. ASSUME NEW c \in Caller, Runs(c) PROVE Runs(c)'
  <2>1. Taken(c)'
    BY <1>1, <1>2, <1>7 DEF Runs, Taken, At
  <2>2. Started(c)' /\ Reported(c)'
    BY <1>1, <1>7 DEF Runs, Started, Reported, At
  <2>3. QED
    BY <1>1, <1>7, <2>1, <2>2 DEF Runs, At
<1>8. QED
  BY <1>3, <1>4, <1>5, <1>6, <1>7 DEF IInv

LEMMA CancelStep == ASSUME IInv, CancelToken PROVE IInv'
<1>1. token' = TRUE /\ UNCHANGED <<hooks, completed, events, call, new, early, ran>>
  BY DEF CancelToken
<1>2. TypeOK'
  BY <1>1 DEF IInv, TypeOK
<1>3. Shared' /\ OneRuns'
  BY <1>1 DEF IInv, Shared, OneRuns, Resting
<1>4. \A c \in Caller : Runs(c) => Runs(c)'
  BY <1>1 DEF Runs, Taken, Started, Reported, At
<1>5. QED
  BY <1>1, <1>2, <1>3, <1>4 DEF IInv, Resting

LEMMA EnterStep == ASSUME IInv, NEW c \in Caller, Enter(c) PROVE IInv'
<1>1. /\ completed' = TRUE
      /\ UNCHANGED <<hooks, token, events, new, early, ran>>
  BY DEF Enter
<1>2. CASE completed
  <2>1. call' = [call EXCEPT ![c] = Local("returned", 0)]
    BY <1>2 DEF Enter
  <2>2. Local("returned", 0) \in CallState
    BY GraceAssumption DEF Local, CallState
  <2>3. call'[c] = Local("returned", 0) /\ \A d \in Caller \ {c} : call'[d] = call[d]
    BY <2>1, Typed
  <2>4. TypeOK'
    <3>1. call' \in [Caller -> CallState]
      BY <2>1, <2>2, Typed
    <3>2. \A d \in Caller : call'[d].done <= Len(call'[d].taken)
      BY <2>3, Typed, EmptyOnce DEF Local
    <3>3. QED
      BY <1>1, <3>1, <3>2 DEF IInv, TypeOK, CallState
  <2>5. Resting(c)'
    BY <2>3 DEF Resting, Local
  <2>6. \A d \in Caller \ {c} : /\ Resting(d)' <=> Resting(d)
                                /\ Runs(d) => Runs(d)'
    <3> TAKE d \in Caller \ {c}
    <3>1. call'[d] = call[d]
      BY <2>3
    <3>2. Resting(d)' <=> Resting(d)
      BY <3>1 DEF Resting
    <3>3. ASSUME Runs(d) PROVE Runs(d)'
      <4>1. Taken(d)' /\ Started(d)'
        BY <1>1, <3>1, <3>3 DEF Runs, Taken, Started, At
      <4>2. Reported(d)'
        BY <1>1, <3>1, <3>3 DEF Runs, Reported
      <4>3. QED
        BY <1>1, <3>1, <3>3, <4>1, <4>2 DEF Runs, At
    <3>4. QED
      BY <3>2, <3>3
  <2>7. Shared' /\ OneRuns'
    BY <1>1, <2>5, <2>6 DEF IInv, Shared, OneRuns
  <2>8. QED
    BY <2>4, <2>5, <2>6, <2>7 DEF IInv
<1>3. CASE ~completed
  <2>1. call' = [call EXCEPT ![c] = Local("announce", Grace)]
    BY <1>3 DEF Enter
  <2>2. Local("announce", Grace) \in CallState
    BY GraceAssumption DEF Local, CallState
  <2>3. /\ call'[c].pc = "announce" /\ call'[c].taken = <<>> /\ call'[c].done = 0
        /\ call'[c].succeeded = <<>> /\ call'[c].failed = <<>>
        /\ \A d \in Caller \ {c} : call'[d] = call[d]
    BY <2>1, Typed DEF Local
  <2>4. TypeOK'
    <3>1. call' \in [Caller -> CallState]
      BY <2>1, <2>2, Typed
    <3>2. \A d \in Caller : call'[d].done <= Len(call'[d].taken)
      BY <2>3, Typed, EmptyOnce
    <3>3. QED
      BY <1>1, <3>1, <3>2 DEF IInv, TypeOK, CallState
  <2>5. \A d \in Caller \ {c} : Resting(d)'
    BY <1>3, <2>3 DEF IInv, Shared, Resting
  <2>6. ran = <<>> /\ events = <<>> /\ Hook \ new \subseteq ToSet(hooks)
    BY <1>3 DEF IInv, Shared
  <2>7. Taken(c)' /\ Started(c)' /\ Reported(c)'
    BY <1>1, <2>3, <2>6, EmptyOnce DEF Taken, Started, Reported, At
  <2>8. Runs(c)'
    BY <1>1, <2>3, <2>6, <2>7 DEF Runs, At
  <2>9. Shared' /\ OneRuns'
    BY <1>1, <2>5 DEF IInv, Shared, OneRuns
  <2>10. QED
    BY <2>4, <2>5, <2>8, <2>9 DEF IInv
<1>4. QED
  BY <1>2, <1>3

LEMMA SharedStays ==
    ASSUME Shared, completed, completed', UNCHANGED <<hooks, new, ran>>, token => token'
    PROVE  Shared'
BY DEF Shared

LEMMA AnnounceStep ==
    ASSUME IInv, NEW c \in Caller, Announce(c) \/ SignalToken(c)
    PROVE  IInv'
<1>1. Runs(c) /\ ~Resting(c)
  BY NotResting DEF IInv, Announce, SignalToken, At
<1>2. PICK pc \in {"signal", "take"} :
         /\ call' = [call EXCEPT ![c] = [@ EXCEPT !.pc = pc]]
         /\ pc = "signal" => At(c, "announce") /\ UNCHANGED <<token, early>>
         /\ pc = "take" => At(c, "signal") /\ token' = TRUE /\ early' = Hook \ new
  BY DEF Announce, SignalToken
<1>3. UNCHANGED <<hooks, completed, new, ran>> /\ events' = <<"ShutdownStarted">>
  <2>1. CASE Announce(c)
    <3>1. events = <<>>
      BY <1>1, <2>1 DEF Announce, Runs, At
    <3>2. QED
      BY <2>1, <3>1 DEF Announce
  <2>2. CASE SignalToken(c)
    BY <1>1, <2>2 DEF SignalToken, Runs, At
  <2>3. QED
    BY <2>1, <2>2
<1> DEFINE to == [call[c] EXCEPT !.pc = pc]
<1>4. /\ to \in CallState /\ call' = [call EXCEPT ![c] = to] /\ call'[c] = to
      /\ to.pc = pc /\ to.taken = call[c].taken /\ to.done = call[c].done
      /\ to.succeeded = call[c].succeeded /\ to.failed = call[c].failed
  BY <1>2, Typed DEF CallState
<1> HIDE DEF to
<1>5. Taken(c)'
  BY <1>1, <1>2, <1>3, <1>4 DEF Runs, Taken, At
<1>6. Started(c)' /\ Reported(c)'
  BY <1>1, <1>2, <1>3, <1>4 DEF Runs, Started, Reported, At
<1>7. Runs(c)'
  BY <1>1, <1>2, <1>3, <1>4, <1>5, <1>6 DEF Runs, At
<1>8. token' \in BOOLEAN /\ (token => token') /\ early' \subseteq Hook
  <2>1. CASE pc = "signal"
    BY <1>2, <2>1 DEF IInv, TypeOK
  <2>2. CASE pc = "take"
    BY <1>2, <2>2
  <2>3. QED
    BY <2>1, <2>2
<1>9. Shared'
  BY <1>1, <1>3, <1>8, SharedStays DEF IInv, Runs
<1>10. to.done <= Len(to.taken) /\ hooks' \in Seq(Hook) /\ ran' \in Seq(Hook)
       /\ new' \subseteq Hook
  BY <1>3, <1>4, Typed DEF IInv, TypeOK
<1>11. QED
  BY <1>1, <1>3, <1>4, <1>7, <1>8, <1>9, <1>10, RunnerMoves

LEMMA TakeStep == ASSUME IInv, NEW c \in Caller, Take(c) PROVE IInv'
<1>1. /\ At(c, "take") /\ ~Resting(c) /\ hooks' = <<>>
      /\ UNCHANGED <<completed, token, events, new, early, ran>>
  BY NotResting DEF Take, At
<1>2. Runs(c) /\ call[c].taken = <<>> /\ call[c].done = 0 /\ ran = <<>>
  BY <1>1, Typed, EmptyOnce DEF IInv, Runs, Taken, At
<1> DEFINE to == [call[c] EXCEPT !.pc = "loop", !.taken = hooks]
<1>3. /\ to \in CallState /\ call' = [call EXCEPT ![c] = to] /\ call'[c] = to
      /\ to.pc = "loop" /\ to.taken = hooks /\ to.done = 0
      /\ to.succeeded = call[c].succeeded /\ to.failed = call[c].failed
  BY <1>2, Typed DEF Take, CallState
<1> HIDE DEF to
<1>4. Taken(c)'
  BY <1>1, <1>2, <1>3, EmptyOnce DEF IInv, Shared, Runs, Taken, At
<1>5. Started(c)' /\ Reported(c)'
  <2>1. Len(hooks) \in Nat
    BY Typed
  <2>2. QED
    BY <1>1, <1>2, <1>3, <2>1, EmptyOnce DEF Runs, Started, Reported, At
<1>6. Runs(c)'
  BY <1>1, <1>2, <1>3, <1>4, <1>5 DEF Runs, At
<1>7. Shared'
  BY <1>1, <1>2, EmptyOnce DEF IInv, Shared, Runs
<1>8. /\ to.done <= Len(to.taken) /\ hooks' \in Seq(Hook) /\ ran' \in Seq(Hook)
      /\ new' \subseteq Hook /\ early' \subseteq Hook /\ token' \in BOOLEAN
      /\ events' \in {<<>>, <<"ShutdownStarted">>, <<"ShutdownStarted", "ShutdownCompleted">>}
  BY <1>1, <1>3, Typed DEF IInv, TypeOK
<1>9. QED
  BY <1>1, <1>3, <1>6, <1>7, <1>8, RunnerMoves

LEMMA StartHookStep == ASSUME IInv, NEW c \in Caller, StartHook(c) PROVE IInv'
<1>1. /\ At(c, "loop") /\ ~Resting(c) /\ Runs(c) /\ call[c].left > 0
      /\ call[c].done < Len(call[c].taken)
      /\ UNCHANGED <<hooks, completed, token, events, new, early>>
  BY NotResting DEF StartHook, At, IInv
<1>2. PICK n \in Nat : n = call[c].done
  BY Typed
<1>3. PICK h \in Hook : h = call[c].taken[n + 1] /\ ran' = Append(ran, h)
  BY <1>1, <1>2, Typed DEF StartHook, Current
<1>4. /\ Len(ran) = n /\ n + 1 \in 1..Len(call[c].taken)
      /\ DOMAIN ran = 1..n /\ DOMAIN call[c].taken = 1..Len(call[c].taken)
      /\ \A i \in 1..n : ran[i] = call[c].taken[i] /\ i \in 1..Len(call[c].taken) /\ i # n + 1
  BY <1>1, <1>2, Typed DEF Runs, Started
<1>5. h \in ToSet(call[c].taken) /\ h \notin ToSet(ran)
  BY <1>1, <1>3, <1>4 DEF Runs, Taken, IsInjective, ToSet
<1>6. /\ ran' \in Seq(Hook) /\ Len(ran') = n + 1 /\ ran'[n + 1] = h
      /\ \A i \in 1..n : ran'[i] = ran[i]
      /\ ToSet(ran') = ToSet(ran) \cup {h} /\ IsInjective(ran')
  BY <1>3, <1>4, <1>5, AppendOnce, Typed DEF IInv, Shared
<1> DEFINE to == [call[c] EXCEPT !.pc = "hook"]
<1>7. /\ to \in CallState /\ call' = [call EXCEPT ![c] = to] /\ call'[c] = to
      /\ to.pc = "hook" /\ to.taken = call[c].taken /\ to.done = n
      /\ to.succeeded = call[c].succeeded /\ to.failed = call[c].failed
  BY <1>2, Typed DEF StartHook, CallState
<1> HIDE DEF to
<1>8. Taken(c)'
  BY <1>1, <1>7 DEF Runs, Taken, At
<1>9. Started(c)'
  <2>1. \A i \in 1..(n + 1) : ran'[i] = call[c].taken[i]
    BY <1>3, <1>4, <1>6
  <2>2. QED
    BY <1>4, <1>6, <1>7, <2>1 DEF Started, At
<1>10. Reported(c)'
  <2>1. Reported(c) /\ ToSet(ran) \subseteq ToSet(ran')
    BY <1>1, <1>6 DEF Runs
  <2>2. QED
    BY <1>2, <1>7, <2>1 DEF Reported
<1>11. Runs(c)'
  BY <1>1, <1>7, <1>8, <1>9, <1>10 DEF Runs, At
<1>12. Shared'
  <2>1. h \notin ToSet(hooks) \cup new /\ completed /\ token
    BY <1>1, <1>5 DEF Runs, Taken, At
  <2>2. QED
    BY <1>1, <1>6, <2>1 DEF IInv, Shared
<1>13. /\ to.done <= Len(to.taken) /\ hooks' \in Seq(Hook)
       /\ new' \subseteq Hook /\ early' \subseteq Hook /\ token' \in BOOLEAN
       /\ events' \in {<<>>, <<"ShutdownStarted">>, <<"ShutdownStarted", "ShutdownCompleted">>}
  BY <1>1, <1>2, <1>7, Typed DEF IInv, TypeOK
<1>14. QED
  BY <1>1, <1>6, <1>7, <1>11, <1>12, <1>13, RunnerMoves

(* The loop is done with a hook, started or not.                             *)
Advanced(c, n, h, to) ==
    /\ to \in CallState /\ call' = [call EXCEPT ![c] = to]
    /\ to.pc = "loop" /\ to.done = n + 1 /\ to.taken = call[c].taken /\ to.left = call[c].left
    /\ \/ /\ to.succeeded = Append(call[c].succeeded, h) /\ to.failed = call[c].failed
          /\ At(c, "hook")
       \/ to.succeeded = call[c].succeeded /\ to.failed = Append(call[c].failed, h)

LEMMA AdvanceTo ==
    ASSUME IInv, NEW c \in Caller, HookReturns(c) \/ HookTimesOut(c) \/ SkipHook(c),
           NEW n \in Nat, n = call[c].done, NEW h \in Hook, h = Current(c)
    PROVE  \E to : Advanced(c, n, h, to)
<1>1. PICK r \in CallState, m \in Nat, good \in Seq(Hook), bad \in Seq(Hook) :
         /\ r = call[c] /\ m = n + 1
         /\ good = Append(r.succeeded, h) /\ bad = Append(r.failed, h)
  <2>1. call[c] \in CallState /\ n + 1 \in Nat
    BY Typed
  <2>2. /\ Append(call[c].succeeded, h) \in Seq(Hook)
        /\ Append(call[c].failed, h) \in Seq(Hook)
    BY Typed
  <2>3. QED
    BY <2>1, <2>2
<1>2. \/ /\ r.pc = "hook"
         /\ call' = [call EXCEPT ![c] = [r EXCEPT !.pc = "loop", !.done = m, !.succeeded = good]]
      \/ call' = [call EXCEPT ![c] = [r EXCEPT !.pc = "loop", !.done = m, !.failed = bad]]
      \/ /\ r.pc = "loop"
         /\ call' = [call EXCEPT ![c] = [r EXCEPT !.done = m, !.failed = bad]]
  <2>1. CASE HookReturns(c)
    BY <1>1, <2>1, Typed DEF HookReturns, At
  <2>2. CASE HookTimesOut(c)
    BY <1>1, <2>2, Typed DEF HookTimesOut, At
  <2>3. CASE SkipHook(c)
    BY <1>1, <2>3, Typed DEF SkipHook, At
  <2>4. QED
    BY <2>1, <2>2, <2>3
<1>3. CASE /\ r.pc = "hook"
           /\ call' = [call EXCEPT ![c] = [r EXCEPT !.pc = "loop", !.done = m, !.succeeded = good]]
  <2>1. PICK to : to = [r EXCEPT !.pc = "loop", !.done = m, !.succeeded = good]
    OBVIOUS
  <2>2. /\ to \in CallState /\ to.pc = "loop" /\ to.done = m /\ to.taken = r.taken
        /\ to.left = r.left /\ to.succeeded = good /\ to.failed = r.failed
    BY <2>1 DEF CallState
  <2>3. Advanced(c, n, h, to)
    BY <1>1, <1>3, <2>1, <2>2 DEF Advanced, At
  <2>4. QED
    BY <2>3
<1>4. CASE call' = [call EXCEPT ![c] = [r EXCEPT !.pc = "loop", !.done = m, !.failed = bad]]
  <2>1. PICK to : to = [r EXCEPT !.pc = "loop", !.done = m, !.failed = bad]
    OBVIOUS
  <2>2. /\ to \in CallState /\ to.pc = "loop" /\ to.done = m /\ to.taken = r.taken
        /\ to.left = r.left /\ to.succeeded = r.succeeded /\ to.failed = bad
    BY <2>1 DEF CallState
  <2>3. Advanced(c, n, h, to)
    BY <1>1, <1>4, <2>1, <2>2 DEF Advanced
  <2>4. QED
    BY <2>3
<1>5. CASE /\ r.pc = "loop"
           /\ call' = [call EXCEPT ![c] = [r EXCEPT !.done = m, !.failed = bad]]
  <2>1. PICK to : to = [r EXCEPT !.done = m, !.failed = bad]
    OBVIOUS
  <2>2. /\ to \in CallState /\ to.pc = "loop" /\ to.done = m /\ to.taken = r.taken
        /\ to.left = r.left /\ to.succeeded = r.succeeded /\ to.failed = bad
    BY <1>5, <2>1 DEF CallState
  <2>3. Advanced(c, n, h, to)
    BY <1>1, <1>5, <2>1, <2>2 DEF Advanced
  <2>4. QED
    BY <2>3
<1>6. QED
  BY <1>2, <1>3, <1>4, <1>5

LEMMA AdvanceStep ==
    ASSUME IInv, NEW c \in Caller, HookReturns(c) \/ HookTimesOut(c) \/ SkipHook(c)
    PROVE  IInv'
<1>1. /\ At(c, "loop") \/ At(c, "hook")
      /\ At(c, "loop") => call[c].left = 0 /\ call[c].done < Len(call[c].taken)
      /\ ~Resting(c) /\ Runs(c)
      /\ UNCHANGED <<hooks, completed, token, events, new, early, ran>>
  BY NotResting DEF HookReturns, HookTimesOut, SkipHook, At, IInv
<1>2. PICK n \in Nat : n = call[c].done
  BY Typed
<1>3. n + 1 \in 1..Len(call[c].taken) /\ Len(call[c].taken) \in Nat
  BY <1>1, <1>2, Typed DEF Runs, Started
<1>4. PICK h \in Hook : h = call[c].taken[n + 1] /\ h = Current(c)
  BY <1>2, <1>3, Typed DEF Current
<1>5. PICK to : Advanced(c, n, h, to)
  BY <1>2, <1>4, AdvanceTo
<1>6. call'[c] = to
  BY <1>5, Typed DEF Advanced
<1>7. h \notin ToSet(call[c].succeeded) \cup ToSet(call[c].failed)
  <2>1. \A i \in 1..n : call[c].taken[i] # h
    <3> TAKE i \in 1..n
    <3>1. /\ i \in DOMAIN call[c].taken /\ n + 1 \in DOMAIN call[c].taken /\ i # n + 1
      BY <1>3, Typed
    <3>2. QED
      BY <1>1, <1>4, <3>1 DEF Runs, Taken, IsInjective
  <2>2. QED
    BY <1>1, <1>2, <2>1 DEF Runs, Reported
<1>8. Reported(c)'
  <2>1. {to.taken[i] : i \in 1..to.done} = {call[c].taken[i] : i \in 1..n} \cup {h}
    <3>1. 1..(n + 1) = 1..n \cup {n + 1}
      OBVIOUS
    <3>2. QED
      BY <1>4, <1>5, <3>1 DEF Advanced
  <2>2. CASE /\ to.succeeded = Append(call[c].succeeded, h) /\ to.failed = call[c].failed
             /\ At(c, "hook")
    <3>1. /\ ToSet(to.succeeded) = ToSet(call[c].succeeded) \cup {h}
          /\ IsInjective(to.succeeded)
      BY <1>1, <1>7, <2>2, AppendOnce, Typed DEF Runs, Reported
    <3>2. h \in ToSet(ran)
      <4>1. n + 1 \in DOMAIN ran /\ ran[n + 1] = h
        <5>1. Len(ran) = n + 1 /\ DOMAIN ran = 1..Len(ran)
          BY <1>1, <1>2, <2>2, Typed DEF Runs, Started
        <5>2. n + 1 \in 1..Len(ran) /\ \A i \in 1..Len(ran) : ran[i] = call[c].taken[i]
          BY <1>1, <5>1 DEF Runs, Started
        <5>3. QED
          BY <1>4, <5>1, <5>2
      <4>2. QED
        BY <4>1 DEF ToSet
    <3>3. Reported(c) /\ ran' = ran
      BY <1>1 DEF Runs
    <3>4. IsInjective(to.succeeded) /\ IsInjective(to.failed)
      BY <2>2, <3>1, <3>3 DEF Reported
    <3>5. ToSet(to.succeeded) \cap ToSet(to.failed) = {}
      BY <1>7, <2>2, <3>1, <3>3 DEF Reported
    <3>6. ToSet(to.succeeded) \cup ToSet(to.failed) = {to.taken[i] : i \in 1..to.done}
      BY <1>2, <2>1, <2>2, <3>1, <3>3 DEF Reported
    <3>7. ToSet(to.succeeded) \subseteq ToSet(ran)
      BY <3>1, <3>2, <3>3 DEF Reported
    <3>8. QED
      BY <1>6, <3>3, <3>4, <3>5, <3>6, <3>7 DEF Reported
  <2>3. CASE to.succeeded = call[c].succeeded /\ to.failed = Append(call[c].failed, h)
    <3>1. /\ ToSet(to.failed) = ToSet(call[c].failed) \cup {h}
          /\ IsInjective(to.failed)
      BY <1>1, <1>7, <2>3, AppendOnce, Typed DEF Runs, Reported
    <3>2. Reported(c) /\ ran' = ran
      BY <1>1 DEF Runs
    <3>3. IsInjective(to.succeeded) /\ IsInjective(to.failed)
      BY <2>3, <3>1, <3>2 DEF Reported
    <3>4. ToSet(to.succeeded) \cap ToSet(to.failed) = {}
      BY <1>7, <2>3, <3>1, <3>2 DEF Reported
    <3>5. ToSet(to.succeeded) \cup ToSet(to.failed) = {to.taken[i] : i \in 1..to.done}
      BY <1>2, <2>1, <2>3, <3>1, <3>2 DEF Reported
    <3>6. ToSet(to.succeeded) \subseteq ToSet(ran)
      BY <2>3, <3>2 DEF Reported
    <3>7. QED
      BY <1>6, <3>2, <3>3, <3>4, <3>5, <3>6 DEF Reported
  <2>4. QED
    BY <1>5, <2>2, <2>3 DEF Advanced
<1>9. Taken(c)'
  BY <1>1, <1>5, <1>6 DEF Runs, Taken, At, Advanced
<1>10. Started(c)'
  <2>1. /\ Len(ran) <= n + 1 /\ Len(ran) <= Len(call[c].taken)
        /\ \A i \in 1..Len(ran) : ran[i] = call[c].taken[i]
        /\ call[c].left > 0 => Len(ran) = n + 1
    BY <1>1, <1>2, Typed DEF Runs, Started
  <2>2. QED
    BY <1>1, <1>5, <1>6, <2>1 DEF Started, At, Advanced
<1>11. Runs(c)'
  BY <1>1, <1>5, <1>6, <1>8, <1>9, <1>10 DEF Runs, At, Advanced
<1>12. Shared'
  BY <1>1, SharedStays DEF IInv, Runs
<1>13. /\ to \in CallState /\ call' = [call EXCEPT ![c] = to]
       /\ to.done <= Len(to.taken) /\ hooks' \in Seq(Hook) /\ ran' \in Seq(Hook)
       /\ new' \subseteq Hook /\ early' \subseteq Hook /\ token' \in BOOLEAN
       /\ events' \in {<<>>, <<"ShutdownStarted">>, <<"ShutdownStarted", "ShutdownCompleted">>}
  BY <1>1, <1>3, <1>5, Typed DEF IInv, TypeOK, Advanced
<1>14. QED
  BY <1>1, <1>11, <1>12, <1>13, RunnerMoves

LEMMA EndStep ==
    ASSUME IInv, NEW c \in Caller, LoopEnds(c) \/ Finish(c) \/ Tick(c) \/ HookPanics(c)
    PROVE  IInv'
<1>1. /\ ~Resting(c) /\ Runs(c)
      /\ UNCHANGED <<hooks, completed, token, new, early, ran>>
  BY NotResting DEF LoopEnds, Finish, Tick, HookPanics, At, IInv
<1>2. /\ hooks' \in Seq(Hook) /\ ran' \in Seq(Hook)
      /\ new' \subseteq Hook /\ early' \subseteq Hook /\ token' \in BOOLEAN
      /\ completed' = completed /\ Shared'
  BY <1>1, SharedStays, Typed DEF IInv, TypeOK, Runs
<1>3. CASE HookPanics(c)
  <2>1. call' = [call EXCEPT ![c] = Local("unwound", 0)] /\ events' = events
    BY <1>3 DEF HookPanics
  <2>2. Local("unwound", 0) \in CallState
    BY GraceAssumption DEF Local, CallState
  <2>3. Resting(c)'
    BY <2>1, Typed DEF Resting, Local
  <2>4. Local("unwound", 0).done <= Len(Local("unwound", 0).taken)
    BY EmptyOnce DEF Local
  <2>5. events' \in {<<>>, <<"ShutdownStarted">>, <<"ShutdownStarted", "ShutdownCompleted">>}
    BY <2>1 DEF IInv, TypeOK
  <2>6. QED
    BY <1>1, <1>2, <2>1, <2>2, <2>3, <2>4, <2>5, RunnerMoves
<1>4. CASE LoopEnds(c) \/ Finish(c)
  <2>1. PICK pc \in {"finish", "returned"} :
           /\ call' = [call EXCEPT ![c] = [@ EXCEPT !.pc = pc]]
           /\ pc = "finish" => At(c, "loop") /\ call[c].done = Len(call[c].taken)
           /\ pc = "finish" => events' = events
           /\ pc = "returned" => At(c, "finish")
    BY <1>4 DEF LoopEnds, Finish
  <2> DEFINE to == [call[c] EXCEPT !.pc = pc]
  <2>2. /\ to \in CallState /\ call' = [call EXCEPT ![c] = to] /\ call'[c] = to
        /\ to.pc = pc /\ to.taken = call[c].taken /\ to.done = call[c].done
        /\ to.succeeded = call[c].succeeded /\ to.failed = call[c].failed
    BY <2>1, Typed DEF CallState
  <2> HIDE DEF to
  <2>3. Taken(c)'
    BY <1>1, <2>1, <2>2 DEF Runs, Taken, At
  <2>4. Started(c)'
    BY <1>1, <2>1, <2>2 DEF Runs, Started, At
  <2>5. Reported(c)'
    BY <1>1, <2>2 DEF Runs, Reported
  <2>6. Runs(c)'
    BY <1>1, <2>1, <2>2, <2>3, <2>4, <2>5 DEF Runs, At
  <2>7. events' \in {<<>>, <<"ShutdownStarted">>, <<"ShutdownStarted", "ShutdownCompleted">>}
    <3>1. events = <<"ShutdownStarted">>
      BY <1>1, <1>4 DEF LoopEnds, Finish, Runs, At
    <3>2. events' \in {events, Append(events, "ShutdownCompleted")}
      BY <1>4 DEF LoopEnds, Finish
    <3>3. QED
      BY <3>1, <3>2
  <2>8. to.done <= Len(to.taken)
    BY <2>2, Typed
  <2>9. QED
    BY <1>1, <1>2, <2>2, <2>6, <2>7, <2>8, RunnerMoves
<1>5. CASE Tick(c)
  <2> DEFINE to == [call[c] EXCEPT !.left = call[c].left - 1]
  <2>1. call[c].left - 1 \in 0..Grace /\ call[c].left > 0
    BY <1>5, Typed, GraceAssumption DEF Tick, CallState
  <2>2. /\ to \in CallState /\ call' = [call EXCEPT ![c] = to] /\ call'[c] = to
        /\ to.pc = call[c].pc /\ to.taken = call[c].taken /\ to.done = call[c].done
        /\ to.succeeded = call[c].succeeded /\ to.failed = call[c].failed
    BY <1>5, <2>1, Typed DEF Tick, CallState
  <2> HIDE DEF to
  <2>3. Taken(c)'
    BY <1>1, <2>2 DEF Runs, Taken, At
  <2>4. Started(c)'
    BY <1>1, <2>1, <2>2 DEF Runs, Started, At
  <2>5. Reported(c)'
    BY <1>1, <2>2 DEF Runs, Reported
  <2>6. events' = events
    BY <1>5 DEF Tick
  <2>7. Runs(c)'
    BY <1>1, <2>2, <2>3, <2>4, <2>5, <2>6 DEF Runs, At
  <2>8. events' \in {<<>>, <<"ShutdownStarted">>, <<"ShutdownStarted", "ShutdownCompleted">>}
    BY <2>6 DEF IInv, TypeOK
  <2>9. to.done <= Len(to.taken)
    BY <2>2, Typed
  <2>10. QED
    BY <1>1, <1>2, <2>2, <2>7, <2>8, <2>9, RunnerMoves
<1>6. QED
  BY <1>3, <1>4, <1>5
-----------------------------------------------------------------------------
(* The inductive invariant *)

LEMMA InitIInv == Init => IInv
<1> SUFFICES ASSUME Init PROVE IInv
  OBVIOUS
<1>1. Local("idle", 0) \in CallState
  BY GraceAssumption DEF Local, CallState
<1>2. TypeOK
  <2>1. call \in [Caller -> CallState]
    BY <1>1 DEF Init
  <2>2. \A c \in Caller : call[c].done <= Len(call[c].taken)
    BY EmptyOnce DEF Init, Local
  <2>3. hooks \in Seq(Hook) /\ ran \in Seq(Hook)
    BY DEF Init
  <2>4. QED
    BY <2>1, <2>2, <2>3 DEF Init, TypeOK, CallState
<1>3. \A c \in Caller : Resting(c)
  BY DEF Init, Resting, Local
<1>4. Shared
  BY <1>3, EmptyOnce DEF Init, Shared
<1>5. QED
  BY <1>2, <1>3, <1>4 DEF IInv, OneRuns

LEMMA NextIInv == IInv /\ [Next]_vars => IInv'
<1> SUFFICES ASSUME IInv, [Next]_vars PROVE IInv'
  OBVIOUS
<1>1. CASE UNCHANGED vars
  <2>1. TypeOK' /\ Shared' /\ OneRuns'
    BY <1>1 DEF vars, IInv, TypeOK, Shared, OneRuns, Resting
  <2>2. ASSUME NEW c \in Caller PROVE (Resting(c) \/ Runs(c))'
    <3>1. Resting(c)' <=> Resting(c)
      BY <1>1 DEF vars, Resting
    <3>2. Taken(c)' <=> Taken(c)
      BY <1>1 DEF vars, Taken, At
    <3>3. Started(c)' <=> Started(c)
      BY <1>1 DEF vars, Started, At
    <3>4. Reported(c)' <=> Reported(c)
      BY <1>1 DEF vars, Reported
    <3>5. Runs(c)' <=> Runs(c)
      BY <1>1, <3>2, <3>3, <3>4 DEF vars, Runs, At
    <3>6. QED
      BY <3>1, <3>5 DEF IInv
  <2>3. QED
    BY <2>1, <2>2 DEF IInv
<1>2. ASSUME NEW h \in Hook, Register(h) PROVE IInv'
  BY <1>2, RegisterStep
<1>3. CASE CancelToken
  BY <1>3, CancelStep
<1>4. ASSUME NEW c \in Caller,
             Enter(c) \/ Proceeds(c) \/ HookReturns(c) \/ HookPanics(c) \/ Tick(c)
      PROVE  IInv'
  BY <1>4, EnterStep, AnnounceStep, TakeStep, StartHookStep, AdvanceStep, EndStep DEF Proceeds
<1>5. QED
  BY <1>1, <1>2, <1>3, <1>4 DEF Next

(* At every moment at most one call of shutdown() is under way, and what it  *)
(* took, started and reported fits the list and the hooks still to come.     *)
THEOREM Invariance == Spec => []IInv
BY InitIInv, NextIInv, PTL DEF Spec

-----------------------------------------------------------------------------
(* The properties *)

LEMMA OnceAndInOrder == IInv => HooksRunOnce
<1> SUFFICES ASSUME IInv PROVE HooksRunOnce
  OBVIOUS
<1>1. ASSUME NEW c \in Caller, call[c].taken # <<>> PROVE IsPrefix(ran, call[c].taken)
  <2>1. Started(c)
    BY <1>1 DEF IInv, Resting, Runs
  <2>2. QED
    BY <2>1, Typed, PrefixOf DEF Started
<1>2. QED
  BY <1>1 DEF IInv, Shared, HooksRunOnce

LEMMA AddsUp == IInv => ReportAddsUp
<1> SUFFICES ASSUME IInv, NEW c \in Caller
             PROVE  LET listed == call[c].succeeded \o call[c].failed
                    IN  /\ IsInjective(listed)
                        /\ ToSet(listed) = {call[c].taken[i] : i \in 1..call[c].done}
                        /\ ToSet(call[c].succeeded) \subseteq ToSet(ran)
  BY DEF ReportAddsUp
<1>1. Reported(c)
  <2>1. CASE Resting(c)
    BY <2>1, EmptyOnce DEF Resting, Reported
  <2>2. QED
    BY <2>1 DEF IInv, Runs
<1>2. QED
  BY <1>1, Typed, ConcatOnce DEF Reported

LEMMA EarlyOnes == IInv => EarlyHooksReported
<1> SUFFICES ASSUME IInv, NEW c \in Caller,
                    At(c, "finish") \/ (At(c, "returned") /\ call[c].taken # <<>>)
             PROVE  early \subseteq ToSet(call[c].succeeded) \cup ToSet(call[c].failed)
  BY DEF EarlyHooksReported
<1>1. Runs(c)
  BY DEF IInv, Resting, At
<1>2. early \subseteq ToSet(call[c].taken) /\ call[c].done = Len(call[c].taken)
  BY <1>1 DEF Runs, Taken, Started, At
<1>3. ToSet(call[c].taken) = {call[c].taken[i] : i \in 1..Len(call[c].taken)}
  <2>1. DOMAIN call[c].taken = 1..Len(call[c].taken)
    BY Typed
  <2>2. QED
    BY <2>1 DEF ToSet
<1>4. QED
  BY <1>1, <1>2, <1>3 DEF Runs, Reported

(* A step of the composition is a step of the coordinator, or none.          *)
LEMMA Projects == [DrainNext]_allVars => [Next]_vars
<1> SUFFICES ASSUME [DrainNext]_allVars, ~UNCHANGED vars PROVE Next
  OBVIOUS
<1>1. ASSUME NEW c \in Caller PROVE ~Draining(c)
  BY DEF Draining, Begin, AllJoined, AbortAll, AbortsJoined, JoinNext, JoinAborted
<1>2. ASSUME NEW t \in Task PROVE ~TaskEnds(t) /\ ~AbortHandle(t)
  BY DEF TaskEnds, AbortHandle
<1>3. ASSUME NEW c \in Caller, Goes(c) PROVE Proceeds(c)
  BY <1>3 DEF Goes, Proceeds, DrainingHookTimesOut
<1>4. QED
  BY <1>1, <1>2, <1>3 DEF DrainNext, Next, DrainingHookReturns, DrainTick, allVars

(* Whatever a draining hook does, it leaves the coordinator's promises alone: *)
(* the composition implements the coordinator.                               *)
THEOREM ImplementsCoordinator == DrainSpec => Spec
BY Projects, PTL DEF DrainSpec, DrainInit, Spec

(* Type correctness of the coordinator, for any hooks and callers.           *)
THEOREM TypesCorrect == Spec => []TypeOK
BY Invariance, PTL DEF IInv

(* No interleaving of shutdown() calls with registrations starts a hook      *)
(* twice, out of order, before the token is signalled, or late.              *)
THEOREM StartedOnce == DrainSpec => []HooksRunOnce
<1>1. Spec => []HooksRunOnce
  BY Invariance, OnceAndInOrder, PTL
<1>2. QED
  BY <1>1, ImplementsCoordinator, PTL

(* The report of a call lists each hook it is done with exactly once.        *)
THEOREM ReportExact == DrainSpec => []ReportAddsUp
<1>1. Spec => []ReportAddsUp
  BY Invariance, AddsUp, PTL
<1>2. QED
  BY <1>1, ImplementsCoordinator, PTL

(* The report leaves out no hook that was registered before the signal.      *)
THEOREM EarlyReported == DrainSpec => []EarlyHooksReported
<1>1. Spec => []EarlyHooksReported
  BY Invariance, EarlyOnes, PTL
<1>2. QED
  BY <1>1, ImplementsCoordinator, PTL

-----------------------------------------------------------------------------
(* The drain *)

DrainInv ==
    /\ task \in [Task -> {"running", "aborting", "ok", "panicked", "cancelled", "joined"}]
    /\ drain \in [pc : {"idle", "join", "abort", "returned"}, drained : Nat, aborted : Nat]
    /\ drain.drained + drain.aborted = Cardinality(Task \ Unjoined)
    /\ In("returned") => Unjoined = {}

(* One task more is joined, and counted on one side or the other.            *)
LEMMA JoinedCounts ==
    ASSUME DrainInv, NEW t \in Task, NEW S, task[t] # "joined", ~In("returned"), Joined(t, S)
    PROVE  DrainInv'
<1>1. /\ task' \in [Task -> {"running", "aborting", "ok", "panicked", "cancelled", "joined"}]
      /\ task'[t] = "joined" /\ \A u \in Task \ {t} : task'[u] = task[u]
  BY DEF DrainInv, Joined
<1>2. /\ drain' \in [pc : {"idle", "join", "abort", "returned"}, drained : Nat, aborted : Nat]
      /\ drain'.pc = drain.pc
      /\ drain'.drained + drain'.aborted = drain.drained + drain.aborted + 1
  BY DEF DrainInv, Joined
<1>3. Task \ Unjoined' = (Task \ Unjoined) \cup {t} /\ t \notin Task \ Unjoined
  BY <1>1 DEF Unjoined
<1>4. IsFiniteSet(Task \ Unjoined)
  BY DrainAssumption, FS_Subset
<1>5. Cardinality((Task \ Unjoined) \cup {t}) = Cardinality(Task \ Unjoined) + 1
  BY <1>3, <1>4, FS_AddElement
<1>6. QED
  BY <1>1, <1>2, <1>3, <1>5 DEF DrainInv, In

(* Nothing is joined: the counts stay.                                       *)
LEMMA CountsStay ==
    ASSUME DrainInv, drain' \in [pc : {"idle", "join", "abort", "returned"},
                                 drained : Nat, aborted : Nat],
           drain'.drained = drain.drained, drain'.aborted = drain.aborted,
           task' \in [Task -> {"running", "aborting", "ok", "panicked", "cancelled", "joined"}],
           \A t \in Task : task'[t] = "joined" <=> task[t] = "joined",
           In("returned")' => In("returned") \/ Unjoined = {}
    PROVE  DrainInv'
<1>1. Unjoined' = Unjoined
  BY DEF Unjoined
<1>2. QED
  BY <1>1 DEF DrainInv

LEMMA DrainInvKept == DrainInv /\ [DrainNext]_allVars => DrainInv'
<1> SUFFICES ASSUME DrainInv, [DrainNext]_allVars PROVE DrainInv'
  OBVIOUS
<1>1. CASE UNCHANGED <<task, drain>>
  BY <1>1, CountsStay DEF DrainInv, In
<1>2. ASSUME NEW t \in Task, TaskEnds(t) \/ AbortHandle(t) PROVE DrainInv'
  <2>1. PICK s \in {"aborting", "ok", "panicked", "cancelled"} :
           task' = [task EXCEPT ![t] = s] /\ task[t] # "joined" /\ drain' = drain
    BY <1>2 DEF TaskEnds, AbortHandle
  <2>2. QED
    BY <2>1, CountsStay DEF DrainInv, In
<1>3. ASSUME NEW c \in Caller, Begin(c) \/ AllJoined(c) \/ AbortsJoined(c) PROVE DrainInv'
  <2>1. PICK pc \in {"join", "returned"} :
           /\ drain' = [drain EXCEPT !.pc = pc] /\ task' = task
           /\ pc = "returned" => Unjoined = {}
    BY <1>3 DEF Begin, AllJoined, AbortsJoined
  <2>2. QED
    BY <2>1, CountsStay DEF DrainInv, In
<1>4. ASSUME NEW c \in Caller, AbortAll(c) PROVE DrainInv'
  <2>1. /\ drain' = [drain EXCEPT !.pc = "abort"]
        /\ task' = [t \in Task |-> IF task[t] = "running" THEN "aborting" ELSE task[t]]
    BY <1>4 DEF AbortAll
  <2>2. QED
    BY <2>1, CountsStay DEF DrainInv, In
<1>5. ASSUME NEW c \in Caller, NEW t \in Task, JoinNext(c, t) \/ JoinAborted(c, t)
      PROVE  DrainInv'
  BY <1>5, JoinedCounts DEF JoinNext, JoinAborted, Joinable, In
<1>6. QED
  BY <1>1, <1>2, <1>3, <1>4, <1>5
     DEF DrainNext, Goes, Draining, DrainingHookReturns, DrainingHookTimesOut, DrainTick,
         drainVars, allVars

(* Every task that was joined is counted once, and a drain that returns has  *)
(* joined them all, whoever ended or aborted them and whenever.              *)
THEOREM DrainExact == DrainSpec => []DrainAddsUp
<1>1. DrainInit => DrainInv
  <2> SUFFICES ASSUME DrainInit PROVE DrainInv
    OBVIOUS
  <2>1. Task \ Unjoined = {}
    BY DEF DrainInit, Unjoined
  <2>2. QED
    BY <2>1, FS_EmptySet DEF DrainInit, DrainInv, In
<1>2. DrainInv => DrainAddsUp
  <2> SUFFICES ASSUME DrainInv PROVE DrainAddsUp
    OBVIOUS
  <2>1. CASE In("returned")
    <3>1. Task \ Unjoined = Task
      BY <2>1 DEF DrainInv
    <3>2. QED
      BY <3>1 DEF DrainInv, DrainAddsUp
  <2>2. QED
    BY <2>1 DEF DrainInv, DrainAddsUp
<1>3. QED
  BY <1>1, <1>2, DrainInvKept, PTL DEF DrainSpec
=============================================================================
