------------------------------ MODULE Builder -------------------------------
(***************************************************************************)
(* KernelBuilder::build (src/kernel/builder.rs): the checks on what was    *)
(* registered, in the order in which they reject it, then Kahn's sort and  *)
(* the reordering, one step per turn of their loops.  A subsystem is its   *)
(* name and its list of dependencies, which may repeat a name or hold the  *)
(* subsystem's own.                                                        *)
(***************************************************************************)
EXTENDS Integers, FiniteSets, SequencesExt

CONSTANTS Builtins, \* the built-in subsystems, in order
          Inputs    \* what a consumer may have configured

Registered == [name : STRING, deps : Seq(STRING)]

ASSUME BuilderAssumption ==
    /\ Builtins \in Seq(Registered)
    /\ Inputs \subseteq [named : BOOLEAN, consumer : Seq(Registered)]

VARIABLES input,    \* the configuration: is the name given, the subsystems
          pc,       \* the check or the loop that comes next
          indegree, \* topo_sort's map: dependencies not yet released
          queue,    \* its work list
          children, \* the dependents that the subsystem just taken has yet to
                    \* release: a position and a place in its list, each
          sorted,   \* its output
          todo,     \* the positions that any other loop has yet to visit
          result    \* what build() returns

vars == <<input, pc, indegree, queue, children, sorted, todo, result>>
sort == <<indegree, queue, children, sorted>>

Sub(name, deps) == [name |-> name, deps |-> deps]

(* What boxed_builtins() registers for every kernel                          *)
BoxedBuiltins ==
    << Sub("lifecycle", <<>>),
       Sub("events", <<"lifecycle">>),
       Sub("errors", <<"events">>),
       Sub("health", <<"events">>),
       Sub("metrics", <<"lifecycle">>),
       Sub("workers", <<"metrics", "events", "errors">>),
       Sub("shutdown", <<"lifecycle", "events">>) >>

(* Built-ins come first.                                                     *)
Combined == Builtins \o input.consumer
Position == DOMAIN Combined
NameAt(i) == Combined[i].name
Deps(i) == Combined[i].deps
Names == {NameAt(i) : i \in Position}
Builtin == {Builtins[i].name : i \in DOMAIN Builtins}
AllNames == [i \in Position |-> NameAt(i)]

First(S) == CHOOSE i \in S : \A j \in S : i <= j

Verdict == {"EmptyName", "ReservedName", "DuplicateSubsystem", "MissingDependency",
            "DependencyCycle", "Ok"}

Return(kind, names) ==
    /\ result' = [kind |-> kind, names |-> names]
    /\ pc' = "done"
    /\ UNCHANGED <<input, sort, todo>>

(* A check fails with the first offender among the positions Bad, or hands   *)
(* over to the next check.                                                   *)
Check(Bad, kind, next) ==
    \/ /\ Bad # {}
       /\ Return(kind, <<NameAt(First(Bad))>>)
    \/ /\ Bad = {}
       /\ pc' = next
       /\ UNCHANGED <<input, sort, todo, result>>

-----------------------------------------------------------------------------
(* The checks *)

CheckName ==
    /\ pc = "name"
    /\ \/ ~input.named /\ Return("EmptyName", <<>>)
       \/ input.named /\ pc' = "reserved" /\ UNCHANGED <<input, sort, todo, result>>

CheckReserved ==
    /\ pc = "reserved"
    /\ Check({i \in Position : i > Len(Builtins) /\ NameAt(i) \in Builtin},
             "ReservedName", "duplicate")

CheckDuplicate ==
    /\ pc = "duplicate"
    /\ Check({i \in Position : \E j \in 1..(i - 1) : NameAt(j) = NameAt(i)},
             "DuplicateSubsystem", "missing")

(* The error also names the first missing dependency, which is left out.     *)
CheckMissing ==
    /\ pc = "missing"
    /\ Check({i \in Position : ~(ToSet(Deps(i)) \subseteq Names)},
             "MissingDependency", "seed")

-----------------------------------------------------------------------------
(* topo_sort *)

(* Names are unique by now.                                                  *)
PositionOf(n) == CHOOSE i \in Position : NameAt(i) = n

(* Mutant: a repeated dependency is counted once *)
DistinctDependencies(i) == Cardinality(ToSet(Deps(i)))

(* Every entry of a dependency list counts, a repeated one again.            *)
Dependencies(i) == Len(Deps(i))

(* The two maps.  The queue is then filled with what depends on nothing.     *)
Seed ==
    /\ pc = "seed" /\ pc' = "fill"
    /\ indegree' = [n \in Names |-> Dependencies(PositionOf(n))]
    /\ todo' = {i \in Position : Dependencies(i) = 0}
    /\ UNCHANGED <<input, queue, children, sorted, result>>

Fill ==
    /\ pc = "fill"
    /\ \/ /\ todo # {}
          /\ queue' = Append(queue, NameAt(First(todo)))
          /\ todo' = todo \ {First(todo)}
          /\ UNCHANGED pc
       \/ /\ todo = {}
          /\ pc' = "sort"
          /\ UNCHANGED <<queue, todo>>
    /\ UNCHANGED <<input, indegree, children, sorted, result>>

Entry == UNION {{i} \X DOMAIN Deps(i) : i \in Position}

(* A subsystem is among a name's dependents once for every time it lists it. *)
Dependents(name) == {e \in Entry : Deps(e[1])[e[2]] = name}

Earliest(E) ==
    CHOOSE e \in E : \A f \in E : e[1] < f[1] \/ (e[1] = f[1] /\ e[2] <= f[2])

Pop ==
    /\ pc = "sort" /\ queue # <<>>
    /\ pc' = "release"
    /\ sorted' = Append(sorted, Head(queue))
    /\ queue' = Tail(queue)
    /\ children' = Dependents(Head(queue))
    /\ UNCHANGED <<input, indegree, todo, result>>

(* Mutant: one satisfied dependency makes a subsystem ready *)
ReleasedByAny(count) == 0

(* It stays at zero.                                                         *)
Released(count) == IF count > 0 THEN count - 1 ELSE 0

(* A dependent is queued every time its count is found at zero, be it for    *)
(* the first time or not.                                                    *)
Release ==
    /\ pc = "release"
    /\ \/ /\ children # {}
          /\ LET child == Earliest(children)
                 name  == NameAt(child[1])
                 count == Released(indegree[name])
             IN  /\ indegree' = [indegree EXCEPT ![name] = count]
                 /\ queue' = IF count = 0 THEN Append(queue, name) ELSE queue
                 /\ children' = children \ {child}
          /\ UNCHANGED pc
       \/ /\ children = {}
          /\ pc' = "sort"
          /\ UNCHANGED <<indegree, queue, children>>
    /\ UNCHANGED <<input, sorted, todo, result>>

(* Either everything is sorted, or the rest is reported.                     *)
Finish ==
    /\ pc = "sort" /\ queue = <<>>
    /\ \/ Len(sorted) = Len(Combined) /\ pc' = "reorder" /\ todo' = DOMAIN sorted
       \/ /\ Len(sorted) # Len(Combined)
          /\ pc' = "report"
          /\ todo' = {i \in Position : indegree[NameAt(i)] > 0}
    /\ UNCHANGED <<input, sort, result>>

(* A loop that collects the names to return *)
Collect(name, kind) ==
    \/ /\ todo # {}
       /\ result' = [result EXCEPT !.names = name]
       /\ todo' = todo \ {First(todo)}
       /\ UNCHANGED <<input, pc, sort>>
    \/ /\ todo = {}
       /\ Return(kind, result.names)

Report ==
    /\ pc = "report"
    /\ Collect(Append(result.names, NameAt(First(todo))), "DependencyCycle")

(* reorder(): a name that comes up again finds its subsystem already taken.  *)
Reorder ==
    /\ pc = "reorder"
    /\ Collect(IF sorted[First(todo)] \in ToSet(result.names) THEN result.names
               ELSE Append(result.names, sorted[First(todo)]), "Ok")

-----------------------------------------------------------------------------
Init ==
    /\ input \in Inputs
    /\ pc = "name"
    /\ indegree = [n \in {} |-> 0]
    /\ queue = <<>> /\ children = {} /\ sorted = <<>>
    /\ todo = {}
    /\ result = [kind |-> "none", names |-> <<>>]

(* build() has returned.                                                     *)
Built == pc = "done" /\ UNCHANGED vars

Next ==
    \/ CheckName \/ CheckReserved \/ CheckDuplicate \/ CheckMissing
    \/ Seed \/ Fill \/ Pop \/ Release \/ Finish \/ Report \/ Reorder
    \/ Built

Spec == Init /\ [][Next]_vars

-----------------------------------------------------------------------------
(* Properties *)

TypeOK ==
    /\ input \in Inputs
    /\ pc \in {"name", "reserved", "duplicate", "missing", "seed", "fill", "sort", "release",
              "report", "reorder", "done"}
    /\ DOMAIN indegree \subseteq Names /\ \A n \in DOMAIN indegree : indegree[n] \in Nat
    /\ queue \in Seq(Names) /\ sorted \in Seq(Names)
    /\ children \subseteq Entry
    /\ todo \subseteq Position
    /\ result \in [kind : Verdict \cup {"none"}, names : Seq(Names)]

(* The dependency graph by itself: a subsystem can never boot when it is in  *)
(* a set of subsystems each of which waits for another one of the set.       *)
DependsOn(n) == UNION {ToSet(Deps(i)) : i \in {j \in Position : NameAt(j) = n}}
Waits == {<<NameAt(e[1]), Deps(e[1])[e[2]]>> : e \in Entry}
Stuck(S, waits) == \A n \in S : \E m \in S : <<n, m>> \in waits
Unbootable == LET waits == Waits IN UNION {S \in SUBSET Names : Stuck(S, waits)}

(* What depends on nothing comes first, in the order of registration.        *)
RootsFirst(order) ==
    \A i, j \in DOMAIN order :
       i < j /\ DependsOn(order[j]) = {} =>
          DependsOn(order[i]) = {} /\ PositionOf(order[i]) < PositionOf(order[j])

(* The order that build() hands to the kernel boots every registered         *)
(* subsystem once and none before one of its dependencies, in whatever order *)
(* and however often they were listed.                                       *)
BootOrderSound ==
    result.kind = "Ok" =>
        LET order == result.names
        IN  /\ Len(order) = Len(Combined) /\ ToSet(order) = Names /\ IsInjective(order)
            /\ \A i \in DOMAIN order :
                  DependsOn(order[i]) \subseteq {order[j] : j \in 1..(i - 1)}
            /\ RootsFirst(order)

(* build() accepts a configuration exactly when it has none of the           *)
(* documented errors.                                                        *)
AcceptsExactlyValid ==
    pc = "done" =>
        (result.kind = "Ok" <=>
            /\ input.named
            /\ \A i \in DOMAIN input.consumer : input.consumer[i].name \notin Builtin
            /\ IsInjective(AllNames)
            /\ \A n \in Names : DependsOn(n) \subseteq Names
            /\ Unbootable = {})

(* A cycle's report lists what cannot boot because of it: its members and    *)
(* all that wait for them, nothing else and nothing twice.                   *)
CycleReported ==
    result.kind = "DependencyCycle" =>
        /\ ToSet(result.names) = Unbootable /\ Unbootable # {}
        /\ IsInjective(result.names)

(* The verdict is right both ways: no configuration that could boot is       *)
(* refused, none that could not is accepted, and a cycle is reported in full.*)
VerdictExact == AcceptsExactlyValid /\ CycleReported
=============================================================================
