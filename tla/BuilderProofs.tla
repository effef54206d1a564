---------------------------- MODULE BuilderProofs ----------------------------
(***************************************************************************)
(* Proofs about Builder, for every configuration: any number of subsystems *)
(* with any dependency lists.  The sort is followed step by step: how many *)
(* entries of a list still pend, and hence what the work list holds; and   *)
(* that no set of subsystems that wait for each other is ever entered.     *)
(***************************************************************************)
EXTENDS Builder, TLAPS, FiniteSetTheorems, SequenceTheorems, WellFoundedInduction

NoReserved == \A i \in Position : i > Len(Builtins) => NameAt(i) \notin Builtin
Unique == \A i, j \in Position : NameAt(i) = NameAt(j) => i = j
Declared == \A i \in Position : ToSet(Deps(i)) \subseteq Names

Verdicts ==
    /\ pc # "done" => result.kind = "none"
    /\ pc = "done" => result.kind \in Verdict
    /\ result.kind = "EmptyName" => ~input.named
    /\ result.kind = "ReservedName" => ~NoReserved
    /\ result.kind = "DuplicateSubsystem" => ~Unique
    /\ result.kind = "MissingDependency" => ~Declared

Sorting == pc \in {"fill", "sort", "release", "report", "reorder"}
Sorted == result.kind \in {"Ok", "DependencyCycle"}

(* What the checks that are behind have found                                *)
Passed ==
    /\ pc \notin {"name", "done"} \/ Sorted => input.named
    /\ pc \notin {"name", "reserved", "done"} \/ Sorted => NoReserved
    /\ pc \notin {"name", "reserved", "duplicate", "done"} \/ Sorted => Unique
    /\ pc = "seed" \/ Sorting \/ Sorted => Declared

Untouched ==
    ~Sorting /\ ~Sorted =>
        queue = <<>> /\ children = {} /\ sorted = <<>> /\ (pc # "done" => result.names = <<>>)

(* The entries of a list that have not been released yet *)
Pending(i) == {k \in DOMAIN Deps(i) : Deps(i)[k] \notin ToSet(sorted) \/ <<i, k>> \in children}

Waiting(i) == pc = "fill" /\ i \in todo
Queued(n) == n \in ToSet(sorted) \cup ToSet(queue)

Counts ==
    /\ indegree \in [Names -> Nat]
    /\ \A i \in Position : indegree[NameAt(i)] = Cardinality(Pending(i))

Lines ==
    /\ IsInjective(sorted) /\ IsInjective(queue) /\ ToSet(sorted) \cap ToSet(queue) = {}
    /\ \A i \in Position : Waiting(i) => ~Queued(NameAt(i))
    /\ \A i \in Position : Waiting(i) \/ Queued(NameAt(i)) <=> Pending(i) = {}
    /\ \A e \in children : Deps(e[1])[e[2]] \in ToSet(sorted)
    /\ pc # "release" => children = {}

BootsInOrder ==
    \A j \in DOMAIN sorted : DependsOn(sorted[j]) \subseteq {sorted[l] : l \in 1..(j - 1)}

AvoidsStuck == \A S \in SUBSET Names : Stuck(S, Waits) => S \cap ToSet(sorted) = {}

Roots ==
    /\ RootsFirst(sorted \o queue)
    /\ pc = "fill" =>
          /\ sorted = <<>>
          /\ \A i \in DOMAIN queue : DependsOn(queue[i]) = {}
          /\ \A i \in DOMAIN queue, t \in todo : PositionOf(queue[i]) < t

(* The positions that a cycle keeps from booting *)
Rest == {i \in Position : Pending(i) # {}}

Ends ==
    /\ pc \in {"report", "reorder"} \/ Sorted => queue = <<>>
    /\ pc \in {"fill", "sort", "release"} => result.names = <<>>
    /\ pc = "reorder" \/ result.kind = "Ok" =>
          /\ Len(sorted) = Len(Combined)
          /\ Len(result.names) <= Len(sorted)
          /\ \A l \in DOMAIN result.names : result.names[l] = sorted[l]
    /\ pc = "reorder" => todo = (Len(result.names) + 1)..Len(sorted)
    /\ result.kind = "Ok" => Len(result.names) = Len(sorted)
    /\ pc = "report" \/ result.kind = "DependencyCycle" =>
          Len(sorted) # Len(Combined) /\ IsInjective(result.names)
    /\ pc = "report" =>
          todo \subseteq Rest /\ ToSet(result.names) = {NameAt(i) : i \in Rest \ todo}
    /\ result.kind = "DependencyCycle" => ToSet(result.names) = {NameAt(i) : i \in Rest}

(* All but the end of the sort, which only its last loops disturb *)
SortState == Counts /\ Lines /\ BootsInOrder /\ AvoidsStuck /\ Roots

SortInv == Counts /\ Lines /\ BootsInOrder /\ AvoidsStuck /\ Roots /\ Ends

IInv ==
    /\ TypeOK /\ Verdicts /\ Passed /\ Untouched
    /\ Sorting \/ Sorted => SortInv

-----------------------------------------------------------------------------
(* Sequences and the orders in which the loops visit                         *)

LEMMA AppendNew ==
    ASSUME NEW S, NEW s \in Seq(S), NEW x \in S
    PROVE  /\ Append(s, x) \in Seq(S)
           /\ Len(Append(s, x)) = Len(s) + 1
           /\ ToSet(Append(s, x)) = ToSet(s) \cup {x}
           /\ IsInjective(s) /\ x \notin ToSet(s) => IsInjective(Append(s, x))
<1>1. /\ Append(s, x) \in Seq(S) /\ Len(Append(s, x)) = Len(s) + 1
      /\ DOMAIN Append(s, x) = 1..(Len(s) + 1) /\ DOMAIN s = 1..Len(s) /\ Len(s) \in Nat
      /\ \A i \in 1..Len(s) : Append(s, x)[i] = s[i]
      /\ Append(s, x)[Len(s) + 1] = x
  OBVIOUS
<1>2. ToSet(Append(s, x)) = ToSet(s) \cup {x}
  BY <1>1 DEF ToSet
<1>3. ASSUME IsInjective(s), x \notin ToSet(s) PROVE IsInjective(Append(s, x))
  BY <1>1, <1>3 DEF IsInjective, ToSet
<1>4. QED
  BY <1>1, <1>2, <1>3

LEMMA HeadTailOnce ==
    ASSUME NEW S, NEW s \in Seq(S), s # <<>>
    PROVE  /\ Head(s) \in S /\ Head(s) \in ToSet(s) /\ Tail(s) \in Seq(S)
           /\ ToSet(s) = {Head(s)} \cup ToSet(Tail(s))
           /\ IsInjective(s) => IsInjective(Tail(s)) /\ Head(s) \notin ToSet(Tail(s))
<1>1. /\ Len(s) \in Nat \ {0} /\ DOMAIN s = 1..Len(s) /\ Head(s) = s[1]
      /\ Tail(s) \in Seq(S) /\ Len(Tail(s)) = Len(s) - 1 /\ DOMAIN Tail(s) = 1..(Len(s) - 1)
      /\ \A i \in 1..(Len(s) - 1) : Tail(s)[i] = s[i + 1]
      /\ \A i \in 1..Len(s) : s[i] \in S
  OBVIOUS
<1>2. Head(s) \in ToSet(s) /\ Head(s) \in S
  BY <1>1 DEF ToSet
<1>3. ToSet(Tail(s)) \subseteq ToSet(s)
  BY <1>1 DEF ToSet
<1>4. ASSUME NEW i \in 1..Len(s), i # 1 PROVE s[i] \in ToSet(Tail(s))
  <2>1. i - 1 \in 1..(Len(s) - 1) /\ Tail(s)[i - 1] = s[i]
    BY <1>1, <1>4
  <2>2. QED
    BY <1>1, <2>1 DEF ToSet
<1>5. ToSet(s) = {Head(s)} \cup ToSet(Tail(s))
  BY <1>1, <1>2, <1>3, <1>4 DEF ToSet
<1>6. ASSUME IsInjective(s) PROVE IsInjective(Tail(s)) /\ Head(s) \notin ToSet(Tail(s))
  BY <1>1, <1>6 DEF IsInjective, ToSet
<1>7. QED
  BY <1>1, <1>2, <1>5, <1>6

LEMMA MoveHead ==
    ASSUME NEW S, NEW q \in Seq(S), NEW s \in Seq(S), q # <<>>
    PROVE  Append(s, Head(q)) \o Tail(q) = s \o q
OBVIOUS

LEMMA AppendLine ==
    ASSUME NEW S, NEW q \in Seq(S), NEW s \in Seq(S), NEW x \in S
    PROVE  s \o Append(q, x) = Append(s \o q, x)
OBVIOUS

(* Every loop that has something left to visit visits its first.             *)
LEMMA LeastNatural ==
    ASSUME NEW S \in SUBSET Nat, S # {}
    PROVE  \E m \in S : \A n \in S : m <= n
<1>1. PICK m \in S : \A n \in S : <<n, m>> \notin OpToRel(<, Nat)
  BY NatLessThanWellFounded, WFMin
<1>2. \A n \in S : ~(n < m)
  BY <1>1 DEF OpToRel
<1>3. QED
  BY <1>2

LEMMA FirstIsLeast ==
    ASSUME NEW S \in SUBSET Nat, S # {}
    PROVE  First(S) \in S /\ \A j \in S : First(S) <= j
BY LeastNatural DEF First

LEMMA EarliestIsIn ==
    ASSUME NEW E \in SUBSET (Nat \X Nat), E # {}
    PROVE  Earliest(E) \in E
<1>1. PICK i \in {e[1] : e \in E} : \A j \in {e[1] : e \in E} : i <= j
  <2>1. {e[1] : e \in E} # {} /\ {e[1] : e \in E} \in SUBSET Nat
    OBVIOUS
  <2>2. QED
    BY <2>1, LeastNatural
<1>2. PICK k \in {e[2] : e \in {f \in E : f[1] = i}} :
         \A l \in {e[2] : e \in {f \in E : f[1] = i}} : k <= l
  <2>1. /\ {e[2] : e \in {f \in E : f[1] = i}} # {}
        /\ {e[2] : e \in {f \in E : f[1] = i}} \in SUBSET Nat
    OBVIOUS
  <2>2. QED
    BY <2>1, LeastNatural
<1>3. \E e \in E : \A f \in E : e[1] < f[1] \/ (e[1] = f[1] /\ e[2] <= f[2])
  <2>1. PICK e \in E : e[1] = i /\ e[2] = k
    BY <1>2
  <2>2. ASSUME NEW f \in E, f[1] # i PROVE i < f[1]
    <3>1. i <= f[1] /\ i \in Nat /\ f[1] \in Nat
      BY <1>1
    <3>2. QED
      BY <2>2, <3>1
  <2>3. ASSUME NEW f \in E, f[1] = i PROVE k <= f[2]
    BY <1>2, <2>3
  <2>4. QED
    BY <2>1, <2>2, <2>3
<1>4. QED
  BY <1>3 DEF Earliest

-----------------------------------------------------------------------------
(* What was registered *)

LEMMA Shape ==
    ASSUME input \in Inputs
    PROVE  /\ Combined \in Seq(Registered) /\ Position = 1..Len(Combined)
           /\ Len(Combined) \in Nat /\ IsFiniteSet(Position) /\ Position \subseteq Nat
           /\ \A i \in Position : /\ NameAt(i) \in Names /\ Deps(i) \in Seq(STRING)
                                  /\ DOMAIN Deps(i) = 1..Len(Deps(i)) /\ Len(Deps(i)) \in Nat
                                  /\ IsFiniteSet(DOMAIN Deps(i))
           /\ Entry \subseteq Nat \X Nat
           /\ \A e : e \in Entry <=> e = <<e[1], e[2]>> /\ e[1] \in Position
                                                    /\ e[2] \in DOMAIN Deps(e[1])
<1>1. input.consumer \in Seq(Registered) /\ Builtins \in Seq(Registered)
  BY BuilderAssumption
<1>2. Combined \in Seq(Registered)
  BY <1>1 DEF Combined
<1>3. Position = 1..Len(Combined) /\ Len(Combined) \in Nat
  BY <1>2 DEF Position
<1>4. IsFiniteSet(Position)
  BY <1>3, FS_Interval
<1>5. ASSUME NEW i \in Position
      PROVE  /\ NameAt(i) \in Names /\ Deps(i) \in Seq(STRING)
             /\ DOMAIN Deps(i) = 1..Len(Deps(i)) /\ Len(Deps(i)) \in Nat
             /\ IsFiniteSet(DOMAIN Deps(i))
  <2>1. Combined[i] \in Registered
    BY <1>2, <1>3
  <2>2. Deps(i) \in Seq(STRING)
    BY <2>1 DEF Registered, Deps
  <2>3. DOMAIN Deps(i) = 1..Len(Deps(i)) /\ Len(Deps(i)) \in Nat
    BY <2>2
  <2>4. IsFiniteSet(1..Len(Deps(i)))
    BY <2>3, FS_Interval
  <2>5. QED
    BY <2>2, <2>3, <2>4 DEF Names
<1>6. \A e : e \in Entry <=> e = <<e[1], e[2]>> /\ e[1] \in Position
                                           /\ e[2] \in DOMAIN Deps(e[1])
  BY DEF Entry
<1>7. Entry \subseteq Nat \X Nat
  BY <1>3, <1>5, <1>6
<1>8. QED
  BY <1>2, <1>3, <1>4, <1>5, <1>6, <1>7

(* The graph's edges are the entries of the lists.                           *)
LEMMA Edges ==
    ASSUME input \in Inputs
    PROVE  \A n, m : <<n, m>> \in Waits <=>
              \E i \in Position : NameAt(i) = n /\ m \in ToSet(Deps(i))
<1>1. ASSUME NEW n, NEW m, <<n, m>> \in Waits
      PROVE  \E i \in Position : NameAt(i) = n /\ m \in ToSet(Deps(i))
  <2>1. PICK e \in Entry : n = NameAt(e[1]) /\ m = Deps(e[1])[e[2]]
    BY <1>1 DEF Waits
  <2>2. e[1] \in Position /\ e[2] \in DOMAIN Deps(e[1])
    BY <2>1, Shape
  <2>3. QED
    BY <2>1, <2>2 DEF ToSet
<1>2. ASSUME NEW n, NEW m, NEW i \in Position, NameAt(i) = n, m \in ToSet(Deps(i))
      PROVE  <<n, m>> \in Waits
  <2>1. PICK k \in DOMAIN Deps(i) : m = Deps(i)[k]
    BY <1>2 DEF ToSet
  <2>2. <<i, k>> \in Entry
    BY <2>1 DEF Entry
  <2>3. QED
    BY <1>2, <2>1, <2>2 DEF Waits
<1>3. QED
  BY <1>1, <1>2

LEMMA UniqueNames ==
    ASSUME input \in Inputs, Unique, NEW i \in Position
    PROVE  PositionOf(NameAt(i)) = i /\ DependsOn(NameAt(i)) = ToSet(Deps(i))
<1>1. PositionOf(NameAt(i)) = i
  BY DEF Unique, PositionOf
<1>2. {j \in Position : NameAt(j) = NameAt(i)} = {i}
  BY DEF Unique
<1>3. QED
  BY <1>1, <1>2 DEF DependsOn

LEMMA NameOfSome ==
    ASSUME NEW n \in Names
    PROVE  \E i \in Position : NameAt(i) = n
BY DEF Names

LEMMA SameInput ==
    ASSUME input' = input
    PROVE  /\ Combined' = Combined /\ Position' = Position /\ Names' = Names
           /\ (\A i : NameAt(i)' = NameAt(i) /\ Deps(i)' = Deps(i))
           /\ Entry' = Entry /\ Waits' = Waits
           /\ (\A n : DependsOn(n)' = DependsOn(n) /\ PositionOf(n)' = PositionOf(n))
           /\ (NoReserved' <=> NoReserved) /\ (Unique' <=> Unique) /\ (Declared' <=> Declared)
<1>1. Combined' = Combined
  BY DEF Combined
<1>2. Position' = Position
  BY <1>1 DEF Position
<1>3. \A i : NameAt(i)' = NameAt(i) /\ Deps(i)' = Deps(i)
  BY <1>1 DEF NameAt, Deps
<1>4. Names' = Names
  BY <1>2, <1>3 DEF Names
<1>5. Entry' = Entry
  BY <1>2, <1>3 DEF Entry
<1>6. Waits' = Waits
  BY <1>3, <1>5 DEF Waits
<1>7. \A n : DependsOn(n)' = DependsOn(n) /\ PositionOf(n)' = PositionOf(n)
  BY <1>2, <1>3 DEF DependsOn, PositionOf
<1>8. (NoReserved' <=> NoReserved) /\ (Unique' <=> Unique) /\ (Declared' <=> Declared)
  BY <1>2, <1>3, <1>4 DEF NoReserved, Unique, Declared
<1>9. QED
  BY <1>1, <1>2, <1>3, <1>4, <1>5, <1>6, <1>7, <1>8

(* What a step that leaves the configuration alone has to say of its lines   *)
LEMMA RootsNext ==
    ASSUME input' = input, RootsFirst(sorted' \o queue')
    PROVE  RootsFirst(sorted \o queue)'
BY SameInput DEF RootsFirst

LEMMA RootsKept ==
    ASSUME input' = input, pc' # "fill", RootsFirst(sorted' \o queue')
    PROVE  Roots'
BY RootsNext DEF Roots

LEMMA StuckKept ==
    ASSUME input' = input,
           \A S \in SUBSET Names : Stuck(S, Waits) => S \cap ToSet(sorted') = {}
    PROVE  AvoidsStuck'
<1>1. Waits' = Waits /\ Names' = Names
  BY SameInput
<1>2. \A S : Stuck(S, Waits)' <=> Stuck(S, Waits)
  BY <1>1 DEF Stuck
<1>3. QED
  BY <1>1, <1>2 DEF AvoidsStuck

LEMMA UpTo ==
    ASSUME NEW n \in Nat
    PROVE  IsFiniteSet(1..n) /\ Cardinality(1..n) = n
<1>1. IsFiniteSet(1..n) /\ Cardinality(1..n) = IF 1 > n THEN 0 ELSE n - 1 + 1
  BY FS_Interval
<1>2. QED
  BY <1>1

(* A list without repetitions holds all the names exactly when it is as long *)
(* as what was registered.                                                   *)
LEMMA LengthTells ==
    ASSUME input \in Inputs, Unique, NEW s \in Seq(Names), IsInjective(s)
    PROVE  Len(s) = Len(Combined) <=> ToSet(s) = Names
<1> DEFINE at == [i \in Position |-> NameAt(i)]
           in == [l \in 1..Len(s) |-> s[l]]
<1>1. Position = 1..Len(Combined) /\ Len(Combined) \in Nat /\ IsFiniteSet(Position)
  BY Shape
<1>2. Cardinality(Position) = Len(Combined)
  BY <1>1, UpTo
<1>3. at \in Bijection(Position, Names)
  BY DEF Bijection, Injection, Surjection, IsInjective, Unique, Names
<1>4. IsFiniteSet(Names) /\ Cardinality(Names) = Len(Combined)
  BY <1>1, <1>2, <1>3, FS_Bijection DEF ExistsBijection
<1>5. Len(s) \in Nat /\ DOMAIN s = 1..Len(s) /\ \A l \in 1..Len(s) : s[l] \in Names
  OBVIOUS
<1>6. IsFiniteSet(1..Len(s)) /\ Cardinality(1..Len(s)) = Len(s)
  BY <1>5, UpTo
<1>7. in \in Injection(1..Len(s), Names)
  BY <1>5 DEF Injection, IsInjective
<1>8. Len(s) = Len(Combined) <=> in \in Surjection(1..Len(s), Names)
  BY <1>4, <1>6, <1>7, FS_Injection
<1>9. in \in Surjection(1..Len(s), Names) <=> ToSet(s) = Names
  <2>1. ASSUME in \in Surjection(1..Len(s), Names) PROVE ToSet(s) = Names
    BY <1>5, <2>1 DEF Surjection, ToSet
  <2>2. ASSUME ToSet(s) = Names PROVE in \in Surjection(1..Len(s), Names)
    BY <1>5, <2>2 DEF Surjection, ToSet
  <2>3. QED
    BY <2>1, <2>2
<1>10. QED
  BY <1>8, <1>9

-----------------------------------------------------------------------------
(* The checks *)

LEMMA InitIInv == Init => IInv
<1> SUFFICES ASSUME Init PROVE IInv
  OBVIOUS
<1>1. TypeOK
  <2>1. DOMAIN indegree = {}
    BY DEF Init
  <2>2. QED
    BY <2>1 DEF Init, TypeOK
<1>2. Verdicts /\ Passed /\ Untouched /\ ~Sorting /\ ~Sorted
  BY DEF Init, Verdicts, Passed, Untouched, Sorting, Sorted
<1>3. QED
  BY <1>1, <1>2 DEF IInv

(* A check that rejects leaves everything to its verdict.                    *)
LEMMA Rejects ==
    ASSUME IInv, pc \in {"name", "reserved", "duplicate", "missing"},
           NEW kind \in Verdict \ {"Ok", "DependencyCycle"}, NEW names \in Seq(Names),
           Return(kind, names), Verdicts'
    PROVE  IInv'
<1>1. /\ result' = [kind |-> kind, names |-> names] /\ pc' = "done"
      /\ UNCHANGED <<input, sort, todo>>
  BY DEF Return
<1>2. ~Sorting /\ ~Sorted /\ ~Sorting' /\ ~Sorted'
  BY <1>1 DEF IInv, Verdicts, Sorting, Sorted
<1>3. TypeOK'
  BY <1>1, SameInput DEF IInv, TypeOK, sort
<1>4. Passed' /\ Untouched'
  BY <1>1, <1>2 DEF IInv, Passed, Untouched, Sorting, Sorted, sort
<1>5. QED
  BY <1>2, <1>3, <1>4 DEF IInv

(* A check that passes hands over to the next one.                           *)
LEMMA HandsOver ==
    ASSUME IInv, pc \in {"name", "reserved", "duplicate", "missing"},
           pc' \in {"reserved", "duplicate", "missing", "seed"},
           UNCHANGED <<input, sort, todo, result>>, Passed'
    PROVE  IInv'
<1>1. ~Sorting /\ ~Sorted /\ ~Sorting' /\ ~Sorted' /\ result.kind = "none"
  BY DEF IInv, Verdicts, Sorting, Sorted
<1>2. TypeOK'
  BY SameInput DEF IInv, TypeOK, sort
<1>3. Verdicts' /\ Untouched'
  BY <1>1 DEF IInv, Verdicts, Untouched, sort
<1>4. QED
  BY <1>1, <1>2, <1>3 DEF IInv

LEMMA CheckStep ==
    ASSUME IInv, CheckName \/ CheckReserved \/ CheckDuplicate \/ CheckMissing
    PROVE  IInv'
<1>1. /\ TypeOK /\ Verdicts /\ Passed /\ input \in Inputs
      /\ pc \in {"name", "reserved", "duplicate", "missing"}
      /\ input' = input
  BY DEF IInv, TypeOK, CheckName, CheckReserved, CheckDuplicate, CheckMissing, Check, Return
<1>2. ASSUME NEW Bad \in SUBSET Position, NEW kind, NEW next, Check(Bad, kind, next)
      PROVE  \/ Bad # {} /\ \E names \in Seq(Names) : Return(kind, names)
             \/ Bad = {} /\ pc' = next /\ UNCHANGED <<input, sort, todo, result>>
  <2>1. CASE Bad # {}
    <3>1. First(Bad) \in Position
      BY <1>1, <2>1, Shape, FirstIsLeast
    <3>2. <<NameAt(First(Bad))>> \in Seq(Names)
      BY <1>1, <3>1, Shape
    <3>3. QED
      BY <1>2, <2>1, <3>2 DEF Check
  <2>2. QED
    BY <1>2, <2>1 DEF Check
<1>3. CASE CheckName
  <2>1. CASE ~input.named /\ Return("EmptyName", <<>>)
    <3>1. Verdicts'
      BY <1>1, <2>1 DEF Verdicts, Return, Verdict
    <3>2. <<>> \in Seq(Names) /\ "EmptyName" \in Verdict \ {"Ok", "DependencyCycle"}
      BY DEF Verdict
    <3>3. QED
      BY <1>1, <2>1, <3>1, <3>2, Rejects
  <2>2. CASE input.named /\ pc' = "reserved" /\ UNCHANGED <<input, sort, todo, result>>
    <3>1. Passed'
      BY <1>1, <2>2, SameInput DEF Passed, Sorting, Sorted, Verdicts
    <3>2. QED
      BY <1>1, <2>2, <3>1, HandsOver
  <2>3. QED
    BY <1>3, <2>1, <2>2 DEF CheckName
<1>4. CASE CheckReserved
  <2> DEFINE Bad == {i \in Position : i > Len(Builtins) /\ NameAt(i) \in Builtin}
  <2>1. Check(Bad, "ReservedName", "duplicate") /\ pc = "reserved" /\ Bad \in SUBSET Position
    BY <1>4 DEF CheckReserved
  <2>2. Bad = {} <=> NoReserved
    BY DEF NoReserved
  <2> HIDE DEF Bad
  <2>3. CASE Bad # {} /\ \E names \in Seq(Names) : Return("ReservedName", names)
    <3>1. PICK names \in Seq(Names) : Return("ReservedName", names)
      BY <2>3
    <3>2. Verdicts' /\ "ReservedName" \in Verdict \ {"Ok", "DependencyCycle"}
      BY <1>1, <2>2, <2>3, <3>1, SameInput DEF Verdicts, Return, Verdict
    <3>3. QED
      BY <1>1, <3>1, <3>2, Rejects
  <2>4. CASE Bad = {} /\ pc' = "duplicate" /\ UNCHANGED <<input, sort, todo, result>>
    <3>1. Passed'
      BY <1>1, <2>1, <2>2, <2>4, SameInput DEF Passed, Sorting, Sorted, Verdicts
    <3>2. QED
      BY <1>1, <2>4, <3>1, HandsOver
  <2>5. QED
    BY <1>2, <2>1, <2>3, <2>4
<1>5. CASE CheckDuplicate
  <2> DEFINE Bad == {i \in Position : \E j \in 1..(i - 1) : NameAt(j) = NameAt(i)}
  <2>1. Check(Bad, "DuplicateSubsystem", "missing") /\ pc = "duplicate" /\ Bad \in SUBSET Position
    BY <1>5 DEF CheckDuplicate
  <2>2. Bad = {} <=> Unique
    <3>1. Position = 1..Len(Combined) /\ Len(Combined) \in Nat
      BY <1>1, Shape
    <3>2. ASSUME NEW i \in Position, NEW j \in Position, NameAt(i) = NameAt(j), i # j, Bad = {}
          PROVE  FALSE
      <4>1. j \in 1..(i - 1) \/ i \in 1..(j - 1)
        BY <3>1, <3>2
      <4>2. QED
        BY <3>2, <4>1
    <3>3. ASSUME Unique, NEW i \in Bad PROVE FALSE
      <4>1. PICK j \in 1..(i - 1) : NameAt(j) = NameAt(i)
        OBVIOUS
      <4>2. j \in Position /\ i \in Position /\ j # i
        BY <3>1
      <4>3. QED
        BY <3>3, <4>1, <4>2 DEF Unique
    <3>4. QED
      BY <3>2, <3>3 DEF Unique
  <2> HIDE DEF Bad
  <2>3. CASE Bad # {} /\ \E names \in Seq(Names) : Return("DuplicateSubsystem", names)
    <3>1. PICK names \in Seq(Names) : Return("DuplicateSubsystem", names)
      BY <2>3
    <3>2. Verdicts' /\ "DuplicateSubsystem" \in Verdict \ {"Ok", "DependencyCycle"}
      BY <1>1, <2>2, <2>3, <3>1, SameInput DEF Verdicts, Return, Verdict
    <3>3. QED
      BY <1>1, <3>1, <3>2, Rejects
  <2>4. CASE Bad = {} /\ pc' = "missing" /\ UNCHANGED <<input, sort, todo, result>>
    <3>1. Passed'
      BY <1>1, <2>1, <2>2, <2>4, SameInput DEF Passed, Sorting, Sorted, Verdicts
    <3>2. QED
      BY <1>1, <2>4, <3>1, HandsOver
  <2>5. QED
    BY <1>2, <2>1, <2>3, <2>4
<1>6. CASE CheckMissing
  <2> DEFINE Bad == {i \in Position : ~(ToSet(Deps(i)) \subseteq Names)}
  <2>1. Check(Bad, "MissingDependency", "seed") /\ pc = "missing" /\ Bad \in SUBSET Position
    BY <1>6 DEF CheckMissing
  <2>2. Bad = {} <=> Declared
    BY DEF Declared
  <2> HIDE DEF Bad
  <2>3. CASE Bad # {} /\ \E names \in Seq(Names) : Return("MissingDependency", names)
    <3>1. PICK names \in Seq(Names) : Return("MissingDependency", names)
      BY <2>3
    <3>2. Verdicts' /\ "MissingDependency" \in Verdict \ {"Ok", "DependencyCycle"}
      BY <1>1, <2>2, <2>3, <3>1, SameInput DEF Verdicts, Return, Verdict
    <3>3. QED
      BY <1>1, <3>1, <3>2, Rejects
  <2>4. CASE Bad = {} /\ pc' = "seed" /\ UNCHANGED <<input, sort, todo, result>>
    <3>1. Passed'
      BY <1>1, <2>1, <2>2, <2>4, SameInput DEF Passed, Sorting, Sorted, Verdicts
    <3>2. QED
      BY <1>1, <2>4, <3>1, HandsOver
  <2>5. QED
    BY <1>2, <2>1, <2>3, <2>4
<1>7. QED
  BY <1>3, <1>4, <1>5, <1>6

-----------------------------------------------------------------------------
(* The sort *)

LEMMA PendingNext ==
    ASSUME input' = input
    PROVE  \A i : Pending(i)' = {k \in DOMAIN Deps(i) : \/ Deps(i)[k] \notin ToSet(sorted')
                                                     \/ <<i, k>> \in children'}
BY SameInput DEF Pending

LEMMA PendingFinite ==
    ASSUME input \in Inputs, NEW i \in Position
    PROVE  /\ IsFiniteSet(Pending(i)) /\ Cardinality(Pending(i)) \in Nat
           /\ Cardinality(Pending(i)) = 0 <=> Pending(i) = {}
<1>1. IsFiniteSet(DOMAIN Deps(i)) /\ Pending(i) \in SUBSET DOMAIN Deps(i)
  BY Shape DEF Pending
<1>2. IsFiniteSet(Pending(i))
  BY <1>1, FS_Subset
<1>3. QED
  BY <1>2, FS_CardinalityType, FS_EmptySet

(* What the sort can rely on, whichever of its loops runs                    *)
LEMMA InSort ==
    ASSUME IInv, pc = "seed" \/ Sorting
    PROVE  /\ TypeOK /\ Verdicts /\ Passed /\ input \in Inputs /\ Unique /\ Declared
           /\ queue \in Seq(Names) /\ sorted \in Seq(Names) /\ result.names \in Seq(Names)
           /\ result.kind = "none" /\ ~Sorted
           /\ pc = "seed" => Untouched /\ ~Sorting
           /\ Sorting => SortState /\ Ends
BY DEF IInv, TypeOK, Verdicts, Passed, Sorting, Sorted, SortInv, SortState

(* The facts about the configuration outlast any step of the sort.           *)
LEMMA StillPassed ==
    ASSUME IInv, pc = "seed" \/ Sorting, input' = input, result'.kind = "none", Sorting'
    PROVE  Verdicts' /\ Passed' /\ Untouched'
<1>1. pc' # "done" /\ ~Sorted'
  BY DEF Sorting, Sorted
<1>2. input.named /\ NoReserved /\ Unique /\ Declared
  BY DEF IInv, Passed, Sorting
<1>3. QED
  BY <1>1, <1>2, SameInput DEF Verdicts, Passed, Untouched

LEMMA SeedStep ==
    ASSUME IInv, Seed
    PROVE  IInv'
<1>1. /\ TypeOK /\ input \in Inputs /\ Unique /\ result.kind = "none" /\ Untouched
      /\ ~Sorting /\ ~Sorted /\ pc = "seed"
  BY InSort DEF Seed
<1>2. /\ pc' = "fill" /\ input' = input /\ result' = result
      /\ queue' = <<>> /\ children' = {} /\ sorted' = <<>> /\ result.names = <<>>
      /\ indegree' = [n \in Names |-> Dependencies(PositionOf(n))]
      /\ todo' = {i \in Position : Dependencies(i) = 0}
  BY <1>1 DEF Seed, Untouched
<1>3. Verdicts' /\ Passed' /\ Untouched' /\ Sorting'
  BY <1>1, <1>2, StillPassed DEF Sorting
<1>4. \A i \in Position : Dependencies(i) \in Nat /\ Dependencies(i) = Len(Deps(i))
  BY <1>1, Shape DEF Dependencies
<1>5. \A n \in Names : PositionOf(n) \in Position
  BY <1>1, NameOfSome, UniqueNames
<1>6. indegree' \in [Names -> Nat]
  BY <1>2, <1>4, <1>5
<1>7. ToSet(<<>>) = {}
  BY DEF ToSet
<1>8. \A i \in Position : Pending(i)' = DOMAIN Deps(i)
  BY <1>2, <1>7, PendingNext
<1>9. TypeOK'
  BY <1>1, <1>2, <1>6, SameInput DEF TypeOK
<1>10. ASSUME NEW i \in Position PROVE indegree'[NameAt(i)] = Cardinality(Pending(i)')
  <2>1. indegree'[NameAt(i)] = Len(Deps(i)) /\ Len(Deps(i)) \in Nat
        /\ DOMAIN Deps(i) = 1..Len(Deps(i))
    BY <1>1, <1>2, <1>4, Shape, UniqueNames
  <2>2. QED
    BY <1>8, <2>1, UpTo
<1>11. Counts'
  BY <1>2, <1>6, <1>10, SameInput DEF Counts
<1>12. Lines'
  <2>1. ASSUME NEW i \in Position PROVE i \in todo' <=> Pending(i)' = {}
    <3>1. Len(Deps(i)) \in Nat /\ DOMAIN Deps(i) = 1..Len(Deps(i))
      BY <1>1, Shape
    <3>2. i \in todo' <=> Len(Deps(i)) = 0
      BY <1>2, <1>4
    <3>3. PICK n \in Nat : n = Len(Deps(i)) /\ Pending(i)' = 1..n
      BY <1>8, <3>1
    <3>4. 1..n = {} <=> n = 0
      OBVIOUS
    <3>5. QED
      BY <3>2, <3>3, <3>4
  <2>2. \A n : ~Queued(n)'
    BY <1>2, <1>7 DEF Queued
  <2>3. IsInjective(<<>>)
    BY DEF IsInjective
  <2>4. \A i \in Position : Waiting(i)' <=> i \in todo'
    BY <1>2 DEF Waiting
  <2>5. QED
    BY <1>2, <1>7, <2>1, <2>2, <2>3, <2>4, SameInput DEF Lines
<1>13. BootsInOrder' /\ AvoidsStuck'
  BY <1>2, <1>7, SameInput DEF BootsInOrder, AvoidsStuck
<1>14. Roots'
  BY <1>2, SameInput DEF Roots, RootsFirst
<1>15. Ends'
  BY <1>1, <1>2 DEF Ends, Sorted
<1>16. QED
  BY <1>3, <1>9, <1>11, <1>12, <1>13, <1>14, <1>15 DEF IInv, SortInv

LEMMA FillStep ==
    ASSUME IInv, Fill
    PROVE  IInv'
<1>1. /\ TypeOK /\ input \in Inputs /\ Unique /\ result.kind = "none"
      /\ queue \in Seq(Names) /\ sorted \in Seq(Names) /\ SortState /\ Ends
      /\ ~Sorted /\ Sorting /\ pc = "fill"
  BY InSort DEF Fill, Sorting
<1>2. input' = input /\ result' = result /\ UNCHANGED <<indegree, children, sorted>>
      /\ pc' \in {"fill", "sort"}
  BY <1>1 DEF Fill
<1>3. Verdicts' /\ Passed' /\ Untouched' /\ Sorting'
  BY <1>1, <1>2, StillPassed DEF Sorting
<1>4. \A i : Pending(i)' = Pending(i)
  BY <1>2, PendingNext DEF Pending
<1>5. Counts' /\ BootsInOrder' /\ AvoidsStuck'
  BY <1>1, <1>2, <1>4, SameInput DEF SortState, Counts, BootsInOrder, AvoidsStuck
<1>6. Ends'
  BY <1>1, <1>2 DEF Ends, Sorted
<1>7. CASE todo = {} /\ pc' = "sort" /\ UNCHANGED <<queue, todo>>
  <2>1. TypeOK'
    BY <1>1, <1>2, <1>7, SameInput DEF TypeOK
  <2>2. Lines'
    BY <1>1, <1>2, <1>4, <1>7, SameInput DEF SortState, Lines, Waiting, Queued
  <2>3. Roots'
    BY <1>1, <1>2, <1>7, SameInput DEF SortState, Roots, RootsFirst
  <2>4. QED
    BY <1>3, <1>5, <1>6, <2>1, <2>2, <2>3 DEF IInv, SortInv
<1>8. CASE todo # {} /\ pc' = pc
  <2> DEFINE i0 == First(todo)
  <2>1. queue' = Append(queue, NameAt(i0)) /\ todo' = todo \ {i0}
    BY <1>1, <1>8 DEF Fill
  <2>2. i0 \in todo /\ i0 \in Position /\ \A t \in todo' : i0 < t
    <3>1. todo \subseteq Position /\ Position \subseteq Nat
      BY <1>1, Shape DEF TypeOK
    <3>2. i0 \in todo /\ \A t \in todo : i0 <= t
      BY <1>8, <3>1, FirstIsLeast
    <3> HIDE DEF i0
    <3>3. ASSUME NEW t \in todo' PROVE i0 < t
      <4>1. t \in Nat /\ i0 \in Nat /\ i0 <= t /\ i0 # t
        BY <2>1, <3>1, <3>2
      <4>2. QED
        BY <4>1
    <3>4. QED
      BY <3>1, <3>2, <3>3
  <2> HIDE DEF i0
  <2>3. NameAt(i0) \in Names
    BY <1>1, <2>2, Shape
  <2>4. TypeOK'
    BY <1>1, <1>2, <1>8, <2>1, <2>3, SameInput, AppendNew DEF TypeOK
  <2>5. ~Queued(NameAt(i0)) /\ Pending(i0) = {}
    BY <1>1, <2>2 DEF SortState, Lines, Waiting
  <2>6. /\ ToSet(queue') = ToSet(queue) \cup {NameAt(i0)} /\ IsInjective(queue')
        /\ queue' \in Seq(Names) /\ Len(queue') = Len(queue) + 1
    BY <1>1, <2>1, <2>3, <2>5, AppendNew DEF SortState, Lines, Queued
  <2>7. Lines'
    <3>1. \A i \in Position : Waiting(i)' <=> i \in todo /\ i # i0
      BY <1>1, <1>8, <2>1 DEF Waiting
    <3>2. \A n : Queued(n)' <=> Queued(n) \/ n = NameAt(i0)
      BY <1>2, <2>6 DEF Queued
    <3>3. \A i \in Position : NameAt(i) = NameAt(i0) <=> i = i0
      BY <1>1, <2>2 DEF Unique
    <3>4. \A i \in Position : Waiting(i) <=> i \in todo
      BY <1>1 DEF Waiting
    <3>5. ToSet(sorted') \cap ToSet(queue') = {}
      BY <1>1, <1>2, <2>5, <2>6 DEF SortState, Lines, Queued
    <3>6. QED
      BY <1>1, <1>2, <1>4, <1>8, <2>2, <2>5, <2>6, <3>1, <3>2, <3>3, <3>4, <3>5, SameInput
         DEF SortState, Lines
  <2>8. Roots'
    <3>1. /\ sorted = <<>> /\ RootsFirst(queue)
          /\ \A i \in DOMAIN queue : DependsOn(queue[i]) = {}
          /\ \A i \in DOMAIN queue, t \in todo : PositionOf(queue[i]) < t
      <4>1. <<>> \o queue = queue
        BY <1>1
      <4>2. QED
        BY <1>1, <4>1 DEF SortState, Roots
    <3>2. DependsOn(NameAt(i0)) = {} /\ PositionOf(NameAt(i0)) = i0
      <4>1. ToSet(sorted) = {}
        BY <3>1 DEF ToSet
      <4>2. DOMAIN Deps(i0) = {}
        BY <2>5, <4>1 DEF Pending
      <4>3. QED
        BY <1>1, <2>2, <4>2, UniqueNames DEF ToSet
    <3>3. /\ DOMAIN queue' = 1..(Len(queue) + 1) /\ DOMAIN queue = 1..Len(queue)
          /\ Len(queue) \in Nat /\ queue'[Len(queue) + 1] = NameAt(i0)
          /\ \A i \in DOMAIN queue : queue'[i] = queue[i]
      BY <1>1, <2>1, <2>3
    <3>4. \A i \in DOMAIN queue' : DependsOn(queue'[i]) = {}
      BY <3>1, <3>2, <3>3
    <3>5. ASSUME NEW i \in DOMAIN queue', NEW t \in todo' PROVE PositionOf(queue'[i]) < t
      <4>1. CASE i \in DOMAIN queue
        BY <2>1, <3>1, <3>3, <4>1
      <4>2. CASE i = Len(queue) + 1
        BY <2>2, <3>2, <3>3, <4>2
      <4>3. QED
        BY <3>3, <4>1, <4>2
    <3>6. ASSUME NEW i \in DOMAIN queue', NEW j \in DOMAIN queue', i < j
          PROVE  PositionOf(queue'[i]) < PositionOf(queue'[j])
      <4>1. CASE j \in DOMAIN queue
        <5>1. i \in DOMAIN queue
          BY <3>3, <3>6, <4>1
        <5>2. QED
          BY <3>1, <3>3, <3>6, <4>1, <5>1 DEF RootsFirst
      <4>2. CASE j = Len(queue) + 1
        <5>1. i \in DOMAIN queue
          BY <3>3, <3>6, <4>2
        <5>2. QED
          BY <2>2, <3>1, <3>2, <3>3, <4>2, <5>1
      <4>3. QED
        BY <3>3, <4>1, <4>2
    <3>7. sorted' \o queue' = queue' /\ sorted' = <<>>
      BY <1>2, <2>6, <3>1
    <3>8. RootsFirst(sorted \o queue)'
      BY <1>2, <3>4, <3>6, <3>7, SameInput DEF RootsFirst
    <3>9. QED
      BY <1>2, <3>4, <3>5, <3>7, <3>8, SameInput DEF Roots
  <2>9. QED
    BY <1>3, <1>5, <1>6, <2>4, <2>7, <2>8 DEF IInv, SortInv
<1>9. QED
  BY <1>7, <1>8 DEF Fill

(* Taking a name from the work list: what it lists is sorted already.        *)
LEMMA PopStep ==
    ASSUME IInv, Pop
    PROVE  IInv'
<1>1. /\ TypeOK /\ input \in Inputs /\ Unique /\ result.kind = "none"
      /\ queue \in Seq(Names) /\ sorted \in Seq(Names) /\ SortState /\ Ends
      /\ ~Sorted /\ Sorting /\ pc = "sort" /\ queue # <<>> /\ children = {}
  BY InSort DEF Pop, Sorting, SortState, Lines
<1>2. PICK name : name = Head(queue)
  OBVIOUS
<1>3. /\ input' = input /\ result' = result /\ UNCHANGED <<indegree, todo>>
      /\ pc' = "release" /\ sorted' = Append(sorted, name) /\ queue' = Tail(queue)
      /\ children' = Dependents(name)
  BY <1>2 DEF Pop
<1>4. /\ name \in Names /\ name \in ToSet(queue) /\ queue' \in Seq(Names)
      /\ ToSet(queue) = {name} \cup ToSet(queue')
      /\ IsInjective(queue') /\ name \notin ToSet(queue')
  BY <1>1, <1>2, <1>3, HeadTailOnce DEF SortState, Lines
<1>5. name \notin ToSet(sorted)
  BY <1>1, <1>4 DEF SortState, Lines
<1>6. /\ sorted' \in Seq(Names) /\ ToSet(sorted') = ToSet(sorted) \cup {name}
      /\ IsInjective(sorted')
  BY <1>1, <1>3, <1>4, <1>5, AppendNew DEF SortState, Lines
<1>7. Verdicts' /\ Passed' /\ Untouched' /\ Sorting'
  BY <1>1, <1>3, StillPassed DEF Sorting
<1>8. children' \subseteq Entry /\ \A e \in children' : Deps(e[1])[e[2]] = name
  BY <1>3 DEF Dependents
<1>9. TypeOK'
  BY <1>1, <1>3, <1>4, <1>6, <1>8, SameInput DEF TypeOK
<1>10. ASSUME NEW i \in Position PROVE Pending(i)' = Pending(i)
  <2>1. ASSUME NEW k \in DOMAIN Deps(i)
        PROVE  Deps(i)[k] \notin ToSet(sorted') \/ <<i, k>> \in children'
                  <=> Deps(i)[k] \notin ToSet(sorted) \/ <<i, k>> \in children
    <3>1. <<i, k>> \in Entry
      BY DEF Entry
    <3>2. <<i, k>> \in children' <=> Deps(i)[k] = name
      BY <1>3, <3>1 DEF Dependents
    <3>3. QED
      BY <1>1, <1>5, <1>6, <3>2
  <2>2. QED
    BY <1>3, <2>1, PendingNext DEF Pending
<1>11. Counts'
  BY <1>1, <1>3, <1>10, SameInput DEF SortState, Counts
<1>12. \A n : Queued(n)' <=> Queued(n)
  BY <1>4, <1>6 DEF Queued
<1>13. Lines'
  <2>1. \A i \in Position : ~Waiting(i) /\ ~Waiting(i)'
    BY <1>1, <1>3 DEF Waiting
  <2>2. ToSet(sorted') \cap ToSet(queue') = {}
    BY <1>1, <1>4, <1>6 DEF SortState, Lines
  <2>3. \A e \in children' : Deps(e[1])'[e[2]] \in ToSet(sorted')
    BY <1>3, <1>6, <1>8, SameInput
  <2>4. QED
    BY <1>1, <1>3, <1>4, <1>6, <1>10, <1>12, <2>1, <2>2, <2>3, SameInput DEF SortState, Lines
<1>14. DependsOn(name) \subseteq ToSet(sorted)
  <2>1. PICK i \in Position : NameAt(i) = name
    BY <1>4, NameOfSome
  <2>2. Pending(i) = {}
    BY <1>1, <1>4, <2>1 DEF SortState, Lines, Queued
  <2>3. ToSet(Deps(i)) \subseteq ToSet(sorted)
    BY <2>2 DEF Pending, ToSet
  <2>4. QED
    BY <1>1, <2>1, <2>3, UniqueNames
<1>15. /\ Len(sorted) \in Nat /\ DOMAIN sorted = 1..Len(sorted)
       /\ DOMAIN sorted' = 1..(Len(sorted) + 1) /\ sorted'[Len(sorted) + 1] = name
       /\ \A j \in DOMAIN sorted : sorted'[j] = sorted[j]
  BY <1>1, <1>3, <1>4
<1>16. BootsInOrder'
  <2>1. ASSUME NEW j \in DOMAIN sorted'
        PROVE  DependsOn(sorted'[j]) \subseteq {sorted'[l] : l \in 1..(j - 1)}
    <3>1. \A l \in 1..(j - 1) : l \in DOMAIN sorted /\ sorted'[l] = sorted[l]
      BY <1>15
    <3>2. CASE j \in DOMAIN sorted
      BY <1>1, <1>15, <3>1, <3>2 DEF SortState, BootsInOrder
    <3>3. CASE j = Len(sorted) + 1
      BY <1>14, <1>15, <3>1, <3>3 DEF ToSet
    <3>4. QED
      BY <1>15, <3>2, <3>3
  <2>2. QED
    BY <1>3, <2>1, SameInput DEF BootsInOrder
<1>17. AvoidsStuck'
  <2>1. ASSUME NEW S \in SUBSET Names, Stuck(S, Waits), name \in S PROVE FALSE
    <3>1. PICK m \in S : <<name, m>> \in Waits
      BY <2>1 DEF Stuck
    <3>2. PICK i \in Position : NameAt(i) = name /\ m \in ToSet(Deps(i))
      BY <1>1, <3>1, Edges
    <3>3. m \in ToSet(sorted)
      BY <1>1, <1>14, <3>2, UniqueNames
    <3>4. QED
      BY <1>1, <2>1, <3>1, <3>3 DEF SortState, AvoidsStuck
  <2>2. \A S \in SUBSET Names : Stuck(S, Waits) => S \cap ToSet(sorted') = {}
    BY <1>1, <1>6, <2>1 DEF SortState, AvoidsStuck
  <2>3. QED
    BY <1>3, <2>2, StuckKept
<1>18. Roots'
  <2>1. sorted' \o queue' = sorted \o queue
    BY <1>1, <1>2, <1>3, MoveHead
  <2>2. RootsFirst(sorted' \o queue')
    BY <1>1, <2>1 DEF SortState, Roots
  <2>3. QED
    BY <1>3, <2>2, RootsKept
<1>19. Ends'
  BY <1>1, <1>3 DEF Ends, Sorted
<1>20. QED
  BY <1>7, <1>9, <1>11, <1>13, <1>16, <1>17, <1>18, <1>19 DEF IInv, SortInv

(* What does not depend on anything is not among anyone's dependents: a      *)
(* release appends to the roots.                                             *)
LEMMA RootsAppend ==
    ASSUME NEW s \in Seq(Names), NEW n \in Names, RootsFirst(s), DependsOn(n) # {}
    PROVE  RootsFirst(Append(s, n))
<1> DEFINE t == Append(s, n)
<1>1. /\ Len(s) \in Nat /\ DOMAIN s = 1..Len(s) /\ DOMAIN t = 1..(Len(s) + 1)
      /\ t[Len(s) + 1] = n /\ \A i \in DOMAIN s : t[i] = s[i]
  OBVIOUS
<1> HIDE DEF t
<1>2. ASSUME NEW i \in DOMAIN t, NEW j \in DOMAIN t, i < j, DependsOn(t[j]) = {}
      PROVE  DependsOn(t[i]) = {} /\ PositionOf(t[i]) < PositionOf(t[j])
  <2>1. j \in DOMAIN s /\ i \in DOMAIN s
    BY <1>1, <1>2
  <2>2. QED
    BY <1>1, <1>2, <2>1 DEF RootsFirst
<1>3. RootsFirst(t)
  BY <1>2 DEF RootsFirst
<1>4. QED
  BY <1>3 DEF t

(* Releasing one entry: its list pends on one entry less.                    *)
LEMMA ReleaseOne ==
    ASSUME IInv, Release, children # {}, pc' = pc
    PROVE  IInv'
<1>1. /\ TypeOK /\ input \in Inputs /\ Unique /\ result.kind = "none"
      /\ queue \in Seq(Names) /\ sorted \in Seq(Names) /\ SortState /\ Ends
      /\ ~Sorted /\ Sorting /\ pc = "release"
  BY InSort DEF Release, Sorting
<1>2. children \subseteq Entry /\ Entry \subseteq Nat \X Nat
  BY <1>1, Shape DEF TypeOK
<1>3. PICK child : child = Earliest(children)
  OBVIOUS
<1>4. child \in children
  BY <1>2, <1>3, EarliestIsIn
<1>5. PICK i0 \in Position : \E k \in DOMAIN Deps(i0) : child = <<i0, k>>
  BY <1>1, <1>2, <1>4, Shape
<1>6. PICK k0 \in DOMAIN Deps(i0) : child = <<i0, k0>>
  BY <1>5
<1>7. PICK name \in Names : name = NameAt(i0)
  BY <1>1, Shape
<1>8. PICK count : count = Released(indegree[name])
  OBVIOUS
<1>9. /\ input' = input /\ result' = result /\ UNCHANGED <<sorted, todo>> /\ pc' = "release"
      /\ indegree' = [indegree EXCEPT ![name] = count]
      /\ queue' = IF count = 0 THEN Append(queue, name) ELSE queue
      /\ children' = children \ {child}
  <2>1. child[1] = i0
    BY <1>6
  <2>2. QED
    BY <1>1, <1>3, <1>7, <1>8, <2>1 DEF Release
<1>10. Verdicts' /\ Passed' /\ Untouched' /\ Sorting'
  BY <1>1, <1>9, StillPassed DEF Sorting
<1>11. Deps(i0)[k0] \in ToSet(sorted) /\ k0 \in Pending(i0)
  <2>1. Deps(i0)[k0] \in ToSet(sorted)
    BY <1>1, <1>4, <1>6 DEF SortState, Lines
  <2>2. QED
    BY <1>4, <1>6, <2>1 DEF Pending
<1>12. Pending(i0)' = Pending(i0) \ {k0}
  BY <1>4, <1>6, <1>9, <1>11, PendingNext DEF Pending
<1>13. \A i \in Position : i # i0 => Pending(i)' = Pending(i)
  BY <1>6, <1>9, PendingNext DEF Pending
<1>14. /\ indegree[name] = Cardinality(Pending(i0)) /\ indegree[name] \in Nat \ {0}
       /\ Cardinality(Pending(i0)') = indegree[name] - 1
       /\ (Cardinality(Pending(i0)') = 0 <=> Pending(i0)' = {})
  <2>1. IsFiniteSet(Pending(i0)) /\ Cardinality(Pending(i0)) \in Nat
        /\ Cardinality(Pending(i0)) # 0
    BY <1>1, <1>11, PendingFinite
  <2>2. IsFiniteSet(Pending(i0)') /\ Cardinality(Pending(i0)') = Cardinality(Pending(i0)) - 1
    BY <1>11, <1>12, <2>1, FS_RemoveElement
  <2>3. indegree[name] = Cardinality(Pending(i0))
    BY <1>1, <1>7 DEF SortState, Counts
  <2>4. QED
    BY <2>1, <2>2, <2>3, FS_EmptySet
<1>15. count = indegree[name] - 1 /\ count \in Nat /\ (count = 0 <=> Pending(i0)' = {})
  BY <1>8, <1>14 DEF Released
<1>16. \A i \in Position : NameAt(i) = name <=> i = i0
  BY <1>1, <1>7 DEF Unique
<1>17. ~Queued(name)
  BY <1>1, <1>7, <1>11 DEF SortState, Lines
<1>18. Append(queue, name) \in Seq(Names) /\ ToSet(Append(queue, name)) = ToSet(queue) \cup {name}
       /\ IsInjective(Append(queue, name))
  BY <1>1, <1>17, AppendNew DEF SortState, Lines, Queued
<1>19. /\ queue' \in Seq(Names) /\ IsInjective(queue')
       /\ ToSet(queue') = ToSet(queue) \cup (IF count = 0 THEN {name} ELSE {})
  BY <1>1, <1>9, <1>18 DEF SortState, Lines
<1>20. indegree' \in [Names -> Nat] /\ indegree \in [Names -> Nat]
  BY <1>1, <1>9, <1>15 DEF SortState, Counts
<1>21. TypeOK'
  BY <1>1, <1>2, <1>9, <1>19, <1>20, SameInput DEF TypeOK
<1>22. Counts'
  <2>1. ASSUME NEW i \in Position PROVE indegree'[NameAt(i)] = Cardinality(Pending(i)')
    <3>1. CASE i = i0
      BY <1>7, <1>9, <1>14, <1>15, <1>20, <3>1
    <3>2. CASE i # i0
      <4>1. NameAt(i) # name /\ NameAt(i) \in Names
        BY <1>1, <1>16, <3>2, Shape
      <4>2. indegree'[NameAt(i)] = indegree[NameAt(i)]
        BY <1>9, <1>20, <4>1
      <4>3. QED
        BY <1>1, <1>13, <3>2, <4>2 DEF SortState, Counts
    <3>3. QED
      BY <3>1, <3>2
  <2>2. QED
    BY <1>9, <1>20, <2>1, SameInput DEF Counts
<1>23. Lines'
  <2>1. \A i \in Position : ~Waiting(i) /\ ~Waiting(i)'
    BY <1>1, <1>9 DEF Waiting
  <2>2. \A n : Queued(n)' <=> Queued(n) \/ (count = 0 /\ n = name)
    BY <1>9, <1>19 DEF Queued
  <2>3. ASSUME NEW i \in Position PROVE Queued(NameAt(i))' <=> Pending(i)' = {}
    <3>1. CASE i = i0
      BY <1>7, <1>9, <1>15, <1>17, <2>2, <3>1, SameInput
    <3>2. CASE i # i0
      BY <1>1, <1>9, <1>13, <1>16, <2>1, <2>2, <3>2, SameInput DEF SortState, Lines
    <3>3. QED
      BY <3>1, <3>2
  <2>4. ToSet(sorted') \cap ToSet(queue') = {}
    BY <1>1, <1>9, <1>17, <1>19 DEF SortState, Lines, Queued
  <2>5. IsInjective(sorted') /\ \A e \in children' : Deps(e[1])'[e[2]] \in ToSet(sorted')
    BY <1>1, <1>9, SameInput DEF SortState, Lines
  <2>6. QED
    BY <1>9, <1>19, <2>1, <2>3, <2>4, <2>5, SameInput DEF Lines
<1>24. BootsInOrder' /\ AvoidsStuck'
  BY <1>1, <1>9, SameInput DEF SortState, BootsInOrder, AvoidsStuck
<1>25. Roots'
  <2>1. RootsFirst(sorted \o queue) /\ sorted \o queue \in Seq(Names)
    BY <1>1 DEF SortState, Roots
  <2>2. DependsOn(name) # {}
    <3>1. DependsOn(name) = ToSet(Deps(i0))
      BY <1>1, <1>7, UniqueNames
    <3>2. Deps(i0)[k0] \in ToSet(Deps(i0))
      BY DEF ToSet
    <3>3. QED
      BY <3>1, <3>2
  <2>3. RootsFirst(Append(sorted \o queue, name))
    BY <2>1, <2>2, RootsAppend
  <2>4. sorted \o Append(queue, name) = Append(sorted \o queue, name)
    BY <1>1, AppendLine
  <2>5. RootsFirst(sorted' \o queue')
    BY <1>9, <2>1, <2>3, <2>4
  <2>6. QED
    BY <1>9, <2>5, RootsKept
<1>26. Ends'
  BY <1>1, <1>9 DEF Ends, Sorted
<1>27. QED
  BY <1>10, <1>21, <1>22, <1>23, <1>24, <1>25, <1>26 DEF IInv, SortInv

LEMMA KeepsSort ==
    ASSUME SortState, input' = input, UNCHANGED sort, pc # "fill", pc' # "fill",
           pc' = "release" \/ children = {}
    PROVE  SortState' /\ Rest' = Rest
<1>1. UNCHANGED <<indegree, queue, children, sorted>>
  BY DEF sort
<1>2. \A i : Pending(i)' = Pending(i)
  BY <1>1, PendingNext DEF Pending
<1>3. Counts' /\ BootsInOrder' /\ AvoidsStuck' /\ Roots' /\ Rest' = Rest
  <2>1. Counts' /\ BootsInOrder' /\ Rest' = Rest
    BY <1>1, <1>2, SameInput DEF SortState, Counts, BootsInOrder, Rest
  <2>2. AvoidsStuck' /\ Roots'
    BY <1>1, RootsKept, StuckKept DEF SortState, AvoidsStuck, Roots
  <2>3. QED
    BY <2>1, <2>2
<1>4. Lines'
  BY <1>1, <1>2, SameInput DEF SortState, Lines, Waiting, Queued
<1>5. QED
  BY <1>3, <1>4 DEF SortState

LEMMA ReleaseDone ==
    ASSUME IInv, Release, children = {}, pc' = "sort"
    PROVE  IInv'
<1>1. /\ TypeOK /\ input \in Inputs /\ SortState /\ Ends /\ result.kind = "none"
      /\ ~Sorted /\ Sorting /\ pc = "release"
  BY InSort DEF Release, Sorting
<1>2. input' = input /\ result' = result /\ UNCHANGED <<indegree, queue, children, sorted, todo>>
  BY <1>1 DEF Release
<1>3. Verdicts' /\ Passed' /\ Untouched'
  BY <1>1, <1>2, StillPassed DEF Sorting
<1>4. TypeOK'
  BY <1>1, <1>2, SameInput DEF TypeOK
<1>5. SortState'
  BY <1>1, <1>2, KeepsSort DEF sort
<1>6. Ends'
  BY <1>1, <1>2 DEF Ends, Sorted
<1>7. QED
  BY <1>3, <1>4, <1>5, <1>6 DEF IInv, SortInv, SortState

(* The work list is empty: what still pends is what is reported.             *)
LEMMA FinishStep ==
    ASSUME IInv, Finish
    PROVE  IInv'
<1>1. /\ TypeOK /\ input \in Inputs /\ SortState /\ Ends /\ result.kind = "none"
      /\ sorted \in Seq(Names) /\ ~Sorted /\ Sorting /\ pc = "sort" /\ queue = <<>>
      /\ children = {} /\ result.names = <<>>
  BY InSort DEF Finish, Sorting, SortState, Lines, Ends
<1>2. input' = input /\ result' = result /\ UNCHANGED sort /\ pc' \in {"report", "reorder"}
  BY DEF Finish
<1>3. Verdicts' /\ Passed' /\ Untouched'
  BY <1>1, <1>2, StillPassed DEF Sorting
<1>4. SortState' /\ Rest' = Rest
  BY <1>1, <1>2, KeepsSort
<1>5. DOMAIN sorted = 1..Len(sorted) /\ Len(sorted) \in Nat /\ Position = 1..Len(Combined)
  BY <1>1, Shape
<1>6. TypeOK' /\ Ends'
  <2>1. queue' = <<>> /\ sorted' = sorted /\ Combined' = Combined
    BY <1>1, <1>2, SameInput DEF sort
  <2>2. CASE Len(sorted) = Len(Combined) /\ pc' = "reorder" /\ todo' = DOMAIN sorted
    <3>1. TypeOK'
      BY <1>1, <1>2, <1>5, <2>2, SameInput DEF TypeOK, sort
    <3>2. Ends'
      BY <1>1, <1>2, <1>5, <2>1, <2>2 DEF Ends, Sorted
    <3>3. QED
      BY <3>1, <3>2
  <2>3. CASE /\ Len(sorted) # Len(Combined) /\ pc' = "report"
             /\ todo' = {i \in Position : indegree[NameAt(i)] > 0}
    <3>1. TypeOK'
      BY <1>1, <1>2, <2>3, SameInput DEF TypeOK, sort
    <3>2. todo' = Rest
      <4>1. ASSUME NEW i \in Position PROVE indegree[NameAt(i)] > 0 <=> Pending(i) # {}
        <5>1. indegree[NameAt(i)] = Cardinality(Pending(i))
          BY <1>1 DEF SortState, Counts
        <5>2. QED
          BY <1>1, <5>1, PendingFinite
      <4>2. QED
        BY <2>3, <4>1 DEF Rest
    <3>3. ToSet(<<>>) = {} /\ IsInjective(<<>>)
      BY DEF ToSet, IsInjective
    <3>4. Ends'
      BY <1>1, <1>2, <1>4, <2>1, <2>3, <3>2, <3>3 DEF Ends, Sorted
    <3>5. QED
      BY <3>1, <3>4
  <2>4. QED
    BY <2>2, <2>3 DEF Finish
<1>7. QED
  BY <1>2, <1>3, <1>4, <1>6 DEF IInv, SortInv, SortState

(* The loops that return the names share their last turn.                    *)
LEMMA ReturnsSorted ==
    ASSUME IInv, pc \in {"report", "reorder"}, NEW kind \in {"Ok", "DependencyCycle"},
           Return(kind, result.names), Ends'
    PROVE  IInv'
<1>1. /\ TypeOK /\ input \in Inputs /\ SortState /\ Sorting /\ children = {}
      /\ result.names \in Seq(Names)
  BY InSort DEF Sorting, SortState, Lines
<1>2. /\ result' = [kind |-> kind, names |-> result.names] /\ pc' = "done" /\ input' = input
      /\ UNCHANGED sort /\ todo' = todo
  BY DEF Return
<1>3. Sorted' /\ ~Sorting'
  BY <1>2 DEF Sorted, Sorting
<1>4. input.named /\ NoReserved /\ Unique /\ Declared
  BY <1>1 DEF IInv, Passed, Sorting
<1>5. Verdicts' /\ Passed' /\ Untouched'
  BY <1>2, <1>3, <1>4, SameInput DEF Verdicts, Passed, Untouched, Verdict
<1>6. TypeOK'
  <2>1. result' \in [kind : Verdict \cup {"none"}, names : Seq(Names)]
    BY <1>1, <1>2 DEF Verdict
  <2>2. QED
    BY <1>1, <1>2, <2>1, SameInput DEF TypeOK, sort
<1>7. SortState'
  BY <1>1, <1>2, KeepsSort
<1>8. QED
  BY <1>5, <1>6, <1>7 DEF IInv, SortInv, SortState

(* A turn that collects a name touches nothing of the sort.                  *)
LEMMA Collects ==
    ASSUME IInv, pc \in {"report", "reorder"}, NEW names \in Seq(Names),
           result' = [result EXCEPT !.names = names], UNCHANGED <<input, pc, sort>>,
           todo' \subseteq todo, Ends'
    PROVE  IInv'
<1>1. /\ TypeOK /\ input \in Inputs /\ SortState /\ Sorting /\ children = {}
      /\ result.kind = "none"
  BY InSort DEF Sorting, SortState, Lines
<1>2. /\ result' \in [kind : Verdict \cup {"none"}, names : Seq(Names)]
      /\ result'.kind = "none"
  BY <1>1 DEF TypeOK
<1>3. TypeOK'
  BY <1>1, <1>2, SameInput DEF TypeOK, sort
<1>4. Verdicts' /\ Passed' /\ Untouched'
  BY <1>1, <1>2, StillPassed DEF Sorting
<1>5. SortState'
  BY <1>1, KeepsSort
<1>6. QED
  BY <1>3, <1>4, <1>5 DEF IInv, SortInv, SortState

LEMMA ReportStep ==
    ASSUME IInv, Report
    PROVE  IInv'
<1>1. /\ TypeOK /\ input \in Inputs /\ SortState /\ Ends /\ result.kind = "none" /\ Unique
      /\ result.names \in Seq(Names) /\ Sorting /\ ~Sorted /\ pc = "report" /\ queue = <<>>
      /\ children = {}
  BY InSort DEF Report, Sorting, SortState, Lines, Ends
<1>2. /\ todo \subseteq Rest /\ IsInjective(result.names) /\ Len(sorted) # Len(Combined)
      /\ ToSet(result.names) = {NameAt(i) : i \in Rest \ todo}
  BY <1>1 DEF Ends
<1>3. Rest \subseteq Position /\ Position \subseteq Nat
  BY <1>1, Shape DEF Rest
<1>4. CASE todo = {} /\ Return("DependencyCycle", result.names)
  <2>1. /\ UNCHANGED sort /\ input' = input /\ pc' = "done" /\ result'.names = result.names
        /\ result'.kind = "DependencyCycle"
    BY <1>4 DEF Return
  <2>2. Rest' = Rest /\ queue' = <<>> /\ sorted' = sorted /\ Combined' = Combined
    BY <1>1, <2>1, KeepsSort, SameInput DEF sort
  <2>3. \A i : NameAt(i)' = NameAt(i)
    BY <2>1, SameInput
  <2>4. Ends'
    BY <1>2, <1>4, <2>1, <2>2, <2>3 DEF Ends
  <2>5. QED
    BY <1>1, <1>4, <2>4, ReturnsSorted
<1>5. CASE todo # {}
  <2> DEFINE i0 == First(todo)
             names == Append(result.names, NameAt(i0))
  <2>1. /\ result' = [result EXCEPT !.names = names] /\ todo' = todo \ {i0}
        /\ UNCHANGED <<input, pc, sort>>
    BY <1>5 DEF Report, Collect
  <2>2. i0 \in todo /\ i0 \in Position
    BY <1>2, <1>3, <1>5, FirstIsLeast
  <2>3. NameAt(i0) \in Names /\ NameAt(i0) \notin ToSet(result.names)
    BY <1>1, <1>2, <1>3, <2>2, Shape DEF Unique
  <2>4. /\ names \in Seq(Names) /\ IsInjective(names)
        /\ ToSet(names) = ToSet(result.names) \cup {NameAt(i0)}
    BY <1>1, <1>2, <2>3, AppendNew
  <2> HIDE DEF i0, names
  <2>5. ToSet(names) = {NameAt(i) : i \in Rest \ todo'}
    BY <1>2, <2>1, <2>2, <2>4
  <2>6. Rest' = Rest /\ queue' = <<>> /\ sorted' = sorted /\ Combined' = Combined
    BY <1>1, <2>1, KeepsSort, SameInput DEF sort
  <2>7. /\ result'.names = names /\ result'.kind = "none" /\ pc' = "report"
        /\ \A i : NameAt(i)' = NameAt(i)
    BY <1>1, <2>1, SameInput DEF TypeOK
  <2>8. Ends'
    BY <1>2, <2>1, <2>4, <2>5, <2>6, <2>7 DEF Ends, Sorted
  <2>9. QED
    BY <1>1, <2>1, <2>4, <2>8, Collects
<1>6. QED
  BY <1>4, <1>5 DEF Report, Collect

(* No name comes up again, so that the reordered list is the sorted one.     *)
LEMMA ReorderStep ==
    ASSUME IInv, Reorder
    PROVE  IInv'
<1>1. /\ TypeOK /\ input \in Inputs /\ SortState /\ Ends /\ result.kind = "none"
      /\ result.names \in Seq(Names) /\ sorted \in Seq(Names) /\ Sorting /\ ~Sorted
      /\ pc = "reorder" /\ queue = <<>> /\ children = {}
  BY InSort DEF Reorder, Sorting, SortState, Lines, Ends
<1>2. /\ Len(sorted) = Len(Combined) /\ Len(result.names) <= Len(sorted)
      /\ \A l \in DOMAIN result.names : result.names[l] = sorted[l]
      /\ todo = (Len(result.names) + 1)..Len(sorted)
  BY <1>1 DEF Ends
<1>3. /\ Len(sorted) \in Nat /\ DOMAIN sorted = 1..Len(sorted)
      /\ Len(result.names) \in Nat /\ DOMAIN result.names = 1..Len(result.names)
  BY <1>1
<1>4. CASE todo = {} /\ Return("Ok", result.names)
  <2>1. /\ UNCHANGED sort /\ input' = input /\ pc' = "done" /\ result'.names = result.names
        /\ result'.kind = "Ok"
    BY <1>4 DEF Return
  <2>2. queue' = <<>> /\ sorted' = sorted /\ Combined' = Combined
    BY <1>1, <2>1, SameInput DEF sort
  <2>3. Len(result.names) = Len(sorted)
    BY <1>2, <1>3, <1>4
  <2>4. Ends'
    BY <1>2, <2>1, <2>2, <2>3 DEF Ends
  <2>5. QED
    BY <1>1, <1>4, <2>4, ReturnsSorted
<1>5. CASE todo # {}
  <2> DEFINE l0 == Len(result.names) + 1
             names == Append(result.names, sorted[l0])
  <2>1. l0 \in todo /\ l0 \in 1..Len(sorted) /\ First(todo) = l0
    <3>1. l0 \in todo /\ l0 \in 1..Len(sorted) /\ todo \in SUBSET Nat /\ \A l \in todo : l0 <= l
      BY <1>2, <1>3, <1>5
    <3>2. First(todo) \in todo /\ First(todo) <= l0
      BY <1>5, <3>1, FirstIsLeast
    <3>3. l0 <= First(todo) /\ First(todo) \in Nat /\ l0 \in Nat
      BY <3>1, <3>2
    <3> HIDE DEF l0
    <3>4. QED
      BY <3>1, <3>2, <3>3
  <2>2. sorted[l0] \in Names /\ sorted[l0] \notin ToSet(result.names)
    <3>1. sorted[l0] \in Names
      BY <1>1, <2>1
    <3>2. \A l \in DOMAIN result.names : l \in DOMAIN sorted /\ l # l0 /\ l0 \in DOMAIN sorted
      BY <1>2, <1>3, <2>1
    <3>3. QED
      BY <1>1, <1>2, <3>1, <3>2 DEF ToSet, SortState, Lines, IsInjective
  <2>3. /\ result' = [result EXCEPT !.names = names] /\ todo' = todo \ {l0}
        /\ UNCHANGED <<input, pc, sort>>
    BY <1>5, <2>1, <2>2 DEF Reorder, Collect
  <2>4. /\ names \in Seq(Names) /\ Len(names) = l0 /\ DOMAIN names = 1..l0
        /\ \A l \in DOMAIN names : names[l] = sorted[l]
    BY <1>1, <1>2, <1>3, <2>2
  <2>5. todo' = (l0 + 1)..Len(sorted)
    BY <1>2, <1>3, <2>1, <2>3
  <2>6. l0 <= Len(sorted)
    BY <2>1
  <2> HIDE DEF l0, names
  <2>7. queue' = <<>> /\ sorted' = sorted /\ Combined' = Combined
    BY <1>1, <2>3, SameInput DEF sort
  <2>8. result'.names = names /\ result'.kind = "none" /\ pc' = "reorder"
    BY <1>1, <2>3 DEF TypeOK
  <2>9. Ends'
    BY <1>2, <2>4, <2>5, <2>6, <2>7, <2>8 DEF Ends, Sorted
  <2>10. QED
    BY <1>1, <2>3, <2>4, <2>9, Collects
<1>6. QED
  BY <1>4, <1>5 DEF Reorder, Collect

-----------------------------------------------------------------------------
LEMMA NextIInv == IInv /\ [Next]_vars => IInv'
<1> SUFFICES ASSUME IInv, [Next]_vars PROVE IInv'
  OBVIOUS
<1>1. CASE CheckName \/ CheckReserved \/ CheckDuplicate \/ CheckMissing
  BY <1>1, CheckStep
<1>2. CASE Seed
  BY <1>2, SeedStep
<1>3. CASE Fill
  BY <1>3, FillStep
<1>4. CASE Pop
  BY <1>4, PopStep
<1>5. CASE Release
  <2>1. (children # {} /\ pc' = pc) \/ (children = {} /\ pc' = "sort")
    BY <1>5 DEF Release
  <2>2. QED
    BY <1>5, <2>1, ReleaseOne, ReleaseDone
<1>6. CASE Finish
  BY <1>6, FinishStep
<1>7. CASE Report
  BY <1>7, ReportStep
<1>8. CASE Reorder
  BY <1>8, ReorderStep
<1>9. CASE UNCHANGED vars
  <2>1. UNCHANGED <<input, pc, indegree, queue, children, sorted, todo, result>>
    BY <1>9 DEF vars
  <2>2. TypeOK' /\ Verdicts' /\ Passed' /\ Untouched' /\ (Sorting' \/ Sorted' <=> Sorting \/ Sorted)
    BY <2>1, SameInput DEF IInv, TypeOK, Verdicts, Passed, Untouched, Sorting, Sorted
  <2>3. \A i : Pending(i)' = Pending(i)
    BY <2>1, PendingNext DEF Pending
  <2>4. ASSUME SortInv PROVE SortInv'
    <3>1. Counts' /\ BootsInOrder' /\ Lines' /\ Rest' = Rest
      BY <2>1, <2>3, <2>4, SameInput
         DEF SortInv, Counts, BootsInOrder, Lines, Rest, Waiting, Queued
    <3>2. AvoidsStuck'
      BY <2>1, <2>4, StuckKept DEF SortInv, AvoidsStuck
    <3>3. Roots'
      <4>1. RootsFirst(sorted' \o queue')
        BY <2>1, <2>4 DEF SortInv, Roots
      <4>2. RootsFirst(sorted \o queue)'
        BY <2>1, <4>1, RootsNext
      <4>3. QED
        BY <2>1, <2>4, <4>2, SameInput DEF SortInv, Roots
    <3>4. Ends'
      BY <2>1, <2>4, <3>1, SameInput DEF SortInv, Ends, Sorted
    <3>5. QED
      BY <3>1, <3>2, <3>3, <3>4 DEF SortInv
  <2>5. QED
    BY <2>2, <2>4 DEF IInv
<1>10. QED
  BY <1>1, <1>2, <1>3, <1>4, <1>5, <1>6, <1>7, <1>8, <1>9 DEF Next, Built

THEOREM Invariance == Spec => []IInv
BY InitIInv, NextIInv, PTL DEF Spec

(* Type correctness of build()'s loops, for every configuration: the counts  *)
(* of topo_sort never go below zero and its lists hold only registered names.*)
THEOREM TypeCorrect == Spec => []TypeOK
<1>1. IInv => TypeOK
  BY DEF IInv
<1>2. QED
  BY <1>1, Invariance, PTL

(* The order that build() accepts boots every registered subsystem exactly   *)
(* once and none before what it depends on, and the roots first in the order *)
(* of their registration: for any number of subsystems and any dependency    *)
(* lists, however often they repeat a name.                                  *)
THEOREM BootOrderProved == Spec => []BootOrderSound
<1>1. IInv => BootOrderSound
  <2> SUFFICES ASSUME IInv, result.kind = "Ok" PROVE BootOrderSound
    BY DEF BootOrderSound
  <2>1. /\ TypeOK /\ input \in Inputs /\ Sorted /\ SortInv /\ Unique
        /\ sorted \in Seq(Names) /\ result.names \in Seq(Names)
    BY DEF IInv, TypeOK, Sorted, Passed
  <2>2. queue = <<>> /\ Len(sorted) = Len(Combined) /\ result.names = sorted
    <3>1. /\ Len(result.names) = Len(sorted)
          /\ \A l \in DOMAIN result.names : result.names[l] = sorted[l]
      BY <2>1 DEF SortInv, Ends
    <3>2. QED
      BY <2>1, <3>1 DEF SortInv, Ends
  <2>3. IsInjective(sorted) /\ ToSet(sorted) = Names
    BY <2>1, <2>2, LengthTells DEF SortInv, Lines
  <2>4. \A i \in DOMAIN sorted : DependsOn(sorted[i]) \subseteq {sorted[j] : j \in 1..(i - 1)}
    BY <2>1 DEF SortInv, BootsInOrder
  <2>5. RootsFirst(sorted)
    <3>1. sorted \o queue = sorted
      BY <2>1, <2>2
    <3>2. QED
      BY <2>1, <3>1 DEF SortInv, Roots
  <2>6. QED
    BY <2>2, <2>3, <2>4, <2>5 DEF BootOrderSound
<1>2. QED
  BY <1>1, Invariance, PTL

(* When the work list has run dry, what still pends is what cannot boot.     *)
LEMMA RestCannotBoot ==
    ASSUME input \in Inputs, Declared, Unique, SortInv, queue = <<>>, children = {}, pc # "fill"
    PROVE  Unbootable = {NameAt(i) : i \in Rest}
<1> DEFINE R == {NameAt(i) : i \in Rest}
<1>1. \A i \in Position : i \in Rest <=> NameAt(i) \notin ToSet(sorted)
  <2>1. ToSet(queue) = {}
    BY DEF ToSet
  <2>2. QED
    BY <2>1 DEF SortInv, Lines, Waiting, Queued, Rest
<1>2. R \in SUBSET Names /\ Stuck(R, Waits)
  <2>1. R \subseteq Names
    BY Shape DEF Rest
  <2>2. ASSUME NEW n \in R PROVE \E m \in R : <<n, m>> \in Waits
    <3>1. PICK i \in Rest : n = NameAt(i)
      OBVIOUS
    <3>2. i \in Position /\ Pending(i) # {}
      BY DEF Rest
    <3>3. PICK k \in DOMAIN Deps(i) : Deps(i)[k] \notin ToSet(sorted)
      BY <3>2 DEF Pending
    <3>4. Deps(i)[k] \in ToSet(Deps(i))
      BY DEF ToSet
    <3>5. PICK j \in Position : NameAt(j) = Deps(i)[k]
      BY <3>2, <3>4, NameOfSome DEF Declared
    <3>6. Deps(i)[k] \in R
      BY <1>1, <3>3, <3>5
    <3>7. QED
      BY <3>1, <3>2, <3>4, <3>6, Edges
  <2>3. QED
    BY <2>1, <2>2 DEF Stuck
<1>3. ASSUME NEW S \in SUBSET Names, Stuck(S, Waits) PROVE S \subseteq R
  <2>1. ASSUME NEW n \in S PROVE n \in R
    <3>1. n \notin ToSet(sorted)
      BY <1>3 DEF SortInv, AvoidsStuck
    <3>2. PICK i \in Position : NameAt(i) = n
      BY NameOfSome
    <3>3. QED
      BY <1>1, <3>1, <3>2
  <2>2. QED
    BY <2>1
<1> HIDE DEF R
<1>4. Unbootable = R
  BY <1>2, <1>3 DEF Unbootable
<1>5. QED
  BY <1>4 DEF R

(* The verdict of build() is the right one for every configuration: it       *)
(* accepts exactly those without a documented error, and a cycle's report    *)
(* names every subsystem that the cycle keeps from booting and no other.     *)
THEOREM VerdictProved == Spec => []VerdictExact
<1>1. ASSUME IInv, Sorted
      PROVE  /\ input.named /\ NoReserved /\ Declared /\ Unique
             /\ Unbootable = {NameAt(i) : i \in Rest}
             /\ result.kind = "Ok" <=> Rest = {}
             /\ result.kind = "DependencyCycle" =>
                   ToSet(result.names) = Unbootable /\ IsInjective(result.names)
  <2>1. /\ input \in Inputs /\ SortInv /\ sorted \in Seq(Names) /\ pc = "done"
        /\ input.named /\ NoReserved /\ Unique /\ Declared /\ queue = <<>> /\ children = {}
    BY <1>1 DEF IInv, TypeOK, Sorted, Passed, SortInv, Ends, Lines, Verdicts
  <2>2. Unbootable = {NameAt(i) : i \in Rest}
    BY <2>1, RestCannotBoot
  <2>3. Len(sorted) = Len(Combined) <=> ToSet(sorted) = Names
    BY <2>1, LengthTells DEF SortInv, Lines
  <2>4. ToSet(sorted) = Names <=> Rest = {}
    <3>1. ToSet(queue) = {}
      BY <2>1 DEF ToSet
    <3>2. \A i \in Position : i \in Rest <=> NameAt(i) \notin ToSet(sorted)
      BY <2>1, <3>1 DEF SortInv, Lines, Waiting, Queued, Rest
    <3>3. ToSet(sorted) \subseteq Names
      BY <2>1 DEF ToSet
    <3>4. QED
      BY <3>2, <3>3 DEF Names, Rest
  <2>5. result.kind = "Ok" <=> Rest = {}
    BY <1>1, <2>1, <2>3, <2>4 DEF Sorted, SortInv, Ends
  <2>6. QED
    BY <2>1, <2>2, <2>5 DEF SortInv, Ends
<1>2. ASSUME IInv PROVE CycleReported
  <2>1. CASE result.kind = "DependencyCycle"
    <3>1. Rest # {}
      BY <1>1, <1>2, <2>1 DEF Sorted
    <3>2. QED
      BY <1>1, <1>2, <2>1, <3>1 DEF CycleReported, Sorted
  <2>2. QED
    BY <2>1 DEF CycleReported
<1>3. ASSUME IInv PROVE AcceptsExactlyValid
  <2> SUFFICES ASSUME pc = "done" PROVE AcceptsExactlyValid
    BY DEF AcceptsExactlyValid
  <2>1. /\ input \in Inputs /\ Verdicts /\ result.kind \in Verdict
    BY <1>3 DEF IInv, TypeOK, Verdicts
  <2>2. /\ input.consumer \in Seq(Registered) /\ Builtins \in Seq(Registered)
        /\ Position = 1..(Len(Builtins) + Len(input.consumer))
        /\ \A i \in 1..Len(input.consumer) :
              NameAt(Len(Builtins) + i) = input.consumer[i].name
    BY <2>1, BuilderAssumption DEF Position, NameAt, Combined
  <2>3. NoReserved <=> \A i \in DOMAIN input.consumer : input.consumer[i].name \notin Builtin
    <3>1. /\ Len(Builtins) \in Nat /\ Len(input.consumer) \in Nat
          /\ DOMAIN input.consumer = 1..Len(input.consumer)
      BY <2>2
    <3>2. ASSUME NoReserved, NEW i \in DOMAIN input.consumer
          PROVE  input.consumer[i].name \notin Builtin
      <4>1. Len(Builtins) + i \in Position /\ Len(Builtins) + i > Len(Builtins)
        BY <2>2, <3>1
      <4>2. QED
        BY <2>2, <3>1, <3>2, <4>1 DEF NoReserved
    <3>3. ASSUME \A i \in DOMAIN input.consumer : input.consumer[i].name \notin Builtin,
                 NEW i \in Position, i > Len(Builtins)
          PROVE  NameAt(i) \notin Builtin
      <4>1. i - Len(Builtins) \in 1..Len(input.consumer) /\ Len(Builtins) + (i - Len(Builtins)) = i
        BY <2>2, <3>1, <3>3
      <4>2. QED
        BY <2>2, <3>1, <3>3, <4>1
    <3>4. QED
      BY <3>2, <3>3 DEF NoReserved
  <2>4. Unique <=> IsInjective(AllNames)
    BY DEF Unique, IsInjective, AllNames
  <2>5. Declared <=> \A n \in Names : DependsOn(n) \subseteq Names
    BY DEF Declared, DependsOn, Names
  <2>6. CASE Sorted
    <3>1. Rest = {} <=> Unbootable = {}
      BY <1>1, <1>3, <2>6
    <3>2. QED
      BY <1>1, <1>3, <2>3, <2>4, <2>5, <2>6, <3>1 DEF AcceptsExactlyValid
  <2>7. CASE ~Sorted
    BY <2>1, <2>3, <2>4, <2>5, <2>7 DEF AcceptsExactlyValid, Verdicts, Verdict, Sorted
  <2>8. QED
    BY <2>6, <2>7
<1>4. IInv => VerdictExact
  BY <1>2, <1>3 DEF VerdictExact
<1>5. QED
  BY <1>4, Invariance, PTL

=============================================================================
