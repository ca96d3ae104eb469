------------------------------- MODULE Counting -------------------------------
(***************************************************************************)
(* What the proofs about counters and sums rest on: induction over the     *)
(* naturals and over finite sets, recursive functions, sums over finite    *)
(* sets, and how many multisets of a size there are.                       *)
(*                                                                         *)
(* Induction is stated for a set, the set of the numbers (or of the        *)
(* subsets) for which a fact holds, and not for a predicate: a set is a    *)
(* value, which every prover can put in for a variable of a lemma.         *)
(***************************************************************************)
EXTENDS Integers, FiniteSets, FiniteSetsExt, Combinatorics,
        FiniteSetTheorems, WellFoundedInduction, TLAPS

\* A set of naturals with 0 in it, and each successor of a member, is all of
\* them: a smallest missing number would be the successor of one that is there.
LEMMA NatSetInduction ==
    ASSUME NEW S \in SUBSET Nat, 0 \in S, \A n \in S : n + 1 \in S
    PROVE  S = Nat
  <1> DEFINE Missing == Nat \ S
             Less == OpToRel(<, Nat)
  <1> SUFFICES ASSUME Missing # {}
               PROVE  FALSE
    OBVIOUS
  <1>1. IsWellFoundedOn(Less, Nat)
    BY NatLessThanWellFounded, Zenon
  <1>2. Less = {p \in Nat \X Nat : p[1] < p[2]}
    BY Zenon DEF OpToRel
  <1>3. Missing \subseteq Nat
    OBVIOUS
  <1> HIDE DEF Less
  <1>4. PICK x \in Missing : \A y \in Missing : ~(<<y, x>> \in Less)
    <2> HIDE DEF Missing
    <2>1. QED
      BY <1>1, <1>3, WFMin
  <1>5. x # 0 /\ \A y \in Missing : ~(y < x)
    BY <1>2, <1>4
  <1>6. x - 1 \in S
    BY <1>5
  <1>7. (x - 1) + 1 \in S
    BY <1>6
  <1>8. QED
    BY <1>7

\* The same for the subsets of a finite set: start from the empty one, and add
\* elements one by one.
LEMMA SubsetInduction ==
    ASSUME NEW S, IsFiniteSet(S), NEW G, {} \in G,
           \A T \in SUBSET S, x \in S : T \in G /\ x \notin T => T \cup {x} \in G
    PROVE  SUBSET S \subseteq G
  <1> DEFINE N == {n \in Nat : \A T \in SUBSET S : Cardinality(T) = n => T \in G}
  <1>1. \A T \in SUBSET S : IsFiniteSet(T) /\ Cardinality(T) \in Nat
    BY FS_Subset, FS_CardinalityType
  <1>2. 0 \in N
    BY <1>1, FS_EmptySet
  <1>3. ASSUME NEW n \in N
        PROVE  n + 1 \in N
    <2> SUFFICES ASSUME NEW T \in SUBSET S, Cardinality(T) = n + 1
                 PROVE  T \in G
      OBVIOUS
    <2>1. T # {}
      <3>1. n \in Nat /\ Cardinality({}) = 0 /\ 0 # n + 1
        BY FS_EmptySet
      <3>2. T = {} => Cardinality(T) = Cardinality({})
        OBVIOUS
      <3>3. QED
        BY <3>1, <3>2
    <2>2. PICK x \in T : TRUE
      BY <2>1
    <2>3. Cardinality(T \ {x}) = n
      BY <1>1, FS_RemoveElement
    <2>4. T \ {x} \in G /\ x \notin T \ {x} /\ (T \ {x}) \cup {x} = T
      BY <2>3
    <2>5. QED
      BY <2>4
  <1>4. N = Nat
    <2> HIDE DEF N
    <2>1. N \in SUBSET Nat
      BY DEF N
    <2>2. QED
      BY <1>2, <1>3, <2>1, NatSetInduction
  <1>5. QED
    BY <1>1, <1>4

\* A recursive definition of a function from A to V, as the step Phi from what
\* is known of it to what follows: the value that Phi gives to x depends only on
\* the values of what has a lower rank than x.
Recursive(A, V, rank, Phi) ==
    /\ rank \in [A -> Nat] /\ Phi \in [[A -> V] -> [A -> V]]
    /\ V # {}
    /\ \A g, h \in [A -> V], x \in A :
          (\A y \in A : rank[y] < rank[x] => g[y] = h[y]) => Phi[g][x] = Phi[h][x]

\* It has a solution.
LEMMA RankRecursion ==
    ASSUME NEW A, NEW V, NEW rank, NEW Phi, Recursive(A, V, rank, Phi)
    PROVE  \E f \in [A -> V] : f = Phi[f]
  <1> PICK start \in [A -> V] : TRUE
    <2>1. PICK v \in V : TRUE
      BY DEF Recursive
    <2>2. [x \in A |-> v] \in [A -> V]
      OBVIOUS
    <2>3. QED
      BY <2>2
  <1> USE DEF Recursive
  <1> DEFINE Upto(h, n) == \A x \in A : rank[x] <= n => h[x] = Phi[h][x]
             Solved == {n \in Nat : \E h \in [A -> V] : Upto(h, n)}
             Unique == {n \in Nat : \A g, h \in [A -> V] :
                           Upto(g, n) /\ Upto(h, n) =>
                              \A x \in A : rank[x] <= n => g[x] = h[x]}
  <1>1. \A x \in A : rank[x] \in Nat
    OBVIOUS
  <1>2. Solved = Nat
    <2>1. 0 \in Solved
      <3>1. Phi[start] \in [A -> V]
        OBVIOUS
      <3>2. \A x \in A : rank[x] <= 0 => \A y \in A : ~(rank[y] < rank[x])
        BY <1>1
      <3>3. Upto(Phi[start], 0)
        BY <3>1, <3>2
      <3>4. QED
        BY <3>1, <3>3
    <2>2. ASSUME NEW n \in Solved
          PROVE  n + 1 \in Solved
      <3>1. PICK h \in [A -> V] : Upto(h, n)
        OBVIOUS
      <3>2. Phi[h] \in [A -> V]
        OBVIOUS
      <3>3. ASSUME NEW x \in A, rank[x] <= n + 1
            PROVE  Phi[h][x] = Phi[Phi[h]][x]
        <4>1. \A y \in A : rank[y] < rank[x] => h[y] = Phi[h][y]
          BY <1>1, <3>1, <3>3
        <4>2. QED
          BY <3>2, <4>1
      <3>4. QED
        BY <3>2, <3>3
    <2>3. QED
      <3> HIDE DEF Solved
      <3>1. Solved \in SUBSET Nat
        BY DEF Solved
      <3>2. QED
        BY <2>1, <2>2, <3>1, NatSetInduction
  <1>3. Unique = Nat
    <2>1. 0 \in Unique
      <3>1. \A x \in A : rank[x] <= 0 => \A y \in A : ~(rank[y] < rank[x])
        BY <1>1
      <3>2. QED
        BY <3>1
    <2>2. ASSUME NEW n \in Unique
          PROVE  n + 1 \in Unique
      <3> SUFFICES ASSUME NEW g \in [A -> V], NEW h \in [A -> V],
                          Upto(g, n + 1), Upto(h, n + 1), NEW x \in A, rank[x] <= n + 1
                   PROVE  g[x] = h[x]
        OBVIOUS
      <3>1. \A y \in A : rank[y] <= n => rank[y] <= n + 1
        BY <1>1
      <3>2. Upto(g, n) /\ Upto(h, n)
        BY <3>1
      <3>3. \A y \in A : rank[y] < rank[x] => g[y] = h[y]
        BY <1>1, <3>2
      <3>4. QED
        BY <3>3
    <2>3. QED
      <3> HIDE DEF Unique
      <3>1. Unique \in SUBSET Nat
        BY DEF Unique
      <3>2. QED
        BY <2>1, <2>2, <3>1, NatSetInduction
  <1> DEFINE sol == [n \in Nat |-> CHOOSE h \in [A -> V] : Upto(h, n)]
             f == [x \in A |-> sol[rank[x]][x]]
  <1>4. \A n \in Nat : sol[n] \in [A -> V] /\ Upto(sol[n], n)
    BY <1>2
  <1>5. f \in [A -> V]
    <2> HIDE DEF sol
    <2>1. QED
      BY <1>1, <1>4
  <1>6. ASSUME NEW x \in A, NEW y \in A, rank[y] <= rank[x]
        PROVE  f[y] = sol[rank[x]][y]
    <2>1. rank[x] \in Nat /\ rank[y] \in Nat
      BY <1>1
    <2>2. Upto(sol[rank[x]], rank[y])
      <3> HIDE DEF sol
      <3>1. \A z \in A : rank[z] <= rank[y] => rank[z] <= rank[x]
        BY <1>1, <1>6, <2>1
      <3>2. QED
        BY <1>4, <2>1, <3>1
    <2>3. QED
      <3> HIDE DEF sol, Upto
      <3>1. \A g, h \in [A -> V] :
               Upto(g, rank[y]) /\ Upto(h, rank[y]) => g[y] = h[y]
        <4>1. rank[y] \in Unique /\ rank[y] <= rank[y]
          BY <1>3, <2>1
        <4> HIDE DEF Recursive
        <4>2. QED
          BY <4>1
      <3>2. QED
        BY <1>4, <2>1, <2>2, <3>1
  <1>7. ASSUME NEW x \in A
        PROVE  f[x] = Phi[f][x]
    <2> HIDE DEF f, sol
    <2>1. PICK h \in [A -> V] : h = sol[rank[x]]
      BY <1>1, <1>4
    <2>2. \A y \in A : rank[y] <= rank[x] => f[y] = h[y]
      BY <1>6, <2>1
    <2>3. \A y \in A : rank[y] < rank[x] => f[y] = h[y]
      BY <1>1, <2>2
    <2>4. Phi[f][x] = Phi[h][x]
      BY <1>5, <2>3
    <2>5. h[x] = Phi[h][x]
      BY <1>1, <1>4, <2>1
    <2>6. QED
      BY <1>1, <2>2, <2>4, <2>5
  <1>8. QED
    <2> HIDE DEF f
    <2>1. f = Phi[f]
      BY <1>5, <1>7
    <2>2. QED
      BY <1>5, <2>1
-----------------------------------------------------------------------------
(***************************************************************************)
(* Sums over finite sets.                                                  *)
(***************************************************************************)
SumOver(f, S) == MapThenSumSet(LAMBDA x : f[x], S)

Summable(f, S) == IsFiniteSet(S) /\ \A x \in S : f[x] \in Nat

\* g is the function the definition of the sum recurs on.
First(T) == CHOOSE x \in T : TRUE

Adds(g, f, S) ==
    g = [T \in SUBSET S |->
            IF T = {} THEN 0 ELSE f[First(T)] + g[T \ {First(T)}]]

LEMMA FirstElement ==
    ASSUME NEW S, IsFiniteSet(S), NEW T \in SUBSET S, T # {}
    PROVE  /\ First(T) \in T /\ First(T) \in S
           /\ T \ {First(T)} \in SUBSET S
           /\ Cardinality(T) \in Nat /\ Cardinality(T \ {First(T)}) \in Nat
           /\ Cardinality(T) = Cardinality(T \ {First(T)}) + 1
  <1>1. IsFiniteSet(T) /\ First(T) \in T
    BY FS_Subset DEF First
  <1>2. IsFiniteSet(T \ {First(T)})
    BY <1>1, FS_RemoveElement
  <1>3. Cardinality(T) \in Nat /\ Cardinality(T \ {First(T)}) \in Nat
    BY <1>1, <1>2, FS_CardinalityType
  <1>4. Cardinality(T \ {First(T)}) = Cardinality(T) - 1
    BY <1>1, FS_RemoveElement
  <1>5. QED
    BY <1>1, <1>3, <1>4

\* The recursion of a sum has a solution, over all subsets of a set at once.
LEMMA SumSolution ==
    ASSUME NEW S, NEW f, Summable(f, S)
    PROVE  \E g \in [SUBSET S -> Nat] : Adds(g, f, S)
  <1> USE DEF Summable
  <1> DEFINE A == SUBSET S
             rank == [T \in A |-> Cardinality(T)]
             Step(g, T) == IF T = {} THEN 0 ELSE f[First(T)] + g[T \ {First(T)}]
             Phi == [g \in [A -> Nat] |-> [T \in A |-> Step(g, T)]]
  <1>1. rank \in [A -> Nat]
    BY FS_Subset, FS_CardinalityType
  <1>3. ASSUME NEW g \in [A -> Nat], NEW T \in A
        PROVE  Step(g, T) \in Nat
    <2>1. CASE T = {}
      BY <2>1
    <2>2. CASE T # {}
      <3>1. First(T) \in S /\ T \ {First(T)} \in A
        BY <2>2, FirstElement
      <3>2. f[First(T)] \in Nat /\ g[T \ {First(T)}] \in Nat
        BY <3>1
      <3>3. QED
        BY <2>2, <3>2
    <2>3. QED
      BY <2>1, <2>2
  <1>4. Phi \in [[A -> Nat] -> [A -> Nat]]
    <2> HIDE DEF Step
    <2>1. QED
      BY <1>3
  <1>5. ASSUME NEW g \in [A -> Nat], NEW h \in [A -> Nat], NEW T \in A,
               \A U \in A : rank[U] < rank[T] => g[U] = h[U]
        PROVE  Phi[g][T] = Phi[h][T]
    <2>1. CASE T = {}
      BY <2>1
    <2>2. CASE T # {}
      <3>1. rank[T \ {First(T)}] < rank[T] /\ T \ {First(T)} \in A
        BY <2>2, FirstElement
      <3>2. QED
        BY <1>5, <2>2, <3>1
    <2>3. QED
      BY <2>1, <2>2
  <1>6. \E g \in [A -> Nat] : g = Phi[g]
    <2> HIDE DEF A, Phi, rank
    <2>1. \A g, h \in [A -> Nat], T \in A :
             (\A U \in A : rank[U] < rank[T] => g[U] = h[U]) => Phi[g][T] = Phi[h][T]
      BY <1>5
    <2>2. Recursive(A, Nat, rank, Phi)
      BY <1>1, <1>4, <2>1 DEF Recursive
    <2>3. QED
      BY <2>2, RankRecursion
  <1>7. QED
    BY <1>6 DEF Adds

\* There is only one, which the sum over any subset is a value of.
LEMMA SumIsSolution ==
    ASSUME NEW S, NEW f, Summable(f, S)
    PROVE  \E g \in [SUBSET S -> Nat] :
              Adds(g, f, S) /\ \A T \in SUBSET S : SumOver(f, T) = g[T]
  <1>1. PICK g \in [SUBSET S -> Nat] : Adds(g, f, S)
    BY SumSolution
  <1> USE DEF Summable
  <1>2. ASSUME NEW T \in SUBSET S
        PROVE  SumOver(f, T) = g[T]
    <2> DEFINE k == [U \in SUBSET T |-> g[U]]
    <2>1. IsFiniteSet(T) /\ \A U \in SUBSET T : U \in SUBSET S
      BY FS_Subset
    <2>2. Adds(k, f, T)
      <3>1. \A U \in SUBSET T : U # {} => U \ {First(U)} \in SUBSET T
        OBVIOUS
      <3>2. \A U \in SUBSET T :
               g[U] = IF U = {} THEN 0 ELSE f[First(U)] + g[U \ {First(U)}]
        BY <1>1, <2>1 DEF Adds
      <3>3. QED
        BY <3>1, <3>2 DEF Adds
    <2>3. ASSUME NEW h, Adds(h, f, T)
          PROVE  h = k
      <3> DEFINE N == {n \in Nat : \A U \in SUBSET T : Cardinality(U) = n => h[U] = k[U]}
      <3>1. \A U \in SUBSET T : Cardinality(U) = 0 => U = {}
        BY <2>1, FS_Subset, FS_EmptySet
      <3>2. 0 \in N
        BY <2>2, <2>3, <3>1 DEF Adds
      <3>3. ASSUME NEW n \in N
            PROVE  n + 1 \in N
        <4> HIDE DEF k
        <4> SUFFICES ASSUME NEW U \in SUBSET T, Cardinality(U) = n + 1
                     PROVE  h[U] = k[U]
          OBVIOUS
        <4>1. U # {}
          <5>1. n \in Nat /\ Cardinality({}) = 0 /\ 0 # n + 1
            BY FS_EmptySet
          <5>2. U = {} => Cardinality(U) = Cardinality({})
            OBVIOUS
          <5>3. QED
            BY <5>1, <5>2
        <4>2. U \ {First(U)} \in SUBSET T /\ Cardinality(U \ {First(U)}) = n
          BY <2>1, <4>1, FirstElement
        <4>3. h[U \ {First(U)}] = k[U \ {First(U)}]
          BY <4>2
        <4>4. \A l : Adds(l, f, T) => l[U] = f[First(U)] + l[U \ {First(U)}]
          BY <4>1 DEF Adds
        <4>5. QED
          BY <2>2, <2>3, <4>3, <4>4
      <3>4. N = Nat
        <4> HIDE DEF N
        <4>1. N \in SUBSET Nat
          BY DEF N
        <4>2. QED
          BY <3>2, <3>3, <4>1, NatSetInduction
      <3>5. \A U \in SUBSET T : h[U] = k[U]
        BY <2>1, <3>4, FS_Subset, FS_CardinalityType
      <3> HIDE DEF k
      <3>6. h = [U \in SUBSET T |-> h[U]] /\ k = [U \in SUBSET T |-> k[U]]
        BY <2>2, <2>3 DEF Adds
      <3>7. QED
        BY <3>5, <3>6
    <2>4. SumOver(f, T) = (CHOOSE h : Adds(h, f, T))[T]
      BY Zenon DEF SumOver, MapThenSumSet, MapThenFoldSet, Adds, First
    <2>5. (CHOOSE h : Adds(h, f, T)) = k
      <3> HIDE DEF k
      <3>1. QED
        BY <2>2, <2>3
    <2>6. QED
      BY <2>4, <2>5
  <1>3. QED
    BY <1>1, <1>2

LEMMA SumEmpty == ASSUME NEW f PROVE SumOver(f, {}) = 0
  <1>1. PICK S : S = {}
    OBVIOUS
  <1>2. Summable(f, S)
    BY <1>1, FS_EmptySet DEF Summable
  <1>3. PICK g \in [SUBSET S -> Nat] :
           Adds(g, f, S) /\ \A T \in SUBSET S : SumOver(f, T) = g[T]
    BY <1>2, SumIsSolution
  <1>4. S \in SUBSET S /\ SumOver(f, S) = g[S] /\ g[S] = 0
    BY <1>1, <1>3 DEF Adds
  <1>5. QED
    BY <1>1, <1>4

LEMMA SumType ==
    ASSUME NEW S, NEW f, Summable(f, S)
    PROVE  \A T \in SUBSET S : SumOver(f, T) \in Nat
  <1>1. PICK g \in [SUBSET S -> Nat] :
           Adds(g, f, S) /\ \A T \in SUBSET S : SumOver(f, T) = g[T]
    BY SumIsSolution
  <1>2. QED
    BY <1>1

\* The sum does not depend on the order the elements are taken in: any element
\* can be taken first.
LEMMA SumElement ==
    ASSUME NEW S, NEW f, Summable(f, S)
    PROVE  \A T \in SUBSET S : \A x \in T :
              SumOver(f, T) = f[x] + SumOver(f, T \ {x})
  <1>1. PICK g \in [SUBSET S -> Nat] :
           Adds(g, f, S) /\ \A T \in SUBSET S : SumOver(f, T) = g[T]
    BY SumIsSolution
  <1> USE DEF Summable
  <1> DEFINE Any(T) == \A x \in T : g[T] = f[x] + g[T \ {x}]
             N == {n \in Nat : \A T \in SUBSET S : Cardinality(T) = n => Any(T)}
  <1>2. \A T \in SUBSET S : IsFiniteSet(T) /\ Cardinality(T) \in Nat
    BY FS_Subset, FS_CardinalityType
  <1>3. 0 \in N
    BY <1>2, FS_EmptySet
  <1>4. ASSUME NEW n \in N
        PROVE  n + 1 \in N
    <2> SUFFICES ASSUME NEW T \in SUBSET S, Cardinality(T) = n + 1, NEW x \in T
                 PROVE  g[T] = f[x] + g[T \ {x}]
      OBVIOUS
    <2> DEFINE c == First(T)
    <2>1. c \in T /\ c \in S /\ g[T] = f[c] + g[T \ {c}]
      BY <1>1, FirstElement DEF Adds
    <2>2. CASE x # c
      <3>1. \A y \in T : T \ {y} \in SUBSET S /\ Cardinality(T \ {y}) = n
        BY <1>2, FS_RemoveElement
      <3> HIDE DEF c
      <3>2. Any(T \ {c}) /\ Any(T \ {x})
        BY <2>1, <3>1
      <3>3. /\ g[T \ {c}] = f[x] + g[(T \ {c}) \ {x}]
            /\ g[T \ {x}] = f[c] + g[(T \ {x}) \ {c}]
        BY <2>1, <2>2, <3>2
      <3>4. (T \ {c}) \ {x} = (T \ {x}) \ {c} /\ (T \ {x}) \ {c} \in SUBSET S
        OBVIOUS
      <3>5. f[x] \in Nat /\ f[c] \in Nat /\ g[(T \ {x}) \ {c}] \in Nat
        BY <2>1, <3>4
      <3>6. PICK z \in Nat : z = g[(T \ {x}) \ {c}]
        BY <3>5
      <3>7. g[T] = f[c] + (f[x] + z) /\ g[T \ {x}] = f[c] + z
        BY <2>1, <3>3, <3>4, <3>6
      <3>8. QED
        BY <3>5, <3>7
    <2>3. QED
      BY <2>1, <2>2
  <1>5. N = Nat
    <2> HIDE DEF N
    <2>1. N \in SUBSET Nat
      BY DEF N
    <2>2. QED
      BY <1>3, <1>4, <2>1, NatSetInduction
  <1>6. ASSUME NEW T \in SUBSET S, NEW x \in T
        PROVE  g[T] = f[x] + g[T \ {x}]
    BY <1>2, <1>5
  <1>7. QED
    BY <1>1, <1>6

\* One element more.
LEMMA SumMore ==
    ASSUME NEW S, NEW f, Summable(f, S),
           NEW T \in SUBSET S, NEW x \in S, x \notin T
    PROVE  SumOver(f, T \cup {x}) = f[x] + SumOver(f, T)
  <1>1. T \cup {x} \in SUBSET S /\ (T \cup {x}) \ {x} = T
    OBVIOUS
  <1>2. SumOver(f, T \cup {x}) = f[x] + SumOver(f, (T \cup {x}) \ {x})
    BY <1>1, SumElement
  <1>3. QED
    BY <1>1, <1>2

LEMMA SumZero ==
    ASSUME NEW S, NEW f, IsFiniteSet(S), \A x \in S : f[x] = 0
    PROVE  SumOver(f, S) = 0
  <1> DEFINE G == {T \in SUBSET S : SumOver(f, T) = 0}
  <1>1. Summable(f, S)
    BY DEF Summable
  <1>2. {} \in G
    BY SumEmpty
  <1>3. ASSUME NEW T \in SUBSET S, NEW x \in S, T \in G, x \notin T
        PROVE  T \cup {x} \in G
    <2>1. SumOver(f, T \cup {x}) = f[x] + SumOver(f, T)
      BY <1>1, <1>3, SumMore
    <2>2. QED
      BY <1>3, <2>1
  <1>4. SUBSET S \subseteq G
    <2> HIDE DEF G
    <2>1. \A T \in SUBSET S, x \in S : T \in G /\ x \notin T => T \cup {x} \in G
      BY <1>3
    <2>2. QED
      BY <1>2, <2>1, SubsetInduction
  <1>5. QED
    BY <1>4

LEMMA SumMonotone ==
    ASSUME NEW S, NEW f, NEW h, Summable(f, S), Summable(h, S),
           \A x \in S : f[x] <= h[x]
    PROVE  SumOver(f, S) <= SumOver(h, S)
  <1> DEFINE G == {T \in SUBSET S : SumOver(f, T) <= SumOver(h, T)}
  <1>1. {} \in G
    BY SumEmpty
  <1>2. ASSUME NEW T \in SUBSET S, NEW x \in S, T \in G, x \notin T
        PROVE  T \cup {x} \in G
    <2>1. /\ SumOver(f, T \cup {x}) = f[x] + SumOver(f, T)
          /\ SumOver(h, T \cup {x}) = h[x] + SumOver(h, T)
      BY <1>2, SumMore
    <2>2. SumOver(f, T) \in Nat /\ SumOver(h, T) \in Nat
      BY SumType
    <2>3. SumOver(f, T) <= SumOver(h, T) /\ f[x] \in Nat /\ h[x] \in Nat
      BY <1>2 DEF Summable
    <2>4. f[x] + SumOver(f, T) <= h[x] + SumOver(h, T)
      BY <2>2, <2>3
    <2>5. QED
      BY <2>1, <2>4
  <1>3. SUBSET S \subseteq G
    <2> HIDE DEF G
    <2>1. \A T \in SUBSET S, x \in S : T \in G /\ x \notin T => T \cup {x} \in G
      BY <1>2
    <2>2. IsFiniteSet(S)
      BY DEF Summable
    <2>3. QED
      BY <1>1, <2>1, <2>2, SubsetInduction
  <1>4. QED
    BY <1>3

LEMMA SumSame ==
    ASSUME NEW S, NEW f, NEW h, Summable(f, S), \A x \in S : f[x] = h[x]
    PROVE  SumOver(f, S) = SumOver(h, S)
  <1>0. Summable(h, S) /\ \A x \in S : f[x] <= h[x] /\ h[x] <= f[x]
    BY DEF Summable
  <1>1. SumOver(f, S) \in Nat /\ SumOver(h, S) \in Nat
    BY <1>0, SumType
  <1>2. SumOver(f, S) <= SumOver(h, S) /\ SumOver(h, S) <= SumOver(f, S)
    BY <1>0, SumMonotone
  <1>3. QED
    BY <1>1, <1>2

\* The sum over two sets that have no element in common.
LEMMA SumUnion ==
    ASSUME NEW S, NEW f, Summable(f, S),
           NEW T \in SUBSET S, NEW U \in SUBSET S, T \cap U = {}
    PROVE  SumOver(f, T \cup U) = SumOver(f, T) + SumOver(f, U)
  <1> DEFINE G == {W \in SUBSET U : SumOver(f, T \cup W) = SumOver(f, T) + SumOver(f, W)}
  <1>1. \A W \in SUBSET S : SumOver(f, W) \in Nat
    BY SumType
  <1>2. {} \in G
    <2>1. T \cup {} = T /\ SumOver(f, {}) = 0 /\ SumOver(f, T) \in Nat
      BY <1>1, SumEmpty
    <2>2. QED
      BY <2>1
  <1>3. ASSUME NEW W \in SUBSET U, NEW x \in U, W \in G, x \notin W
        PROVE  W \cup {x} \in G
    <2>1. /\ W \in SUBSET S /\ T \cup W \in SUBSET S /\ x \in S /\ x \notin T \cup W
          /\ T \cup (W \cup {x}) = (T \cup W) \cup {x}
      BY <1>3
    <2>2. /\ SumOver(f, W \cup {x}) = f[x] + SumOver(f, W)
          /\ SumOver(f, (T \cup W) \cup {x}) = f[x] + SumOver(f, T \cup W)
      <3>1. PICK B \in SUBSET S : B = T \cup W
        BY <2>1
      <3>2. SumOver(f, B \cup {x}) = f[x] + SumOver(f, B)
        BY <2>1, <3>1, SumMore
      <3>3. QED
        BY <1>3, <2>1, <3>1, <3>2, SumMore
    <2>3. /\ SumOver(f, T) \in Nat /\ SumOver(f, W) \in Nat /\ f[x] \in Nat
          /\ SumOver(f, T \cup W) = SumOver(f, T) + SumOver(f, W)
      BY <1>1, <1>3, <2>1 DEF Summable
    <2>4. SumOver(f, T \cup (W \cup {x})) = SumOver(f, T) + SumOver(f, W \cup {x})
      BY <2>1, <2>2, <2>3
    <2>5. QED
      BY <1>3, <2>4
  <1>4. SUBSET U \subseteq G
    <2> HIDE DEF G
    <2>1. IsFiniteSet(U)
      BY FS_Subset DEF Summable
    <2>2. \A W \in SUBSET U, x \in U : W \in G /\ x \notin W => W \cup {x} \in G
      BY <1>3
    <2>3. QED
      BY <1>2, <2>1, <2>2, SubsetInduction
  <1>5. QED
    BY <1>4

-----------------------------------------------------------------------------
(***************************************************************************)
(* How many multisets of p elements there are over m elements: those       *)
(* without the last element, and one more of it in those with it.          *)
(***************************************************************************)
Multisets[q \in Nat \X Nat] ==
    IF q[2] = 0 THEN 1
    ELSE IF q[1] = 0 THEN 0
    ELSE Multisets[<<q[1] - 1, q[2]>>] + Multisets[<<q[1], q[2] - 1>>]

LEMMA MultisetsDefined ==
    /\ Multisets \in [Nat \X Nat -> Nat]
    /\ Multisets = [q \in Nat \X Nat |->
          IF q[2] = 0 THEN 1
          ELSE IF q[1] = 0 THEN 0
          ELSE Multisets[<<q[1] - 1, q[2]>>] + Multisets[<<q[1], q[2] - 1>>]]
  <1> DEFINE A == Nat \X Nat
             rank == [q \in A |-> q[1] + q[2]]
             Step(g, q) == IF q[2] = 0 THEN 1
                           ELSE IF q[1] = 0 THEN 0
                           ELSE g[<<q[1] - 1, q[2]>>] + g[<<q[1], q[2] - 1>>]
             Phi == [g \in [A -> Nat] |-> [q \in A |-> Step(g, q)]]
             Solves(g) == g = [q \in A |-> Step(g, q)]
  <1>1. \A q \in A : /\ q[1] \in Nat /\ q[2] \in Nat
                     /\ q[1] # 0 => <<q[1] - 1, q[2]>> \in A
                     /\ q[2] # 0 => <<q[1], q[2] - 1>> \in A
    OBVIOUS
  <1>2. \A q \in A : /\ rank[q] = q[1] + q[2] /\ rank[q] \in Nat
                     /\ q[1] # 0 => rank[<<q[1] - 1, q[2]>>] < rank[q]
                     /\ q[2] # 0 => rank[<<q[1], q[2] - 1>>] < rank[q]
    BY <1>1
  <1>3. \A g \in [A -> Nat], q \in A : Step(g, q) \in Nat
    BY <1>1
  <1>4. Phi \in [[A -> Nat] -> [A -> Nat]]
    BY <1>3
  <1>5. ASSUME NEW g \in [A -> Nat], NEW h \in [A -> Nat], NEW q \in A,
               \A y \in A : rank[y] < rank[q] => g[y] = h[y]
        PROVE  Phi[g][q] = Phi[h][q]
    <2>1. /\ q[1] # 0 => g[<<q[1] - 1, q[2]>>] = h[<<q[1] - 1, q[2]>>]
          /\ q[2] # 0 => g[<<q[1], q[2] - 1>>] = h[<<q[1], q[2] - 1>>]
      BY <1>1, <1>2, <1>5
    <2>2. Step(g, q) = Step(h, q)
      BY <2>1
    <2>3. QED
      BY <2>2
  <1>6. PICK f \in [A -> Nat] : f = Phi[f]
    <2>1. rank \in [A -> Nat]
      BY <1>2
    <2> HIDE DEF A, Phi, rank
    <2>2. \A g, h \in [A -> Nat], q \in A :
             (\A y \in A : rank[y] < rank[q] => g[y] = h[y]) => Phi[g][q] = Phi[h][q]
      BY <1>5
    <2>3. Recursive(A, Nat, rank, Phi)
      BY <1>4, <2>1, <2>2 DEF Recursive
    <2>4. QED
      BY <2>3, RankRecursion
  <1>7. Solves(f)
    BY <1>6
  <1>8. Multisets = CHOOSE g : Solves(g)
    BY Zenon DEF Multisets
  <1>9. Solves(Multisets)
    <2> HIDE DEF Solves
    <2>1. QED
      BY <1>7, <1>8
  <1> DEFINE N == {n \in Nat : \A q \in A : rank[q] <= n => Multisets[q] \in Nat}
  <1>10. 0 \in N
    <2> SUFFICES ASSUME NEW q \in A, rank[q] <= 0
                 PROVE  Multisets[q] \in Nat
      OBVIOUS
    <2>1. q[1] = 0
      BY <1>1, <1>2
    <2>2. QED
      BY <1>9, <2>1
  <1>11. ASSUME NEW n \in N
         PROVE  n + 1 \in N
    <2> SUFFICES ASSUME NEW q \in A, rank[q] <= n + 1
                 PROVE  Multisets[q] \in Nat
      OBVIOUS
    <2>1. Multisets[q] = Step(Multisets, q)
      BY <1>9
    <2>2. /\ q[1] # 0 => Multisets[<<q[1] - 1, q[2]>>] \in Nat
          /\ q[2] # 0 => Multisets[<<q[1], q[2] - 1>>] \in Nat
      <3> HIDE DEF rank, Solves
      <3>1. \A y \in A : rank[y] < rank[q] => Multisets[y] \in Nat
        <4>1. n \in Nat /\ \A y \in A : rank[y] <= n => Multisets[y] \in Nat
          OBVIOUS
        <4>2. \A y \in A : rank[y] \in Nat
          BY <1>2
        <4> HIDE DEF A, N
        <4>3. \A y \in A : rank[y] < rank[q] => rank[y] <= n
          BY <4>1, <4>2
        <4>4. QED
          BY <4>1, <4>3
      <3>2. QED
        BY <1>1, <1>2, <3>1
    <2>3. QED
      BY <2>1, <2>2
  <1>12. N = Nat
    <2> HIDE DEF N
    <2>1. N \in SUBSET Nat
      BY DEF N
    <2>2. QED
      BY <1>10, <1>11, <2>1, NatSetInduction
  <1>13. \A q \in A : Multisets[q] \in Nat
    <2> SUFFICES ASSUME NEW q \in A
                 PROVE  Multisets[q] \in Nat
      OBVIOUS
    <2>1. PICK n \in Nat : n = rank[q] /\ rank[q] <= n
      <3>1. rank[q] \in Nat
        BY <1>2
      <3> HIDE DEF rank, A
      <3>2. QED
        BY <3>1
    <2>2. n \in N
      <3> HIDE DEF N, A, rank
      <3>1. QED
        BY <1>12
    <2> HIDE DEF rank
    <2>3. QED
      BY <2>1, <2>2
  <1>14. Multisets = [q \in A |-> Step(Multisets, q)]
    BY <1>9
  <1>15. Multisets \in [A -> Nat]
    <2>1. DOMAIN Multisets = A /\ Multisets = [q \in A |-> Multisets[q]]
      BY <1>14
    <2>2. QED
      BY <1>13, <2>1
  <1>16. QED
    BY <1>14, <1>15

Many(m, p) == Multisets[<<m, p>>]

LEMMA MultisetRules ==
    ASSUME NEW m \in Nat, NEW p \in Nat
    PROVE  /\ Many(m, p) \in Nat
           /\ Many(m, 0) = 1
           /\ Many(0, p + 1) = 0
           /\ Many(m + 1, p + 1) = Many(m, p + 1) + Many(m + 1, p)
  <1> DEFINE Step(q) == IF q[2] = 0 THEN 1
                        ELSE IF q[1] = 0 THEN 0
                        ELSE Multisets[<<q[1] - 1, q[2]>>] + Multisets[<<q[1], q[2] - 1>>]
  <1>1. \A q \in Nat \X Nat : Multisets[q] \in Nat /\ Multisets[q] = Step(q)
    BY MultisetsDefined
  <1>2. /\ <<m, p>> \in Nat \X Nat /\ <<m, 0>> \in Nat \X Nat
        /\ <<0, p + 1>> \in Nat \X Nat /\ <<m + 1, p + 1>> \in Nat \X Nat
    OBVIOUS
  <1>3. /\ Step(<<m, 0>>) = 1 /\ Step(<<0, p + 1>>) = 0
        /\ Step(<<m + 1, p + 1>>) = Multisets[<<m, p + 1>>] + Multisets[<<m + 1, p>>]
    <2>1. (m + 1) - 1 = m /\ (p + 1) - 1 = p /\ m + 1 # 0 /\ p + 1 # 0
      OBVIOUS
    <2>2. QED
      BY <2>1
  <1> HIDE DEF Step
  <1>4. QED
    BY <1>1, <1>2, <1>3 DEF Many

\* More elements, more multisets.
LEMMA MultisetsMonotone ==
    ASSUME NEW m \in Nat, NEW n \in Nat, m <= n, NEW p \in Nat
    PROVE  Many(m, p) <= Many(n, p)
  <1>1. ASSUME NEW k \in Nat
        PROVE  Many(k, p) <= Many(k + 1, p)
    <2>1. CASE p = 0
      BY <2>1, MultisetRules
    <2>2. CASE p # 0
      <3>1. PICK q \in Nat : p = q + 1
        <4>1. p - 1 \in Nat /\ p = (p - 1) + 1
          BY <2>2
        <4>2. QED
          BY <4>1
      <3>2. /\ Many(k + 1, q) \in Nat /\ Many(k, q + 1) \in Nat
            /\ Many(k + 1, q + 1) =
                  Many(k, q + 1) + Many(k + 1, q)
        BY MultisetRules
      <3>3. Many(k, q + 1) <= Many(k + 1, q + 1)
        BY <3>2
      <3>4. QED
        BY <3>1, <3>3
    <2>3. QED
      BY <2>1, <2>2
  <1> DEFINE N == {d \in Nat : Many(m, p) <= Many(m + d, p)}
  <1>2. 0 \in N
    <2>1. m + 0 = m /\ Many(m, p) \in Nat
      BY MultisetRules
    <2>2. QED
      BY <2>1
  <1>3. ASSUME NEW d \in N
        PROVE  d + 1 \in N
    <2>1. PICK k \in Nat : k = m + d
      OBVIOUS
    <2>2. /\ Many(m, p) \in Nat /\ Many(k, p) \in Nat
          /\ Many(k + 1, p) \in Nat
          /\ Many(k, p) <= Many(k + 1, p)
      <3>1. k + 1 \in Nat
        OBVIOUS
      <3> HIDE DEF N
      <3>2. QED
        BY <1>1, <3>1, MultisetRules
    <2>3. Many(m, p) <= Many(k, p)
      BY <2>1
    <2>4. Many(m, p) <= Many(k + 1, p) /\ k + 1 = m + (d + 1)
      BY <2>1, <2>2, <2>3
    <2>5. QED
      BY <2>4
  <1>4. N = Nat
    <2> HIDE DEF N
    <2>1. N \in SUBSET Nat
      BY DEF N
    <2>2. QED
      BY <1>2, <1>3, <2>1, NatSetInduction
  <1>5. PICK d \in Nat : m + d = n
    <2>1. n - m \in Nat /\ m + (n - m) = n
      OBVIOUS
    <2>2. QED
      BY <2>1
  <1>6. QED
    BY <1>4, <1>5

\* Multisets over one element more, by how often they have it.
LEMMA MultisetRow ==
    ASSUME NEW m \in Nat, NEW p \in Nat
    PROVE  1 + SumOver([q \in Nat |-> Many(m, q)], 1..p) = Many(m + 1, p)
  <1> DEFINE f == [q \in Nat |-> Many(m, q)]
             N == {k \in Nat : 1 + SumOver(f, 1..k) = Many(m + 1, k)}
  <1>1. 0 \in N
    <2>1. 1..0 = {} /\ Many(m + 1, 0) = 1
      BY MultisetRules
    <2>2. SumOver(f, {}) = 0
      <3> HIDE DEF f
      <3>1. QED
        BY SumEmpty
    <2> HIDE DEF f
    <2>3. QED
      BY <2>1, <2>2
  <1>2. ASSUME NEW k \in N
        PROVE  k + 1 \in N
    <2>1. \A q \in Nat : f[q] \in Nat
      BY MultisetRules
    <2>2. PICK S : S = 1..(k + 1)
      OBVIOUS
    <2>3. f[k + 1] = Many(m, k + 1)
      OBVIOUS
    <2>4. k \in Nat /\ 1 + SumOver(f, 1..k) = Many(m + 1, k)
      OBVIOUS
    <2> HIDE DEF f
    <2>5. Summable(f, S)
      BY <2>1, <2>2, FS_Interval DEF Summable
    <2>6. PICK T \in SUBSET S : T = 1..k
      BY <2>2
    <2>7. PICK x \in S : x = k + 1
      BY <2>2, <2>4
    <2>8. x \notin T /\ T \cup {x} = S
      BY <2>2, <2>4, <2>6, <2>7
    <2>9. SumOver(f, T \cup {x}) = f[x] + SumOver(f, T)
      BY <2>5, <2>8, SumMore
    <2>10. SumOver(f, T) \in Nat
      BY <2>5, SumType
    <2>11. /\ Many(m, k + 1) \in Nat /\ Many(m + 1, k) \in Nat
           /\ Many(m + 1, k + 1) =
                 Many(m, k + 1) + Many(m + 1, k)
      <3>1. k + 1 \in Nat /\ m + 1 \in Nat
        BY <2>4
      <3> HIDE DEF N
      <3>2. QED
        BY <2>4, <3>1, MultisetRules
    <2>12. SumOver(f, 1..(k + 1)) = Many(m, k + 1) + SumOver(f, 1..k)
      BY <2>2, <2>3, <2>6, <2>7, <2>8, <2>9
    <2>13. 1 + SumOver(f, 1..(k + 1)) = Many(m + 1, k + 1)
      BY <2>4, <2>6, <2>10, <2>11, <2>12
    <2>14. QED
      BY <2>4, <2>13
  <1>3. N = Nat
    <2> HIDE DEF N
    <2>1. N \in SUBSET Nat
      BY DEF N
    <2>2. QED
      BY <1>1, <1>2, <2>1, NatSetInduction
  <1>4. QED
    BY <1>3

\* Over one element there is one multiset of each size, over two there are as
\* many as the second can occur.
LEMMA FewMultisets ==
    ASSUME NEW p \in Nat
    PROVE  Many(1, p) = 1 /\ Many(2, p) = p + 1
  <1>1. ASSUME NEW q \in Nat
        PROVE  Many(1, q) = 1
    <2>1. PICK zero \in Nat : zero = 0
      OBVIOUS
    <2> DEFINE f == [k \in Nat |-> Many(zero, k)]
    <2>2. \A k \in 1..q : f[k] = 0
      <3> SUFFICES ASSUME NEW k \in 1..q
                   PROVE  Many(0, k) = 0
        BY <2>1
      <3>1. PICK j \in Nat : k = j + 1
        <4>1. k - 1 \in Nat /\ k = (k - 1) + 1
          OBVIOUS
        <4>2. QED
          BY <4>1
      <3>2. QED
        BY <3>1, MultisetRules
    <2>3. 1 + SumOver(f, 1..q) = Many(zero + 1, q)
      BY MultisetRow
    <2> HIDE DEF f
    <2>4. SumOver(f, 1..q) = 0
      <3>1. PICK S : S = 1..q
        OBVIOUS
      <3>2. IsFiniteSet(S) /\ \A k \in S : f[k] = 0
        BY <2>2, <3>1, FS_Interval
      <3>3. QED
        BY <3>1, <3>2, SumZero
    <2>5. QED
      BY <2>1, <2>3, <2>4
  <1> DEFINE N == {n \in Nat : Many(2, n) = n + 1}
  <1>2. 0 \in N
    BY MultisetRules
  <1>3. ASSUME NEW n \in N
        PROVE  n + 1 \in N
    <2>1. PICK one \in Nat : one = 1
      OBVIOUS
    <2>2. Many(one + 1, n + 1) = Many(one, n + 1) + Many(one + 1, n)
      BY MultisetRules
    <2>3. n + 1 \in Nat /\ Many(1, n + 1) = 1
      BY <1>1
    <2>4. Many(2, n + 1) = 1 + (n + 1)
      BY <2>1, <2>2, <2>3
    <2>5. QED
      BY <2>4
  <1>4. N = Nat
    <2> HIDE DEF N
    <2>1. N \in SUBSET Nat
      BY DEF N
    <2>2. QED
      BY <1>2, <1>3, <2>1, NatSetInduction
  <1>5. QED
    BY <1>1, <1>4

-----------------------------------------------------------------------------
(***************************************************************************)
(* Factorials and binomial coefficients, as Combinatorics defines them.    *)
(***************************************************************************)
LEMMA FactorialDefined ==
    /\ factorial \in [Nat -> Nat]
    /\ factorial = [n \in Nat |-> IF n = 0 THEN 1 ELSE n * factorial[n - 1]]
  <1> DEFINE rank == [n \in Nat |-> n]
             Step(g, n) == IF n = 0 THEN 1 ELSE n * g[n - 1]
             Phi == [g \in [Nat -> Nat] |-> [n \in Nat |-> Step(g, n)]]
             Solves(g) == g = [n \in Nat |-> Step(g, n)]
  <1>1. \A n \in Nat : n # 0 => n - 1 \in Nat /\ n - 1 < n
    OBVIOUS
  <1>2. \A g \in [Nat -> Nat], n \in Nat : Step(g, n) \in Nat
    <2> SUFFICES ASSUME NEW g \in [Nat -> Nat], NEW n \in Nat
                 PROVE  Step(g, n) \in Nat
      OBVIOUS
    <2>1. CASE n = 0
      BY <2>1
    <2>2. CASE n # 0
      <3>1. PICK k \in Nat : k = g[n - 1]
        BY <1>1, <2>2
      <3>2. n * k \in Nat
        OBVIOUS
      <3>3. QED
        BY <2>2, <3>1, <3>2
    <2>3. QED
      BY <2>1, <2>2
  <1>3. Phi \in [[Nat -> Nat] -> [Nat -> Nat]]
    <2> HIDE DEF Step
    <2>1. QED
      BY <1>2
  <1>4. ASSUME NEW g \in [Nat -> Nat], NEW h \in [Nat -> Nat], NEW n \in Nat,
               \A y \in Nat : rank[y] < rank[n] => g[y] = h[y]
        PROVE  Phi[g][n] = Phi[h][n]
    <2>1. n # 0 => g[n - 1] = h[n - 1]
      BY <1>1, <1>4
    <2>2. Step(g, n) = Step(h, n)
      BY <2>1
    <2> HIDE DEF Step
    <2>3. QED
      BY <2>2
  <1>5. PICK f \in [Nat -> Nat] : f = Phi[f]
    <2>1. rank \in [Nat -> Nat]
      OBVIOUS
    <2> HIDE DEF Phi, rank
    <2>2. \A g, h \in [Nat -> Nat], n \in Nat :
             (\A y \in Nat : rank[y] < rank[n] => g[y] = h[y]) => Phi[g][n] = Phi[h][n]
      BY <1>4
    <2>3. Recursive(Nat, Nat, rank, Phi)
      BY <1>3, <2>1, <2>2 DEF Recursive
    <2>4. PICK A : A = Nat
      OBVIOUS
    <2>5. Recursive(A, A, rank, Phi)
      BY <2>3, <2>4
    <2>6. \E f \in [A -> A] : f = Phi[f]
      BY <2>5, RankRecursion
    <2>7. QED
      BY <2>4, <2>6
  <1>6. Solves(f)
    <2> HIDE DEF Step
    <2>1. QED
      BY <1>5
  <1>7. factorial = CHOOSE g : Solves(g)
    BY Zenon DEF factorial
  <1>8. Solves(factorial)
    <2> HIDE DEF Solves
    <2>1. QED
      BY <1>6, <1>7
  <1> DEFINE N == {n \in Nat : factorial[n] \in Nat}
  <1>9. 0 \in N
    BY <1>8
  <1>10. ASSUME NEW n \in N
         PROVE  n + 1 \in N
    <2>1. factorial[n + 1] = (n + 1) * factorial[n]
      <3>1. factorial[n + 1] = Step(factorial, n + 1)
        BY <1>8
      <3>2. n + 1 # 0 /\ (n + 1) - 1 = n
        OBVIOUS
      <3>3. QED
        BY <3>1, <3>2
    <2>2. PICK k \in Nat : k = factorial[n]
      OBVIOUS
    <2>3. (n + 1) * k \in Nat
      OBVIOUS
    <2>4. QED
      BY <2>1, <2>2, <2>3
  <1>11. N = Nat
    <2> HIDE DEF N
    <2>1. N \in SUBSET Nat
      BY DEF N
    <2>2. QED
      BY <1>9, <1>10, <2>1, NatSetInduction
  <1>12. QED
    <2>1. \A n \in Nat : factorial[n] \in Nat
      BY <1>11
    <2>2. factorial = [n \in Nat |-> IF n = 0 THEN 1 ELSE n * factorial[n - 1]]
      BY <1>8
    <2>3. DOMAIN factorial = Nat /\ factorial = [n \in Nat |-> factorial[n]]
      BY <2>2
    <2>4. factorial \in [Nat -> Nat]
      BY <2>1, <2>3
    <2>5. QED
      BY <2>2, <2>4

Fact(n) == factorial[n]

LEMMA FactorialRules ==
    /\ Fact(0) = 1
    /\ \A n \in Nat : Fact(n) \in Nat /\ Fact(n) > 0 /\ Fact(n + 1) = (n + 1) * Fact(n)
  <1> DEFINE Step(n) == IF n = 0 THEN 1 ELSE n * factorial[n - 1]
  <1>1. \A n \in Nat : factorial[n] \in Nat /\ factorial[n] = Step(n)
    BY FactorialDefined
  <1>2. Fact(0) = 1
    BY <1>1 DEF Fact
  <1>3. ASSUME NEW n \in Nat
        PROVE  Fact(n) \in Nat /\ Fact(n + 1) = (n + 1) * Fact(n)
    <2>1. n + 1 \in Nat /\ n + 1 # 0 /\ (n + 1) - 1 = n
      OBVIOUS
    <2>2. Step(n + 1) = (n + 1) * factorial[n]
      BY <2>1
    <2> HIDE DEF Step
    <2>3. QED
      BY <1>1, <2>1, <2>2 DEF Fact
  <1> DEFINE N == {n \in Nat : Fact(n) > 0}
  <1>4. 0 \in N
    BY <1>2
  <1>5. ASSUME NEW n \in N
        PROVE  n + 1 \in N
    <2>1. PICK k \in Nat : k = Fact(n)
      BY <1>3
    <2>2. k > 0 /\ (n + 1) * k = n * k + k /\ n * k \in Nat
      BY <2>1
    <2>3. (n + 1) * k > 0
      BY <2>2
    <2>4. QED
      BY <1>3, <2>1, <2>3
  <1>6. N = Nat
    <2> HIDE DEF N
    <2>1. N \in SUBSET Nat
      BY DEF N
    <2>2. QED
      BY <1>4, <1>5, <2>1, NatSetInduction
  <1>7. QED
    BY <1>2, <1>3, <1>6

\* A product that is divided by one of its factors.
LEMMA Quotient ==
    ASSUME NEW b \in Nat, NEW d \in Nat, d > 0
    PROVE  (b * d) \div d = b
  OBVIOUS

LEMMA ProductRules ==
    ASSUME NEW u \in Nat, NEW v \in Nat, NEW x \in Nat, NEW y \in Nat,
           NEW m \in Nat, NEW p \in Nat
    PROVE  (u + v) * ((m * x) * (p * y)) =
              m * (u * (x * (p * y))) + p * (v * ((m * x) * y))
  OBVIOUS

\* The binomial coefficient, which Combinatorics defines by factorials, is the
\* number of multisets: of p elements, over m + 1.
LEMMA MultisetsTimesFactorials ==
    ASSUME NEW m \in Nat, NEW p \in Nat
    PROVE  Many(m + 1, p) * (Fact(m) * Fact(p)) = Fact(m + p)
  <1> DEFINE Holds(i, j) == Many(i + 1, j) * (Fact(i) * Fact(j)) = Fact(i + j)
             N == {n \in Nat : \A i, j \in Nat : i + j = n => Holds(i, j)}
  <1>1. \A i \in Nat : Holds(i, 0)
    <2> SUFFICES ASSUME NEW i \in Nat
                 PROVE  Holds(i, 0)
      OBVIOUS
    <2>1. i + 1 \in Nat /\ i + 0 = i
      OBVIOUS
    <2>2. Many(i + 1, 0) = 1 /\ Fact(0) = 1 /\ Fact(i) \in Nat
      BY <2>1, MultisetRules, FactorialRules
    <2>3. PICK x \in Nat : x = Fact(i)
      BY <2>2
    <2>4. 1 * (x * 1) = x
      OBVIOUS
    <2>5. QED
      BY <2>1, <2>2, <2>3, <2>4
  <1>2. 0 \in N
    <2>1. \A i, j \in Nat : i + j = 0 => j = 0
      OBVIOUS
    <2> HIDE DEF Holds
    <2>2. QED
      BY <1>1, <2>1
  <1>3. ASSUME NEW n \in N
        PROVE  n + 1 \in N
    <2> SUFFICES ASSUME NEW i \in Nat, NEW j \in Nat, i + j = n + 1
                 PROVE  Holds(i, j)
      <3> HIDE DEF Holds
      <3>1. QED
        OBVIOUS
    <2>1. CASE j = 0
      <3> HIDE DEF Holds
      <3>1. QED
        BY <1>1, <2>1
    <2>2. CASE j # 0
      <3>1. PICK q \in Nat : j = q + 1
        <4>1. j - 1 \in Nat /\ j = (j - 1) + 1
          BY <2>2
        <4>2. QED
          BY <4>1
      <3>2. n \in Nat /\ i + q = n
        BY <3>1
      <3>3. Holds(i, q)
        <4> HIDE DEF Holds
        <4>1. \A a, b \in Nat : a + b = n => Holds(a, b)
          OBVIOUS
        <4>2. QED
          BY <3>2, <4>1
      <3>4. PICK y \in Nat : y = Fact(q)
        BY FactorialRules
      <3>5. PICK v \in Nat : v = Many(i + 1, q)
        <4>1. i + 1 \in Nat
          OBVIOUS
        <4>2. QED
          BY <4>1, MultisetRules
      <3>6. Fact(j) = j * y
        BY <3>1, <3>4, FactorialRules
      <3>7. Fact(i + j) = (n + 1) * Fact(n)
        BY <3>2, FactorialRules
      <3>8. PICK z \in Nat : z = Fact(n)
        BY <3>2, FactorialRules
      <3>9. Many(i + 1, j) = Many(i, j) + v
        BY <3>1, <3>5, MultisetRules
      <3>10. CASE i = 0
        <4>1. Many(i, j) = 0 /\ Fact(i) = 1
          BY <3>1, <3>10, MultisetRules, FactorialRules
        <4>2. q = n /\ j = n + 1 /\ v * (1 * y) = z
          BY <3>1, <3>2, <3>3, <3>4, <3>5, <3>8, <3>10, <4>1
        <4>3. v * (1 * (j * y)) = j * (v * (1 * y))
          OBVIOUS
        <4>4. Many(i + 1, j) = v
          BY <3>9, <4>1
        <4>5. v * (1 * (j * y)) = (n + 1) * z
          BY <4>2, <4>3
        <4>6. QED
          BY <3>6, <3>7, <3>8, <4>1, <4>4, <4>5
      <3>11. CASE i # 0
        <4>1. PICK m1 \in Nat : i = m1 + 1
          <5>1. i - 1 \in Nat /\ i = (i - 1) + 1
            BY <3>11
          <5>2. QED
            BY <5>1
        <4>2. m1 + j = n
          BY <3>2, <4>1
        <4>3. Holds(m1, j)
          <5> HIDE DEF Holds
          <5>1. \A a, b \in Nat : a + b = n => Holds(a, b)
            OBVIOUS
          <5>2. QED
            BY <4>2, <5>1
        <4>4. PICK x \in Nat : x = Fact(m1)
          BY FactorialRules
        <4>5. PICK u \in Nat : u = Many(i, j)
          BY MultisetRules
        <4>6. Fact(i) = i * x
          BY <4>1, <4>4, FactorialRules
        <4>7. u * (x * (j * y)) = z
          BY <3>6, <3>8, <4>1, <4>2, <4>3, <4>4, <4>5
        <4>8. v * ((i * x) * y) = z
          BY <3>2, <3>3, <3>4, <3>5, <3>8, <4>6
        <4>9. (u + v) * ((i * x) * (j * y)) = i * z + j * z
          BY <4>7, <4>8, ProductRules
        <4>10. i * z + j * z = (n + 1) * z
          <5>1. i * z + j * z = (i + j) * z
            OBVIOUS
          <5>2. QED
            BY <5>1
        <4>11. QED
          BY <3>6, <3>7, <3>8, <3>9, <4>5, <4>6, <4>9, <4>10
      <3>12. QED
        BY <3>10, <3>11
    <2>3. QED
      BY <2>1, <2>2
  <1>4. N = Nat
    <2> HIDE DEF N
    <2>1. N \in SUBSET Nat
      BY DEF N
    <2>2. QED
      BY <1>2, <1>3, <2>1, NatSetInduction
  <1>5. PICK n \in Nat : n = m + p
    OBVIOUS
  <1>6. Holds(m, p)
    <2>1. n \in N
      <3> HIDE DEF N
      <3>1. QED
        BY <1>4
    <2>2. \A i, j \in Nat : i + j = n => Holds(i, j)
      BY <2>1
    <2> HIDE DEF Holds, N
    <2>3. QED
      BY <1>5, <2>2
  <1>7. QED
    BY <1>6

LEMMA ChooseIsMultisets ==
    ASSUME NEW m \in Nat, NEW p \in Nat
    PROVE  choose(m + p, p) = Many(m + 1, p)
  <1>1. (m + p) - p = m
    OBVIOUS
  <1>2. PICK b \in Nat : b = Many(m + 1, p)
    <2>1. m + 1 \in Nat
      OBVIOUS
    <2>2. QED
      BY <2>1, MultisetRules
  <1>3. PICK x \in Nat : x = Fact(m) /\ x > 0
    BY FactorialRules
  <1>4. PICK y \in Nat : y = Fact(p) /\ y > 0
    BY FactorialRules
  <1>5. PICK d \in Nat : d = y * x /\ d > 0
    <2>1. y * x \in Nat /\ y * x > 0
      BY <1>3, <1>4
    <2>2. QED
      BY <2>1
  <1>6. b * d = Fact(m + p)
    <2>1. x * y = y * x
      OBVIOUS
    <2>2. QED
      BY <1>2, <1>3, <1>4, <1>5, <2>1, MultisetsTimesFactorials
  <1>7. choose(m + p, p) = Fact(m + p) \div (Fact(p) * Fact(m))
    BY <1>1 DEF choose, Fact
  <1>8. choose(m + p, p) = (b * d) \div d
    BY <1>3, <1>4, <1>5, <1>6, <1>7
  <1>9. (b * d) \div d = b
    BY <1>5, Quotient
  <1>10. QED
    BY <1>2, <1>8, <1>9
=============================================================================
