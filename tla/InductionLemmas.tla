-------------------------- MODULE InductionLemmas --------------------------
(***************************************************************************)
(* Facts that need induction: the least and the greatest of some numbers,  *)
(* which the proofs about operators that CHOOSE one rest on, and recursion *)
(* over the subsets of a finite set, which is how the community modules    *)
(* fold a sequence or a set.                                               *)
(***************************************************************************)
EXTENDS FiniteSetTheorems, WellFoundedInduction, TLAPS

\* A nonempty set of numbers has a least one: the intervals up to its members
\* are finite sets, and strict inclusion of finite sets is well-founded.
LEMMA LeastElement ==
  ASSUME NEW S \in SUBSET Nat, S # {}
  PROVE  \E a \in S : \A b \in S : a <= b
<1> DEFINE T == {0 .. a : a \in S}
<1>1. T \subseteq FiniteSubsetsOf(Nat)
  <2>1. \A a \in S : IsFiniteSet(0 .. a) /\ 0 .. a \in SUBSET Nat
    BY FS_Interval
  <2> QED
    BY <2>1, Zenon DEF FiniteSubsetsOf
<1>2. PICK X \in T : \A Y \in T : <<Y, X>> \notin StrictSubsetOrdering(Nat)
  <2> T # {} OBVIOUS
  <2> HIDE DEF T
  <2> QED BY <1>1, WFMin, FS_StrictSubsetOrderingWellFounded, Zenon
<1>3. PICK a \in S : X = 0 .. a
  OBVIOUS
<1>4. ASSUME NEW b \in S, b < a PROVE FALSE
  <2>1. 0 .. b \subseteq X /\ 0 .. b # X
    BY <1>3, <1>4
  <2>2. 0 .. b \in T /\ X \subseteq Nat
    BY <1>3
  <2> QED
    BY <1>2, <2>1, <2>2 DEF StrictSubsetOrdering
<1> QED
  BY <1>4

\* A nonempty set of numbers with a bound has a greatest one.
LEMMA GreatestElement ==
  ASSUME NEW n \in Nat, NEW S \in SUBSET (0 .. n), S # {}
  PROVE  \E a \in S : \A b \in S : b <= a
<1> DEFINE D == {n - a : a \in S}
<1>1. D \in SUBSET Nat /\ D # {}
  <2>1. \A a \in S : n - a \in Nat
    OBVIOUS
  <2> QED
    BY <2>1, Zenon
<1>2. PICK d \in D : \A e \in D : d <= e
  <2> HIDE DEF D
  <2> QED BY <1>1, LeastElement
<1>3. PICK a \in S : d = n - a
  OBVIOUS
<1>4. \A b \in S : n - a <= n - b
  <2> SUFFICES ASSUME NEW b \in S PROVE n - a <= n - b
    OBVIOUS
  <2>1. n - b \in D
    OBVIOUS
  <2> HIDE DEF D
  <2> QED
    BY <1>2, <1>3, <2>1
<1> QED
  BY <1>4

\* The values of a function on 1 .. n have a bound.
LEMMA ValuesBounded ==
  ASSUME NEW n \in Nat, NEW f \in [1 .. n -> Nat]
  PROVE  \E b \in Nat : \A i \in 1 .. n : f[i] <= b
<1> DEFINE K == {k \in 0 .. n : \A b \in Nat : \E i \in 1 .. k : f[i] > b}
<1> SUFFICES K = {}
  <2>1. n \notin K => \E b \in Nat : \A i \in 1 .. n : ~(f[i] > b)
    OBVIOUS
  <2>2. \A b \in Nat : \A i \in 1 .. n : ~(f[i] > b) => f[i] <= b
    OBVIOUS
  <2> HIDE DEF K
  <2> QED
    BY <2>1, <2>2
<1> SUFFICES ASSUME K # {} PROVE FALSE
  OBVIOUS
<1>1. PICK k \in K : \A m \in K : k <= m
  <2>1. K \in SUBSET Nat
    OBVIOUS
  <2> HIDE DEF K
  <2> QED BY <2>1, LeastElement
<1>2. k \in 0 .. n /\ \A b \in Nat : \E i \in 1 .. k : f[i] > b
  OBVIOUS
<1>3. k # 0
  BY <1>2
<1>4. k - 1 \notin K /\ k - 1 \in 0 .. n
  <2> HIDE DEF K
  <2> QED BY <1>1, <1>2, <1>3
<1>5. PICK b \in Nat : \A i \in 1 .. (k - 1) : ~(f[i] > b)
  BY <1>4
<1> HIDE DEF K
<1>6. b + f[k] \in Nat /\ \A i \in 1 .. k : ~(f[i] > b + f[k])
  <2>1. f[k] \in Nat /\ k \in Nat /\ k \in 1 .. n /\ 1 .. k \subseteq 1 .. n
    BY <1>2, <1>3
  <2>2. ASSUME NEW i \in 1 .. k PROVE ~(f[i] > b + f[k])
    <3>1. f[i] \in Nat
      BY <1>2
    <3>2. CASE i = k
      BY <3>2, <2>1
    <3>3. CASE i # k
      <4>1. i \in 1 .. (k - 1)
        BY <3>3, <2>1
      <4>2. ~(f[i] > b)
        BY <4>1, <1>5
      <4> QED
        BY <4>2, <3>1, <2>1
    <3> QED
      BY <3>2, <3>3
  <2> QED
    BY <2>1, <2>2
<1> QED
  BY <1>2, <1>6

\* A function on 1 .. n takes a greatest value on every nonempty set.
LEMMA GreatestValue ==
  ASSUME NEW n \in Nat, NEW f \in [1 .. n -> Nat], NEW T \in SUBSET (1 .. n), T # {}
  PROVE  \E i \in T : \A j \in T : f[j] <= f[i]
<1> DEFINE V == {f[i] : i \in T}
<1>1. PICK b \in Nat : \A i \in 1 .. n : f[i] <= b
  BY ValuesBounded
<1>2. V \in SUBSET (0 .. b) /\ V # {}
  <2>1. \A i \in T : f[i] \in 0 .. b
    <3> SUFFICES ASSUME NEW i \in T PROVE f[i] \in 0 .. b
      OBVIOUS
    <3>1. f[i] \in Nat /\ f[i] <= b
      BY <1>1
    <3> QED
      BY <3>1
  <2> QED
    BY <2>1, Zenon
<1>3. PICK v \in V : \A w \in V : w <= v
  <2> HIDE DEF V
  <2> QED BY <1>2, GreatestElement
<1>4. PICK i \in T : v = f[i]
  OBVIOUS
<1>5. ASSUME NEW j \in T PROVE f[j] <= f[i]
  <2>1. f[j] \in V
    OBVIOUS
  <2> HIDE DEF V
  <2> QED BY <1>3, <1>4, <2>1
<1> QED
  BY <1>5

-----------------------------------------------------------------------------
(* A recursion over the subsets of a finite set S, with values in V: base   *)
(* for the empty set, and h[c[s]] of the value without the chosen element   *)
(* c[s] for a set s.                                                        *)
IsFold(S, V, base, h, c) ==
  /\ IsFiniteSet(S) /\ base \in V /\ h \in [S -> [V -> V]]
  /\ \A s \in SUBSET S : s # {} => c[s] \in s

IsSolution(g, S, base, h, c) ==
  g[{}] = base /\ \A s \in SUBSET S : s # {} => g[s] = h[c[s]][g[s \ {c[s]}]]

(* It has a solution.                                                       *)
LEMMA SolutionExists ==
  ASSUME NEW S, NEW V, NEW base, NEW h, NEW c, IsFold(S, V, base, h, c)
  PROVE  \E g \in [SUBSET S -> V] : IsSolution(g, S, base, h, c)
<1> USE DEF IsFold
<1> DEFINE At(g, s) == IF s = {} THEN base ELSE h[c[s]][g[s \ {c[s]}]]
           Solves(g, n) == \A s \in SUBSET S : Cardinality(s) <= n => g[s] = At(g, s)
           K == {n \in Nat : \A g \in [SUBSET S -> V] : ~Solves(g, n)}
<1>1. \A s \in SUBSET S : IsFiniteSet(s) /\ Cardinality(s) \in Nat /\ Cardinality(s) <= Cardinality(S)
  BY FS_Subset, FS_CardinalityType
<1>2. K = {}
  <2> SUFFICES ASSUME K # {} PROVE FALSE
    OBVIOUS
  <2>1. PICK n \in K : \A m \in K : n <= m
    BY LeastElement
  <2>2. CASE n = 0
    <3>1. [s \in SUBSET S |-> base] \in [SUBSET S -> V]
      OBVIOUS
    <3>2. \A s \in SUBSET S : Cardinality(s) <= 0 => s = {}
      BY <1>1, FS_EmptySet
    <3>3. Solves([s \in SUBSET S |-> base], 0)
      BY <3>2
    <3> QED
      BY <2>1, <2>2, <3>1, <3>3
  <2>3. CASE n # 0
    <3>1. n - 1 \in Nat /\ n - 1 \notin K /\ n \in Nat
      <4> n \in Nat
        BY <2>1
      <4> HIDE DEF K
      <4> QED
        BY <2>1, <2>3
    <3>2. PICK g \in [SUBSET S -> V] : Solves(g, n - 1)
      BY <3>1
    <3> DEFINE next == [s \in SUBSET S |-> At(g, s)]
    <3>3. next \in [SUBSET S -> V]
      <4> SUFFICES ASSUME NEW s \in SUBSET S PROVE At(g, s) \in V
        OBVIOUS
      <4>1. s # {} => c[s] \in S /\ g[s \ {c[s]}] \in V
        BY <3>2
      <4> QED
        BY <4>1
    <3>4. ASSUME NEW s \in SUBSET S, Cardinality(s) <= n
          PROVE  next[s] = At(next, s)
      <4>1. CASE s = {}
        BY <4>1
      <4>2. CASE s # {}
        <5> DEFINE r == s \ {c[s]}
        <5>1. r \in SUBSET S /\ c[s] \in s
          BY <4>2
        <5>2. Cardinality(r) = Cardinality(s) - 1
          BY <1>1, <5>1, FS_RemoveElement
        <5>3. Cardinality(r) <= n - 1
          BY <1>1, <3>1, <3>4, <5>2
        <5>4. g[r] = At(g, r)
          BY <3>2, <5>1, <5>3
        <5>5. next[r] = g[r] /\ next[s] = At(g, s)
          BY <5>1, <5>4
        <5> QED
          BY <4>2, <5>5
      <4> QED
        BY <4>1, <4>2
    <3>5. Solves(next, n)
      BY <3>4
    <3> QED
      BY <2>1, <3>3, <3>5
  <2> QED
    BY <2>2, <2>3
<1>3. Cardinality(S) \in Nat
  BY FS_CardinalityType
<1>4. PICK g \in [SUBSET S -> V] : Solves(g, Cardinality(S))
  <2> HIDE DEF Solves
  <2> QED
    BY <1>2, <1>3
<1>5. \A s \in SUBSET S : g[s] = At(g, s)
  BY <1>1, <1>4
<1> QED
  BY <1>4, <1>5 DEF IsSolution

(* Induction over the subsets of a finite set: what holds of the empty set, *)
(* and of a set when it holds of it without any one of its elements.        *)
LEMMA SubsetInduction ==
  ASSUME NEW S, IsFiniteSet(S), NEW G \in SUBSET (SUBSET S), {} \in G,
         \A s \in SUBSET S : s # {} /\ (\A x \in s : s \ {x} \in G) => s \in G
  PROVE  \A s \in SUBSET S : s \in G
<1> DEFINE K == {n \in Nat : \E s \in SUBSET S : Cardinality(s) = n /\ s \notin G}
<1>1. \A s \in SUBSET S : IsFiniteSet(s) /\ Cardinality(s) \in Nat
  BY FS_Subset, FS_CardinalityType
<1>2. K = {}
  <2> SUFFICES ASSUME K # {} PROVE FALSE
    OBVIOUS
  <2>1. PICK n \in K : \A m \in K : n <= m
    BY LeastElement
  <2>2. PICK s \in SUBSET S : Cardinality(s) = n /\ s \notin G
    BY <2>1
  <2>3. s # {}
    BY <2>2
  <2>4. ASSUME NEW x \in s PROVE s \ {x} \in G
    <3>1. s \ {x} \in SUBSET S /\ Cardinality(s \ {x}) = n - 1
      BY <1>1, <2>2, FS_RemoveElement
    <3>2. n - 1 \in Nat /\ n \in Nat
      BY <1>1, <2>1, <3>1
    <3>3. n - 1 \notin K
      <4> HIDE DEF K
      <4> QED
        BY <2>1, <3>2
    <3> QED
      BY <3>1, <3>2, <3>3
  <2> QED
    BY <2>2, <2>3, <2>4
<1> QED
  BY <1>1, <1>2

(* Induction over an interval.                                              *)
LEMMA UpwardInduction ==
  ASSUME NEW m \in Nat, NEW n \in Nat, NEW G, m \in G,
         \A k \in m .. (n - 1) : k \in G => k + 1 \in G
  PROVE  \A k \in m .. n : k \in G
<1> DEFINE K == {k \in m .. n : k \notin G}
<1> SUFFICES ASSUME K # {} PROVE FALSE
  OBVIOUS
<1>1. PICK k \in K : \A j \in K : k <= j
  <2>1. K \in SUBSET Nat
    OBVIOUS
  <2> HIDE DEF K
  <2> QED
    BY <2>1, LeastElement
<1>2. k \in m .. n /\ k # m /\ k - 1 \in m .. (n - 1) /\ (k - 1) + 1 = k
  BY <1>1
<1>3. k - 1 \notin K
  <2> HIDE DEF K
  <2> QED
    BY <1>1, <1>2
<1>4. k - 1 \in G
  BY <1>2, <1>3
<1> QED
  BY <1>1, <1>2, <1>4
=============================================================================
