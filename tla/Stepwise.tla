------------------------------ MODULE Stepwise ------------------------------
(***************************************************************************)
(* Lemmas of the proofs that need induction or recursion over numbers, and *)
(* of a finite set as a sequence, and of a part of a sequence.              *)
(***************************************************************************)
EXTENDS SequencesExt, Places, FiniteSetTheorems, TLAPS

\* Every set of numbers has a least one: what stands in for induction.
LEMMA LeastNumber ==
  ASSUME NEW X \in SUBSET Nat, X # {}
  PROVE  \E n \in X : \A m \in X : n <= m
<1>. DEFINE Finite == FiniteSubsetsOf(Nat)
            Smaller == StrictSubsetOrdering(Nat)
            Y == {1..n : n \in X}
<1>1. Y \subseteq Finite /\ Y # {}
  <2>1. ASSUME NEW n \in X PROVE 1..n \in Finite
    <3>1. 1..n \in SUBSET Nat
      OBVIOUS
    <3>2. IsFiniteSet(1..n)
      BY FS_Interval
    <3>. QED BY <3>1, <3>2 DEF FiniteSubsetsOf
  <2>. QED BY <2>1
<1>2. PICK y \in Y : \A z \in Y : <<z, y>> \notin Smaller
  <2>1. IsWellFoundedOn(Smaller, Finite)
    BY FS_StrictSubsetOrderingWellFounded
  <2>. HIDE DEF Finite, Smaller, Y
  <2>. QED BY <1>1, <2>1, WFMin
<1>3. PICK n \in X : y = 1..n
  OBVIOUS
<1>4. ASSUME NEW m \in X, m < n PROVE FALSE
  <2>1. 1..m \subseteq 1..n /\ n \in 1..n /\ n \notin 1..m
    BY <1>4
  <2>2. <<1..m, 1..n>> \in Smaller
    BY <2>1 DEF StrictSubsetOrdering
  <2>. QED BY <1>2, <1>3, <2>2
<1>. QED BY <1>4

LEMMA StepsReachAll ==
  ASSUME NEW N \in Nat, NEW X, 0 \in X, \A n \in 1..N : n - 1 \in X => n \in X
  PROVE  \A n \in 0..N : n \in X
<1>. DEFINE Missed == {n \in 0..N : n \notin X}
<1>1. ASSUME Missed # {} PROVE FALSE
  <2>1. PICK n \in Missed : \A m \in Missed : n <= m
    <3>1. Missed \in SUBSET Nat
      OBVIOUS
    <3>. HIDE DEF Missed
    <3>. QED BY <1>1, <3>1, LeastNumber
  <2>2. n \in 1..N /\ n - 1 \in 0..N /\ ~(n <= n - 1)
    BY <2>1
  <2>3. n - 1 \in X
    BY <2>1, <2>2
  <2>. QED BY <2>1, <2>2, <2>3
<1>. QED BY <1>1

\* f goes from base to its value at N, one step after the other.
GoesOn(f, base, step, N) == f[0] = base /\ \A n \in 1..N : f[n] = step[n][f[n - 1]]

\* There is such an f, whatever the steps.
LEMMA StepByStep ==
  ASSUME NEW T, NEW base \in T, NEW N \in Nat, NEW step \in [1..N -> [T -> T]]
  PROVE  \E f \in [0..N -> T] : GoesOn(f, base, step, N)
<1>. DEFINE Reached(k) == \E g \in [0..k -> T] : GoesOn(g, base, step, k)
            Stuck == {k \in 0..N : ~Reached(k)}
<1>. SUFFICES ASSUME Stuck # {} PROVE FALSE
  <2>1. N \in 0..N /\ (Reached(N) => \E f \in [0..N -> T] : GoesOn(f, base, step, N))
    OBVIOUS
  <2>. HIDE DEF Reached
  <2>. QED BY <2>1
<1>1. PICK k \in Stuck : \A j \in Stuck : k <= j
  <2>. HIDE DEF Reached
  <2>1. Stuck \in SUBSET Nat
    OBVIOUS
  <2>. HIDE DEF Stuck
  <2>. QED BY <2>1, LeastNumber
<1>2. k # 0
  <2>. DEFINE g == [n \in 0..0 |-> base]
  <2>1. g \in [0..0 -> T] /\ GoesOn(g, base, step, 0)
    BY DEF GoesOn
  <2>2. Reached(0)
    BY <2>1
  <2>. QED BY <1>1, <2>2
<1>3. k \in 1..N /\ k - 1 \in 0..N /\ ~(k <= k - 1)
  BY <1>1, <1>2
<1>4. PICK g \in [0..(k - 1) -> T] : GoesOn(g, base, step, k - 1)
  BY <1>1, <1>3
<1>. DEFINE h == [n \in 0..k |-> IF n = k THEN step[k][g[k - 1]] ELSE g[n]]
<1>5. h \in [0..k -> T]
  <2>1. g[k - 1] \in T
    BY <1>3
  <2>2. step[k][g[k - 1]] \in T
    BY <1>3, <2>1
  <2>. QED BY <1>3, <2>2
<1>6. h[0] = base
  BY <1>3, <1>4 DEF GoesOn
<1>7. ASSUME NEW n \in 1..k PROVE h[n] = step[n][h[n - 1]]
  <2>1. n \in 0..k /\ n - 1 \in 0..k /\ n - 1 # k
    BY <1>3
  <2>2. CASE n = k
    BY <2>1, <2>2
  <2>3. CASE n # k
    <3>1. n \in 1..(k - 1)
      BY <1>3, <2>3
    <3>2. g[n] = step[n][g[n - 1]]
      BY <1>4, <3>1 DEF GoesOn
    <3>. QED BY <2>1, <2>3, <3>2
  <2>. QED BY <2>2, <2>3
<1>8. GoesOn(h, base, step, k)
  BY <1>6, <1>7 DEF GoesOn
<1>. HIDE DEF h
<1>. QED BY <1>1, <1>5, <1>8

\* A finite set as a sequence.
LEMMA SetAsSequence ==
  ASSUME NEW S, IsFiniteSet(S)
  PROVE  /\ SetToSeq(S) \in Seq(S) /\ ToSet(SetToSeq(S)) = S
         /\ \A i, j \in 1..Len(SetToSeq(S)) : SetToSeq(S)[i] = SetToSeq(S)[j] => i = j
<1>. DEFINE n == Cardinality(S)
            t == SetToSeq(S)
<1>1. n \in Nat
  BY FS_CardinalityType
<1>2. ExistsBijection(1..n, S)
  BY FS_NatBijection, FS_CountingElements, <1>1
<1>3. \E f \in [1..n -> S] : IsInjective(f)
  BY <1>2 DEF ExistsBijection, Bijection, Injection
<1>4. t \in [1..n -> S] /\ IsInjective(t)
  BY <1>3 DEF SetToSeq
<1>. HIDE DEF t
<1>5. t \in Seq(S) /\ Len(t) = n
  <2>. HIDE DEF n
  <2>. QED BY <1>1, <1>4
<1>6. t \in Surjection(1..n, S)
  <2>1. IsFiniteSet(1..n) /\ Cardinality(1..n) = n
    BY <1>1, FS_Interval
  <2>2. t \in Injection(1..n, S)
    BY <1>4 DEF Injection
  <2>. HIDE DEF n
  <2>. QED BY <2>1, <2>2, FS_Injection DEF n
<1>7. ToSet(t) = S
  BY <1>4, <1>6 DEF ToSet, Surjection
<1>8. \A i, j \in 1..n : t[i] = t[j] => i = j
  BY <1>4 DEF IsInjective
<1>. QED BY <1>5, <1>7, <1>8 DEF t


\* What is kept of a sequence: at lists the places that are kept, in their order.
LEMMA KeptPlaces ==
  ASSUME NEW T, NEW s \in Seq(T), NEW S \in SUBSET (1..Len(s))
  PROVE  /\ Kept(s, S) \in Seq(T) /\ Len(Kept(s, S)) = Cardinality(S)
         /\ \E at \in Bijection(1..Cardinality(S), S) :
              /\ \A k \in 1..Cardinality(S) : Kept(s, S)[k] = s[at[k]]
              /\ \A j, k \in 1..Cardinality(S) : j < k => at[j] < at[k]
<1>. DEFINE n == Cardinality(S)
            Before(x) == {y \in S : y < x}
            rank == [x \in S |-> Cardinality(Before(x)) + 1]
            at == [k \in 1..n |-> CHOOSE x \in S : Cardinality(Before(x)) = k - 1]
<1>1. IsFiniteSet(S) /\ n \in Nat /\ S \subseteq Nat
  <2>1. IsFiniteSet(1..Len(s)) /\ 1..Len(s) \subseteq Nat
    BY FS_Interval
  <2>2. IsFiniteSet(S)
    BY <2>1, FS_Subset
  <2>. QED BY <2>1, <2>2, FS_CardinalityType
<1>2. ASSUME NEW x \in S
      PROVE  /\ IsFiniteSet(Before(x)) /\ Cardinality(Before(x)) \in Nat
             /\ Cardinality(Before(x)) < n
  <2>1. Before(x) \subseteq S /\ x \notin Before(x)
    BY <1>1
  <2>. QED BY <1>1, <2>1, FS_Subset, FS_CardinalityType
<1>3. ASSUME NEW x \in S, NEW y \in S, x < y PROVE Cardinality(Before(x)) < Cardinality(Before(y))
  <2>1. Before(x) \subseteq Before(y)
    <3>1. ASSUME NEW z \in S, z < x PROVE z < y
      <4>1. x \in Nat /\ y \in Nat /\ z \in Nat
        BY <1>1
      <4>. QED BY <1>3, <3>1, <4>1
    <3>. QED BY <3>1
  <2>2. x \in Before(y) /\ x \notin Before(x)
    <3>1. x \in Nat
      BY <1>1
    <3>. QED BY <1>3, <3>1
  <2>3. IsFiniteSet(Before(y)) /\ Before(x) # Before(y)
    BY <1>2, <2>2
  <2>. HIDE DEF Before
  <2>. QED BY <2>1, <2>3, FS_Subset, FS_CardinalityType
<1>4. ASSUME NEW x \in S, NEW y \in S, Cardinality(Before(x)) = Cardinality(Before(y)) PROVE x = y
  <2>1. x \in Nat /\ y \in Nat
    BY <1>1
  <2>. HIDE DEF Before
  <2>. QED BY <1>2, <1>3, <1>4, <2>1
<1>5. rank \in Surjection(S, 1..n)
  <2>. HIDE DEF Before, n
  <2>1. rank \in [S -> 1..n]
    BY <1>1, <1>2
  <2>2. ASSUME NEW x \in S, NEW y \in S, rank[x] = rank[y] PROVE x = y
    BY <1>2, <1>4, <2>2
  <2>3. rank \in Injection(S, 1..n)
    BY <2>1, <2>2 DEF Injection, IsInjective
  <2>4. IsFiniteSet(1..n) /\ Cardinality(1..n) = n
    BY <1>1, FS_Interval
  <2>. HIDE DEF rank
  <2>. QED BY <1>1, <2>3, <2>4, FS_Injection DEF n
<1>6. ASSUME NEW k \in 1..n
      PROVE  at[k] \in S /\ Cardinality(Before(at[k])) = k - 1
  <2>1. PICK x \in S : rank[x] = k
    BY <1>5 DEF Surjection
  <2>2. Cardinality(Before(x)) = k - 1
    <3>. HIDE DEF Before
    <3>. QED BY <1>1, <1>2, <2>1
  <2>. HIDE DEF Before
  <2>. QED BY <2>2
<1>7. at \in Bijection(1..n, S)
  <2>1. at \in [1..n -> S]
    BY <1>6
  <2>2. ASSUME NEW j \in 1..n, NEW k \in 1..n, at[j] = at[k] PROVE j = k
    <3>. HIDE DEF at, Before
    <3>. QED BY <1>1, <1>6, <2>2
  <2>3. ASSUME NEW x \in S PROVE \E k \in 1..n : at[k] = x
    <3>. DEFINE k == Cardinality(Before(x)) + 1
    <3>1. k \in 1..n /\ k - 1 = Cardinality(Before(x))
      <4>. HIDE DEF Before, n
      <4>. QED BY <1>1, <1>2
    <3>2. Cardinality(Before(at[k])) = Cardinality(Before(x)) /\ at[k] \in S
      <4>. HIDE DEF Before, n, at, k
      <4>. QED BY <1>6, <3>1
    <3>. HIDE DEF k, at, Before
    <3>. QED BY <1>4, <3>1, <3>2
  <2>. HIDE DEF at
  <2>. QED BY <2>1, <2>2, <2>3 DEF Bijection, Injection, Surjection, IsInjective
<1>8. \A k \in 1..n : Kept(s, S)[k] = s[at[k]]
  BY DEF Kept
<1>9. Kept(s, S) \in [1..n -> T]
  <2>1. ASSUME NEW x \in S PROVE s[x] \in T
    OBVIOUS
  <2>2. Kept(s, S) = [k \in 1..n |-> s[at[k]]]
    BY DEF Kept
  <2>. HIDE DEF at, n
  <2>. QED BY <1>6, <2>1, <2>2
<1>10. ASSUME NEW j \in 1..n, NEW k \in 1..n, j < k PROVE at[j] < at[k]
  <2>1. /\ at[j] \in S /\ at[k] \in S /\ at[j] \in Nat /\ at[k] \in Nat
        /\ Cardinality(Before(at[j])) = j - 1 /\ Cardinality(Before(at[k])) = k - 1
    BY <1>1, <1>6
  <2>2. ~(at[k] < at[j]) /\ at[j] # at[k]
    <3>. HIDE DEF at, Before
    <3>. QED BY <1>3, <1>10, <2>1
  <2>. HIDE DEF at
  <2>. QED BY <2>1, <2>2
<1>. HIDE DEF at
<1>. QED BY <1>1, <1>7, <1>8, <1>9, <1>10

=============================================================================
