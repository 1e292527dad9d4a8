-------------------------- MODULE DiscoveryProofs --------------------------
(***************************************************************************)
(* Proof that Discovery implements Announcements, for any number of calls  *)
(* of poll(), failures and restarts: of a source that sorts what it reads, *)
(* as long as the list of discovered plays has room for an answer and for  *)
(* what may be discovered while another is on its way.                     *)
(***************************************************************************)
EXTENDS Discovery, Stepwise, SequenceTheorems

-----------------------------------------------------------------------------
(* Order.                                                                     *)

\* Counting those before each puts a finite set of numbers in order.
LEMMA BatchIsOfThese ==
  ASSUME NEW S \in SUBSET Nat, IsFiniteSet(S)
  PROVE  /\ Batch(S) \in Seq(S) /\ Len(Batch(S)) = Cardinality(S)
         /\ ToSet(Batch(S)) \subseteq S
<1>. DEFINE n == Cardinality(S)
            Before(x) == {y \in S : y < x}
            rank == [x \in S |-> Cardinality(Before(x)) + 1]
<1>0. n \in Nat
  BY FS_CardinalityType
<1>1. ASSUME NEW x \in S
      PROVE  /\ IsFiniteSet(Before(x)) /\ Cardinality(Before(x)) \in Nat
             /\ Cardinality(Before(x)) < n
  <2>1. Before(x) \subseteq S /\ x \notin Before(x)
    OBVIOUS
  <2>. QED BY <2>1, FS_Subset, FS_CardinalityType
<1>2. ASSUME NEW x \in S, NEW y \in S, x < y PROVE Cardinality(Before(x)) < Cardinality(Before(y))
  <2>1. Before(x) \subseteq Before(y) /\ x \in Before(y) /\ x \notin Before(x)
    <3>1. ASSUME NEW z \in S, z < x PROVE z < y
      <4>1. x \in Nat /\ y \in Nat /\ z \in Nat
        OBVIOUS
      <4>. QED BY <1>2, <3>1, <4>1
    <3>2. ~(x < x)
      <4>1. x \in Nat
        OBVIOUS
      <4>. QED BY <4>1
    <3>3. Before(x) \subseteq Before(y)
      BY <3>1
    <3>4. x \in Before(y)
      BY <1>2
    <3>5. x \notin Before(x)
      BY <3>2
    <3>. QED BY <3>3, <3>4, <3>5
  <2>2. IsFiniteSet(Before(y)) /\ Before(x) # Before(y)
    BY <1>1, <2>1
  <2>3. Before(x) \in SUBSET Before(y)
    BY <2>1
  <2>. HIDE DEF Before
  <2>. QED BY <2>2, <2>3, FS_Subset, FS_CardinalityType
<1>3. rank \in Injection(S, 1..n)
  <2>1. rank \in [S -> 1..n]
    BY <1>0, <1>1
  <2>2. ASSUME NEW x \in S, NEW y \in S, rank[x] = rank[y] PROVE x = y
    <3>1. x \in Nat /\ y \in Nat
      OBVIOUS
    <3>. HIDE DEF Before
    <3>. QED BY <1>1, <1>2, <2>2, <3>1
  <2>. QED BY <2>1, <2>2 DEF Injection, IsInjective
<1>4. rank \in Surjection(S, 1..n)
  <2>1. IsFiniteSet(1..n) /\ Cardinality(1..n) = n
    BY <1>0, FS_Interval
  <2>. HIDE DEF rank, n
  <2>. QED BY <1>3, <2>1, FS_Injection DEF n
<1>5. ASSUME NEW i \in 1..n PROVE \E x \in S : Cardinality(Before(x)) = i - 1
  <2>1. PICK x \in S : rank[x] = i
    BY <1>4 DEF Surjection
  <2>. HIDE DEF Before
  <2>. QED BY <1>0, <1>1, <2>1
<1>6. Batch(S) \in [1..n -> S]
  BY <1>5 DEF Batch
<1>7. Batch(S) \in Seq(S) /\ Len(Batch(S)) = n
  BY <1>0, <1>6, LenProperties, SeqDef
<1>. QED BY <1>0, <1>6, <1>7 DEF ToSet

LEMMA NothingNew == Batch({}) = <<>>
  <1>1. Cardinality({}) = 0 /\ IsFiniteSet({})
    BY FS_EmptySet
  <1>2. Batch({}) \in Seq({}) /\ Len(Batch({})) = 0
    BY <1>1, BatchIsOfThese
  <1>. QED BY <1>2, EmptySeq

-----------------------------------------------------------------------------
(* The list of discovered plays.                                              *)

\* The longest and the shortest of the answers that are full, and the setting: room in
\* the list for a long answer, for what may be new before and while it is on its way, and
\* for what a long one has that a short one did not.
Most  == IF PollLimit < BacklogLimit THEN BacklogLimit ELSE PollLimit
Least == IF PollLimit < BacklogLimit THEN PollLimit ELSE BacklogLimit

Remembers == OldestFirst /\ Most + (Most - Least) + 2 * MaxLag <= MaxStored

\* A listen so old that no answer has it any more, not even one that is on its way.
OutOfReach(l) == l + MaxLag + Most <= listens

\* An answer: the latest k of listens 1..m, as many as were asked for or all of them.
Answers ==
  {s \in Seq(Nat) : \E m \in 1..listens, k \in 1..Most :
      /\ k <= m /\ (k = m \/ Least <= k) /\ listens <= m + MaxLag
      /\ s = [i \in 1..k |-> m - k + i]}

\* Entry i was in an answer that ended with listen a: older ones of that answer are in
\* front of it, and older ones behind it came with answers that reached further back.
InItsPlace(list, i, a) ==
  /\ \A l \in 1..(list[i] - 1) :
        a < l + Least => OutOfReach(l) \/ \E h \in 1..(i - 1) : list[h] = l
  /\ \A j \in (i + 1)..Len(list) :
        list[j] < list[i] => list[j] + Least <= a /\ a < list[j] + MaxLag + Most
Ordered(list) == \A i \in 1..Len(list) : \E a \in list[i]..listens : InItsPlace(list, i, a)

Distinct(list) == \A i, j \in 1..Len(list) : list[i] = list[j] => i = j
Listens(list) == list \in Seq(Nat) /\ \A i \in 1..Len(list) : list[i] \in 1..listens

ListInv(list) == Listens(list) /\ Len(list) <= MaxStored /\ Distinct(list) /\ Ordered(list)

\* The constants are numbers.
LEMMA Limits ==
  /\ MaxLag \in Nat /\ MaxStored \in Nat \ {0} /\ Most \in Nat \ {0} /\ Least \in Nat \ {0}
  /\ Least <= Most /\ {PollLimit, BacklogLimit} \subseteq Least..Most
  BY DiscoveryAssumption DEF Most, Least

\* A listen that is new goes to the end, behind those of its answer that precede it.
LEMMA NewOneAtTheEnd ==
  ASSUME listens \in Nat, NEW list, Listens(list), Distinct(list), Ordered(list),
         NEW l \in 1..listens, ~OutOfReach(l), l \notin ToSet(list),
         NEW m \in l..listens,
         \A y \in 1..(l - 1) : m < y + Least => OutOfReach(y) \/ y \in ToSet(list),
         NEW t, t = Append(list, l)
  PROVE  Listens(t) /\ Distinct(t) /\ Ordered(t) /\ Len(t) = Len(list) + 1
<1>. DEFINE n == Len(list)
<1>1. /\ n \in Nat /\ l \in Nat /\ Len(t) = n + 1 /\ t \in Seq(Nat)
      /\ \A i \in 1..n : t[i] = list[i] /\ list[i] \in 1..listens
      /\ t[n + 1] = l
  BY AppendProperties, LenProperties DEF Listens
<1>2. \A i \in 1..n : list[i] # l
  BY LenProperties DEF ToSet, Listens
<1>3. \A i \in 1..(n + 1) : i \in 1..n \/ i = n + 1
  BY <1>1
<1>. HIDE DEF n
<1>4. Listens(t)
  BY <1>1, <1>3 DEF Listens
<1>5. Distinct(t)
  BY <1>1, <1>2, <1>3 DEF Distinct, n
<1>6. ASSUME NEW i \in 1..n PROVE \E a \in t[i]..listens : InItsPlace(t, i, a)
  <2>1. PICK a \in list[i]..listens : InItsPlace(list, i, a)
    BY <1>6 DEF Ordered, n
  <2>2. /\ t[i] = list[i] /\ list[i] \in Nat /\ a \in Nat /\ i \in Nat
        /\ \A h \in 1..(i - 1) : h \in 1..n
    BY <1>1, <1>6
  <2>3. ASSUME NEW y \in 1..(t[i] - 1), a < y + Least
        PROVE  OutOfReach(y) \/ \E h \in 1..(i - 1) : t[h] = y
    BY <1>1, <2>1, <2>2, <2>3 DEF InItsPlace
  <2>4. ASSUME NEW j \in (i + 1)..(n + 1), t[j] < t[i]
        PROVE  t[j] + Least <= a /\ a < t[j] + MaxLag + Most
    <3>1. CASE j \in (i + 1)..n
      <4>1. t[j] = list[j]
        BY <1>1, <2>2, <3>1
      <4>. QED BY <2>1, <2>2, <2>4, <3>1, <4>1 DEF InItsPlace, n
    <3>2. CASE j = n + 1
      <4>1. l < list[i] /\ l \in 1..(list[i] - 1) /\ t[j] = l
        BY <1>1, <2>2, <2>4, <3>2
      <4>2. ~(\E h \in 1..(i - 1) : list[h] = l)
        BY <1>2, <2>2
      <4>3. ~(a < l + Least)
        BY <2>1, <4>1, <4>2 DEF InItsPlace
      <4>4. a < l + MaxLag + Most
        BY <1>1, <2>2, Limits DEF OutOfReach
      <4>. QED BY <1>1, <2>2, <4>1, <4>3, <4>4, Limits
    <3>. QED BY <2>2, <3>1, <3>2, <1>1
  <2>. QED BY <1>1, <2>2, <2>3, <2>4 DEF InItsPlace
<1>7. \E a \in t[n + 1]..listens : InItsPlace(t, n + 1, a)
  <2>1. ASSUME NEW y \in 1..(l - 1), m < y + Least
        PROVE  OutOfReach(y) \/ \E h \in 1..n : t[h] = y
    <3>1. CASE y \in ToSet(list)
      <4>1. DOMAIN list = 1..n
        BY LenProperties DEF Listens, n
      <4>2. PICK h \in 1..n : list[h] = y
        BY <3>1, <4>1 DEF ToSet
      <4>. QED BY <1>1, <4>2
    <3>. QED BY <2>1, <3>1
  <2>2. ~(\E j \in ((n + 1) + 1)..(n + 1) : TRUE) /\ (n + 1) - 1 = n
    BY <1>1
  <2>. QED BY <1>1, <2>1, <2>2 DEF InItsPlace
<1>. QED BY <1>1, <1>3, <1>4, <1>5, <1>6, <1>7 DEF Ordered, n

\* In a list with one entry too many the first is out of reach: there are not as many
\* listens that may be behind it.
LEMMA FirstIsOutOfReach ==
  ASSUME Remembers, listens \in Nat, NEW t, Listens(t), Distinct(t), Ordered(t),
         Len(t) = MaxStored + 1
  PROVE  OutOfReach(t[1])
<1>. DEFINE l == t[1]
            older == MaxLag + (Most - Least)
            others == 2..(MaxStored + 1)
            places == 1..(older + MaxLag + Most - 1)
<1>1. /\ MaxStored \in Nat \ {0} /\ older \in Nat /\ MaxLag \in Nat /\ Most \in Nat \ {0}
      /\ Least \in Nat \ {0}
  BY Limits
<1>2. \A j \in 1..(MaxStored + 1) : t[j] \in Nat /\ 1 <= t[j] /\ t[j] <= listens
  BY DEF Listens
<1>3. 1 \in 1..(MaxStored + 1) /\ l \in Nat /\ 1 <= l /\ l <= listens
  BY <1>1, <1>2
<1>4. PICK a \in l..listens : InItsPlace(t, 1, a)
  BY <1>3 DEF Ordered
<1>5. a \in Nat
  BY <1>3
<1>. SUFFICES ASSUME ~OutOfReach(l) PROVE FALSE
  OBVIOUS
<1>6. listens < l + MaxLag + Most
  BY <1>1, <1>3 DEF OutOfReach
<1>7. ASSUME NEW j \in others
      PROVE  /\ t[j] < l => t[j] + Least <= a /\ a < t[j] + MaxLag + Most
             /\ ~(t[j] < l) => l < t[j]
             /\ t[j] \in Nat /\ t[j] <= listens
  <2>1. j \in 1..(MaxStored + 1) /\ j # 1 /\ j \in (1 + 1)..Len(t)
    BY <1>1
  <2>2. t[j] # l
    BY <1>3, <2>1 DEF Distinct
  <2>3. t[j] < l => t[j] + Least <= a /\ a < t[j] + MaxLag + Most
    BY <1>4, <2>1 DEF InItsPlace
  <2>. QED BY <1>2, <1>3, <2>1, <2>2, <2>3
<1>. DEFINE place(j) == IF t[j] < l THEN t[j] + MaxLag + Most - a ELSE older + t[j] - l
            f == [j \in others |-> place(j)]
<1>8. ASSUME NEW j \in others
      PROVE  place(j) \in places /\ (place(j) <= older <=> t[j] < l)
  <2>1. /\ l \in Nat /\ a \in Nat /\ older \in Nat /\ l <= listens /\ listens \in Nat
        /\ t[j] \in Nat /\ t[j] <= listens /\ listens < l + MaxLag + Most
        /\ older = MaxLag + (Most - Least)
    BY <1>1, <1>3, <1>5, <1>6, <1>7
  <2>. HIDE DEF l, older
  <2>2. CASE t[j] < l
    <3>1. t[j] + Least <= a /\ a < t[j] + MaxLag + Most
      BY <1>7, <2>2
    <3>2. t[j] + MaxLag + Most - a \in 1..older
      BY <1>1, <2>1, <3>1
    <3>. QED BY <1>1, <2>1, <2>2, <3>2
  <2>3. CASE ~(t[j] < l)
    <3>1. l < t[j]
      BY <1>7, <2>3
    <3>2. older + t[j] - l \in (older + 1)..(older + MaxLag + Most - 1)
      BY <1>1, <2>1, <3>1
    <3>. QED BY <1>1, <2>1, <2>3, <3>2
  <2>. QED BY <2>2, <2>3
<1>9. f \in [others -> places]
  BY <1>8
<1>10. /\ IsFiniteSet(others) /\ IsFiniteSet(places)
       /\ Cardinality(others) = MaxStored /\ Cardinality(places) < MaxStored
  <2>1. older + MaxLag + Most - 1 \in Nat /\ older + MaxLag + Most - 1 < MaxStored
    BY <1>1 DEF Remembers
  <2>2. ASSUME NEW k \in Nat PROVE IsFiniteSet(1..k) /\ Cardinality(1..k) = k
    <3>1. 1 \in Int /\ k \in Int /\ (IF 1 > k THEN 0 ELSE k - 1 + 1) = k
      OBVIOUS
    <3>. QED BY <3>1, FS_Interval
  <2>3. 2 \in Int /\ MaxStored + 1 \in Int /\ ~(2 > MaxStored + 1)
    BY <1>1
  <2>4. IsFiniteSet(others) /\ Cardinality(others) = (MaxStored + 1) - 2 + 1
    BY <2>3, FS_Interval
  <2>5. (MaxStored + 1) - 2 + 1 = MaxStored
    BY <1>1
  <2>. HIDE DEF older, others
  <2>. QED BY <2>1, <2>2, <2>4, <2>5
<1>11. PICK i, j \in others : i # j /\ f[i] = f[j]
  <2>. HIDE DEF others, places, f
  <2>. QED BY <1>9, <1>10, FS_PigeonHole
<1>12. place(i) = place(j)
  <2>. HIDE DEF place
  <2>. QED BY <1>11
<1>13. t[i] = t[j]
  <2>1. t[i] < l <=> t[j] < l
    <3>. HIDE DEF place, older
    <3>. QED BY <1>8, <1>12
  <2>2. t[i] \in Nat /\ t[j] \in Nat
    BY <1>7
  <2>. HIDE DEF l, older
  <2>3. CASE t[i] < l
    <3>1. t[i] + MaxLag + Most - a = t[j] + MaxLag + Most - a
      BY <1>12, <2>1, <2>3
    <3>. QED BY <1>1, <1>5, <2>2, <3>1
  <2>4. CASE ~(t[i] < l)
    <3>1. older + t[i] - l = older + t[j] - l
      BY <1>12, <2>1, <2>4
    <3>. QED BY <1>1, <1>3, <2>2, <3>1
  <2>. QED BY <2>3, <2>4
<1>. QED BY <1>1, <1>11, <1>13 DEF Distinct

\* What leaves a list in front keeps the others in their places.
LEMMA FirstLeaves ==
  ASSUME listens \in Nat, NEW t, Listens(t), Distinct(t), Ordered(t), Len(t) # 0,
         OutOfReach(t[1]), NEW u, u = Tail(t)
  PROVE  /\ Listens(u) /\ Distinct(u) /\ Ordered(u) /\ Len(u) = Len(t) - 1
         /\ \A y \in ToSet(t) : y \in ToSet(u) \/ OutOfReach(y)
<1>. DEFINE n == Len(u)
<1>1. /\ n \in Nat /\ Len(t) = n + 1 /\ u \in Seq(Nat) /\ t \in Seq(Nat)
      /\ \A i \in 1..n : u[i] = t[i + 1]
      /\ DOMAIN t = 1..(n + 1) /\ DOMAIN u = 1..n
  BY HeadTailProperties, LenProperties, EmptySeq DEF Listens
<1>. HIDE DEF n
<1>2. \A i \in 1..n : i + 1 \in 1..(n + 1)
  BY <1>1
<1>3. Listens(u)
  BY <1>1, <1>2 DEF Listens, n
<1>4. Distinct(u)
  <2>1. ASSUME NEW i \in 1..n, NEW j \in 1..n, u[i] = u[j] PROVE i = j
    <3>1. i + 1 = j + 1
      BY <1>1, <1>2, <2>1 DEF Distinct
    <3>. QED BY <3>1
  <2>. QED BY <2>1 DEF Distinct, n
<1>5. ASSUME NEW i \in 1..n PROVE \E a \in u[i]..listens : InItsPlace(u, i, a)
  <2>1. PICK a \in t[i + 1]..listens : InItsPlace(t, i + 1, a)
    BY <1>1, <1>2 DEF Ordered
  <2>2. i \in Nat /\ u[i] = t[i + 1]
    BY <1>1
  <2>3. ASSUME NEW y \in 1..(u[i] - 1), a < y + Least
        PROVE  OutOfReach(y) \/ \E h \in 1..(i - 1) : u[h] = y
    <3>1. CASE OutOfReach(y)
      BY <3>1
    <3>2. CASE ~OutOfReach(y)
      <4>1. PICK h \in 1..((i + 1) - 1) : t[h] = y
        BY <2>1, <2>2, <2>3, <3>2 DEF InItsPlace
      <4>2. h # 1
        BY <3>2, <4>1
      <4>3. h - 1 \in 1..(i - 1) /\ h - 1 \in 1..n /\ (h - 1) + 1 = h
        BY <1>1, <2>2, <4>2
      <4>. QED BY <1>1, <4>1, <4>3
    <3>. QED BY <3>1, <3>2
  <2>4. ASSUME NEW j \in (i + 1)..n, u[j] < u[i]
        PROVE  u[j] + Least <= a /\ a < u[j] + MaxLag + Most
    <3>1. j + 1 \in ((i + 1) + 1)..Len(t) /\ u[j] = t[j + 1]
      BY <1>1, <2>2
    <3>. QED BY <2>1, <2>2, <2>4, <3>1 DEF InItsPlace
  <2>. QED BY <2>1, <2>2, <2>3, <2>4 DEF InItsPlace, n
<1>6. ASSUME NEW y \in ToSet(t), ~OutOfReach(y) PROVE y \in ToSet(u)
  <2>1. PICK h \in 1..(n + 1) : t[h] = y
    BY <1>1 DEF ToSet
  <2>2. h # 1
    BY <1>6, <2>1
  <2>3. h - 1 \in 1..n /\ (h - 1) + 1 = h
    BY <1>1, <2>2
  <2>. QED BY <1>1, <2>1, <2>3 DEF ToSet
<1>7. Ordered(u)
  BY <1>5 DEF Ordered, n
<1>8. Len(u) = Len(t) - 1
  BY <1>1 DEF n
<1>. QED BY <1>3, <1>4, <1>6, <1>7, <1>8

\* A list that a new listen was added to, full or not, is as it should be, and what it has
\* lost is out of reach.
LEMMA AddedToDiscovered ==
  ASSUME Remembers, listens \in Nat, NEW list, ListInv(list),
         NEW l \in 1..listens, ~OutOfReach(l), l \notin ToSet(list),
         NEW m \in l..listens,
         \A y \in 1..(l - 1) : m < y + Least => OutOfReach(y) \/ y \in ToSet(list),
         NEW t, t = AddToDiscovered(l, list)
  PROVE  /\ ListInv(t) /\ l \in ToSet(t)
         /\ \A y \in ToSet(list) : y \in ToSet(t) \/ OutOfReach(y)
<1>. DEFINE w == Append(list, l)
<1>1. Listens(w) /\ Distinct(w) /\ Ordered(w) /\ Len(w) = Len(list) + 1
  BY NewOneAtTheEnd DEF ListInv
<1>2. /\ Len(list) \in Nat /\ DOMAIN list = 1..Len(list) /\ MaxStored \in Nat \ {0}
      /\ w \in Seq(Nat) /\ DOMAIN w = 1..(Len(list) + 1) /\ Len(list) <= MaxStored
  BY <1>1, LenProperties, Limits DEF ListInv, Listens
<1>3. ToSet(w) = ToSet(list) \cup {l}
  <2>1. (\A i \in 1..Len(list) : w[i] = list[i]) /\ w[Len(list) + 1] = l
    BY <1>2, AppendProperties DEF ListInv, Listens
  <2>2. 1..(Len(list) + 1) = 1..Len(list) \cup {Len(list) + 1}
    BY <1>2
  <2>. HIDE DEF w
  <2>. QED BY <1>2, <2>1, <2>2 DEF ToSet
<1>4. CASE Len(list) < MaxStored
  <2>1. t = w
    BY <1>4 DEF AddToDiscovered
  <2>. HIDE DEF w
  <2>. QED BY <1>1, <1>2, <1>3, <1>4, <2>1 DEF ListInv
<1>5. CASE Len(list) = MaxStored
  <2>1. t = Tail(w)
    <3>1. list # <<>> /\ list \in Seq(Nat)
      BY <1>2, <1>5, EmptySeq DEF ListInv, Listens
    <3>. QED BY <1>2, <1>5, <3>1, HeadTailAppend DEF AddToDiscovered
  <2>. HIDE DEF w
  <2>2. OutOfReach(w[1])
    BY <1>1, <1>5, FirstIsOutOfReach
  <2>3. /\ Listens(t) /\ Distinct(t) /\ Ordered(t) /\ Len(t) = Len(w) - 1
        /\ \A y \in ToSet(w) : y \in ToSet(t) \/ OutOfReach(y)
    <3>1. Len(w) # 0
      BY <1>1, <1>2
    <3>. QED BY <1>1, <2>1, <2>2, <3>1, FirstLeaves
  <2>. QED BY <1>1, <1>2, <1>3, <1>5, <2>3 DEF ListInv
<1>6. Len(list) < MaxStored \/ Len(list) = MaxStored
  <2>1. Len(list) \in Nat /\ MaxStored \in Nat /\ Len(list) <= MaxStored
    BY <1>2
  <2>. QED BY ONLY <2>1
<1>. QED BY <1>4, <1>5, <1>6

\* discover() goes through the plays one by one.
LEMMA DiscoverStepByStep ==
  ASSUME discovered \in Seq(Nat), NEW plays \in Seq(Nat)
  PROVE  \E after :
           /\ Discover(plays) = after[Len(plays)]
           /\ after[0] = [list |-> discovered, new |-> {}]
           /\ \A n \in 1..Len(plays) : after[n] = DiscoverOne(after[n - 1], plays[n])
<1>0. PICK N : N = Len(plays)
  OBVIOUS
<1>. DEFINE T == [list : Seq(Nat), new : SUBSET Nat]
            base == [list |-> discovered, new |-> {}]
            step == [n \in 1..N |-> [r \in T |-> DiscoverOne(r, plays[n])]]
            Unfolds(f) == f = [n \in 0..N |-> IF n = 0 THEN base
                                                    ELSE DiscoverOne(f[n - 1], plays[n])]
<1>1. N \in Nat /\ base \in T /\ \A n \in 1..N : plays[n] \in Nat
  BY <1>0, LenProperties, ElementOfSeq
<1>2. ASSUME NEW r \in T, NEW l \in Nat PROVE DiscoverOne(r, l) \in T
  <2>1. r.list \in Seq(Nat) /\ r.new \in SUBSET Nat
    OBVIOUS
  <2>2. AddToDiscovered(l, r.list) \in Seq(Nat)
    <3>1. CASE Len(r.list) < MaxStored
      BY <2>1, <3>1, AppendProperties DEF AddToDiscovered
    <3>2. CASE ~(Len(r.list) < MaxStored)
      <4>1. r.list # <<>>
        BY <2>1, <3>2, Limits, EmptySeq
      <4>2. Tail(r.list) \in Seq(Nat)
        BY <2>1, <4>1, HeadTailProperties
      <4>. QED BY <3>2, <4>2, AppendProperties DEF AddToDiscovered
    <3>. QED BY <3>1, <3>2
  <2>. QED BY <2>1, <2>2 DEF DiscoverOne
<1>3. step \in [1..N -> [T -> T]]
  <2>1. ASSUME NEW n \in 1..N, NEW r \in T PROVE DiscoverOne(r, plays[n]) \in T
    <3>. HIDE DEF T
    <3>. QED BY <1>1, <1>2
  <2>. HIDE DEF T
  <2>. QED BY <2>1
<1>4. PICK f \in [0..N -> T] : GoesOn(f, base, step, N)
  <2>1. N \in Nat /\ base \in T
    BY <1>1
  <2>. HIDE DEF T, base, step
  <2>. QED BY <1>3, <2>1, StepByStep
<1>5. Unfolds(f)
  <2>1. ASSUME NEW n \in 1..N PROVE f[n] = DiscoverOne(f[n - 1], plays[n])
    <3>1. f[n - 1] \in T
      <4>1. n - 1 \in 0..N
        BY <1>1
      <4>. HIDE DEF T
      <4>. QED BY <4>1
    <3>2. step[n][f[n - 1]] = DiscoverOne(f[n - 1], plays[n])
      <4>. HIDE DEF T
      <4>. QED BY <3>1
    <3>. HIDE DEF step
    <3>. QED BY <1>4, <3>2 DEF GoesOn
  <2>2. f = [n \in 0..N |-> f[n]]
    OBVIOUS
  <2>3. \A n \in 0..N : n = 0 \/ n \in 1..N
    BY <1>1
  <2>. HIDE DEF T, base, step
  <2>. QED BY <1>4, <2>1, <2>2, <2>3 DEF GoesOn
<1>. DEFINE after == CHOOSE g : Unfolds(g)
<1>6. Unfolds(after)
  <2>. HIDE DEF Unfolds
  <2>. QED BY <1>5
<1>7. Discover(plays) = after[N]
  BY <1>0 DEF Discover
<1>. HIDE DEF after
<1>8. after[0] = base /\ \A n \in 1..N : after[n] = DiscoverOne(after[n - 1], plays[n])
  <2>1. 0 \in 0..N /\ \A n \in 1..N : n \in 0..N /\ n # 0
    BY <1>1
  <2>. HIDE DEF base
  <2>. QED BY <1>6, <2>1
<1>. QED BY <1>0, <1>7, <1>8

\* What discover() has found in the first n of the plays: what it calls new was not in
\* the list and is recent, and a play that the list does not hold is out of reach.
FoundInFirst(r, plays, n) ==
  /\ ListInv(r.list)
  /\ \A y \in r.new : y \in 1..listens /\ y \notin ToSet(discovered) /\ ~OutOfReach(y)
  /\ \A y \in ToSet(discovered) \cup r.new : y \in ToSet(r.list) \/ OutOfReach(y)
  /\ \A i \in 1..n : plays[i] \in ToSet(r.list) \/ OutOfReach(plays[i])

\* The next play of an answer is compared with what was found before it.
LEMMA FindsTheNext ==
  ASSUME Remembers, listens \in Nat, NEW plays \in Answers, NEW n \in 1..Len(plays),
         NEW r, FoundInFirst(r, plays, n - 1)
  PROVE  FoundInFirst(DiscoverOne(r, plays[n]), plays, n)
<1>. DEFINE l == plays[n]
            list == r.list
            t == AddToDiscovered(l, list)
<1>1. PICK m \in 1..listens, k \in 1..Most :
        /\ k <= m /\ (k = m \/ Least <= k) /\ listens <= m + MaxLag
        /\ plays = [i \in 1..k |-> m - k + i]
  BY DEF Answers
<1>2. /\ m \in Nat /\ k \in Nat /\ MaxLag \in Nat /\ Most \in Nat /\ Least \in Nat
      /\ k <= Most /\ 1 <= m /\ m <= listens
  BY Limits
<1>3. Len(plays) = k
  BY <1>1, <1>2, LenProperties DEF Answers
<1>4. n \in 1..k /\ n \in Nat /\ n - 1 \in Nat /\ \A i \in 1..n : i \in 1..(n - 1) \/ i = n
  BY <1>2, <1>3
<1>5. \A i \in 1..k : plays[i] = m - k + i
  BY <1>1
<1>6. l = m - k + n /\ l \in Nat /\ l \in 1..listens /\ m \in l..listens /\ ~OutOfReach(l)
  <2>1. l = m - k + n
    BY <1>4, <1>5
  <2>. HIDE DEF l
  <2>. QED BY <1>1, <1>2, <1>4, <2>1 DEF OutOfReach
<1>7. CASE l \in ToSet(list)
  <2>1. DiscoverOne(r, l) = r
    BY <1>7 DEF DiscoverOne, AlreadyDiscovered
  <2>. QED BY <1>4, <1>7, <2>1 DEF FoundInFirst
<1>8. CASE l \notin ToSet(list)
  <2>1. ASSUME NEW y \in 1..(l - 1), m < y + Least
        PROVE  OutOfReach(y) \/ y \in ToSet(list)
    <3>1. y \in Nat /\ 1 <= y /\ y < l
      BY <1>6
    <3>2. y - (m - k) \in 1..(n - 1) /\ y - (m - k) \in 1..k
      <4>. HIDE DEF l
      <4>. QED BY <1>1, <1>2, <1>4, <1>6, <2>1, <3>1
    <3>3. plays[y - (m - k)] = y
      <4>1. m - k + (y - (m - k)) = y
        BY <1>2, <3>1
      <4>. QED BY <1>5, <3>2, <4>1
    <3>. QED BY <3>2, <3>3 DEF FoundInFirst
  <2>2. /\ ListInv(t) /\ l \in ToSet(t)
        /\ \A y \in ToSet(list) : y \in ToSet(t) \/ OutOfReach(y)
    <3>1. ListInv(list)
      BY DEF FoundInFirst
    <3>. HIDE DEF l, list, t
    <3>. QED BY <1>6, <1>8, <2>1, <3>1, AddedToDiscovered DEF t
  <2>3. DiscoverOne(r, l) = [list |-> t, new |-> r.new \cup {l}]
    BY <1>8 DEF DiscoverOne, AlreadyDiscovered
  <2>4. l \notin ToSet(discovered)
    BY <1>6, <1>8 DEF FoundInFirst
  <2>5. \A i \in 1..n : plays[i] \in ToSet(t) \/ OutOfReach(plays[i])
    BY <1>4, <2>2 DEF FoundInFirst
  <2>6. \A y \in ToSet(discovered) \cup (r.new \cup {l}) : y \in ToSet(t) \/ OutOfReach(y)
    BY <2>2 DEF FoundInFirst
  <2>7. \A y \in r.new \cup {l} :
           y \in 1..listens /\ y \notin ToSet(discovered) /\ ~OutOfReach(y)
    BY <1>6, <2>4 DEF FoundInFirst
  <2>. HIDE DEF l, t
  <2>. QED BY <2>2, <2>3, <2>5, <2>6, <2>7 DEF FoundInFirst, l
<1>. QED BY <1>7, <1>8

\* So it is for all plays of an answer, and for an answer without plays.
LEMMA DiscoverFinds ==
  ASSUME Remembers, listens \in Nat, ListInv(discovered), NEW plays \in Answers \cup {<<>>}
  PROVE  FoundInFirst(Discover(plays), plays, Len(plays))
<1>. DEFINE N == Len(plays)
<1>1. discovered \in Seq(Nat) /\ plays \in Seq(Nat)
  BY EmptySeq DEF ListInv, Listens, Answers
<1>2. PICK after :
        /\ Discover(plays) = after[N]
        /\ after[0] = [list |-> discovered, new |-> {}]
        /\ \A n \in 1..N : after[n] = DiscoverOne(after[n - 1], plays[n])
  BY <1>1, DiscoverStepByStep
<1>3. N \in Nat
  BY <1>1, LenProperties
<1>. DEFINE Wrong == {n \in 0..N : ~FoundInFirst(after[n], plays, n)}
<1>. SUFFICES ASSUME Wrong # {} PROVE FALSE
  <2>1. N \in 0..N
    BY <1>3
  <2>. QED BY <1>2, <2>1
<1>4. PICK n \in Wrong : \A j \in Wrong : n <= j
  <2>1. Wrong \in SUBSET Nat
    OBVIOUS
  <2>. HIDE DEF Wrong
  <2>. QED BY <2>1, LeastNumber
<1>5. n # 0
  <2>1. FoundInFirst([list |-> discovered, new |-> {}], plays, 0)
    BY DEF FoundInFirst
  <2>. QED BY <1>2, <1>4, <2>1
<1>6. n \in 1..N /\ n - 1 \in 0..N /\ ~(n <= n - 1)
  BY <1>3, <1>4, <1>5
<1>7. FoundInFirst(after[n - 1], plays, n - 1)
  BY <1>4, <1>6
<1>8. plays \in Answers
  <2>1. Len(<<>>) = 0
    BY EmptySeq
  <2>. QED BY <1>3, <1>6, <2>1
<1>9. FoundInFirst(after[n], plays, n)
  BY <1>2, <1>6, <1>7, <1>8, FindsTheNext
<1>. QED BY <1>4, <1>9

-----------------------------------------------------------------------------
(* The promise.                                                               *)

\* Whatever a client was told of is in the list or out of reach: no answer brings it again.
Known == \A c \in Subscribed : \A l \in ToSet(queued[c]) :
           l \in ToSet(discovered) \/ OutOfReach(l)

DiscoveryInv ==
  /\ listens \in Nat
  /\ queued \in [Clients -> Seq(Nat)]
  /\ answer \in [Polls -> Answers \cup {<<>>}]
  /\ ListInv(discovered)
  /\ Known

LEMMA InBoth ==
  ASSUME NEW s \in Seq(Nat), NEW t \in Seq(Nat)
  PROVE  ToSet(s \o t) \subseteq ToSet(s) \cup ToSet(t)
<1>1. /\ Len(s) \in Nat /\ Len(t) \in Nat
      /\ DOMAIN s = 1..Len(s) /\ DOMAIN t = 1..Len(t)
      /\ DOMAIN (s \o t) = 1..(Len(s) + Len(t))
  BY ConcatProperties, LenProperties
<1>2. ASSUME NEW i \in 1..(Len(s) + Len(t)) PROVE (s \o t)[i] \in ToSet(s) \cup ToSet(t)
  <2>1. CASE i <= Len(s)
    <3>1. i \in 1..Len(s) /\ (s \o t)[i] = s[i]
      BY <1>1, <2>1, ConcatProperties
    <3>. QED BY <1>1, <3>1 DEF ToSet
  <2>2. CASE ~(i <= Len(s))
    <3>1. i - Len(s) \in 1..Len(t) /\ (s \o t)[i] = t[i - Len(s)]
      BY <1>1, <2>2, ConcatProperties
    <3>. QED BY <1>1, <3>1 DEF ToSet
  <2>. QED BY <2>1, <2>2
<1>. QED BY <1>1, <1>2 DEF ToSet

\* An answer holds the latest listens, and none of them is lost on its way.
LEMMA AnswersAreAnswers ==
  ASSUME OldestFirst, listens \in Nat, NEW n \in Least..Most
  PROVE  Latest(n) \in Answers \cup {<<>>}
<1>. DEFINE k == IF n < listens THEN n ELSE listens
<1>1. /\ n \in Nat \ {0} /\ Least <= n /\ n <= Most /\ MaxLag \in Nat
      /\ k \in Nat /\ k <= listens /\ k <= n /\ (k = listens \/ k = n)
  BY Limits
<1>2. Latest(n) = [i \in 1..k |-> listens - k + i]
  BY DEF Latest
<1>. HIDE DEF k
<1>3. Latest(n) \in Seq(Nat)
  <2>1. Latest(n) \in [1..k -> Nat]
    BY <1>1, <1>2
  <2>. QED BY <1>1, <2>1, SeqDef
<1>4. CASE k = 0
  <2>1. DOMAIN Latest(n) = {}
    BY <1>2, <1>4
  <2>2. Len(Latest(n)) = 0
    BY <1>3, <2>1, LenProperties
  <2>. QED BY <1>3, <2>2, EmptySeq
<1>5. CASE k # 0
  <2>1. listens \in 1..listens /\ k \in 1..Most /\ listens <= listens + MaxLag
    BY <1>1, <1>5, Limits
  <2>2. k = listens \/ Least <= k
    BY <1>1
  <2>. QED BY <1>1, <1>2, <1>3, <2>1, <2>2 DEF Answers
<1>. QED BY <1>4, <1>5

\* Listens that nobody was told of before are told to those who want them, and nothing is
\* told when nothing is new.
LEMMA ToldOnce ==
  ASSUME Remembers, DiscoveryInv, NEW plays \in Answers \cup {<<>>}, listens' = listens,
         HandOn(Discover(plays).new)
  PROVE  /\ queued' \in [Clients -> Seq(Nat)]
         /\ \A c \in Subscribed : ToSet(queued[c])' \subseteq
                                    ToSet(queued[c]) \cup Discover(plays).new
         /\ Promise!Tell \/ queued' = queued
<1>. DEFINE S == Discover(plays).new
<1>1. FoundInFirst(Discover(plays), plays, Len(plays)) /\ listens \in Nat
  BY DiscoverFinds DEF DiscoveryInv
<1>2. S \in SUBSET (1..listens) /\ \A y \in S : y \notin ToSet(discovered) /\ ~OutOfReach(y)
  BY <1>1 DEF FoundInFirst
<1>3. queued' = [c \in Clients |-> IF c \in Subscribed THEN queued[c] \o Batch(S)
                                                         ELSE queued[c]]
  BY DEF HandOn
<1>. HIDE DEF S
<1>4. S \in SUBSET Nat /\ IsFiniteSet(S)
  <2>1. IsFiniteSet(1..listens) /\ 1..listens \subseteq Nat
    BY <1>1, FS_Interval
  <2>. QED BY <1>2, <2>1, FS_Subset
<1>5. Batch(S) \in Seq(Nat) /\ ToSet(Batch(S)) \subseteq S
  <2>1. Batch(S) \in Seq(S) /\ ToSet(Batch(S)) \subseteq S
    BY <1>4, BatchIsOfThese
  <2>2. Batch(S) \in Seq(Nat)
    <3>1. Len(Batch(S)) \in Nat /\ Batch(S) \in [1..Len(Batch(S)) -> Nat]
      BY <1>4, <2>1, LenProperties
    <3>. QED BY <3>1, SeqDef
  <2>. QED BY <2>1, <2>2
<1>6. queued \in [Clients -> Seq(Nat)] /\ Subscribed \subseteq Clients
  BY DiscoveryAssumption DEF DiscoveryInv, Subscribed
<1>7. queued' \in [Clients -> Seq(Nat)]
  BY <1>3, <1>5, <1>6, ConcatProperties
<1>8. ASSUME NEW c \in Subscribed PROVE ToSet(queued[c])' \subseteq ToSet(queued[c]) \cup S
  <2>1. (queued[c])' = queued[c] \o Batch(S) /\ queued[c] \in Seq(Nat)
    BY <1>3, <1>6
  <2>2. ToSet(queued[c] \o Batch(S)) \subseteq ToSet(queued[c]) \cup ToSet(Batch(S))
    BY <1>5, <2>1, InBoth
  <2>3. ToSet(queued[c])' = ToSet(queued[c] \o Batch(S))
    BY <2>1 DEF ToSet
  <2>. QED BY <1>5, <2>2, <2>3
<1>9. CASE S = {}
  <2>1. \A c \in Clients : queued'[c] = queued[c]
    BY <1>3, <1>6, <1>9, NothingNew, ConcatEmptySeq
  <2>2. queued' = queued
    BY <1>6, <1>7, <2>1
  <2>. QED BY <1>7, <1>8, <2>2 DEF S
<1>10. CASE S # {}
  <2>1. ASSUME NEW c \in Subscribed PROVE S \cap ToSet(queued[c]) = {}
    BY <1>2 DEF DiscoveryInv, Known
  <2>2. Promise!InOrder(S) = Batch(S)
    BY DEF Promise!InOrder, Batch, Cardinality, Promise!Cardinality
  <2>3. Promise!Tell
    BY <1>2, <1>3, <1>10, <2>1, <2>2 DEF Promise!Tell, Promise!ToSet, ToSet
  <2>. QED BY <1>7, <1>8, <2>3 DEF S
<1>. QED BY <1>9, <1>10

\* discover() leaves the list as it should be and loses nothing that may come again.
LEMMA RemembersEverything ==
  ASSUME Remembers, DiscoveryInv, NEW plays \in Answers \cup {<<>>}, listens' = listens,
         discovered' = Discover(plays).list
  PROVE  /\ ListInv(discovered)'
         /\ \A y \in ToSet(discovered) \cup Discover(plays).new :
               (y \in ToSet(discovered) \/ OutOfReach(y))'
         /\ \A y : OutOfReach(y)' <=> OutOfReach(y)
<1>1. FoundInFirst(Discover(plays), plays, Len(plays))
  BY DiscoverFinds DEF DiscoveryInv
<1>2. ListInv(discovered)'
  <2>0. PICK u : u = Discover(plays).list
    OBVIOUS
  <2>1. Listens(u) /\ Len(u) <= MaxStored /\ Distinct(u) /\ Ordered(u)
    BY <1>1, <2>0 DEF FoundInFirst, ListInv
  <2>2. discovered' = u
    BY <2>0
  <2>3. Ordered(discovered)'
    BY <2>1, <2>2 DEF Ordered, InItsPlace, OutOfReach
  <2>. QED BY <2>1, <2>2, <2>3 DEF ListInv, Listens, Distinct
<1>3. \A y : OutOfReach(y)' <=> OutOfReach(y)
  BY DEF OutOfReach
<1>4. ToSet(discovered)' = ToSet(Discover(plays).list)
  BY DEF ToSet
<1>. QED BY <1>1, <1>2, <1>3, <1>4 DEF FoundInFirst

\* Another listen takes nothing out of an answer and brings nothing back within reach.
LEMMA ListenPreserves ==
  ASSUME Remembers, DiscoveryInv, Listen
  PROVE  DiscoveryInv' /\ Promise!Listen
<1>1. /\ listens \in Nat /\ listens' = listens + 1 /\ listens < MaxListens
      /\ UNCHANGED <<discovered, queued, answer>>
  BY DEF DiscoveryInv, Listen
<1>2. \A y \in Nat : OutOfReach(y) => OutOfReach(y)'
  BY <1>1, Limits DEF OutOfReach
<1>3. answer' \in [Polls -> Answers' \cup {<<>>}]
  <2>1. ASSUME NEW c \in Polls PROVE answer[c] \in Answers' \cup {<<>>}
    <3>1. CASE answer[c] = <<>>
      BY <3>1
    <3>2. CASE answer[c] # <<>>
      <4>. DEFINE s == answer[c]
      <4>1. s \in Answers /\ s \in Seq(Nat)
        BY <2>1, <3>2 DEF DiscoveryInv, Answers
      <4>2. PICK m \in 1..listens, k \in 1..Most :
              /\ k <= m /\ (k = m \/ Least <= k) /\ listens <= m + MaxLag
              /\ s = [i \in 1..k |-> m - k + i]
        BY <4>1 DEF Answers
      <4>3. m \in Nat /\ k \in Nat /\ Most \in Nat /\ MaxLag \in Nat
        BY <1>1, Limits
      <4>. HIDE DEF s
      <4>4. ToSet(s) = {m - k + i : i \in 1..k}
        BY <4>2 DEF ToSet
      <4>5. m \in ToSet(s) /\ \A x \in ToSet(s) : x \in Int /\ m >= x
        <5>1. k \in 1..k /\ m - k + k = m
          BY <4>2, <4>3
        <5>2. ASSUME NEW i \in 1..k PROVE m - k + i \in Int /\ m >= m - k + i
          BY <4>3
        <5>. QED BY <4>4, <5>1, <5>2
      <4>6. Max(ToSet(s)) = m
        <5>1. \A x \in ToSet(s) : (\A y \in ToSet(s) : x >= y) <=> x = m
          BY <4>3, <4>5
        <5>. QED BY <4>5, <5>1 DEF Max
      <4>7. listens < m + MaxLag
        BY <3>2, <4>6 DEF Listen, s
      <4>8. listens' <= m + MaxLag /\ m \in 1..listens'
        BY <1>1, <4>3, <4>7
      <4>9. s \in Answers'
        BY <4>1, <4>2, <4>8 DEF Answers
      <4>. QED BY <4>9 DEF s
    <3>. QED BY <3>1, <3>2
  <2>. HIDE DEF Answers
  <2>. QED BY <1>1, <2>1 DEF DiscoveryInv
<1>4. ListInv(discovered)'
  <2>1. Listens(discovered) /\ Len(discovered) <= MaxStored /\ Distinct(discovered)
    BY DEF DiscoveryInv, ListInv
  <2>2. Listens(discovered)'
    BY <1>1, <2>1 DEF Listens
  <2>3. ASSUME NEW i \in 1..Len(discovered)
        PROVE  \E a \in discovered[i]..listens' : InItsPlace(discovered, i, a)'
    <3>1. PICK a \in discovered[i]..listens : InItsPlace(discovered, i, a)
      BY DEF DiscoveryInv, ListInv, Ordered
    <3>2. discovered[i] \in Nat /\ a \in discovered[i]..listens'
      BY <1>1, <2>1 DEF Listens
    <3>3. ASSUME NEW l \in 1..(discovered[i] - 1), a < l + Least
          PROVE  OutOfReach(l)' \/ \E h \in 1..(i - 1) : discovered[h] = l
      <4>1. l \in Nat
        BY <3>2
      <4>. QED BY <1>2, <3>1, <3>3, <4>1 DEF InItsPlace
    <3>. QED BY <1>1, <3>1, <3>2, <3>3 DEF InItsPlace
  <2>. QED BY <1>1, <2>1, <2>2, <2>3 DEF ListInv, Ordered, Distinct
<1>5. Known'
  <2>1. ASSUME NEW c \in Subscribed, NEW l \in ToSet(queued[c]), OutOfReach(l)
        PROVE  OutOfReach(l)'
    <3>1. queued[c] \in Seq(Nat)
      BY DiscoveryAssumption DEF DiscoveryInv, Subscribed
    <3>2. l \in Nat
      BY <3>1, LenProperties, ElementOfSeq DEF ToSet
    <3>. QED BY <1>2, <2>1, <3>2
  <2>2. ToSet(discovered)' = ToSet(discovered) /\ queued' = queued
    BY <1>1 DEF ToSet
  <2>3. \A c : ToSet(queued[c])' = ToSet(queued[c])
    BY <1>1 DEF ToSet
  <2>. QED BY <2>1, <2>2, <2>3 DEF DiscoveryInv, Known
<1>6. DiscoveryInv'
  BY <1>1, <1>3, <1>4, <1>5 DEF DiscoveryInv
<1>7. Promise!Listen
  BY <1>1 DEF Promise!Listen
<1>. QED BY <1>6, <1>7

\* Steps that leave all of it alone.
LEMMA NothingHappens ==
  ASSUME DiscoveryInv, UNCHANGED <<listens, discovered, queued>>,
         answer' \in [Polls -> Answers \cup {<<>>}]
  PROVE  DiscoveryInv' /\ UNCHANGED Promise!vars
<1>1. \A l : OutOfReach(l)' <=> OutOfReach(l)
  BY DEF OutOfReach
<1>2. Answers' = Answers
  BY DEF Answers
<1>3. ListInv(discovered)'
  <2>1. Ordered(discovered)'
    BY DEF DiscoveryInv, ListInv, Ordered, InItsPlace, OutOfReach
  <2>. QED BY <2>1 DEF DiscoveryInv, ListInv, Listens, Distinct
<1>4. Known'
  BY <1>1 DEF DiscoveryInv, Known, ToSet
<1>. QED BY <1>2, <1>3, <1>4 DEF DiscoveryInv, Promise!vars

\* The process starts with an empty list, and nobody was told anything.
LEMMA NothingKnown ==
  ASSUME listens' \in Nat, discovered' = <<>>, queued' = [c \in Clients |-> <<>>],
         answer' = [c \in Polls |-> <<>>]
  PROVE  DiscoveryInv'
<1>1. Len(<<>>) = 0 /\ <<>> \in Seq(Nat) /\ DOMAIN <<>> = {}
  BY EmptySeq, LenProperties
<1>2. ListInv(discovered)'
  BY <1>1, Limits DEF ListInv, Listens, Distinct, Ordered
<1>3. Known'
  <2>1. \A c \in Subscribed : c \in Clients
    BY DiscoveryAssumption DEF Subscribed
  <2>. QED BY <1>1, <2>1 DEF Known, ToSet
<1>. QED BY <1>1, <1>2, <1>3 DEF DiscoveryInv

\* Each call of poll() that has an answer discovers what is new in it.
LEMMA ProcessesPreserve ==
  ASSUME Remembers, DiscoveryInv, NEW c \in Polls, ProcessBacklog(c) \/ PollDiscovers(c)
  PROVE  DiscoveryInv' /\ (Promise!Tell \/ UNCHANGED Promise!vars)
<1>. DEFINE plays == answer[c]
            S == Discover(plays).new
<1>1. /\ plays \in Answers \cup {<<>>}
      /\ listens' = listens /\ discovered' = Discover(plays).list
      /\ answer' = [answer EXCEPT ![c] = <<>>]
      /\ HandOn(S) \/ queued' = queued
  BY DEF DiscoveryInv, ProcessBacklog, PollDiscovers
<1>. HIDE DEF plays
<1>2. /\ ListInv(discovered)'
      /\ \A y \in ToSet(discovered) \cup S : (y \in ToSet(discovered) \/ OutOfReach(y))'
      /\ \A y : OutOfReach(y)' <=> OutOfReach(y)
  BY <1>1, RemembersEverything
<1>3. /\ queued' \in [Clients -> Seq(Nat)]
      /\ \A d \in Subscribed : ToSet(queued[d])' \subseteq ToSet(queued[d]) \cup S
      /\ Promise!Tell \/ queued' = queued
  <2>1. CASE HandOn(S)
    BY <1>1, <2>1, ToldOnce
  <2>2. CASE queued' = queued
    BY <2>2 DEF DiscoveryInv, ToSet
  <2>. QED BY <1>1, <2>1, <2>2
<1>4. Known'
  <2>. SUFFICES ASSUME NEW d \in Subscribed, NEW l \in ToSet(queued[d])'
                PROVE  (l \in ToSet(discovered) \/ OutOfReach(l))'
    BY DEF Known
  <2>1. CASE l \in S
    BY <1>2, <2>1
  <2>2. CASE l \in ToSet(queued[d])
    BY <1>2, <2>2 DEF DiscoveryInv, Known
  <2>. QED BY <1>3, <2>1, <2>2
<1>5. answer' \in [Polls -> Answers' \cup {<<>>}]
  BY <1>1 DEF DiscoveryInv, Answers
<1>6. listens' \in Nat
  BY <1>1 DEF DiscoveryInv
<1>. QED BY <1>1, <1>2, <1>3, <1>4, <1>5, <1>6 DEF DiscoveryInv, Promise!vars

\* Every step is one of the promise, or none.
LEMMA StepKeepsPromise ==
  ASSUME Remembers, DiscoveryInv, [Next]_vars
  PROVE  DiscoveryInv' /\ [Promise!Next]_(Promise!vars)
<1>1. CASE Listen
  BY <1>1, ListenPreserves DEF Promise!Next
<1>2. CASE Crash
  <2>1. /\ listens' \in Nat /\ listens' = listens /\ discovered' = <<>>
        /\ queued' = [c \in Clients |-> <<>>] /\ answer' = [c \in Polls |-> <<>>]
    BY <1>2 DEF Crash, DiscoveryInv
  <2>2. Promise!Restart
    BY <2>1 DEF Promise!Restart
  <2>. QED BY <2>1, <2>2, NothingKnown DEF Promise!Next
<1>3. ASSUME NEW c \in Polls, ProcessBacklog(c) \/ PollDiscovers(c)
      PROVE  DiscoveryInv' /\ [Promise!Next]_(Promise!vars)
  BY <1>3, ProcessesPreserve DEF Promise!Next
<1>4. ASSUME NEW c \in Polls, BacklogAnswered(c) \/ PollAnswered(c)
      PROVE  DiscoveryInv' /\ UNCHANGED Promise!vars
  <2>1. PollLimit \in Least..Most /\ BacklogLimit \in Least..Most
    BY Limits
  <2>2. OldestFirst /\ listens \in Nat
    BY DEF Remembers, DiscoveryInv
  <2>3. Latest(PollLimit) \in Answers \cup {<<>>} /\ Latest(BacklogLimit) \in Answers \cup {<<>>}
    BY <2>1, <2>2, AnswersAreAnswers
  <2>4. answer' \in [Polls -> Answers \cup {<<>>}]
    BY <1>4, <2>3 DEF DiscoveryInv, BacklogAnswered, PollAnswered
  <2>. QED BY <1>4, <2>4, NothingHappens DEF BacklogAnswered, PollAnswered
<1>5. CASE UNCHANGED <<listens, discovered, queued, answer>>
  <2>1. answer' \in [Polls -> Answers \cup {<<>>}]
    BY <1>5 DEF DiscoveryInv
  <2>. QED BY <1>5, <2>1, NothingHappens
<1>. QED
  BY <1>1, <1>2, <1>3, <1>4, <1>5
    DEF Next, Goes, Start, WakeUp, RequestFails, Stop, Heartbeat, vars

\* Whichever calls of poll() read the same backlog at once, hold stale answers, fail or
\* die with the process: a source tells each of its clients of a listen once in the life
\* of the process, the listens of one announcement by their dates, and nobody else.  It
\* takes a list with room for an answer and for what is new before and while it is on its
\* way; with less a listen that left the list comes back in a late answer as a new one.
THEOREM PromiseKept == ASSUME Remembers PROVE Spec => KeepsPromise
<1>1. Init => DiscoveryInv /\ Promise!Init
  <2>. SUFFICES ASSUME Init PROVE DiscoveryInv /\ Promise!Init
    OBVIOUS
  <2>1. listens \in Nat /\ Promise!Init
    BY DiscoveryAssumption DEF Init, Promise!Init
  <2>2. DiscoveryInv
    <3>1. Len(<<>>) = 0 /\ <<>> \in Seq(Nat) /\ DOMAIN <<>> = {}
      BY EmptySeq, LenProperties
    <3>2. discovered = <<>> /\ \A c \in Clients : queued[c] = <<>>
      BY DEF Init
    <3>3. ListInv(discovered)
      BY <3>1, <3>2, Limits DEF ListInv, Listens, Distinct, Ordered
    <3>4. Known
      <4>1. \A c \in Subscribed : c \in Clients
        BY DiscoveryAssumption DEF Subscribed
      <4>. QED BY <3>1, <3>2, <4>1 DEF Known, ToSet
    <3>. QED BY <2>1, <3>1, <3>3, <3>4 DEF DiscoveryInv, Init
  <2>. QED BY <2>1, <2>2
<1>2. DiscoveryInv /\ [Next]_vars => DiscoveryInv' /\ [Promise!Next]_(Promise!vars)
  BY StepKeepsPromise
<1>. QED BY <1>1, <1>2, PTL DEF Spec, KeepsPromise, Promise!Spec
=============================================================================
