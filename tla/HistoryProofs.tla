---------------------------- MODULE HistoryProofs ----------------------------
(***************************************************************************)
(* Proofs about HistoryWatch for every value of its constants: what a poll *)
(* reports was listened to and not reported before, and a listen that is   *)
(* the only one between two answers is reported.                           *)
(***************************************************************************)
EXTENDS MCParts, Stepwise, Integers, FiniteSetTheorems, SequenceTheorems, TLAPS

\* A history of one entry tells nothing: the code compares twenty, and keeps four answers.
HistorySetting == Compared \in Nat /\ 2 <= Compared /\ AnswersKept \in Nat \ {0}

LEMMA HistoryCounts == ASSUME NEW S PROVE History!Cardinality(S) = Cardinality(S)
  BY DEF History!Cardinality, Cardinality

LEMMA HistoryKeeps == ASSUME NEW s, NEW S PROVE History!Kept(s, S) = Kept(s, S)
  BY DEF History!Kept, Kept, History!Cardinality, Cardinality

\* What there is of an entry up to its place.
Alike(list, i) == {k \in 1..i : list[k] = list[i]}

LEMMA NthCounts ==
  ASSUME NEW S, NEW list \in Seq(S), NEW i \in 1..Len(list)
  PROVE  /\ History!Nth(list, i) = Cardinality(Alike(list, i))
         /\ IsFiniteSet(Alike(list, i)) /\ History!Nth(list, i) \in Nat
<1>1. IsFiniteSet(1..i) /\ Alike(list, i) \subseteq 1..i
  BY FS_Interval DEF Alike
<1>2. IsFiniteSet(Alike(list, i))
  BY <1>1, FS_Subset
<1>3. History!Nth(list, i) = Cardinality(Alike(list, i))
  BY HistoryCounts DEF History!Nth, Alike
<1>. QED BY <1>2, <1>3, FS_CardinalityType

\* Entries of one track are told apart by how many there are before.
LEMMA NthTellsApart ==
  ASSUME NEW S, NEW list \in Seq(S), NEW i \in 1..Len(list), NEW j \in 1..Len(list),
         list[i] = list[j], History!Nth(list, i) = History!Nth(list, j)
  PROVE  i = j
<1>1. ASSUME NEW h \in 1..Len(list), NEW k \in 1..Len(list), list[h] = list[k], h < k,
             History!Nth(list, h) = History!Nth(list, k)
      PROVE  FALSE
  <2>1. Alike(list, h) \subseteq Alike(list, k) /\ k \in Alike(list, k) /\ k \notin Alike(list, h)
    BY <1>1 DEF Alike
  <2>2. Cardinality(Alike(list, h)) = Cardinality(Alike(list, k)) /\ IsFiniteSet(Alike(list, k))
    BY <1>1, NthCounts
  <2>. QED BY <2>1, <2>2, FS_Subset
<1>2. ~(i < j) /\ ~(j < i)
  BY <1>1
<1>. QED BY <1>2

LEMMA NthIsOne ==
  ASSUME NEW S, NEW list \in Seq(S), NEW i \in 1..Len(list),
         \A k \in 1..Len(list) : list[k] = list[i] => i <= k
  PROVE  History!Nth(list, i) = 1
<1>1. Alike(list, i) = {i}
  BY DEF Alike
<1>2. Cardinality({i}) = 1
  BY FS_Singleton
<1>. QED BY <1>1, <1>2, NthCounts

\* The first entry of a track.
LEMMA FirstOfTrack ==
  ASSUME NEW S, NEW list \in Seq(S), NEW i \in 1..Len(list)
  PROVE  \E j \in 1..Len(list) : j <= i /\ list[j] = list[i] /\ History!Nth(list, j) = 1
<1>. DEFINE X == {k \in 1..Len(list) : list[k] = list[i]}
<1>1. X \in SUBSET Nat /\ i \in X
  OBVIOUS
<1>2. PICK j \in X : \A k \in X : j <= k
  <2>. HIDE DEF X
  <2>. QED BY <1>1, LeastNumber
<1>3. j \in 1..Len(list) /\ list[j] = list[i] /\ j <= i
  BY <1>1, <1>2
<1>4. \A k \in 1..Len(list) : list[k] = list[j] => j <= k
  BY <1>2, <1>3
<1>. QED BY <1>3, <1>4, NthIsOne

\* Where the entries of one list come from in the other.
LEMMA OriginOf ==
  ASSUME NEW a, NEW b, Len(a) \in Nat, NEW i \in 1..Len(b)
  PROVE  LET o == History!Origins(a, b)[i]
         IN  /\ o \in 0..Len(a)
             /\ o # 0 => a[o] = b[i] /\ History!Nth(a, o) = History!Nth(b, i)
             /\ o = 0 => \A j \in 1..Len(a) : a[j] = b[i] => History!Nth(a, j) # History!Nth(b, i)
<1>. DEFINE same == {j \in 1..Len(a) : a[j] = b[i] /\ History!Nth(a, j) = History!Nth(b, i)}
<1>1. History!Origins(a, b)[i] = IF same = {} THEN 0 ELSE CHOOSE j \in same : TRUE
  BY DEF History!Origins
<1>2. same # {} => History!Origins(a, b)[i] \in same
  <2>. HIDE DEF same
  <2>. QED BY <1>1
<1>. QED BY <1>1, <1>2

LEMMA OriginIs ==
  ASSUME NEW S, NEW a \in Seq(S), NEW b, NEW i \in 1..Len(b), NEW j \in 1..Len(a),
         a[j] = b[i], History!Nth(a, j) = History!Nth(b, i)
  PROVE  History!Origins(a, b)[i] = j
<1>. DEFINE o == History!Origins(a, b)[i]
<1>1. o \in 0..Len(a) /\ (o # 0 => a[o] = b[i] /\ History!Nth(a, o) = History!Nth(b, i)) /\ o # 0
  <2>1. Len(a) \in Nat
    OBVIOUS
  <2>. QED BY <2>1, OriginOf
<1>2. o \in 1..Len(a)
  BY <1>1
<1>. HIDE DEF o
<1>3. o = j
  BY <1>1, <1>2, NthTellsApart
<1>. QED BY <1>3 DEF o

LEMMA NoOrigin ==
  ASSUME NEW a, NEW b, Len(a) \in Nat, NEW i \in 1..Len(b), \A j \in 1..Len(a) : a[j] # b[i]
  PROVE  History!Origins(a, b)[i] = 0
  BY OriginOf

-----------------------------------------------------------------------------
(* One listen: a list, and the same with one entry put or moved on top.       *)

\* b is a with the entry at p on top, or with one that a does not have.
OnTop(a, b, p) ==
    /\ p \in Nat \ {0} /\ b # <<>>
    /\ \A i \in 2..Len(b) : IF i <= p THEN i - 1 \in 1..Len(a) /\ b[i] = a[i - 1]
                                      ELSE i \in 1..Len(a) /\ b[i] = a[i]
    /\ \A k \in 1..Len(a) : a[k] = b[1] <=> k = p

\* All others keep their number among the entries of their track.
LEMMA NthOnTop ==
  ASSUME NEW S, NEW a \in Seq(S), NEW b \in Seq(S), NEW p, OnTop(a, b, p), NEW i \in 2..Len(b)
  PROVE  LET j == IF i <= p THEN i - 1 ELSE i
         IN  j \in 1..Len(a) /\ b[i] = a[j] /\ History!Nth(a, j) = History!Nth(b, i)
<1>. DEFINE j == IF i <= p THEN i - 1 ELSE i
            f == [k \in Alike(a, j) |-> IF k < p THEN k + 1 ELSE k]
<1>1. j \in 1..Len(a) /\ b[i] = a[j] /\ j # p /\ p \in Nat \ {0} /\ i \in 1..Len(b)
  BY DEF OnTop
<1>2. a[j] # b[1]
  BY <1>1 DEF OnTop
<1>3. ASSUME NEW k \in Alike(a, j)
      PROVE  /\ k \in 1..Len(a) /\ a[k] = a[j] /\ k # p /\ k <= j
             /\ k < p => k + 1 \in 2..i /\ b[k + 1] = a[k]
             /\ ~(k < p) => k > p /\ k \in 2..i /\ b[k] = a[k]
  <2>1. k \in 1..Len(a) /\ a[k] = a[j] /\ k <= j
    BY <1>1 DEF Alike
  <2>2. k # p
    BY <1>2, <2>1 DEF OnTop
  <2>3. ASSUME k < p PROVE k + 1 \in 2..i /\ b[k + 1] = a[k]
    <3>. DEFINE m == k + 1
    <3>1. m \in 2..i /\ m \in 2..Len(b) /\ m <= p /\ m - 1 = k
      BY <1>1, <2>1, <2>3
    <3>. HIDE DEF m
    <3>2. b[m] = a[m - 1]
      BY <3>1 DEF OnTop
    <3>. QED BY <3>1, <3>2 DEF m
  <2>4. ASSUME ~(k < p) PROVE k > p /\ k \in 2..i /\ b[k] = a[k]
    <3>1. k > p /\ k \in 2..i /\ k \in 2..Len(b) /\ ~(k <= p)
      BY <1>1, <2>1, <2>2, <2>4
    <3>. QED BY <3>1 DEF OnTop
  <2>. QED BY <2>1, <2>2, <2>3, <2>4
<1>4. f \in [Alike(a, j) -> Alike(b, i)]
  <2>1. ASSUME NEW k \in Alike(a, j) PROVE f[k] \in Alike(b, i)
    BY <1>1, <1>3 DEF Alike
  <2>. QED BY <2>1
<1>5. ASSUME NEW k \in Alike(a, j), NEW l \in Alike(a, j), f[k] = f[l] PROVE k = l
  BY <1>1, <1>3, <1>5
<1>6. ASSUME NEW m \in Alike(b, i) PROVE \E k \in Alike(a, j) : f[k] = m
  <2>1. m \in 1..i /\ m \in 1..Len(b) /\ b[m] = a[j] /\ m # 1
    BY <1>1, <1>2 DEF Alike
  <2>2. m \in 2..Len(b)
    BY <2>1
  <2>3. CASE m <= p
    <3>1. m - 1 \in 1..Len(a) /\ b[m] = a[m - 1]
      BY <2>2, <2>3 DEF OnTop
    <3>2. m - 1 \in 1..j
      BY <1>1, <2>1, <2>2, <2>3
    <3>3. m - 1 \in Alike(a, j)
      BY <2>1, <3>1, <3>2 DEF Alike
    <3>4. f[m - 1] = m
      BY <1>1, <2>1, <2>3, <3>3
    <3>. QED BY <3>3, <3>4
  <2>4. CASE ~(m <= p)
    <3>1. m \in 1..Len(a) /\ b[m] = a[m]
      BY <2>2, <2>4 DEF OnTop
    <3>2. m \in 1..j
      BY <1>1, <2>1, <2>2, <2>4
    <3>3. m \in Alike(a, j)
      BY <2>1, <3>1, <3>2 DEF Alike
    <3>4. f[m] = m
      BY <1>1, <2>1, <2>4, <3>3
    <3>. QED BY <3>3, <3>4
  <2>. QED BY <2>3, <2>4
<1>7. f \in Bijection(Alike(a, j), Alike(b, i))
  <2>. HIDE DEF f, j
  <2>. QED BY <1>4, <1>5, <1>6 DEF Bijection, Injection, Surjection, IsInjective
<1>8. Cardinality(Alike(b, i)) = Cardinality(Alike(a, j))
  <2>. HIDE DEF f, j
  <2>1. IsFiniteSet(Alike(a, j))
    BY <1>1, NthCounts
  <2>. QED BY <1>7, <2>1, FS_Bijection DEF ExistsBijection
<1>9. History!Nth(a, j) = History!Nth(b, i)
  <2>. HIDE DEF f, j
  <2>. QED BY <1>1, <1>8, NthCounts
<1>. QED BY <1>1, <1>9

LEMMA OriginsOnTop ==
  ASSUME NEW S, NEW a \in Seq(S), NEW b \in Seq(S), NEW p, OnTop(a, b, p)
  PROVE  /\ 1 \in 1..Len(b) /\ Len(b) \in Nat /\ Len(a) \in Nat /\ p \in Nat \ {0}
         /\ History!Origins(a, b)[1] = IF p <= Len(a) THEN p ELSE 0
         /\ \A i \in 2..Len(b) : /\ History!Origins(a, b)[i] = IF i <= p THEN i - 1 ELSE i
                                 /\ i <= p \/ i <= Len(a)
<1>1. 1 \in 1..Len(b) /\ Len(b) \in Nat /\ Len(a) \in Nat /\ p \in Nat \ {0}
  BY DEF OnTop
<1>2. ASSUME p <= Len(a) PROVE History!Origins(a, b)[1] = p
  <2>1. p \in 1..Len(a) /\ a[p] = b[1]
    BY <1>1, <1>2 DEF OnTop
  <2>2. History!Nth(b, 1) = 1
    BY <1>1, NthIsOne
  <2>3. \A k \in 1..Len(a) : a[k] = a[p] => p <= k
    BY <1>1, <2>1 DEF OnTop
  <2>4. History!Nth(a, p) = 1
    BY <2>1, <2>3, NthIsOne
  <2>. QED BY <1>1, <1>2, <2>1, <2>2, <2>4, OriginIs
<1>3. ASSUME ~(p <= Len(a)) PROVE History!Origins(a, b)[1] = 0
  <2>1. \A k \in 1..Len(a) : a[k] # b[1]
    BY <1>1, <1>3 DEF OnTop
  <2>. QED BY <1>1, <1>3, <2>1, NoOrigin
<1>4. ASSUME NEW i \in 2..Len(b)
      PROVE  /\ History!Origins(a, b)[i] = IF i <= p THEN i - 1 ELSE i
             /\ i <= p \/ i <= Len(a)
  <2>. DEFINE j == IF i <= p THEN i - 1 ELSE i
  <2>1. j \in 1..Len(a) /\ b[i] = a[j] /\ History!Nth(a, j) = History!Nth(b, i) /\ i \in 1..Len(b)
    BY NthOnTop
  <2>2. History!Origins(a, b)[i] = j
    <3>. HIDE DEF j
    <3>. QED BY <2>1, OriginIs
  <2>. QED BY <2>1, <2>2
<1>5. History!Origins(a, b)[1] = IF p <= Len(a) THEN p ELSE 0
  BY <1>2, <1>3
<1>. QED BY <1>1, <1>4, <1>5

\* A move to the top is recognised as one.
LEMMA BumpOnTop ==
  ASSUME NEW S, NEW a \in Seq(S), NEW b \in Seq(S), NEW p, OnTop(a, b, p),
         p \in 2..Len(a), Len(a) = Len(b)
  PROVE  History!BumpType(a, b) = "prepend"
<1>. DEFINE o == History!Origins(a, b)
            n == Len(b)
<1>1. /\ n \in Nat /\ n >= 2 /\ p \in 2..n
      /\ o[1] = p
      /\ \A i \in 2..n : o[i] = IF i <= p THEN i - 1 ELSE i
  BY OriginsOnTop
<1>2. a # b
  <2>1. 1 \in 1..Len(a) /\ 1 # p
    BY <1>1
  <2>. QED BY <2>1 DEF OnTop
<1>3. \A i \in 1..n : o[i] # 0
  BY <1>1
<1>4. \A i \in 2..n : i - o[i] = IF i <= p THEN 1 ELSE 0
  BY <1>1
<1>5. 1 - o[1] < 0
  BY <1>1
<1>. HIDE DEF o
<1>6. /\ Len(a) = n /\ n # 0 /\ a # b /\ ~(\E i \in 1..n : o[i] = 0) /\ ~(1 - o[1] > 0)
      /\ \A i \in 2..(n - 1) : i - o[i] \in -1..1
  BY <1>1, <1>2, <1>3, <1>4, <1>5
<1>7. \A i \in 2..(n - 2) : ~(i - o[i] = 0 /\ (i + 1) - o[i + 1] # 0)
  <2>. TAKE i \in 2..(n - 2)
  <2>1. i \in 2..n /\ i + 1 \in 2..n
    BY <1>1
  <2>. QED BY <1>1, <1>4, <2>1
<1>. HIDE DEF n
<1>. QED BY <1>5, <1>6, <1>7 DEF History!BumpType, o, n

\* A new entry on top is recognised as one.
LEMMA AddOnTop ==
  ASSUME NEW S, NEW a \in Seq(S), NEW b \in Seq(S), NEW p, OnTop(a, b, p),
         ~(p <= Len(a)), a # <<>> => 2 <= Len(b)
  PROVE  /\ History!BumpType(a, b) = "none" /\ History!AddType(a, b) = "prepend"
         /\ {i \in 1..Len(b) : History!Origins(a, b)[i] = 0} = {1}
<1>. DEFINE o == History!Origins(a, b)
            n == Len(b)
<1>1. /\ n \in Nat /\ 1 \in 1..n /\ Len(a) \in Nat /\ p \in Nat \ {0}
      /\ o[1] = 0
      /\ \A i \in 2..n : o[i] = IF i <= p THEN i - 1 ELSE i
  BY OriginsOnTop
<1>2. \A i \in 1..n : o[i] = 0 <=> i = 1
  BY <1>1
<1>3. 1 <= Len(a) => \E j \in 1..n : o[j] = 1
  <2>. SUFFICES ASSUME 1 <= Len(a) PROVE 2 \in 1..n /\ o[2] = 1
    OBVIOUS
  <2>1. a # <<>> /\ 2 <= n /\ 2 <= p
    BY <1>1
  <2>. QED BY <1>1, <2>1
<1>. HIDE DEF o
<1>4. History!BumpType(a, b) = "none"
  BY <1>1 DEF History!BumpType, o
<1>5. /\ ~(\E i \in 1..n : o[i] = 0 /\ i <= Len(a) /\ \A j \in 1..n : o[j] # i)
      /\ \A i \in 2..(n - 1) : o[i] # 0
      /\ ~(n > 1 /\ o[n] = 0) /\ n > 0 /\ o[1] = 0
  BY <1>1, <1>2, <1>3
<1>6. History!AddType(a, b) = "prepend"
  <2>. HIDE DEF n
  <2>. QED BY <1>5 DEF History!AddType, o, n
<1>7. {i \in 1..n : o[i] = 0} = {1}
  BY <1>1, <1>2
<1>. QED BY <1>4, <1>6, <1>7 DEF o

\* Taking a new entry back from the top looks neither like a move nor like an addition.
LEMMA BackOnTop ==
  ASSUME NEW S, NEW a \in Seq(S), NEW b \in Seq(S), NEW p, OnTop(a, b, p),
         ~(p <= Len(a)), a # <<>> => 2 <= Len(b)
  PROVE  History!BumpType(b, a) = "none" /\ History!AddType(b, a) # "prepend"
<1>. DEFINE o == History!Origins(b, a)
            n == Len(a)
<1>1. /\ n \in Nat /\ Len(b) \in Nat /\ 1 \in 1..Len(b) /\ p \in Nat \ {0}
      /\ \A i \in 2..Len(b) : i <= p
  BY OriginsOnTop
<1>2. \A i \in 2..Len(b) : /\ i - 1 \in 1..n /\ b[i] = a[i - 1]
                           /\ History!Nth(a, i - 1) = History!Nth(b, i)
  BY <1>1, NthOnTop
<1>3. \A k \in 1..n : a[k] # b[1]
  BY <1>1 DEF OnTop
<1>4. ASSUME n > 0 PROVE o[1] = 2
  <2>1. 2 \in 1..Len(b) /\ 2 \in 2..Len(b) /\ 1 \in 1..n
    BY <1>1, <1>4
  <2>2. b[2] = a[1] /\ History!Nth(b, 2) = History!Nth(a, 1)
    BY <1>2, <2>1
  <2>. QED BY <2>1, <2>2, OriginIs
<1>5. ASSUME n > 0, Len(b) = n PROVE o[n] = 0
  <2>1. n \in 1..n
    BY <1>1, <1>5
  <2>2. o[n] \in 0..Len(b) /\ (o[n] # 0 => b[o[n]] = a[n] /\ History!Nth(b, o[n]) = History!Nth(a, n))
    BY <1>1, <2>1, OriginOf
  <2>3. ASSUME o[n] # 0 PROVE FALSE
    <3>. DEFINE j == o[n]
    <3>1. j \in 1..Len(b) /\ b[j] = a[n] /\ History!Nth(b, j) = History!Nth(a, n)
      BY <2>2, <2>3
    <3>. HIDE DEF j
    <3>2. j \in 2..Len(b)
      BY <1>1, <1>3, <2>1, <3>1
    <3>3. j - 1 \in 1..n /\ a[j - 1] = a[n] /\ History!Nth(a, j - 1) = History!Nth(a, n)
      BY <1>2, <3>1, <3>2
    <3>4. j - 1 = n
      BY <2>1, <3>3, NthTellsApart
    <3>. QED BY <1>1, <1>5, <3>2, <3>4
  <2>. QED BY <2>3
<1>. HIDE DEF o
<1>6. History!BumpType(b, a) = "none"
  <2>1. Len(b) # n \/ n = 0 \/ \E i \in 1..n : o[i] = 0
    BY <1>1, <1>5
  <2>. QED BY <2>1 DEF History!BumpType, o
<1>7. ~(n > 0 /\ o[1] = 0)
  BY <1>4
<1>. QED BY <1>6, <1>7 DEF History!AddType, o

-----------------------------------------------------------------------------
(* What of an answer becomes plays.                                           *)

LEMMA CutProperties ==
  ASSUME HistorySetting, NEW S, NEW list \in Seq(S)
  PROVE  /\ History!Cut(list) \in Seq(S) /\ Len(list) \in Nat
         /\ Len(History!Cut(list)) = IF Len(list) < Compared THEN Len(list) ELSE Compared
         /\ \A i \in 1..Len(History!Cut(list)) : i \in 1..Len(list) /\ History!Cut(list)[i] = list[i]
<1>. DEFINE n == IF Len(list) < Compared THEN Len(list) ELSE Compared
<1>1. History!Cut(list) = SubSeq(list, 1, n)
  BY DEF History!Cut, History!FirstOf
<1>2. n \in Nat /\ n <= Len(list) /\ Len(list) \in Nat
  BY DEF HistorySetting
<1>. HIDE DEF n
<1>3. \A i \in 1..n : list[i] \in S
  BY <1>2, ElementOfSeq
<1>4. /\ SubSeq(list, 1, n) \in Seq(S) /\ Len(SubSeq(list, 1, n)) = n
      /\ \A i \in 1..n : SubSeq(list, 1, n)[i] = list[i]
  BY <1>2, <1>3, SubSeqProperties
<1>. QED BY <1>1, <1>2, <1>4 DEF n

LEMMA KeptInOrder ==
  ASSUME NEW S, NEW s \in Seq(S), NEW places \in SUBSET (1..Len(s))
  PROVE  /\ Kept(s, places) \in Seq(S)
         /\ \E at \in Bijection(1..Len(Kept(s, places)), places) :
              /\ \A k \in 1..Len(Kept(s, places)) : Kept(s, places)[k] = s[at[k]]
              /\ \A j, k \in 1..Len(Kept(s, places)) : j < k => at[j] < at[k]
<1>1. /\ Kept(s, places) \in Seq(S) /\ Len(Kept(s, places)) = Cardinality(places)
      /\ \E at \in Bijection(1..Cardinality(places), places) :
           /\ \A k \in 1..Cardinality(places) : Kept(s, places)[k] = s[at[k]]
           /\ \A j, k \in 1..Cardinality(places) : j < k => at[j] < at[k]
  BY KeptPlaces
<1>. QED BY <1>1

LEMMA KeptWithin ==
  ASSUME NEW S, NEW s \in Seq(S), NEW places \in SUBSET (1..Len(s))
  PROVE  Kept(s, places) \in Seq(S) /\ History!Within(Kept(s, places), s)
<1>1. PICK at \in Bijection(1..Len(Kept(s, places)), places) :
           /\ \A k \in 1..Len(Kept(s, places)) : Kept(s, places)[k] = s[at[k]]
           /\ \A j, k \in 1..Len(Kept(s, places)) : j < k => at[j] < at[k]
  BY KeptInOrder
<1>2. at \in [1..Len(Kept(s, places)) -> 1..Len(s)] /\ Kept(s, places) \in Seq(S)
  BY <1>1, KeptInOrder DEF Bijection, Injection
<1>. QED BY <1>1, <1>2 DEF History!Within

LEMMA WithinWithin ==
  ASSUME NEW r, NEW s, NEW t, Len(r) \in Nat, Len(s) \in Nat, Len(t) \in Nat,
         History!Within(r, s), History!Within(s, t)
  PROVE  History!Within(r, t)
<1>1. PICK f \in [1..Len(r) -> 1..Len(s)] : /\ \A i \in 1..Len(r) : r[i] = s[f[i]]
                                            /\ \A i, j \in 1..Len(r) : i < j => f[i] < f[j]
  BY DEF History!Within
<1>2. PICK g \in [1..Len(s) -> 1..Len(t)] : /\ \A i \in 1..Len(s) : s[i] = t[g[i]]
                                            /\ \A i, j \in 1..Len(s) : i < j => g[i] < g[j]
  BY DEF History!Within
<1>. DEFINE h == [i \in 1..Len(r) |-> g[f[i]]]
<1>3. h \in [1..Len(r) -> 1..Len(t)] /\ \A i \in 1..Len(r) : f[i] \in 1..Len(s)
  BY <1>1, <1>2
<1>4. \A i \in 1..Len(r) : r[i] = t[h[i]]
  BY <1>1, <1>2, <1>3
<1>5. \A i, j \in 1..Len(r) : i < j => h[i] < h[j]
  BY <1>1, <1>2, <1>3
<1>. HIDE DEF h
<1>. QED BY <1>3, <1>4, <1>5 DEF History!Within

\* What could not have been listened to is dropped, one new play never is.
LEMMA ListenableIsPart ==
  ASSUME NEW S, NEW plays \in Seq(S)
  PROVE  /\ History!Listenable(plays) \in Seq(S)
         /\ History!Within(History!Listenable(plays), plays)
         /\ plays = <<>> => History!Listenable(plays) = <<>>
         /\ Len(plays) = 1 => History!Listenable(plays) = plays
<1>. DEFINE places == {i \in 1..Len(plays) : i = Len(plays) \/ since > Len(plays) - i}
<1>1. History!Listenable(plays) = IF recentChanged = <<>> THEN plays ELSE Kept(plays, places)
  BY HistoryKeeps DEF History!Listenable
<1>2. Len(plays) \in Nat /\ places \in SUBSET (1..Len(plays))
  OBVIOUS
<1>3. Kept(plays, places) \in Seq(S) /\ History!Within(Kept(plays, places), plays)
  <2>. HIDE DEF places
  <2>. QED BY <1>2, KeptWithin
<1>4. History!Within(plays, plays)
  <2>. DEFINE f == [i \in 1..Len(plays) |-> i]
  <2>1. f \in [1..Len(plays) -> 1..Len(plays)] /\ \A i \in 1..Len(plays) : f[i] = i
    OBVIOUS
  <2>. HIDE DEF f
  <2>. QED BY <2>1 DEF History!Within
<1>5. ASSUME plays = <<>> PROVE Kept(plays, places) = <<>>
  <2>1. PICK f \in [1..Len(Kept(plays, places)) -> 1..Len(plays)] : TRUE
    BY <1>3 DEF History!Within
  <2>2. Len(Kept(plays, places)) \in Nat /\ 1..Len(plays) = {}
    BY <1>3, <1>5
  <2>3. Len(Kept(plays, places)) = 0
    <3>. HIDE DEF places
    <3>1. \A i \in 1..Len(Kept(plays, places)) : f[i] \in 1..Len(plays)
      BY <2>1
    <3>2. \A i \in 1..Len(Kept(plays, places)) : FALSE
      BY <2>2, <3>1
    <3>3. Len(Kept(plays, places)) > 0 => 1 \in 1..Len(Kept(plays, places))
      BY <2>2
    <3>. QED BY <2>2, <3>2, <3>3
  <2>. HIDE DEF places
  <2>. QED BY <1>3, <2>3, EmptySeq
<1>6. ASSUME Len(plays) = 1 PROVE Kept(plays, places) = plays
  <2>1. places = {1}
    BY <1>6
  <2>2. Cardinality({1}) = 1
    BY FS_Singleton
  <2>3. /\ Len(Kept(plays, places)) = 1
        /\ \E at \in Bijection(1..1, places) : \A k \in 1..1 : Kept(plays, places)[k] = plays[at[k]]
    <3>. HIDE DEF places
    <3>1. /\ Len(Kept(plays, places)) = Cardinality(places)
          /\ \E at \in Bijection(1..Cardinality(places), places) :
               \A k \in 1..Cardinality(places) : Kept(plays, places)[k] = plays[at[k]]
      BY <1>2, KeptPlaces
    <3>2. Cardinality(places) = 1
      BY <2>1, <2>2
    <3>. QED BY <3>1, <3>2
  <2>4. PICK at \in Bijection(1..1, {1}) : \A k \in 1..1 : Kept(plays, places)[k] = plays[at[k]]
    BY <2>1, <2>3
  <2>5. at[1] = 1 /\ 1 \in 1..1
    BY DEF Bijection, Injection
  <2>6. \A i \in 1..Len(plays) : Kept(plays, places)[i] = plays[i]
    <3>. HIDE DEF places
    <3>. QED BY <1>6, <2>4, <2>5
  <2>. HIDE DEF places
  <2>. QED BY <1>3, <1>6, <2>3, <2>6, SeqEqual
<1>. HIDE DEF places
<1>. QED BY <1>1, <1>3, <1>4, <1>5, <1>6

\* What was put on top was not in the list before.
LEMMA AddedAreNew ==
  ASSUME NEW S, NEW a \in Seq(S), NEW b \in Seq(S), History!AddType(a, b) = "prepend",
         NEW i \in 1..Len(b), History!Origins(a, b)[i] = 0
  PROVE  \A l \in 1..Len(a) : a[l] # b[i]
<1>. DEFINE o == History!Origins(a, b)
            n == Len(b)
<1>1. /\ n \in Nat /\ \A k \in 2..(n - 1) : o[k] = 0 => o[k - 1] = 0
      /\ n > 1 => o[n] # 0
  <2>. HIDE DEF o, n
  <2>1. /\ ~(\E k \in 2..(n - 1) : o[k] = 0 /\ ~(o[IF o[1] = 0 THEN k - 1 ELSE k + 1] = 0))
        /\ ~(n > 1 /\ o[n] = 0) /\ o[1] = 0
    BY DEF History!AddType, o, n
  <2>. QED BY <2>1 DEF n
<1>2. PICK j \in 1..n : j <= i /\ b[j] = b[i] /\ History!Nth(b, j) = 1
  BY FirstOfTrack
<1>3. o[j] = 0
  <2>. SUFFICES ASSUME o[j] # 0 PROVE FALSE
    OBVIOUS
  <2>. DEFINE X == {k \in (j + 1)..i : o[k] = 0}
  <2>1. X \in SUBSET Nat /\ i \in X
    BY <1>1, <1>2
  <2>2. PICK k \in X : \A m \in X : k <= m
    <3>. HIDE DEF X
    <3>. QED BY <2>1, LeastNumber
  <2>3. k \in 2..n /\ o[k] = 0 /\ k # n
    BY <1>1, <1>2, <2>2
  <2>4. o[k - 1] = 0
    BY <1>1, <2>3
  <2>5. k - 1 # j /\ k - 1 \in (j + 1)..i
    <3>. HIDE DEF o
    <3>. QED BY <1>2, <2>2, <2>4
  <2>6. k - 1 \in X
    BY <2>4, <2>5
  <2>. QED BY <2>2, <2>3, <2>6
<1>4. \A l \in 1..Len(a) : a[l] = b[j] => History!Nth(a, l) # 1
  BY <1>2, <1>3, OriginOf
<1>5. ASSUME NEW l \in 1..Len(a), a[l] = b[i] PROVE FALSE
  <2>1. PICK m \in 1..Len(a) : a[m] = a[l] /\ History!Nth(a, m) = 1
    BY FirstOfTrack
  <2>. QED BY <1>2, <1>4, <1>5, <2>1
<1>. QED BY <1>5

\* g says for entries of a list which listens they are of: later listens are further up.
Traced(list, plays, g) ==
    /\ g \in [1..Len(list) -> 0..Len(plays)]
    /\ \A i \in 1..Len(list) : g[i] # 0 => list[i] = plays[g[i]]
    /\ \A i, j \in 1..Len(list) : i < j /\ g[j] # 0 => g[i] > g[j]

LEMMA AddedWereHeard ==
  ASSUME NEW S, NEW a \in Seq(S), NEW b \in Seq(S), History!AddType(a, b) = "prepend",
         NEW songs \in Seq(S), NEW g, Traced(b, songs, g),
         \A i \in 1..Len(b) : g[i] = 0 => \E k \in 1..Len(a) : a[k] = b[i]
  PROVE  /\ History!AddedPlays(a, b) \in Seq(S)
         /\ History!Within(History!AddedPlays(a, b), songs)
<1>. DEFINE places == {i \in 1..Len(b) : History!Origins(a, b)[i] = 0}
            t == Kept(b, places)
            n == Len(t)
            r == [i \in 1..n |-> t[(n - i) + 1]]
<1>1. History!AddedPlays(a, b) = r
  BY HistoryKeeps DEF History!AddedPlays, History!Reverse
<1>2. \A i \in places : i \in 1..Len(b) /\ g[i] # 0
  BY AddedAreNew
<1>3. places \in SUBSET (1..Len(b))
  OBVIOUS
<1>. HIDE DEF places
<1>4. t \in Seq(S) /\ n \in Nat
  BY <1>3, KeptWithin
<1>5. PICK at \in Bijection(1..n, places) : /\ \A k \in 1..n : t[k] = b[at[k]]
                                       /\ \A j, k \in 1..n : j < k => at[j] < at[k]
  <2>. HIDE DEF t, n
  <2>. QED BY <1>3, KeptInOrder DEF t, n
<1>. HIDE DEF t, n
<1>6. \A k \in 1..n : at[k] \in places
  BY <1>5 DEF Bijection, Injection
<1>7. \A i \in 1..n : (n - i) + 1 \in 1..n
  BY <1>4
<1>8. r \in Seq(S) /\ Len(r) = n
  <2>1. \A i \in 1..n : t[(n - i) + 1] \in S
    BY <1>4, <1>7, ElementOfSeq DEF n
  <2>. QED BY <1>4, <2>1
<1>. DEFINE f == [i \in 1..n |-> g[at[(n - i) + 1]]]
<1>9. ASSUME NEW i \in 1..n
      PROVE  /\ f[i] \in 1..Len(songs) /\ r[i] = songs[f[i]]
             /\ at[(n - i) + 1] \in 1..Len(b) /\ g[at[(n - i) + 1]] # 0 /\ (n - i) + 1 \in 1..n
  <2>. DEFINE m == (n - i) + 1
  <2>1. m \in 1..n /\ at[m] \in 1..Len(b) /\ g[at[m]] # 0
    BY <1>2, <1>6, <1>7
  <2>2. r[i] = b[at[m]] /\ f[i] = g[at[m]]
    BY <1>5, <2>1
  <2>. HIDE DEF m, r, f
  <2>3. g[at[m]] \in 0..Len(songs) /\ b[at[m]] = songs[g[at[m]]] /\ Len(songs) \in Nat
    BY <2>1 DEF Traced
  <2>. QED BY <2>1, <2>2, <2>3 DEF m
<1>10. ASSUME NEW i \in 1..n, NEW j \in 1..n, i < j PROVE f[i] < f[j]
  <2>. DEFINE k == (n - i) + 1
              m == (n - j) + 1
  <2>1. k \in 1..n /\ m \in 1..n /\ m < k /\ f[i] = g[at[k]] /\ f[j] = g[at[m]]
    BY <1>4, <1>7, <1>10
  <2>2. at[k] \in 1..Len(b) /\ at[m] \in 1..Len(b) /\ g[at[k]] # 0
    BY <1>9
  <2>. HIDE DEF f, k, m
  <2>3. at[m] < at[k]
    BY <1>5, <2>1
  <2>4. g[at[m]] > g[at[k]] /\ g[at[m]] \in Nat /\ g[at[k]] \in Nat
    <3>1. Len(songs) \in Nat
      OBVIOUS
    <3>. QED BY <2>2, <2>3, <3>1 DEF Traced
  <2>. QED BY <2>1, <2>4
<1>11. f \in [1..Len(r) -> 1..Len(songs)]
  BY <1>8, <1>9
<1>. HIDE DEF r, f
<1>. QED BY <1>1, <1>8, <1>9, <1>10, <1>11 DEF History!Within

-----------------------------------------------------------------------------
(* What the watcher knows of the history.                                     *)

\* to is from with the entry at p on top, or with one more when p is behind the end.
Moved(from, to, p) ==
    /\ p \in 1..(Len(from) + 1)
    /\ Len(to) = IF p <= Len(from) THEN Len(from) ELSE Len(from) + 1
    /\ p <= Len(from) => to[1] = from[p]
    /\ \A i \in 2..Len(to) : to[i] = IF i <= p THEN from[i - 1] ELSE from[i]

HistoryTypes ==
    /\ history \in Seq(Songs) /\ before \in Seq(Songs) /\ today \in 0..Len(history)
    /\ pending \in Seq([song : Songs, plain : BOOLEAN]) /\ fresh \in 0..Len(pending)
    /\ recentlyPlayed \in Seq(Songs) /\ recentChanged \in Seq(Seq(Songs))
    /\ \A i, j \in 1..today : history[i] = history[j] => i = j

\* The tracks of the listens that are pending.
Pending == [i \in 1..Len(pending) |-> pending[i].song]

\* What is compared of a list has a pending listen or was answered before.
Accounted(list, songs, answer) ==
    \E g \in [1..Len(list) -> 0..Len(songs)] :
        /\ Traced(list, songs, g)
        /\ \A i \in 1..Len(list) :
              i <= Compared /\ g[i] = 0 => \E k \in 1..Len(answer) : answer[k] = list[i]

\* The latest change is the latest listen.
LatestOnTop ==
    /\ history # before => \E p \in 1..(Len(before) + 1) : Moved(before, history, p)
    /\ pending # <<>> =>
         /\ history # <<>> /\ pending[Len(pending)].song = history[1]
         /\ pending[Len(pending)].plain =>
              \E p \in 1..(Len(before) + 1) :
                 /\ Moved(before, history, p) /\ (before # <<>> => p # 1)
                 /\ \A k \in 1..Len(before) : before[k] = history[1] <=> k = p

\* After an answer that was outdated, one new entry is all that it lacks.
Answered ==
    /\ current /\ polling =>
         /\ Accounted(history, Pending, recentlyPlayed)
         /\ fresh = 0 => recentlyPlayed = History!Cut(history)
         /\ fresh = 1 => recentlyPlayed = History!Cut(before)
    /\ ~current /\ fresh = 0 =>
         /\ recentlyPlayed = History!Cut(before) /\ history # before
         /\ \A k \in 1..Len(History!Cut(before)) : History!Cut(before)[k] # history[1]

\* When nothing is pending, the last answer with new plays shows the history as it is.
Settled ==
    /\ ~polling => pending = <<>> /\ current
    /\ polling /\ pending = <<>> /\ history # <<>> =>
         recentChanged # <<>> /\ recentChanged[1] = History!Cut(history)

HistoryInv == HistoryTypes /\ LatestOnTop /\ Answered /\ Settled

LEMMA SongsOf ==
  ASSUME NEW q \in Seq([song : Songs, plain : BOOLEAN])
  PROVE  /\ [i \in 1..Len(q) |-> q[i].song] \in Seq(Songs)
         /\ Len([i \in 1..Len(q) |-> q[i].song]) = Len(q) /\ Len(q) \in Nat
         /\ q # <<>> => Len(q) > 0
<1>1. Len(q) \in Nat /\ \A i \in 1..Len(q) : q[i].song \in Songs
  <2>1. \A i \in 1..Len(q) : q[i] \in [song : Songs, plain : BOOLEAN]
    BY ElementOfSeq
  <2>. QED BY <2>1
<1>2. q # <<>> => Len(q) > 0
  BY EmptySeq
<1>. QED BY <1>1, <1>2

LEMMA PendingIsSeq ==
  ASSUME HistoryTypes
  PROVE  /\ Pending \in Seq(Songs) /\ Len(Pending) = Len(pending) /\ Len(pending) \in Nat
         /\ pending # <<>> => Len(pending) > 0 /\ Pending[Len(Pending)] = pending[Len(pending)].song
<1>1. /\ Pending \in Seq(Songs) /\ Len(Pending) = Len(pending) /\ Len(pending) \in Nat
      /\ pending # <<>> => Len(pending) > 0
  BY SongsOf DEF HistoryTypes, Pending
<1>. QED BY <1>1 DEF Pending

\* Moves are seen in what is compared of two histories.
LEMMA MoveIsOnTop ==
  ASSUME HistorySetting, NEW S, NEW x \in Seq(S), NEW y \in Seq(S), NEW p, Moved(x, y, p),
         \A k \in 1..Len(History!Cut(x)) : x[k] = y[1] <=> k = p
  PROVE  OnTop(History!Cut(x), History!Cut(y), p) /\ History!Cut(y)[1] = y[1]
<1>. DEFINE a == History!Cut(x)
            b == History!Cut(y)
<1>1. /\ a \in Seq(S) /\ Len(x) \in Nat /\ Len(a) = IF Len(x) < Compared THEN Len(x) ELSE Compared
      /\ \A i \in 1..Len(a) : i \in 1..Len(x) /\ a[i] = x[i]
  BY CutProperties
<1>2. /\ b \in Seq(S) /\ Len(y) \in Nat /\ Len(b) = IF Len(y) < Compared THEN Len(y) ELSE Compared
      /\ \A i \in 1..Len(b) : i \in 1..Len(y) /\ b[i] = y[i]
  BY CutProperties
<1>. HIDE DEF a, b
<1>3. /\ Compared \in Nat /\ 2 <= Compared /\ p \in 1..(Len(x) + 1)
      /\ Len(y) = IF p <= Len(x) THEN Len(x) ELSE Len(x) + 1
      /\ \A i \in 2..Len(y) : y[i] = IF i <= p THEN x[i - 1] ELSE x[i]
  BY DEF HistorySetting, Moved
<1>4. 1 \in 1..Len(b) /\ b[1] = y[1] /\ p \in Nat \ {0}
  BY <1>1, <1>2, <1>3
<1>5. ASSUME NEW i \in 2..Len(b)
      PROVE  IF i <= p THEN i - 1 \in 1..Len(a) /\ b[i] = a[i - 1] ELSE i \in 1..Len(a) /\ b[i] = a[i]
  <2>1. i \in 2..Len(y) /\ b[i] = y[i] /\ i \in Nat
    BY <1>2
  <2>2. CASE i <= p
    <3>1. i - 1 \in 1..Len(a)
      BY <1>1, <1>2, <1>3, <2>1, <2>2
    <3>. QED BY <1>1, <1>3, <2>1, <2>2, <3>1
  <2>3. CASE ~(i <= p)
    <3>1. i \in 1..Len(a)
      BY <1>1, <1>2, <1>3, <2>1, <2>3
    <3>. QED BY <1>1, <1>3, <2>1, <2>3, <3>1
  <2>. QED BY <2>2, <2>3
<1>6. \A k \in 1..Len(a) : a[k] = b[1] <=> k = p
  BY <1>1, <1>4 DEF a
<1>7. b # <<>>
  BY <1>4
<1>. QED BY <1>4, <1>5, <1>6, <1>7 DEF OnTop, a, b

\* A new entry on top: the answer of before does not list it.
LEMMA NewIsOnTop ==
  ASSUME HistorySetting, NEW S, NEW x \in Seq(S), NEW y \in Seq(S), NEW p, Moved(x, y, p),
         \A k \in 1..Len(History!Cut(x)) : History!Cut(x)[k] # y[1]
  PROVE  /\ OnTop(History!Cut(x), History!Cut(y), p) /\ ~(p <= Len(History!Cut(x)))
         /\ History!Cut(y)[1] = y[1]
         /\ History!Cut(x) # <<>> => 2 <= Len(History!Cut(y))
<1>. DEFINE a == History!Cut(x)
            b == History!Cut(y)
<1>1. /\ a \in Seq(S) /\ Len(x) \in Nat /\ Len(a) = IF Len(x) < Compared THEN Len(x) ELSE Compared
      /\ \A i \in 1..Len(a) : i \in 1..Len(x) /\ a[i] = x[i]
  BY CutProperties
<1>2. /\ b \in Seq(S) /\ Len(y) \in Nat /\ Len(b) = IF Len(y) < Compared THEN Len(y) ELSE Compared
  BY CutProperties
<1>3. \A k \in 1..Len(a) : a[k] # y[1]
  OBVIOUS
<1>. HIDE DEF a, b
<1>4. /\ Compared \in Nat /\ 2 <= Compared /\ p \in 1..(Len(x) + 1)
      /\ Len(y) = IF p <= Len(x) THEN Len(x) ELSE Len(x) + 1
      /\ p <= Len(x) => y[1] = x[p]
  BY DEF HistorySetting, Moved
<1>5. ~(p <= Len(a))
  <2>. SUFFICES ASSUME p <= Len(a) PROVE FALSE
    OBVIOUS
  <2>1. p \in 1..Len(a) /\ p <= Len(x)
    BY <1>1, <1>4
  <2>. QED BY <1>1, <1>3, <1>4, <2>1
<1>6. \A k \in 1..Len(a) : x[k] = y[1] <=> k = p
  BY <1>1, <1>3, <1>4, <1>5
<1>7. OnTop(a, b, p) /\ b[1] = y[1]
  BY <1>6, MoveIsOnTop DEF a, b
<1>8. a # <<>> => 2 <= Len(b)
  <2>1. a # <<>> => Len(a) > 0
    BY <1>1, EmptySeq
  <2>. QED BY <1>1, <1>2, <1>4, <1>5, <2>1
<1>. QED BY <1>5, <1>7, <1>8 DEF a, b

LEMMA OneWithin ==
  ASSUME NEW S, NEW songs \in Seq(S), Len(songs) > 0, NEW x, x = songs[Len(songs)]
  PROVE  History!Within(<<x>>, songs)
<1>. DEFINE f == [i \in 1..1 |-> Len(songs)]
<1>1. f \in [1..Len(<<x>>) -> 1..Len(songs)] /\ Len(<<x>>) = 1 /\ \A i \in 1..1 : f[i] = Len(songs) /\ i = 1
  OBVIOUS
<1>. HIDE DEF f
<1>2. \A i \in 1..Len(<<x>>) : <<x>>[i] = songs[f[i]]
  BY <1>1
<1>3. \A i, j \in 1..Len(<<x>>) : i < j => f[i] < f[j]
  BY <1>1
<1>. QED BY <1>1, <1>2, <1>3 DEF History!Within

LEMMA NoneWithin ==
  ASSUME NEW songs
  PROVE  History!Within(<<>>, songs)
<1>. DEFINE f == [i \in 1..0 |-> 1]
<1>1. f \in [1..Len(<<>>) -> 1..Len(songs)] /\ 1..Len(<<>>) = {}
  OBVIOUS
<1>. QED BY <1>1 DEF History!Within

LEMMA NewPlaysIs ==
  ASSUME NEW plays
  PROVE  History!NewPlays(plays) =
           IF recentlyPlayed = plays THEN <<>>
           ELSE IF History!BumpType(recentlyPlayed, plays) # "none"
             THEN IF History!BumpType(recentlyPlayed, plays) = "prepend" THEN <<plays[1]>> ELSE <<>>
           ELSE IF History!AddType(recentlyPlayed, plays) = "prepend" /\ ~History!Reverted(plays)
             THEN History!AddedPlays(recentlyPlayed, plays) ELSE <<>>
  BY DEF History!NewPlays, History!Equal

LEMMA OneAdded ==
  ASSUME NEW S, NEW a \in Seq(S), NEW b \in Seq(S), 1 \in 1..Len(b),
         {i \in 1..Len(b) : History!Origins(a, b)[i] = 0} = {1}
  PROVE  History!AddedPlays(a, b) = <<b[1]>>
<1>. DEFINE t == Kept(b, {1})
<1>1. History!AddedPlays(a, b) = [i \in 1..Len(t) |-> t[(Len(t) - i) + 1]]
  BY HistoryKeeps DEF History!AddedPlays, History!Reverse
<1>2. {1} \in SUBSET (1..Len(b)) /\ Cardinality({1}) = 1
  BY FS_Singleton
<1>3. Len(t) = Cardinality({1}) /\ t \in Seq(S)
  BY <1>2, KeptPlaces
<1>4. PICK at \in Bijection(1..Len(t), {1}) : \A k \in 1..Len(t) : t[k] = b[at[k]]
  BY <1>2, KeptInOrder
<1>. HIDE DEF t
<1>5. Len(t) = 1 /\ at[1] = 1 /\ t[1] = b[1]
  BY <1>2, <1>3, <1>4 DEF Bijection, Injection
<1>. QED BY <1>1, <1>5

-----------------------------------------------------------------------------
(* Polls.                                                                     *)

\* What a current answer, or the first after an outdated one, finds was listened to.
LEMMA PollFindsHeard ==
  ASSUME HistorySetting, HistoryInv, polling, current \/ fresh = 0
  PROVE  /\ History!NewPlays(History!Cut(history)) \in Seq(Songs)
         /\ History!Within(History!NewPlays(History!Cut(history)), Pending)
<1>. DEFINE c == History!Cut(history)
            a == recentlyPlayed
            new == History!NewPlays(c)
<1>. SUFFICES new \in Seq(Songs) /\ History!Within(new, Pending)
  OBVIOUS
<1>1. /\ history \in Seq(Songs) /\ before \in Seq(Songs) /\ a \in Seq(Songs) /\ fresh \in 0..Len(pending)
      /\ Pending \in Seq(Songs) /\ Len(Pending) = Len(pending) /\ Len(pending) \in Nat
      /\ pending # <<>> => Len(Pending) > 0 /\ Pending[Len(Pending)] = pending[Len(pending)].song
      /\ pending = <<>> => fresh = 0
  <2>1. pending = <<>> => Len(pending) = 0
    OBVIOUS
  <2>. QED BY <2>1, PendingIsSeq DEF HistoryInv, HistoryTypes
<1>2. /\ c \in Seq(Songs) /\ Len(history) \in Nat
      /\ Len(c) = IF Len(history) < Compared THEN Len(history) ELSE Compared
      /\ \A i \in 1..Len(c) : i \in 1..Len(history) /\ c[i] = history[i]
  BY <1>1, CutProperties
<1>3. new = IF a = c THEN <<>>
            ELSE IF History!BumpType(a, c) # "none"
              THEN IF History!BumpType(a, c) = "prepend" THEN <<c[1]>> ELSE <<>>
            ELSE IF History!AddType(a, c) = "prepend" /\ ~History!Reverted(c)
              THEN History!AddedPlays(a, c) ELSE <<>>
  BY NewPlaysIs
<1>4. <<>> \in Seq(Songs) /\ History!Within(<<>>, Pending)
  BY EmptySeq, NoneWithin
<1>. HIDE DEF c, a, new
<1>5. ASSUME pending # <<>>, Len(c) > 0
      PROVE  <<c[1]>> \in Seq(Songs) /\ History!Within(<<c[1]>>, Pending)
  <2>1. pending[Len(pending)].song = history[1]
    BY <1>5 DEF HistoryInv, LatestOnTop
  <2>2. c[1] = history[1] /\ c[1] \in Songs
    BY <1>2, <1>5
  <2>. QED BY <1>1, <1>5, <2>1, <2>2, OneWithin
<1>6. CASE current
  <2>1. /\ Accounted(history, Pending, a)
        /\ fresh = 0 => a = c
    BY <1>6 DEF HistoryInv, Answered, a, c
  <2>2. PICK g \in [1..Len(history) -> 0..Len(Pending)] :
          /\ Traced(history, Pending, g)
          /\ \A i \in 1..Len(history) :
                i <= Compared /\ g[i] = 0 => \E k \in 1..Len(a) : a[k] = history[i]
    BY <2>1 DEF Accounted
  <2>. DEFINE f == [i \in 1..Len(c) |-> g[i]]
  <2>3. f \in [1..Len(c) -> 0..Len(Pending)] /\ \A i \in 1..Len(c) : f[i] = g[i]
    BY <1>2, <2>2
  <2>. HIDE DEF f
  <2>4. Traced(c, Pending, f)
    <3>1. \A i \in 1..Len(c) : f[i] # 0 => c[i] = Pending[f[i]]
      BY <1>2, <2>2, <2>3 DEF Traced
    <3>2. \A i, j \in 1..Len(c) : i < j /\ f[j] # 0 => f[i] > f[j]
      BY <1>2, <2>2, <2>3 DEF Traced
    <3>. QED BY <2>3, <3>1, <3>2 DEF Traced
  <2>5. \A i \in 1..Len(c) : f[i] = 0 => \E k \in 1..Len(a) : a[k] = c[i]
    <3>1. ASSUME NEW i \in 1..Len(c) PROVE i <= Compared /\ i \in 1..Len(history) /\ c[i] = history[i]
      BY <1>2 DEF HistorySetting
    <3>. QED BY <2>2, <2>3, <3>1
  <2>6. CASE a = c
    BY <1>3, <1>4, <2>6
  <2>7. CASE a # c /\ History!BumpType(a, c) # "none"
    <3>1. pending # <<>>
      BY <1>1, <2>1, <2>7
    <3>2. Len(c) > 0
      <4>1. Len(c) # 0
        BY <2>7 DEF History!BumpType
      <4>. QED BY <1>2, <4>1
    <3>. QED BY <1>3, <1>4, <1>5, <2>7, <3>1, <3>2
  <2>8. CASE a # c /\ History!BumpType(a, c) = "none" /\ History!AddType(a, c) = "prepend"
    <3>1. History!AddedPlays(a, c) \in Seq(Songs) /\ History!Within(History!AddedPlays(a, c), Pending)
      BY <1>1, <1>2, <2>4, <2>5, <2>8, AddedWereHeard
    <3>. QED BY <1>3, <1>4, <2>8, <3>1
  <2>9. CASE a # c /\ History!BumpType(a, c) = "none" /\ History!AddType(a, c) # "prepend"
    BY <1>3, <1>4, <2>9
  <2>. QED BY <2>6, <2>7, <2>8, <2>9
<1>7. CASE ~current
  <2>1. /\ fresh = 0 /\ a = History!Cut(before) /\ history # before
        /\ \A k \in 1..Len(a) : a[k] # history[1]
    BY <1>7 DEF HistoryInv, Answered, a
  <2>2. PICK p \in 1..(Len(before) + 1) : Moved(before, history, p)
    BY <2>1 DEF HistoryInv, LatestOnTop
  <2>3. /\ OnTop(a, c, p) /\ ~(p <= Len(a)) /\ c[1] = history[1] /\ (a # <<>> => 2 <= Len(c))
    BY <1>1, <2>1, <2>2, NewIsOnTop DEF c
  <2>4. /\ History!BumpType(a, c) = "none" /\ History!AddType(a, c) = "prepend"
        /\ {i \in 1..Len(c) : History!Origins(a, c)[i] = 0} = {1}
    BY <1>1, <1>2, <2>3, AddOnTop
  <2>5. 1 \in 1..Len(c)
    BY <2>4
  <2>6. History!AddedPlays(a, c) = <<c[1]>>
    BY <1>1, <1>2, <2>4, <2>5, OneAdded
  <2>7. CASE pending # <<>>
    BY <1>2, <1>3, <1>4, <1>5, <2>4, <2>5, <2>6, <2>7
  <2>8. CASE pending = <<>>
    <3>1. history # <<>>
      BY <1>2, <2>5
    <3>2. recentChanged # <<>> /\ recentChanged[1] = c
      BY <2>8, <3>1 DEF HistoryInv, Settled, c
    <3>3. 1 \in 1..Len(recentChanged)
      <4>1. recentChanged \in Seq(Seq(Songs))
        BY DEF HistoryInv, HistoryTypes
      <4>. QED BY <3>2, <4>1, EmptySeq
    <3>4. History!Reverted(c)
      BY <3>2, <3>3 DEF History!Reverted, History!Equal
    <3>. QED BY <1>3, <1>4, <2>4, <3>4
  <2>. QED BY <2>7, <2>8
<1>. QED BY <1>6, <1>7

\* The new plays of an answer are reported when they could have been listened to.
LEMMA FoundIsHeard ==
  ASSUME HistorySetting, HistoryInv, History!Poll
  PROVE  History!FoundWasHeard
<1>. SUFFICES ASSUME current \/ fresh = 0
              PROVE  History!Within(found', [i \in 1..Len(pending) |-> pending[i].song])
  BY DEF History!FoundWasHeard
<1>. DEFINE new == History!NewPlays(History!Cut(history))
<1>1. polling /\ found' = History!Listenable(new)
  BY DEF History!Poll, History!Parse, History!Watch
<1>2. new \in Seq(Songs) /\ History!Within(new, Pending)
  BY <1>1, PollFindsHeard
<1>3. History!Listenable(new) \in Seq(Songs) /\ History!Within(History!Listenable(new), new)
  <2>. HIDE DEF new
  <2>. QED BY <1>2, ListenableIsPart
<1>4. Pending \in Seq(Songs)
  BY PendingIsSeq DEF HistoryInv
<1>5. Len(found') \in Nat /\ Len(new) \in Nat /\ Len(Pending) \in Nat
  <2>. HIDE DEF new
  <2>. QED BY <1>1, <1>2, <1>3, <1>4
<1>6. History!Within(found', Pending)
  <2>. HIDE DEF new
  <2>. QED BY <1>1, <1>2, <1>3, <1>5, WithinWithin
<1>. QED BY <1>6 DEF Pending

\* One plain listen between two answers is found.
LEMMA ListenIsFound ==
  ASSUME HistorySetting, HistoryInv
  PROVE  History!HeardIsFound
<1>. DEFINE c == History!Cut(history)
            a == recentlyPlayed
            s == pending[Len(pending)].song
<1>. SUFFICES ASSUME History!Poll, current, fresh = 1, pending[Len(pending)].plain,
                     s \in History!ToSet(a) \/ ~History!Reverted(c)
              PROVE  found' = <<s>>
  BY DEF History!HeardIsFound, History!Last
<1>1. /\ history \in Seq(Songs) /\ before \in Seq(Songs) /\ a \in Seq(Songs) /\ fresh \in 0..Len(pending)
      /\ pending # <<>> /\ polling
      /\ found' = History!Listenable(History!NewPlays(c))
  BY DEF HistoryInv, HistoryTypes, History!Poll, History!Parse, History!Watch
<1>2. /\ a = History!Cut(before)
      /\ s = history[1]
      /\ \E p \in 1..(Len(before) + 1) :
           /\ Moved(before, history, p) /\ (before # <<>> => p # 1)
           /\ \A k \in 1..Len(before) : before[k] = history[1] <=> k = p
  BY <1>1 DEF HistoryInv, LatestOnTop, Answered
<1>3. PICK p \in 1..(Len(before) + 1) :
           /\ Moved(before, history, p) /\ (before # <<>> => p # 1)
           /\ \A k \in 1..Len(before) : before[k] = history[1] <=> k = p
  BY <1>2
<1>4. /\ c \in Seq(Songs) /\ Len(history) \in Nat
      /\ Len(c) = IF Len(history) < Compared THEN Len(history) ELSE Compared
  BY <1>1, CutProperties
<1>5. /\ Len(before) \in Nat /\ Len(a) = IF Len(before) < Compared THEN Len(before) ELSE Compared
      /\ \A i \in 1..Len(a) : i \in 1..Len(before) /\ a[i] = before[i]
  BY <1>1, <1>2, CutProperties
<1>6. History!NewPlays(c) = IF a = c THEN <<>>
            ELSE IF History!BumpType(a, c) # "none"
              THEN IF History!BumpType(a, c) = "prepend" THEN <<c[1]>> ELSE <<>>
            ELSE IF History!AddType(a, c) = "prepend" /\ ~History!Reverted(c)
              THEN History!AddedPlays(a, c) ELSE <<>>
  BY NewPlaysIs
<1>7. \A k \in 1..Len(History!Cut(before)) : before[k] = history[1] <=> k = p
  BY <1>2, <1>3, <1>5
<1>8. OnTop(a, c, p) /\ c[1] = s
  BY <1>1, <1>2, <1>3, <1>7, MoveIsOnTop
<1>. HIDE DEF c, a, s
<1>9. 1 \in 1..Len(c) /\ Compared \in Nat /\ 2 <= Compared
  BY <1>4, <1>8 DEF OnTop, HistorySetting
<1>10. ASSUME ~(p <= Len(a)) PROVE History!NewPlays(c) = <<s>>
  <2>1. \A k \in 1..Len(a) : a[k] # s
    BY <1>5, <1>8, <1>10 DEF OnTop
  <2>2. ~History!Reverted(c)
    <3>1. s \notin History!ToSet(a)
      BY <1>1, <2>1 DEF History!ToSet
    <3>. QED BY <3>1 DEF a, s, c
  <2>3. a # <<>> => 2 <= Len(c)
    <3>1. a # <<>> => Len(a) > 0
      BY <1>1, EmptySeq
    <3>2. Len(history) = IF p <= Len(before) THEN Len(before) ELSE Len(before) + 1
      BY <1>3 DEF Moved
    <3>. QED BY <1>3, <1>4, <1>5, <1>9, <1>10, <3>1, <3>2
  <2>4. /\ History!BumpType(a, c) = "none" /\ History!AddType(a, c) = "prepend"
        /\ {i \in 1..Len(c) : History!Origins(a, c)[i] = 0} = {1}
    BY <1>1, <1>4, <1>8, <1>10, <2>3, AddOnTop
  <2>5. History!AddedPlays(a, c) = <<c[1]>>
    BY <1>1, <1>4, <1>9, <2>4, OneAdded
  <2>6. a # c
    BY <1>8, <1>9, <2>1
  <2>. QED BY <1>6, <1>8, <2>2, <2>4, <2>5, <2>6
<1>11. History!NewPlays(c) = <<s>>
  <2>1. CASE p <= Len(a)
    <3>1. p \in 2..Len(a) /\ Len(a) = Len(c)
      <4>1. p <= Len(before) /\ before # <<>>
        BY <1>5, <2>1
      <4>2. Len(history) = Len(before)
        BY <1>3, <4>1 DEF Moved
      <4>. QED BY <1>3, <1>4, <1>5, <2>1, <4>1, <4>2
    <3>2. History!BumpType(a, c) = "prepend"
      BY <1>1, <1>4, <1>8, <3>1, BumpOnTop
    <3>3. a # c
      <4>1. 1 \in 1..Len(a) /\ 1 # p
        BY <1>5, <3>1
      <4>. QED BY <1>8, <4>1 DEF OnTop
    <3>. QED BY <1>6, <1>8, <3>2, <3>3
  <2>. QED BY <1>10, <2>1
<1>12. <<s>> \in Seq(Songs) /\ Len(<<s>>) = 1
  BY <1>4, <1>8, <1>9
<1>13. History!Listenable(<<s>>) = <<s>>
  BY <1>12, ListenableIsPart
<1>. QED BY <1>1, <1>11, <1>13

-----------------------------------------------------------------------------
(* Listens.                                                                   *)

LEMMA NotInPart ==
  ASSUME NEW S, NEW list \in Seq(S), NEW m \in Nat \ {0}, NEW n \in 0..Len(list), NEW x,
         x \notin History!ToSet(SubSeq(list, m, n))
  PROVE  \A i \in m..n : list[i] # x
<1>1. \A i \in m..n : list[i] \in S
  BY ElementOfSeq
<1>2. /\ SubSeq(list, m, n) \in Seq(S)
      /\ Len(SubSeq(list, m, n)) = IF m <= n THEN n - m + 1 ELSE 0
      /\ \A i \in 1..(n - m + 1) : SubSeq(list, m, n)[i] = list[m + i - 1]
  BY <1>1, SubSeqProperties
<1>3. ASSUME NEW i \in m..n, list[i] = x PROVE FALSE
  <2>. DEFINE k == i - m + 1
  <2>1. k \in 1..Len(SubSeq(list, m, n)) /\ k \in 1..(n - m + 1) /\ m + k - 1 = i
    BY <1>2
  <2>. HIDE DEF k
  <2>2. SubSeq(list, m, n)[k] = x
    BY <1>2, <1>3, <2>1
  <2>. DEFINE u == SubSeq(list, m, n)
  <2>. HIDE DEF u
  <2>3. DOMAIN u = 1..Len(u)
    BY <1>2, LenProperties DEF u
  <2>4. u[k] \in History!ToSet(u)
    BY <2>1, <2>3 DEF History!ToSet, u
  <2>. QED BY <2>2, <2>4 DEF u
<1>. QED BY <1>3

\* A track that is put on top, or moved there from the day's part.
LEMMA PutOnTop ==
  ASSUME NEW S, NEW list \in Seq(S), NEW s \in S
  PROVE  <<s>> \o list \in Seq(S) /\ Moved(list, <<s>> \o list, Len(list) + 1) /\ (<<s>> \o list)[1] = s
<1>1. <<s>> \in Seq(S) /\ Len(<<s>>) = 1 /\ <<s>>[1] = s /\ Len(list) \in Nat
  OBVIOUS
<1>. DEFINE t == <<s>> \o list
<1>2. /\ t \in Seq(S) /\ Len(t) = 1 + Len(list)
      /\ \A i \in 1..(1 + Len(list)) : t[i] = IF i <= 1 THEN <<s>>[i] ELSE list[i - 1]
  BY <1>1, ConcatProperties
<1>. HIDE DEF t
<1>3. t[1] = s /\ \A i \in 2..Len(t) : t[i] = list[i - 1] /\ i <= Len(list) + 1
  BY <1>1, <1>2
<1>. QED BY <1>1, <1>2, <1>3 DEF Moved, t

LEMMA MoveToTop ==
  ASSUME NEW S, NEW list \in Seq(S), NEW p \in 1..Len(list), NEW s \in S, list[p] = s
  PROVE  LET t == <<s>> \o History!RemoveAt(list, p)
         IN  t \in Seq(S) /\ Moved(list, t, p) /\ t[1] = s
<1>. DEFINE x == SubSeq(list, 1, p - 1)
            y == SubSeq(list, p + 1, Len(list))
            t == <<s>> \o (x \o y)
<1>1. <<s>> \in Seq(S) /\ Len(<<s>>) = 1 /\ <<s>>[1] = s /\ Len(list) \in Nat
  OBVIOUS
<1>2. /\ x \in Seq(S) /\ Len(x) = p - 1 /\ \A i \in 1..(p - 1) : x[i] = list[i]
  <2>1. 1 \in Int /\ p - 1 \in Int /\ \A i \in 1..(p - 1) : list[i] \in S
    BY ElementOfSeq
  <2>2. /\ SubSeq(list, 1, p - 1) \in Seq(S)
        /\ Len(SubSeq(list, 1, p - 1)) = IF 1 <= p - 1 THEN (p - 1) - 1 + 1 ELSE 0
        /\ \A i \in 1..((p - 1) - 1 + 1) : SubSeq(list, 1, p - 1)[i] = list[1 + i - 1]
    BY <2>1, SubSeqProperties
  <2>. QED BY <2>2
<1>3. /\ y \in Seq(S) /\ Len(y) = Len(list) - p /\ \A i \in 1..(Len(list) - p) : y[i] = list[p + i]
  <2>1. p + 1 \in Int /\ Len(list) \in Int /\ \A i \in (p + 1)..Len(list) : list[i] \in S
    BY ElementOfSeq
  <2>2. /\ SubSeq(list, p + 1, Len(list)) \in Seq(S)
        /\ Len(SubSeq(list, p + 1, Len(list)))
             = IF p + 1 <= Len(list) THEN Len(list) - (p + 1) + 1 ELSE 0
        /\ \A i \in 1..(Len(list) - (p + 1) + 1) :
              SubSeq(list, p + 1, Len(list))[i] = list[(p + 1) + i - 1]
    BY <2>1, SubSeqProperties
  <2>. QED BY <2>2
<1>4. History!RemoveAt(list, p) = x \o y
  BY DEF History!RemoveAt
<1>. HIDE DEF x, y
<1>5. /\ x \o y \in Seq(S) /\ Len(x \o y) = Len(list) - 1
      /\ \A i \in 1..(Len(list) - 1) : (x \o y)[i] = IF i <= p - 1 THEN list[i] ELSE list[i + 1]
  <2>1. /\ x \o y \in Seq(S) /\ Len(x \o y) = Len(x) + Len(y)
        /\ \A i \in 1..(Len(x) + Len(y)) : (x \o y)[i] = IF i <= Len(x) THEN x[i] ELSE y[i - Len(x)]
    BY <1>2, <1>3, ConcatProperties
  <2>2. ASSUME NEW i \in 1..(Len(list) - 1)
        PROVE  (x \o y)[i] = IF i <= p - 1 THEN list[i] ELSE list[i + 1]
    <3>1. (x \o y)[i] = IF i <= p - 1 THEN x[i] ELSE y[i - (p - 1)]
      BY <1>2, <1>3, <2>1
    <3>2. ASSUME ~(i <= p - 1) PROVE y[i - (p - 1)] = list[i + 1]
      <4>1. i - (p - 1) \in 1..(Len(list) - p) /\ p + (i - (p - 1)) = i + 1
        BY <3>2
      <4>. QED BY <1>3, <4>1
    <3>. QED BY <1>2, <3>1, <3>2
  <2>3. Len(x) + Len(y) = Len(list) - 1
    BY <1>2, <1>3
  <2>. QED BY <2>1, <2>2, <2>3
<1>6. /\ t \in Seq(S) /\ Len(t) = 1 + (Len(list) - 1)
      /\ \A i \in 1..(1 + (Len(list) - 1)) : t[i] = IF i <= 1 THEN <<s>>[i] ELSE (x \o y)[i - 1]
  <2>1. /\ t \in Seq(S) /\ Len(t) = Len(<<s>>) + Len(x \o y)
        /\ \A i \in 1..(Len(<<s>>) + Len(x \o y)) :
              t[i] = IF i <= Len(<<s>>) THEN <<s>>[i] ELSE (x \o y)[i - Len(<<s>>)]
    BY <1>1, <1>5, ConcatProperties
  <2>. QED BY <1>1, <1>5, <2>1
<1>. HIDE DEF t
<1>7. Len(t) = Len(list) /\ t[1] = s
  BY <1>1, <1>6
<1>8. ASSUME NEW i \in 2..Len(t) PROVE t[i] = IF i <= p THEN list[i - 1] ELSE list[i]
  <2>. DEFINE k == i - 1
  <2>0. i \in 1..(1 + (Len(list) - 1)) /\ ~(i <= 1) /\ i \in Nat
    BY <1>1, <1>7
  <2>1. k \in 1..(Len(list) - 1) /\ t[i] = (x \o y)[k] /\ (k <= p - 1 <=> i <= p) /\ k + 1 = i
    <3>1. t[i] = (x \o y)[i - 1]
      BY <1>6, <2>0
    <3>2. i - 1 \in 1..(Len(list) - 1) /\ (i - 1 <= p - 1 <=> i <= p) /\ (i - 1) + 1 = i
      BY <1>1, <2>0
    <3>. QED BY <3>1, <3>2
  <2>. HIDE DEF k
  <2>2. t[i] = IF i <= p THEN list[k] ELSE list[k + 1]
    BY <1>5, <2>1
  <2>. QED BY <2>1, <2>2 DEF k
<1>. QED BY <1>1, <1>4, <1>6, <1>7, <1>8 DEF Moved, t

\* A listen puts its track on top of the history; a plain one has it there once.
LEMMA ListenMoves ==
  ASSUME HistoryTypes, History!Listen
  PROVE  /\ history' \in Seq(Songs) /\ today' \in 0..Len(history') /\ before' = history
         /\ \A i, j \in 1..today' : history'[i] = history'[j] => i = j
         /\ history' # <<>>
         /\ pending' = Append(pending, pending'[Len(pending')])
         /\ pending'[Len(pending')] \in [song : Songs, plain : BOOLEAN]
         /\ pending'[Len(pending')].song = history'[1]
         /\ \E p \in 1..(Len(history) + 1) :
              /\ Moved(history, history', p)
              /\ pending'[Len(pending')].plain =>
                   /\ history # <<>> => p # 1
                   /\ \A k \in 1..Len(history) : history[k] = history'[1] <=> k = p
<1>1. PICK s \in Songs :
        /\ \/ /\ s \notin History!ToSet(SubSeq(history, 1, today))
              /\ history' = <<s>> \o history
              /\ today' = today + 1
           \/ \E p \in 1..today :
                /\ history[p] = s
                /\ history' = <<s>> \o History!RemoveAt(history, p)
                /\ UNCHANGED today
        /\ before' = history
        /\ pending' = Append(pending, [song |-> s, plain |-> History!Plain(s)])
  BY DEF History!Listen
<1>2. /\ history \in Seq(Songs) /\ today \in 0..Len(history) /\ Len(history) \in Nat
      /\ pending \in Seq([song : Songs, plain : BOOLEAN])
      /\ \A i, j \in 1..today : history[i] = history[j] => i = j
  BY DEF HistoryTypes
<1>. DEFINE e == [song |-> s, plain |-> History!Plain(s)]
<1>3. e \in [song : Songs, plain : BOOLEAN] /\ e.song = s /\ e.plain = History!Plain(s)
  BY DEF History!Plain
<1>. HIDE DEF e
<1>4. pending'[Len(pending')] = e /\ pending' = Append(pending, e)
  <2>1. pending' = Append(pending, e)
    BY <1>1 DEF e
  <2>. QED BY <1>2, <1>3, <2>1, AppendProperties
<1>5. PICK p \in 1..(Len(history) + 1) :
        /\ history' \in Seq(Songs) /\ Moved(history, history', p) /\ history'[1] = s
        /\ \A k \in 1..today : history[k] = s <=> k = p
        /\ \/ p = Len(history) + 1 /\ today' = today + 1
           \/ p <= today /\ today' = today
  <2>1. CASE /\ s \notin History!ToSet(SubSeq(history, 1, today))
             /\ history' = <<s>> \o history
             /\ today' = today + 1
    <3>1. /\ history' \in Seq(Songs) /\ Moved(history, history', Len(history) + 1)
          /\ history'[1] = s
      BY <1>2, <2>1, PutOnTop
    <3>2. \A k \in 1..today : history[k] # s
      BY <1>2, <2>1, NotInPart
    <3>3. \A k \in 1..today : k # Len(history) + 1
      BY <1>2
    <3>. QED BY <1>2, <2>1, <3>1, <3>2, <3>3
  <2>2. ASSUME NEW p \in 1..today, history[p] = s,
               history' = <<s>> \o History!RemoveAt(history, p), UNCHANGED today
        PROVE  /\ p \in 1..Len(history)
               /\ history' \in Seq(Songs) /\ Moved(history, history', p) /\ history'[1] = s
               /\ \A k \in 1..today : history[k] = s <=> k = p
               /\ p <= today /\ today' = today
    <3>1. p \in 1..Len(history)
      BY <1>2
    <3>2. history' \in Seq(Songs) /\ Moved(history, history', p) /\ history'[1] = s
      BY <1>2, <2>2, <3>1, MoveToTop
    <3>. QED BY <1>2, <2>2, <3>1, <3>2
  <2>3. CASE \E p \in 1..today :
                /\ history[p] = s
                /\ history' = <<s>> \o History!RemoveAt(history, p)
                /\ UNCHANGED today
    <3>1. PICK p \in 1..today : history[p] = s
                /\ history' = <<s>> \o History!RemoveAt(history, p)
                /\ UNCHANGED today
      BY <2>3
    <3>2. p \in 1..(Len(history) + 1)
      BY <1>2
    <3>. QED BY <2>2, <3>1, <3>2
  <2>. QED BY <1>1, <2>1, <2>3
<1>6. /\ Len(history') = IF p <= Len(history) THEN Len(history) ELSE Len(history) + 1
      /\ \A i \in 2..Len(history') : history'[i] = IF i <= p THEN history[i - 1] ELSE history[i]
  BY <1>5 DEF Moved
<1>7. today' \in 0..Len(history')
  BY <1>2, <1>5, <1>6
<1>8. ASSUME NEW i \in 2..today'
      PROVE  \E j \in 1..today : /\ j = IF i <= p THEN i - 1 ELSE i
                                 /\ j # p /\ history'[i] = history[j]
  BY <1>2, <1>5, <1>6
<1>9. ASSUME NEW i \in 1..today', NEW j \in 1..today', history'[i] = history'[j] PROVE i = j
  <2>1. \A k \in 2..today' : history'[k] # history'[1]
    BY <1>5, <1>8
  <2>2. CASE i = 1 \/ j = 1
    <3>1. i = 1 \/ i \in 2..today'
      OBVIOUS
    <3>2. j = 1 \/ j \in 2..today'
      OBVIOUS
    <3>. QED BY <1>9, <2>1, <2>2, <3>1, <3>2
  <2>3. CASE i # 1 /\ j # 1
    <3>1. i \in 2..today' /\ j \in 2..today'
      BY <2>3
    <3>2. PICK k \in 1..today : k = (IF i <= p THEN i - 1 ELSE i) /\ k # p /\ history'[i] = history[k]
      BY <1>8, <3>1
    <3>3. PICK l \in 1..today : l = (IF j <= p THEN j - 1 ELSE j) /\ l # p /\ history'[j] = history[l]
      BY <1>8, <3>1
    <3>4. k = l
      BY <1>2, <1>9, <3>2, <3>3
    <3>. QED BY <1>2, <3>2, <3>3, <3>4
  <2>. QED BY <2>2, <2>3
<1>10. ASSUME History!Plain(s)
       PROVE  /\ history # <<>> => p # 1
              /\ \A k \in 1..Len(history) : history[k] = s <=> k = p
  <2>1. /\ s \notin History!ToSet(SubSeq(history, today + 1, Len(history)))
        /\ history # <<>> => history[1] # s
    BY <1>10 DEF History!Plain
  <2>2. \A k \in (today + 1)..Len(history) : history[k] # s
    <3>1. today + 1 \in Nat \ {0} /\ Len(history) \in 0..Len(history)
      BY <1>2
    <3>. QED BY <1>2, <2>1, <3>1, NotInPart
  <2>3. \A k \in (today + 1)..Len(history) : k # p
    BY <1>2, <1>5
  <2>4. \A k \in 1..Len(history) : history[k] = s <=> k = p
    <3>1. \A k \in 1..Len(history) : k \in 1..today \/ k \in (today + 1)..Len(history)
      BY <1>2
    <3>. QED BY <1>5, <2>2, <2>3, <3>1
  <2>5. history # <<>> => 1 \in 1..Len(history)
    BY <1>2, EmptySeq
  <2>. QED BY <2>1, <2>4, <2>5
<1>11. history' # <<>>
  <2>1. Len(history') # 0
    BY <1>2, <1>5, <1>6
  <2>. QED BY <2>1
<1>. QED BY <1>1, <1>3, <1>4, <1>5, <1>7, <1>9, <1>10, <1>11

\* What was accounted for is, with the listen on top, after it.
LEMMA AccountedOnTop ==
  ASSUME HistorySetting,
         NEW from \in Seq(Songs), NEW to \in Seq(Songs), NEW p, Moved(from, to, p),
         NEW songs \in Seq(Songs), NEW more \in Seq(Songs), Len(more) = Len(songs) + 1,
         \A k \in 1..Len(songs) : more[k] = songs[k], more[Len(more)] = to[1],
         NEW answer, Accounted(from, songs, answer)
  PROVE  Accounted(to, more, answer)
<1>1. PICK g \in [1..Len(from) -> 0..Len(songs)] :
        /\ Traced(from, songs, g)
        /\ \A i \in 1..Len(from) :
              i <= Compared /\ g[i] = 0 => \E k \in 1..Len(answer) : answer[k] = from[i]
  BY DEF Accounted
<1>2. /\ Len(from) \in Nat /\ Len(to) \in Nat /\ Len(songs) \in Nat /\ p \in 1..(Len(from) + 1)
      /\ Len(to) = IF p <= Len(from) THEN Len(from) ELSE Len(from) + 1
      /\ \A i \in 2..Len(to) : to[i] = IF i <= p THEN from[i - 1] ELSE from[i]
  BY DEF Moved
<1>. DEFINE o(i) == IF i <= p THEN i - 1 ELSE i
            f == [i \in 1..Len(to) |-> IF i = 1 THEN Len(more) ELSE g[o(i)]]
<1>3. ASSUME NEW i \in 2..Len(to)
      PROVE  /\ o(i) \in 1..Len(from) /\ to[i] = from[o(i)] /\ f[i] = g[o(i)] /\ o(i) <= i
             /\ i \in 1..Len(to) /\ g[o(i)] \in 0..Len(songs)
  <2>1. o(i) \in 1..Len(from) /\ o(i) <= i /\ i \in 1..Len(to) /\ i # 1
    BY <1>2
  <2>2. to[i] = from[o(i)]
    BY <1>2
  <2>3. f[i] = g[o(i)]
    BY <2>1
  <2>. HIDE DEF o, f
  <2>. QED BY <1>1, <2>1, <2>2, <2>3
<1>4. 1 \in 1..Len(to) /\ f[1] = Len(more) /\ \A i \in 1..Len(to) : i = 1 \/ i \in 2..Len(to)
  BY <1>2
<1>5. ASSUME NEW i \in 2..Len(to), NEW j \in 2..Len(to), i < j PROVE o(i) < o(j)
  BY <1>2, <1>5
<1>. HIDE DEF f, o
<1>6. f \in [1..Len(to) -> 0..Len(more)]
  <2>1. \A i \in 1..Len(to) : f[i] \in 0..Len(more)
    BY <1>2, <1>3, <1>4
  <2>2. f = [i \in 1..Len(to) |-> f[i]]
    BY DEF f
  <2>. QED BY <2>1, <2>2
<1>7. ASSUME NEW i \in 1..Len(to), f[i] # 0 PROVE to[i] = more[f[i]]
  <2>1. CASE i = 1
    BY <1>4, <2>1
  <2>2. CASE i \in 2..Len(to)
    <3>1. g[o(i)] \in 1..Len(songs) /\ f[i] = g[o(i)] /\ to[i] = from[o(i)] /\ o(i) \in 1..Len(from)
      BY <1>3, <1>7, <2>2
    <3>. DEFINE m == o(i)
    <3>2. m \in 1..Len(from) /\ g[m] # 0
      BY <1>2, <3>1
    <3>. HIDE DEF m
    <3>3. from[m] = songs[g[m]]
      BY <1>1, <3>2 DEF Traced
    <3>4. g[m] \in 1..Len(songs) /\ more[g[m]] = songs[g[m]]
      BY <3>1 DEF m
    <3>. QED BY <3>1, <3>3, <3>4 DEF m
  <2>. QED BY <1>4, <2>1, <2>2
<1>8. ASSUME NEW i \in 1..Len(to), NEW j \in 1..Len(to), i < j, f[j] # 0 PROVE f[i] > f[j]
  <2>1. j \in 2..Len(to) /\ o(j) \in 1..Len(from) /\ f[j] = g[o(j)] /\ g[o(j)] \in 0..Len(songs)
    BY <1>2, <1>3, <1>8
  <2>2. CASE i = 1
    BY <1>2, <1>4, <2>1, <2>2
  <2>3. CASE i \in 2..Len(to)
    <3>1. o(i) \in 1..Len(from) /\ f[i] = g[o(i)] /\ o(i) < o(j)
      BY <1>3, <1>5, <1>8, <2>1, <2>3
    <3>. QED BY <1>1, <1>8, <2>1, <3>1 DEF Traced
  <2>. QED BY <1>4, <2>2, <2>3
<1>9. ASSUME NEW i \in 1..Len(to), i <= Compared, f[i] = 0
      PROVE  \E k \in 1..Len(answer) : answer[k] = to[i]
  <2>1. i \in 2..Len(to)
    BY <1>2, <1>4, <1>9
  <2>2. o(i) \in 1..Len(from) /\ to[i] = from[o(i)] /\ f[i] = g[o(i)] /\ (o(i) = i - 1 \/ o(i) = i)
    BY <1>3, <2>1 DEF o
  <2>3. o(i) <= Compared
    BY <1>2, <1>9, <2>1, <2>2 DEF HistorySetting
  <2>. QED BY <1>1, <1>9, <2>2, <2>3
<1>. QED BY <1>6, <1>7, <1>8, <1>9 DEF Accounted, Traced

\* All of a list is in the answer that shows it.
LEMMA AccountedByAnswer ==
  ASSUME HistorySetting, NEW list \in Seq(Songs), NEW songs \in Seq(Songs)
  PROVE  Accounted(list, songs, History!Cut(list))
<1>. DEFINE c == History!Cut(list)
            g == [i \in 1..Len(list) |-> 0]
<1>1. /\ Len(list) \in Nat /\ Len(c) = IF Len(list) < Compared THEN Len(list) ELSE Compared
      /\ \A i \in 1..Len(c) : c[i] = list[i]
  BY CutProperties
<1>. HIDE DEF c
<1>2. Len(songs) \in Nat
  OBVIOUS
<1>3. g \in [1..Len(list) -> 0..Len(songs)] /\ \A i \in 1..Len(list) : g[i] = 0
  BY <1>2
<1>. HIDE DEF g
<1>4. ASSUME NEW i \in 1..Len(list), i <= Compared PROVE \E k \in 1..Len(c) : c[k] = list[i]
  <2>1. i \in 1..Len(c)
    BY <1>1, <1>4 DEF HistorySetting
  <2>. QED BY <1>1, <2>1
<1>. QED BY <1>3, <1>4 DEF Accounted, Traced, c

-----------------------------------------------------------------------------
(* The invariant, and what it gives.                                          *)

LEMMA InitHistory == ASSUME HistorySetting, History!Init PROVE HistoryInv
<1>1. /\ history \in UNION {[1..n -> Songs] : n \in 0..Compared}
      /\ today = 0 /\ before = history /\ pending = <<>> /\ fresh = 0 /\ current = TRUE
      /\ recentlyPlayed = <<>> /\ recentChanged = <<>> /\ polling = FALSE
  BY DEF History!Init
<1>2. history \in Seq(Songs)
  <2>1. PICK n \in 0..Compared : history \in [1..n -> Songs]
    BY <1>1
  <2>. QED BY <2>1 DEF HistorySetting
<1>3. HistoryTypes
  BY <1>1, <1>2, EmptySeq DEF HistoryTypes
<1>. QED BY <1>1, <1>3 DEF HistoryInv, LatestOnTop, Answered, Settled

LEMMA ListenKeepsHistory ==
  ASSUME HistorySetting, HistoryInv, History!Listen
  PROVE  HistoryInv'
<1>1. HistoryTypes
  BY DEF HistoryInv
<1>2. /\ history' \in Seq(Songs) /\ today' \in 0..Len(history') /\ before' = history
      /\ \A i, j \in 1..today' : history'[i] = history'[j] => i = j
      /\ history' # <<>>
      /\ pending' = Append(pending, pending'[Len(pending')])
      /\ pending'[Len(pending')] \in [song : Songs, plain : BOOLEAN]
      /\ pending'[Len(pending')].song = history'[1]
      /\ \E p \in 1..(Len(history) + 1) :
           /\ Moved(history, history', p)
           /\ pending'[Len(pending')].plain =>
                /\ history # <<>> => p # 1
                /\ \A k \in 1..Len(history) : history[k] = history'[1] <=> k = p
  BY <1>1, ListenMoves
<1>3. /\ polling /\ fresh' = fresh + 1
      /\ UNCHANGED <<current, polling, recentlyPlayed, recentChanged>>
  BY DEF History!Listen, History!watcher
<1>4. /\ history \in Seq(Songs) /\ pending \in Seq([song : Songs, plain : BOOLEAN])
      /\ fresh \in 0..Len(pending) /\ recentlyPlayed \in Seq(Songs)
      /\ recentChanged \in Seq(Seq(Songs))
  BY <1>1 DEF HistoryTypes
<1>. DEFINE e == pending'[Len(pending')]
<1>5. e \in [song : Songs, plain : BOOLEAN] /\ pending' = Append(pending, e)
  BY <1>2
<1>. HIDE DEF e
<1>6. /\ pending' \in Seq([song : Songs, plain : BOOLEAN]) /\ Len(pending') = Len(pending) + 1
      /\ \A k \in 1..Len(pending) : pending'[k] = pending[k]
      /\ Len(pending) \in Nat /\ pending' # <<>>
  <2>1. /\ pending' \in Seq([song : Songs, plain : BOOLEAN]) /\ Len(pending') = Len(pending) + 1
        /\ \A k \in 1..Len(pending) : pending'[k] = pending[k]
    BY <1>4, <1>5, AppendProperties
  <2>2. Len(pending) \in Nat
    BY <1>4
  <2>. QED BY <2>1, <2>2, EmptySeq
<1>7. HistoryTypes'
  <2>1. fresh' \in 0..Len(pending')
    BY <1>3, <1>4, <1>6
  <2>. QED BY <1>2, <1>3, <1>4, <1>6, <2>1 DEF HistoryTypes
<1>8. LatestOnTop'
  BY <1>2 DEF LatestOnTop
<1>9. Answered'
  <2>1. fresh' # 0 /\ (fresh' = 1 => fresh = 0)
    BY <1>3, <1>4
  <2>2. ASSUME current
        PROVE  /\ Accounted(history', Pending', recentlyPlayed)
               /\ fresh' = 1 => recentlyPlayed = History!Cut(history)
    <3>1. /\ Accounted(history, Pending, recentlyPlayed)
          /\ fresh = 0 => recentlyPlayed = History!Cut(history)
      BY <1>3, <2>2 DEF HistoryInv, Answered
    <3>2. Pending \in Seq(Songs) /\ Len(Pending) = Len(pending)
      BY <1>1, PendingIsSeq
    <3>3. Pending' \in Seq(Songs) /\ Len(Pending') = Len(pending')
      BY <1>6, SongsOf DEF Pending
    <3>4. /\ \A k \in 1..Len(Pending) : Pending'[k] = Pending[k]
          /\ Pending'[Len(Pending')] = history'[1]
      <4>1. \A k \in 1..Len(pending) : k \in 1..Len(pending') /\ Pending'[k] = pending'[k].song
        BY <1>6 DEF Pending
      <4>2. \A k \in 1..Len(pending) : Pending[k] = pending[k].song
        BY DEF Pending
      <4>3. Len(pending') \in 1..Len(pending')
        BY <1>6
      <4>4. Pending'[Len(pending')] = pending'[Len(pending')].song
        BY <4>3 DEF Pending
      <4>5. \A k \in 1..Len(pending) : Pending'[k] = Pending[k]
        BY <1>6, <4>1, <4>2
      <4>6. Pending'[Len(pending')] = history'[1]
        BY <1>2, <4>4
      <4>. QED BY <3>2, <3>3, <4>5, <4>6
    <3>5. PICK p \in 1..(Len(history) + 1) : Moved(history, history', p)
      BY <1>2
    <3>. DEFINE to == history'
                more == Pending'
                songs == Pending
    <3>6. /\ to \in Seq(Songs) /\ more \in Seq(Songs) /\ songs \in Seq(Songs)
          /\ Len(more) = Len(songs) + 1 /\ Moved(history, to, p)
          /\ \A k \in 1..Len(songs) : more[k] = songs[k]
          /\ more[Len(more)] = to[1] /\ Accounted(history, songs, recentlyPlayed)
      BY <1>2, <1>6, <3>1, <3>2, <3>3, <3>4, <3>5
    <3>. HIDE DEF to, more, songs
    <3>7. Accounted(to, more, recentlyPlayed)
      BY <1>4, <3>6, AccountedOnTop
    <3>. QED BY <2>1, <3>1, <3>7 DEF to, more
  <2>3. Accounted(history', Pending', recentlyPlayed) => Accounted(history, Pending, recentlyPlayed)'
    BY <1>3 DEF Accounted, Traced
  <2>. QED BY <1>2, <1>3, <2>1, <2>2, <2>3 DEF Answered
<1>10. Settled'
  BY <1>3, <1>6 DEF Settled
<1>. QED BY <1>7, <1>8, <1>9, <1>10 DEF HistoryInv

\* What an answer leaves behind.
LEMMA WatchRemembers ==
  ASSUME HistorySetting, HistoryTypes, NEW plays \in Seq(Songs), NEW new, History!Watch(plays, new)
  PROVE  /\ recentlyPlayed' = plays /\ recentChanged' \in Seq(Seq(Songs)) /\ found' = new
         /\ new = <<>> => recentChanged' = recentChanged
         /\ new # <<>> => recentChanged' # <<>> /\ recentChanged'[1] = plays
<1>1. /\ recentlyPlayed' = plays /\ found' = new
      /\ recentChanged' = IF new = <<>> THEN recentChanged
                          ELSE <<plays>> \o History!FirstOf(recentChanged, AnswersKept - 1)
      /\ recentChanged \in Seq(Seq(Songs))
  BY DEF History!Watch, HistoryTypes
<1>. DEFINE n == IF Len(recentChanged) < AnswersKept - 1 THEN Len(recentChanged) ELSE AnswersKept - 1
            rest == SubSeq(recentChanged, 1, n)
<1>2. n \in 0..Len(recentChanged) /\ History!FirstOf(recentChanged, AnswersKept - 1) = rest
  BY <1>1 DEF HistorySetting, History!FirstOf
<1>. HIDE DEF n
<1>3. rest \in Seq(Seq(Songs))
  <2>1. n \in Int /\ \A i \in 1..n : recentChanged[i] \in Seq(Songs)
    BY <1>1, <1>2, ElementOfSeq
  <2>. QED BY <2>1, SubSeqProperties
<1>. HIDE DEF rest
<1>4. <<plays>> \in Seq(Seq(Songs)) /\ Len(<<plays>>) = 1 /\ <<plays>>[1] = plays /\ Len(rest) \in Nat
  BY <1>3
<1>. DEFINE t == <<plays>> \o rest
<1>5. /\ t \in Seq(Seq(Songs)) /\ Len(t) = Len(<<plays>>) + Len(rest)
      /\ \A i \in 1..(Len(<<plays>>) + Len(rest)) :
            t[i] = IF i <= Len(<<plays>>) THEN <<plays>>[i] ELSE rest[i - Len(<<plays>>)]
  BY <1>3, <1>4, ConcatProperties
<1>. HIDE DEF t
<1>6. t # <<>> /\ t[1] = plays
  <2>1. Len(t) # 0 /\ 1 \in 1..(Len(<<plays>>) + Len(rest))
    BY <1>4, <1>5
  <2>. QED BY <1>4, <1>5, <2>1
<1>. QED BY <1>1, <1>2, <1>5, <1>6 DEF t

LEMMA PollKeepsHistory ==
  ASSUME HistorySetting, HistoryInv, History!Poll
  PROVE  HistoryInv'
<1>. DEFINE c == History!Cut(history)
<1>1. /\ HistoryTypes /\ history \in Seq(Songs)
      /\ UNCHANGED <<history, today, before, polling>>
      /\ polling /\ fresh' = 0 /\ current' = TRUE
      /\ pending' = IF found' = <<>> THEN pending ELSE <<>>
      /\ History!Watch(c, found')
  BY DEF HistoryInv, HistoryTypes, History!Poll, History!Parse, History!Watch, History!service
<1>2. c \in Seq(Songs)
  BY <1>1, CutProperties
<1>. HIDE DEF c
<1>3. /\ recentlyPlayed' = c /\ recentChanged' \in Seq(Seq(Songs))
      /\ found' = <<>> => recentChanged' = recentChanged
      /\ found' # <<>> => recentChanged' # <<>> /\ recentChanged'[1] = c
  BY <1>1, <1>2, WatchRemembers
<1>4. pending' \in Seq([song : Songs, plain : BOOLEAN]) /\ Len(pending') \in Nat
  <2>1. <<>> \in Seq([song : Songs, plain : BOOLEAN])
    BY EmptySeq
  <2>2. pending' \in Seq([song : Songs, plain : BOOLEAN])
    BY <1>1, <2>1 DEF HistoryTypes
  <2>. QED BY <2>2
<1>5. HistoryTypes'
  BY <1>1, <1>2, <1>3, <1>4 DEF HistoryTypes
<1>6. LatestOnTop'
  BY <1>1 DEF HistoryInv, LatestOnTop
<1>7. Answered'
  <2>1. Pending' \in Seq(Songs)
    BY <1>4, SongsOf DEF Pending
  <2>2. Accounted(history, Pending', c)
    BY <1>1, <2>1, AccountedByAnswer DEF c
  <2>3. Accounted(history, Pending, recentlyPlayed)'
    BY <1>1, <1>3, <2>2 DEF Accounted, Traced
  <2>4. History!Cut(history)' = c
    BY <1>1 DEF c, History!Cut, History!FirstOf
  <2>. QED BY <1>1, <1>3, <2>3, <2>4 DEF Answered
<1>8. Settled'
  <2>1. History!Cut(history)' = c
    BY <1>1 DEF c, History!Cut, History!FirstOf
  <2>2. pending = <<>> /\ history # <<>> => recentChanged # <<>> /\ recentChanged[1] = c
    BY <1>1 DEF HistoryInv, Settled, c
  <2>. QED BY <1>1, <1>3, <2>1, <2>2 DEF Settled
<1>. QED BY <1>5, <1>6, <1>7, <1>8 DEF HistoryInv

\* An answer that lacks only the latest entry has no new plays.
LEMMA OutdatedFindsNothing ==
  ASSUME HistorySetting, HistoryInv, polling, fresh = 0, history # before,
         \A k \in 1..Len(History!Cut(before)) : History!Cut(before)[k] # history[1]
  PROVE  History!NewPlays(History!Cut(before)) = <<>>
<1>. DEFINE a == History!Cut(before)
            c == History!Cut(history)
<1>1. history \in Seq(Songs) /\ before \in Seq(Songs)
  BY DEF HistoryInv, HistoryTypes
<1>2. recentlyPlayed = a \/ recentlyPlayed = c
  BY DEF HistoryInv, Answered
<1>3. PICK p \in 1..(Len(before) + 1) : Moved(before, history, p)
  BY DEF HistoryInv, LatestOnTop
<1>4. a \in Seq(Songs) /\ c \in Seq(Songs)
  BY <1>1, CutProperties
<1>5. OnTop(a, c, p) /\ ~(p <= Len(a)) /\ (a # <<>> => 2 <= Len(c))
  BY <1>1, <1>3, NewIsOnTop
<1>. HIDE DEF a, c
<1>6. History!BumpType(c, a) = "none" /\ History!AddType(c, a) # "prepend"
  BY <1>4, <1>5, BackOnTop
<1>7. History!NewPlays(a) = <<>>
  BY <1>2, <1>6, NewPlaysIs
<1>. QED BY <1>7 DEF a

LEMMA OutdatedKeepsHistory ==
  ASSUME HistorySetting, HistoryInv, History!PollOutdated
  PROVE  HistoryInv'
<1>. DEFINE a == History!Cut(before)
<1>1. /\ HistoryTypes /\ history \in Seq(Songs) /\ before \in Seq(Songs)
      /\ UNCHANGED <<history, today, before, polling, pending, fresh>>
      /\ polling /\ current' = FALSE
      /\ before # history /\ history[1] \notin History!ToSet(a)
      /\ found' = History!Listenable(History!NewPlays(a))
      /\ History!Watch(a, found')
  BY DEF HistoryInv, HistoryTypes, History!PollOutdated, History!Parse, History!Watch, History!service
<1>2. a \in Seq(Songs)
  BY <1>1, CutProperties
<1>3. \A k \in 1..Len(a) : a[k] # history[1]
  <2>. HIDE DEF a
  <2>. QED BY <1>1, <1>2 DEF History!ToSet
<1>4. fresh = 0 => found' = <<>>
  <2>. SUFFICES ASSUME fresh = 0 PROVE found' = <<>>
    OBVIOUS
  <2>1. History!NewPlays(a) = <<>>
    BY <1>1, <1>3, OutdatedFindsNothing
  <2>2. <<>> \in Seq(Songs)
    BY EmptySeq
  <2>. HIDE DEF a
  <2>. QED BY <1>1, <2>1, <2>2, ListenableIsPart
<1>. HIDE DEF a
<1>5. /\ recentlyPlayed' = a /\ recentChanged' \in Seq(Seq(Songs))
      /\ found' = <<>> => recentChanged' = recentChanged
  BY <1>1, <1>2, WatchRemembers
<1>6. HistoryTypes'
  BY <1>1, <1>2, <1>5 DEF HistoryTypes
<1>7. LatestOnTop'
  BY <1>1 DEF HistoryInv, LatestOnTop
<1>8. History!Cut(before)' = a /\ History!Cut(history)' = History!Cut(history)
  BY <1>1 DEF a, History!Cut, History!FirstOf
<1>9. Answered'
  BY <1>1, <1>3, <1>5, <1>8 DEF Answered
<1>10. Settled'
  <2>1. pending = <<>> => fresh = 0
    <3>1. pending = <<>> => Len(pending) = 0
      OBVIOUS
    <3>. QED BY <1>1, <3>1 DEF HistoryTypes
  <2>. QED BY <1>1, <1>4, <1>5, <1>8, <2>1 DEF HistoryInv, Settled
<1>. QED BY <1>6, <1>7, <1>9, <1>10 DEF HistoryInv

LEMMA HydrateKeepsHistory ==
  ASSUME HistorySetting, HistoryInv, History!Hydrate
  PROVE  HistoryInv'
<1>. DEFINE c == History!Cut(history)
<1>1. /\ HistoryTypes /\ history \in Seq(Songs)
      /\ UNCHANGED <<history, today, before, pending, fresh, current>>
      /\ ~polling /\ polling' = TRUE /\ recentlyPlayed' = c
      /\ recentChanged' = IF history = <<>> THEN recentChanged ELSE <<c>>
  BY DEF HistoryInv, HistoryTypes, History!Hydrate, History!service
<1>2. c \in Seq(Songs)
  BY <1>1, CutProperties
<1>3. pending = <<>> /\ current /\ fresh = 0
  <2>1. pending = <<>> /\ current
    BY <1>1 DEF HistoryInv, Settled
  <2>2. Len(pending) = 0
    BY <2>1
  <2>. QED BY <1>1, <2>1, <2>2 DEF HistoryTypes
<1>4. History!Cut(history)' = c
  BY <1>1 DEF History!Cut, History!FirstOf
<1>5. Accounted(history, Pending, c)
  <2>1. Pending \in Seq(Songs)
    BY <1>1, PendingIsSeq
  <2>. QED BY <1>1, <2>1, AccountedByAnswer
<1>. HIDE DEF c
<1>6. <<c>> \in Seq(Seq(Songs)) /\ <<c>> # <<>> /\ <<c>>[1] = c
  BY <1>2
<1>7. HistoryTypes'
  BY <1>1, <1>2, <1>6 DEF HistoryTypes
<1>8. LatestOnTop'
  BY <1>1 DEF HistoryInv, LatestOnTop
<1>9. Accounted(history, Pending, recentlyPlayed)'
  <2>1. Pending' = Pending
    BY <1>1 DEF Pending
  <2>. QED BY <1>1, <1>5, <2>1 DEF Accounted, Traced
<1>10. Answered'
  BY <1>1, <1>3, <1>4, <1>9 DEF Answered
<1>11. Settled'
  BY <1>1, <1>4, <1>6 DEF Settled
<1>. QED BY <1>7, <1>8, <1>10, <1>11 DEF HistoryInv

\* What the watcher knows stays as it is when nothing of it changes, whatever the day.
LEMMA HistoryStays ==
  ASSUME LatestOnTop, Answered, Settled,
         UNCHANGED <<history, before, pending, fresh, current, recentlyPlayed, recentChanged, polling>>
  PROVE  LatestOnTop' /\ Answered' /\ Settled'
<1>1. History!Cut(history)' = History!Cut(history) /\ History!Cut(before)' = History!Cut(before)
  BY DEF History!Cut, History!FirstOf
<1>2. Pending' = Pending
  BY DEF Pending
<1>3. Accounted(history, Pending, recentlyPlayed) => Accounted(history, Pending, recentlyPlayed)'
  BY <1>2 DEF Accounted, Traced
<1>4. LatestOnTop'
  BY DEF LatestOnTop, Moved
<1>5. Answered'
  BY <1>1, <1>3 DEF Answered
<1>6. Settled'
  BY <1>1 DEF Settled
<1>. QED BY <1>4, <1>5, <1>6

LEMMA HistoryInvKept ==
  ASSUME HistorySetting, HistoryInv, [History!Next]_(History!vars)
  PROVE  HistoryInv'
<1>1. CASE UNCHANGED History!vars
  <2>1. UNCHANGED <<history, today, before, pending, fresh, current, recentlyPlayed, recentChanged,
                    polling>>
    BY <1>1 DEF History!vars, History!service, History!watcher
  <2>2. HistoryTypes'
    BY <2>1 DEF HistoryInv, HistoryTypes
  <2>. QED BY <2>1, <2>2, HistoryStays DEF HistoryInv
<1>2. CASE History!NewDay
  <2>1. UNCHANGED <<history, before, pending, fresh, current, recentlyPlayed, recentChanged, polling>>
        /\ today' = 0
    BY <1>2 DEF History!NewDay, History!watcher
  <2>2. HistoryTypes'
    BY <2>1 DEF HistoryInv, HistoryTypes
  <2>. QED BY <2>1, <2>2, HistoryStays DEF HistoryInv
<1>. QED
  BY <1>1, <1>2, ListenKeepsHistory, PollKeepsHistory, OutdatedKeepsHistory, HydrateKeepsHistory
  DEF History!Next

LEMMA HistoryInvAlways == ASSUME HistorySetting PROVE History!Spec => []HistoryInv
  BY InitHistory, HistoryInvKept, PTL DEF History!Spec

\* A poll reports only what was listened to since one that reported plays, in order
\* (YTMusicSource.ts:446): for any tracks, and any number of listens, days and answers.
THEOREM NothingIsInventedAlways ==
  ASSUME HistorySetting
  PROVE  History!Spec /\ [](machine = "history") => NothingIsInvented
<1>1. HistoryInv /\ machine = "history" =>
        /\ machine = "history" => History!FoundWasHeard
        /\ machine = "busy" => Busy!FoundWasHeard
  BY FoundIsHeard DEF History!FoundWasHeard
<1>. QED BY <1>1, HistoryInvAlways, PTL DEF NothingIsInvented

\* A single listen between two answers is found, unless its track was on top, is listed on
\* an earlier day, or makes the history look as in a remembered answer (YTMusicSource.ts:476).
THEOREM OneListenIsFoundAlways ==
  ASSUME HistorySetting
  PROVE  History!Spec /\ [](machine = "history") => OneListenIsFound
<1>1. HistoryInv /\ machine = "history" =>
        /\ machine = "history" => History!HeardIsFound
        /\ machine = "busy" => Busy!HeardIsFound
  BY ListenIsFound
<1>. QED BY <1>1, HistoryInvAlways, PTL DEF OneListenIsFound

=============================================================================
