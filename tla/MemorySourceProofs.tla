------------------------- MODULE MemorySourceProofs -------------------------
(***************************************************************************)
(* Proofs about MemorySource for every value of its constants: what a      *)
(* player lets go of was discovered when it was listened to for long       *)
(* enough, and nothing is counted that was not heard.                      *)
(***************************************************************************)
EXTENDS MemorySource, Stepwise, SequenceTheorems

-----------------------------------------------------------------------------
(* Sums.                                                                      *)

Adds(f, s) == f[0] = 0 /\ \A n \in 1..Len(s) : f[n] = f[n - 1] + s[n]

\* The sum of a sequence is reached number by number.
LEMMA SumIsReached ==
  ASSUME NEW s \in Seq(Int)
  PROVE  \E f \in [0..Len(s) -> Int] : Adds(f, s) /\ Sum(s) = f[Len(s)]
<1>. DEFINE N == Len(s)
            step == [n \in 1..N |-> [a \in Int |-> a + s[n]]]
            Next1(g) == g = [n \in 0..N |-> IF n = 0 THEN 0 ELSE g[n - 1] + s[n]]
            sum == CHOOSE g : Next1(g)
<1>1. N \in Nat /\ \A n \in 1..N : s[n] \in Int
  BY LenProperties, ElementOfSeq
<1>2. step \in [1..N -> [Int -> Int]]
  BY <1>1
<1>3. PICK f \in [0..N -> Int] : GoesOn(f, 0, step, N)
  <2>1. 0 \in Int
    OBVIOUS
  <2>. HIDE DEF step, N
  <2>. QED BY <1>1, <1>2, <2>1, StepByStep
<1>4. Adds(f, s)
  <2>1. \A n \in 1..N : n - 1 \in 0..N
    BY <1>1
  <2>2. ASSUME NEW n \in 1..N PROVE f[n] = f[n - 1] + s[n]
    <3>1. f[n] = step[n][f[n - 1]] /\ f[n - 1] \in Int
      BY <1>3, <2>1 DEF GoesOn
    <3>. QED BY <3>1
  <2>. QED BY <1>3, <2>2 DEF GoesOn, Adds
<1>5. Next1(f)
  <2>1. ASSUME NEW n \in 0..N PROVE f[n] = IF n = 0 THEN 0 ELSE f[n - 1] + s[n]
    BY <1>1, <1>4 DEF Adds
  <2>. HIDE DEF N
  <2>. QED BY <2>1
<1>6. Next1(sum)
  <2>. HIDE DEF Next1
  <2>. QED BY <1>5
<1>7. sum \in [0..N -> Int] /\ Adds(sum, s)
  <2>. DEFINE X == {n \in 0..N : sum[n] = f[n]}
  <2>. HIDE DEF sum
  <2>1. 0 \in X
    BY <1>1, <1>4, <1>6 DEF Adds
  <2>2. \A n \in 0..N : sum[n] = f[n]
    <3>1. ASSUME NEW n \in 1..N, n - 1 \in X PROVE n \in X
      <4>1. n \in 0..N /\ n # 0
        BY <1>1
      <4>. QED BY <1>4, <1>6, <3>1, <4>1 DEF Adds
    <3>2. \A n \in 0..N : n \in X
      <4>. HIDE DEF X, N
      <4>. QED BY <1>1, <2>1, <3>1, StepsReachAll
    <3>. QED BY <3>2
  <2>3. sum = f
    <3>1. sum = [n \in 0..N |-> sum[n]]
      BY <1>6
    <3>2. f = [n \in 0..N |-> f[n]]
      OBVIOUS
    <3>. HIDE DEF N, Next1
    <3>. QED BY <2>2, <3>1, <3>2
  <2>. QED BY <1>4, <2>3
<1>8. Sum(s) = sum[N]
  BY DEF Sum
<1>. HIDE DEF sum
<1>. QED BY <1>7, <1>8

LEMMA SumIsInt ==
  ASSUME NEW s \in Seq(Int)
  PROVE  Sum(s) \in Int
<1>1. Len(s) \in 0..Len(s)
  BY LenProperties
<1>. QED BY <1>1, SumIsReached

\* A sum goes on where another ends.
LEMMA SumGoesOn ==
  ASSUME NEW a \in Seq(Int), NEW b \in Seq(Int)
  PROVE  Sum(a \o b) = Sum(a) + Sum(b)
<1>. DEFINE m == Len(a)
            n == Len(b)
            c == a \o b
<1>1. /\ m \in Nat /\ n \in Nat /\ c \in Seq(Int) /\ Len(c) = m + n
      /\ \A i \in 1..m : c[i] = a[i] /\ a[i] \in Int
      /\ \A i \in 1..n : c[m + i] = b[i] /\ b[i] \in Int
  BY LenProperties, ElementOfSeq, ConcatProperties
<1>2. PICK f \in [0..m -> Int] : Adds(f, a) /\ Sum(a) = f[m]
  BY SumIsReached
<1>3. PICK g \in [0..n -> Int] : Adds(g, b) /\ Sum(b) = g[n]
  BY SumIsReached
<1>4. PICK h \in [0..(m + n) -> Int] : Adds(h, c) /\ Sum(c) = h[m + n]
  BY <1>1, SumIsReached
<1>. HIDE DEF m, n, c
<1>5. \A i \in 0..m : h[i] = f[i]
  <2>. DEFINE X == {i \in 0..m : h[i] = f[i]}
  <2>1. 0 \in X
    BY <1>1, <1>2, <1>4 DEF Adds
  <2>2. ASSUME NEW i \in 1..m, i - 1 \in X PROVE i \in X
    <3>1. i \in 0..m /\ i \in 1..(m + n)
      BY <1>1
    <3>. QED BY <1>1, <1>2, <1>4, <2>2, <3>1 DEF Adds, m, n
  <2>3. \A i \in 0..m : i \in X
    <3>. HIDE DEF X
    <3>. QED BY <1>1, <2>1, <2>2, StepsReachAll
  <2>. QED BY <2>3
<1>6. \A i \in 0..n : h[m + i] = f[m] + g[i]
  <2>. DEFINE X == {i \in 0..n : h[m + i] = f[m] + g[i]}
  <2>1. 0 \in X
    <3>1. h[m] = f[m] /\ g[0] = 0 /\ m + 0 = m /\ f[m] \in Int /\ 0 \in 0..n
      BY <1>1, <1>2, <1>3, <1>5 DEF Adds
    <3>. QED BY <3>1
  <2>2. ASSUME NEW i \in 1..n, i - 1 \in X PROVE i \in X
    <3>1. i \in 0..n /\ m + i \in 1..(m + n) /\ (m + i) - 1 = m + (i - 1) /\ i - 1 \in 0..n
      BY <1>1
    <3>2. h[m + i] = h[m + (i - 1)] + c[m + i]
      BY <1>1, <1>4, <3>1 DEF Adds
    <3>3. g[i] = g[i - 1] + b[i]
      BY <1>3 DEF Adds, n
    <3>4. c[m + i] = b[i] /\ b[i] \in Int
      BY <1>1
    <3>6. f[m] \in Int /\ g[i - 1] \in Int
      <4>1. m \in 0..m
        BY <1>1
      <4>. QED BY <3>1, <4>1
    <3>5. h[m + (i - 1)] = f[m] + g[i - 1]
      BY <2>2
    <3>7. h[m + i] = f[m] + g[i]
      BY <3>2, <3>3, <3>4, <3>5, <3>6
    <3>. QED BY <3>1, <3>7
  <2>3. \A i \in 0..n : i \in X
    <3>. HIDE DEF X
    <3>. QED BY <1>1, <2>1, <2>2, StepsReachAll
  <2>. QED BY <2>3
<1>7. n \in 0..n
  BY <1>1
<1>. QED BY <1>2, <1>3, <1>4, <1>6, <1>7 DEF c

\* A number alone and no number.
LEMMA SumOfFew == Sum(<<>>) = 0 /\ \A x \in Int : Sum(<<x>>) = x
<1>1. <<>> \in Seq(Int) /\ Len(<<>>) = 0
  BY EmptySeq
<1>2. Sum(<<>>) = 0
  BY <1>1, SumIsReached DEF Adds
<1>3. ASSUME NEW x \in Int PROVE Sum(<<x>>) = x
  <2>1. <<x>> \in Seq(Int) /\ Len(<<x>>) = 1 /\ <<x>>[1] = x
    OBVIOUS
  <2>2. PICK f \in [0..1 -> Int] : Adds(f, <<x>>) /\ Sum(<<x>>) = f[1]
    BY <2>1, SumIsReached
  <2>3. f[1] = f[0] + x /\ f[0] = 0
    BY <2>1, <2>2 DEF Adds
  <2>. QED BY <2>2, <2>3
<1>. QED BY <1>2, <1>3

\* Numbers of which none is negative.
LEMMA SumOfNats ==
  ASSUME NEW s \in Seq(Nat)
  PROVE  Sum(s) \in Nat
<1>1. s \in Seq(Int) /\ Len(s) \in Nat /\ \A n \in 1..Len(s) : s[n] \in Nat
  BY LenProperties, ElementOfSeq
<1>2. PICK f \in [0..Len(s) -> Int] : Adds(f, s) /\ Sum(s) = f[Len(s)]
  BY <1>1, SumIsReached
<1>. DEFINE X == {n \in 0..Len(s) : f[n] \in Nat}
<1>3. 0 \in X
  BY <1>1, <1>2 DEF Adds
<1>4. ASSUME NEW n \in 1..Len(s), n - 1 \in X PROVE n \in X
  <2>1. n \in 0..Len(s)
    BY <1>1
  <2>2. f[n] = f[n - 1] + s[n]
    BY <1>2 DEF Adds
  <2>3. f[n - 1] \in Nat /\ s[n] \in Nat
    BY <1>1, <1>4
  <2>4. f[n] \in Nat
    BY <2>2, <2>3
  <2>. QED BY <2>1, <2>4
<1>5. \A n \in 0..Len(s) : n \in X
  <2>. HIDE DEF X
  <2>. QED BY <1>1, <1>3, <1>4, StepsReachAll
<1>. QED BY <1>1, <1>2, <1>5

\* At most one number that is not zero.
LEMMA SumOfOne ==
  ASSUME NEW s \in Seq(Int), NEW k \in 0..Len(s),
         \A n \in 1..Len(s) : n # k => s[n] = 0
  PROVE  Sum(s) = IF k = 0 THEN 0 ELSE s[k]
<1>1. Len(s) \in Nat /\ \A n \in 1..Len(s) : s[n] \in Int
  BY LenProperties, ElementOfSeq
<1>2. PICK f \in [0..Len(s) -> Int] : Adds(f, s) /\ Sum(s) = f[Len(s)]
  BY SumIsReached
<1>. DEFINE X == {n \in 0..Len(s) : f[n] = IF k = 0 \/ n < k THEN 0 ELSE s[k]}
<1>3. 0 \in X
  BY <1>1, <1>2 DEF Adds
<1>4. ASSUME NEW n \in 1..Len(s), n - 1 \in X PROVE n \in X
  <2>1. n \in 0..Len(s) /\ f[n] = f[n - 1] + s[n]
    BY <1>1, <1>2 DEF Adds
  <2>2. CASE k = 0
    BY <1>1, <1>4, <2>1, <2>2
  <2>3. CASE k # 0 /\ n < k
    <3>1. n - 1 < k /\ s[n] = 0
      BY <1>1, <2>3
    <3>. QED BY <1>4, <2>1, <2>3, <3>1
  <2>4. CASE k # 0 /\ n = k
    <3>1. n - 1 < k /\ ~(n < k) /\ s[k] \in Int
      BY <1>1, <2>4
    <3>. QED BY <1>4, <2>1, <2>4, <3>1
  <2>5. CASE k # 0 /\ k < n
    <3>1. ~(n - 1 < k) /\ ~(n < k) /\ s[n] = 0 /\ s[k] \in Int
      BY <1>1, <2>5
    <3>. QED BY <1>4, <2>1, <2>5, <3>1
  <2>. QED BY <1>1, <2>2, <2>3, <2>4, <2>5
<1>5. \A n \in 0..Len(s) : n \in X
  <2>. HIDE DEF X
  <2>. QED BY <1>1, <1>3, <1>4, StepsReachAll
<1>6. f[Len(s)] = IF k = 0 \/ Len(s) < k THEN 0 ELSE s[k]
  BY <1>1, <1>5
<1>. QED BY <1>1, <1>2, <1>6

-----------------------------------------------------------------------------
(* Players.                                                                   *)

RangeType == [from : Nat, to : Int, since : Nat, until : Nat]
PlayerType ==
  [kind : {"timestamp", "positional", "plex"}, calc : Statuses, reported : Statuses,
   track : Tracks \cup {NoTrack}, seen : Nat, playAt : Nat,
   ranges : Seq(RangeType), cur : Seq(RangeType), stateAt : Nat]

\* At most one range goes on, within the track; ranges are in time, those that are not
\* ended without the grace of the end.
Sane(p) ==
  /\ p \in PlayerType
  /\ Len(p.cur) <= 1
  /\ p.cur # <<>> =>
       /\ 0 <= p.cur[1].to /\ p.cur[1].to <= Duration
       /\ p.kind = "positional" =>
            p.cur[1].to - p.cur[1].from <= p.cur[1].until - p.cur[1].since + Drift
  /\ p.kind = "positional" => \A i \in 1..Len(p.ranges) : InTime(p.ranges[i])

\* What a play is owed when the user is at x: the range that goes on may reach x.
Later(a, b) == IF a < b THEN b ELSE a
Owed(r, x) ==
  IF Later(r.to, x) - r.from > Snap - 1 THEN Later(r.to, x) - r.from - (Snap - 1) ELSE 0
Due(p, x) == Credit(p.ranges) + IF p.cur = <<>> THEN 0 ELSE Owed(p.cur[1], x)

\* The constants are numbers.
LEMMA Limits ==
  /\ Duration \in Nat /\ 1 <= Duration /\ Drift \in Nat /\ 1 <= Drift
  /\ EndBuffer \in Nat /\ 1 <= EndBuffer /\ Snap \in Nat /\ 1 <= Snap
  /\ StaleAfter \in Nat /\ 1 <= StaleAfter /\ OrphanAfter \in Nat /\ 1 <= OrphanAfter
  /\ Threshold \in Nat /\ CloseDates \in Nat
  /\ Grace \in Nat /\ Grace = (EndBuffer - 1) + (Snap - 1)
<1>1. /\ Duration \in Nat \ {0} /\ Drift \in Nat \ {0} /\ EndBuffer \in Nat \ {0} /\ Snap \in Nat \ {0}
      /\ StaleAfter \in Nat \ {0} /\ OrphanAfter \in Nat \ {0}
  BY PlayerStateAssumption
<1>2. Threshold \in Nat /\ CloseDates \in Nat
  BY MemorySourceAssumption
<1>. QED BY <1>1, <1>2 DEF Grace

\* No range or one.
LEMMA OneRange ==
  ASSUME NEW T, NEW s \in Seq(T), Len(s) <= 1
  PROVE  s = <<>> \/ (s = <<s[1]>> /\ s[1] \in T)
<1>1. CASE Len(s) = 0
  BY <1>1, EmptySeq
<1>2. CASE Len(s) = 1
  BY <1>2
<1>3. Len(s) = 0 \/ Len(s) = 1
  <2>1. Len(s) \in Nat
    BY LenProperties
  <2>. QED BY <2>1
<1>. QED BY <1>1, <1>2, <1>3

LEMMA CreditIsSum ==
  ASSUME NEW rs \in Seq(RangeType)
  PROVE  /\ [i \in 1..Len(rs) |-> Beyond(rs[i])] \in Seq(Nat)
         /\ Credit(rs) \in Nat
<1>1. \A i \in 1..Len(rs) : rs[i] \in RangeType /\ Len(rs) \in Nat
  BY LenProperties, ElementOfSeq
<1>2. ASSUME NEW r \in RangeType PROVE Beyond(r) \in Nat
  <2>1. r.to \in Int /\ r.from \in Nat
    BY DEF RangeType
  <2>. QED BY <2>1, Limits DEF Beyond
<1>3. [i \in 1..Len(rs) |-> Beyond(rs[i])] \in Seq(Nat)
  <2>1. Len(rs) \in Nat
    BY LenProperties
  <2>2. \A i \in 1..Len(rs) : Beyond(rs[i]) \in Nat
    BY <1>1, <1>2
  <2>. QED BY <2>1, <2>2
<1>. QED BY <1>3, SumOfNats DEF Credit

\* A sum of numbers, one for each element, goes on with the sequence.
Grows(T, f, rs, r, t) ==
  /\ Sum([i \in 1..Len(t) |-> f[t[i]]]) = Sum([i \in 1..Len(rs) |-> f[rs[i]]]) + f[r]
  /\ Sum([i \in 1..Len(rs) |-> f[rs[i]]]) \in Int
  /\ Append(rs, r) = t /\ t \in Seq(T) /\ Len(t) = Len(rs) + 1

Parts(a, b, c) ==
  /\ Len(c) = Len(a) + Len(b)
  /\ \A i \in 1..Len(a) : c[i] = a[i]
  /\ \A i \in 1..Len(b) : c[Len(a) + i] = b[i]

LEMMA ConcatParts ==
  ASSUME NEW S, NEW a \in Seq(S), NEW b \in Seq(S)
  PROVE  Parts(a, b, a \o b) /\ a \o b \in Seq(S)
<1>. DEFINE c == a \o b
            m == Len(a)
            n == Len(b)
<1>1. c \in Seq(S) /\ Len(c) = m + n
      /\ \A i \in 1..(m + n) : c[i] = IF i <= m THEN a[i] ELSE b[i - m]
  BY ConcatProperties
<1>2. m \in Nat /\ n \in Nat
  BY LenProperties
<1>. HIDE DEF c, m, n
<1>3. ASSUME NEW i \in 1..m PROVE c[i] = a[i]
  BY <1>1, <1>2
<1>4. ASSUME NEW i \in 1..n PROVE c[m + i] = b[i]
  <2>1. m + i \in 1..(m + n) /\ ~(m + i <= m) /\ (m + i) - m = i
    BY <1>2
  <2>. QED BY <1>1, <2>1
<1>. QED BY <1>1, <1>3, <1>4 DEF Parts, c, m, n

ImageSum(f, s) == Sum([i \in 1..Len(s) |-> f[s[i]]])
ImagesAdd(T, f, a, b) ==
  a \o b \in Seq(T) /\ ImageSum(f, a \o b) = ImageSum(f, a) + ImageSum(f, b)

LEMMA ImagesGoOn ==
  ASSUME NEW T, NEW f \in [T -> Int], NEW a \in Seq(T), NEW b \in Seq(T)
  PROVE  ImagesAdd(T, f, a, b)
<1>. DEFINE c == a \o b
            fa == [i \in 1..Len(a) |-> f[a[i]]]
            fb == [i \in 1..Len(b) |-> f[b[i]]]
            fc == [i \in 1..Len(c) |-> f[c[i]]]
            m == Len(a)
            n == Len(b)
<1>1. m \in Nat /\ n \in Nat /\ (\A i \in 1..m : a[i] \in T) /\ (\A i \in 1..n : b[i] \in T)
  BY LenProperties, ElementOfSeq
<1>2. c \in Seq(T) /\ Len(c) = m + n /\ (\A i \in 1..m : c[i] = a[i]) /\ (\A i \in 1..n : c[m + i] = b[i])
  BY <1>1, ConcatProperties
<1>. HIDE DEF c
<1>3. fa \in Seq(Int) /\ Len(fa) = m /\ fb \in Seq(Int) /\ Len(fb) = n
  <2>1. (\A i \in 1..m : f[a[i]] \in Int) /\ \A i \in 1..n : f[b[i]] \in Int
    BY <1>1
  <2>. QED BY <1>1, <2>1
<1>4. fc = fa \o fb
  <2>1. Len(fa \o fb) = m + n /\ DOMAIN (fa \o fb) = 1..(m + n) /\ fa \o fb \in Seq(Int)
        /\ (\A i \in 1..m : (fa \o fb)[i] = fa[i]) /\ \A i \in 1..n : (fa \o fb)[m + i] = fb[i]
    <3>. HIDE DEF fa, fb
    <3>1. Parts(fa, fb, fa \o fb) /\ fa \o fb \in Seq(Int)
      BY <1>3, ConcatParts
    <3>. HIDE DEF m, n
    <3>. QED BY <1>1, <1>3, <3>1, LenProperties DEF Parts
  <2>2. ASSUME NEW i \in 1..(m + n) PROVE fc[i] = (fa \o fb)[i]
    <3>1. CASE i \in 1..m
      BY <1>1, <1>2, <2>1, <3>1
    <3>2. CASE i \notin 1..m
      <4>1. PICK j \in 1..n : i = m + j
        <5>. HIDE DEF m, n
        <5>1. i - m \in 1..n /\ i = m + (i - m)
          BY <1>1, <3>2
        <5>. QED BY <5>1
      <4>. QED BY <1>1, <1>2, <2>1, <4>1
    <3>. QED BY <3>1, <3>2
  <2>3. fc = [i \in 1..(m + n) |-> fc[i]]
    BY <1>2
  <2>. DEFINE g == fa \o fb
  <2>4. g \in Seq(Int) /\ Len(g) = m + n
    BY <2>1
  <2>. HIDE DEF g, fa, fb, fc, m, n
  <2>5. g = [i \in 1..(m + n) |-> g[i]]
    BY <2>4
  <2>6. \A i \in 1..(m + n) : fc[i] = g[i]
    BY <2>2 DEF g
  <2>7. fc = g
    BY <2>3, <2>5, <2>6
  <2>. QED BY <2>7 DEF g
<1>. HIDE DEF fa, fb, fc
<1>5. Sum(fc) = Sum(fa) + Sum(fb)
  BY <1>3, <1>4, SumGoesOn
<1>. QED BY <1>2, <1>5 DEF c, fa, fb, fc, ImageSum, ImagesAdd

LEMMA SumOfImages ==
  ASSUME NEW T, NEW f \in [T -> Int], NEW rs \in Seq(T), NEW r \in T
  PROVE  Grows(T, f, rs, r, rs \o <<r>>)
<1>. DEFINE t == rs \o <<r>>
            a == [i \in 1..Len(rs) |-> f[rs[i]]]
            b == <<f[r]>>
            c == [i \in 1..Len(t) |-> f[t[i]]]
<1>1. <<r>> \in Seq(T) /\ Len(<<r>>) = 1 /\ Len(rs) \in Nat /\ \A i \in 1..Len(rs) : rs[i] \in T
  BY ElementOfSeq, LenProperties
<1>2. t \in Seq(T) /\ Len(t) = Len(rs) + 1 /\ t[Len(rs) + 1] = r
      /\ \A i \in 1..Len(rs) : t[i] = rs[i]
  BY <1>1, ConcatProperties
<1>3. a \in Seq(Int) /\ Len(a) = Len(rs) /\ b \in Seq(Int) /\ Len(b) = 1 /\ f[r] \in Int
  <2>1. \A i \in 1..Len(rs) : f[rs[i]] \in Int
    BY <1>1
  <2>. QED BY <1>1, <2>1
<1>4. c = a \o b
  <2>1. Len(a \o b) = Len(rs) + 1 /\ DOMAIN (a \o b) = 1..(Len(rs) + 1)
        /\ \A i \in 1..Len(rs) : (a \o b)[i] = a[i]
        /\ (a \o b)[Len(rs) + 1] = b[1]
    BY <1>1, <1>3, ConcatProperties
  <2>2. ASSUME NEW i \in 1..(Len(rs) + 1) PROVE c[i] = (a \o b)[i]
    <3>1. CASE i \in 1..Len(rs)
      BY <1>1, <1>2, <2>1, <3>1
    <3>2. CASE i = Len(rs) + 1
      BY <1>1, <1>2, <2>1, <3>2
    <3>. QED BY <1>1, <3>1, <3>2
  <2>. QED BY <1>2, <1>3, <2>1, <2>2
<1>5. Append(rs, r) = t
  BY <1>1, <1>2, AppendProperties
<1>. HIDE DEF a, b, c, t
<1>6. Sum(c) = Sum(a) + Sum(b) /\ Sum(b) = f[r] /\ Sum(a) \in Int
  BY <1>3, <1>4, SumOfFew, SumGoesOn, SumIsInt DEF b
<1>. QED BY <1>2, <1>5, <1>6 DEF a, c, t, Grows

LEMMA CreditGoesOn ==
  ASSUME NEW rs \in Seq(RangeType), NEW r \in RangeType
  PROVE  /\ Credit(Append(rs, r)) = Credit(rs) + Beyond(r) /\ Credit(rs \o <<r>>) = Credit(rs) + Beyond(r)
         /\ Credit(rs) \in Nat /\ Beyond(r) \in Nat
<1>. DEFINE f == [q \in RangeType |-> Beyond(q)]
            t == rs \o <<r>>
<1>1. ASSUME NEW q \in RangeType PROVE Beyond(q) \in Nat
  <2>1. q.to \in Int /\ q.from \in Nat
    BY DEF RangeType
  <2>. QED BY <2>1, Limits DEF Beyond
<1>2. f \in [RangeType -> Int]
  BY <1>1
<1>3. /\ Sum([i \in 1..Len(t) |-> f[t[i]]]) = Sum([i \in 1..Len(rs) |-> f[rs[i]]]) + f[r]
      /\ Append(rs, r) = t /\ t \in Seq(RangeType) /\ Len(t) = Len(rs) + 1
  <2>. HIDE DEF f
  <2>1. Grows(RangeType, f, rs, r, t)
    BY <1>2, SumOfImages
  <2>. HIDE DEF t
  <2>. QED BY <2>1 DEF Grows
<1>4. \A s \in Seq(RangeType) : [i \in 1..Len(s) |-> f[s[i]]] = [i \in 1..Len(s) |-> Beyond(s[i])]
  BY ElementOfSeq
<1>5. Credit(t) = Sum([i \in 1..Len(t) |-> f[t[i]]]) /\ Credit(rs) = Sum([i \in 1..Len(rs) |-> f[rs[i]]])
  <2>. HIDE DEF f, t
  <2>. QED BY <1>3, <1>4 DEF Credit
<1>. QED BY <1>1, <1>3, <1>5, CreditIsSum

\* So it is for what was listened to.
LEMMA ListenedGoesOn ==
  ASSUME NEW kind, NEW rs \in Seq(RangeType), NEW r \in RangeType
  PROVE  /\ SumOf(kind, Append(rs, r)) = SumOf(kind, rs) + Length(kind, r)
         /\ SumOf(kind, rs \o <<r>>) = SumOf(kind, rs) + Length(kind, r)
         /\ SumOf(kind, rs) \in Int /\ Length(kind, r) \in Int
<1>. DEFINE f == [q \in RangeType |-> Length(kind, q)]
            t == rs \o <<r>>
<1>1. ASSUME NEW q \in RangeType PROVE Length(kind, q) \in Int
  <2>1. q.to \in Int /\ q.from \in Nat /\ q.since \in Nat /\ q.until \in Nat
    BY DEF RangeType
  <2>. QED BY <2>1 DEF Length
<1>2. f \in [RangeType -> Int]
  BY <1>1
<1>3. /\ Sum([i \in 1..Len(t) |-> f[t[i]]]) = Sum([i \in 1..Len(rs) |-> f[rs[i]]]) + f[r]
      /\ Sum([i \in 1..Len(rs) |-> f[rs[i]]]) \in Int
      /\ Append(rs, r) = t /\ t \in Seq(RangeType) /\ Len(t) = Len(rs) + 1
  <2>. HIDE DEF f
  <2>1. Grows(RangeType, f, rs, r, t)
    BY <1>2, SumOfImages
  <2>. HIDE DEF t
  <2>. QED BY <2>1 DEF Grows
<1>4. \A s \in Seq(RangeType) :
        [i \in 1..Len(s) |-> f[s[i]]] = [i \in 1..Len(s) |-> Length(kind, s[i])]
  BY ElementOfSeq
<1>5. /\ SumOf(kind, t) = Sum([i \in 1..Len(t) |-> f[t[i]]])
      /\ SumOf(kind, rs) = Sum([i \in 1..Len(rs) |-> f[rs[i]]])
  <2>. HIDE DEF f, t
  <2>. QED BY <1>3, <1>4 DEF SumOf
<1>. QED BY <1>1, <1>3, <1>5

\* A player later in the same play.
Follows(p, q, x) ==
  /\ Sane(q) /\ q.kind = p.kind /\ q.track = p.track /\ q.seen = p.seen
  /\ p.kind = "positional" => Due(q, x) <= Due(p, x)

\* The graces of the start and the end, on numbers.
LEMMA Graces ==
  ASSUME NEW a \in Int, NEW b \in Int, NEW g \in Nat, NEW m \in Nat, NEW n \in Nat,
         g = m + n, a <= b + m
  PROVE  (IF a > g THEN a - g ELSE 0) <= (IF b > n THEN b - n ELSE 0)
OBVIOUS

\* A range from a to b, of a play that took d, ends at c: not much later, and in time still.
LEMMA EndsNearby ==
  ASSUME NEW a \in Nat, NEW b \in Int, NEW c \in Int, NEW d \in Int,
         b <= Duration, b - a <= d + Drift, c = b \/ (c = Duration /\ Duration - b < EndBuffer)
  PROVE  c - a <= (b - a) + (EndBuffer - 1) /\ c - a <= d + Drift + EndBuffer - 1
<1>1. c - b <= EndBuffer - 1
  BY Limits
<1>. QED BY <1>1, Limits

\* A range that ends is in time and not beyond what was owed.
LEMMA RangeEnds ==
  ASSUME NEW p, Sane(p), p.cur # <<>>, NEW t \in Nat, NEW x \in Nat
  PROVE  /\ Ended(p, p.cur[1], t) \in RangeType
         /\ p.kind = "positional" => /\ InTime(Ended(p, p.cur[1], t))
                                      /\ Beyond(Ended(p, p.cur[1], t)) <= Owed(p.cur[1], x)
                                      /\ Beyond(p.cur[1]) <= Owed(p.cur[1], x)
<1>. DEFINE r == p.cur[1]
            e == Ended(p, r, t)
<1>1. r \in RangeType /\ p \in PlayerType
  <2>1. p \in PlayerType /\ p.cur \in Seq(RangeType) /\ Len(p.cur) <= 1
    BY DEF Sane, PlayerType
  <2>. QED BY <2>1, OneRange
<1>2. /\ r.from \in Nat /\ r.to \in Int /\ r.since \in Nat /\ r.until \in Nat
      /\ Duration \in Nat /\ Clock(r, t) \in Int
  <2>. HIDE DEF r
  <2>1. r.from \in Nat /\ r.to \in Int /\ r.since \in Nat /\ r.until \in Nat
    BY <1>1 DEF RangeType
  <2>. QED BY <2>1, Limits DEF Clock
<1>3. e \in {r, [r EXCEPT !.to = Duration], [r EXCEPT !.to = Clock(r, t)]}
  <2>. HIDE DEF r
  <2>. QED BY DEF Ended
<1>4. e \in RangeType
  <2>1. [r EXCEPT !.to = Duration] \in RangeType /\ [r EXCEPT !.to = Clock(r, t)] \in RangeType
    <3>. HIDE DEF r
    <3>. QED BY <1>1, <1>2 DEF RangeType
  <2>. HIDE DEF r, e
  <2>. QED BY <1>1, <1>3, <2>1
<1>5. ASSUME p.kind = "positional"
      PROVE  InTime(e) /\ Beyond(e) <= Owed(r, x) /\ Beyond(r) <= Owed(r, x)
  <2>1. \/ e = r
        \/ e = [r EXCEPT !.to = Duration] /\ Duration - r.to < EndBuffer
    <3>. HIDE DEF r
    <3>. QED BY <1>5 DEF Ended
  <2>2. e.from = r.from /\ e.since = r.since /\ e.until = r.until
        /\ (e.to = r.to \/ (e.to = Duration /\ Duration - r.to < EndBuffer))
    <3>. HIDE DEF r, e
    <3>. QED BY <1>1, <2>1 DEF RangeType
  <2>3. r.to <= Duration /\ r.to - r.from <= r.until - r.since + Drift
    BY <1>5 DEF Sane
  <2>. HIDE DEF r, e
  <2>4. e.to \in Int /\ e.from \in Nat /\ e.since \in Nat /\ e.until \in Nat
        /\ r.from \in Nat /\ r.to \in Int /\ r.since \in Nat /\ r.until \in Nat
    BY <1>2, <1>4 DEF RangeType
  <2>5. e.to - e.from <= (r.to - r.from) + (EndBuffer - 1)
        /\ e.to - e.from <= e.until - e.since + Drift + EndBuffer - 1
    <3>. DEFINE a == r.from
                b == r.to
                c == e.to
                d == r.until - r.since
    <3>1. a \in Nat /\ b \in Int /\ c \in Int /\ d \in Int
      BY <2>4
    <3>2. b <= Duration /\ b - a <= d + Drift /\ (c = b \/ (c = Duration /\ Duration - b < EndBuffer))
      BY <2>2, <2>3
    <3>. HIDE DEF a, b, c, d
    <3>3. c - a <= (b - a) + (EndBuffer - 1) /\ c - a <= d + Drift + EndBuffer - 1
      BY <3>1, <3>2, EndsNearby
    <3>. QED BY <2>2, <3>3 DEF a, b, c, d
  <2>6. InTime(e)
    BY <2>5 DEF InTime
  <2>7. Later(r.to, x) \in Int /\ r.to <= Later(r.to, x)
    BY <2>4 DEF Later
  <2>8. Beyond(e) <= Owed(r, x)
    <3>. DEFINE a == e.to - e.from
                b == Later(r.to, x) - r.from
                c == r.to - r.from
                m == EndBuffer - 1
                n == Snap - 1
    <3>0. r.from \in Nat /\ r.to \in Int /\ Later(r.to, x) \in Int /\ r.to <= Later(r.to, x)
      BY <2>4, <2>7
    <3>1. a <= c + m /\ c <= b /\ c \in Int
      BY <2>5, <3>0
    <3>2. a \in Int /\ b \in Int /\ m \in Nat /\ n \in Nat /\ Grace \in Nat /\ Grace = m + n
      BY <2>4, <2>7, Limits
    <3>3. Beyond(e) = (IF a > Grace THEN a - Grace ELSE 0) /\ Owed(r, x) = (IF b > n THEN b - n ELSE 0)
      BY DEF Beyond, Owed
    <3>. HIDE DEF a, b, c, m, n
    <3>4. a <= b + m
      BY <3>1, <3>2
    <3>5. (IF a > Grace THEN a - Grace ELSE 0) <= (IF b > n THEN b - n ELSE 0)
      BY <3>2, <3>4, Graces
    <3>. QED BY <3>3, <3>5
  <2>9. Beyond(r) <= Owed(r, x)
    <3>. DEFINE a == r.to - r.from
                b == Later(r.to, x) - r.from
                m == EndBuffer - 1
                n == Snap - 1
    <3>0. a \in Int /\ b \in Int /\ a <= b
      BY <2>4, <2>7
    <3>1. a \in Int /\ b \in Int /\ m \in Nat /\ n \in Nat /\ Grace \in Nat /\ Grace = m + n
          /\ a <= b + m
      <4>. HIDE DEF a, b
      <4>. QED BY <3>0, Limits
    <3>2. Beyond(r) = (IF a > Grace THEN a - Grace ELSE 0) /\ Owed(r, x) = (IF b > n THEN b - n ELSE 0)
      BY DEF Beyond, Owed
    <3>. HIDE DEF a, b, m, n
    <3>3. (IF a > Grace THEN a - Grace ELSE 0) <= (IF b > n THEN b - n ELSE 0)
      BY <3>1, Graces
    <3>. QED BY <3>2, <3>3
  <2>. QED BY <2>6, <2>8, <2>9
<1>. QED BY <1>4, <1>5

LEMMA OwedIsNat ==
  ASSUME NEW r \in RangeType, NEW x \in Nat
  PROVE  Owed(r, x) \in Nat
<1>1. r.from \in Nat /\ r.to \in Int
  BY DEF RangeType
<1>. QED BY <1>1, Limits DEF Owed, Later

LEMMA DueIsNat ==
  ASSUME NEW p, Sane(p), NEW x \in Nat
  PROVE  Due(p, x) \in Nat /\ Credit(p.ranges) \in Nat
<1>1. p.ranges \in Seq(RangeType) /\ p.cur \in Seq(RangeType) /\ Len(p.cur) <= 1
  BY DEF Sane, PlayerType
<1>2. Credit(p.ranges) \in Nat
  BY <1>1, CreditIsSum
<1>3. p.cur # <<>> => Owed(p.cur[1], x) \in Nat
  BY <1>1, OneRange, OwedIsNat
<1>. QED BY <1>2, <1>3 DEF Due

\* A session ends: the player has no range that goes on.
Ranged(p, q, t) ==
  /\ q.cur = <<>>
  /\ q.ranges = IF p.cur # <<>> /\ Length(p.kind, p.cur[1]) # 0
                  THEN Append(p.ranges, Ended(p, p.cur[1], t)) ELSE p.ranges

LEMMA SessionEnds ==
  ASSUME NEW p, Sane(p), NEW t \in Nat, NEW x \in Nat, NEW q, q = SessionEnd(p, t)
  PROVE  q = [p EXCEPT !.ranges = q.ranges, !.cur = <<>>] /\ Follows(p, q, x) /\ Ranged(p, q, t)
<1>1. p \in PlayerType /\ p.ranges \in Seq(RangeType) /\ p.cur \in Seq(RangeType)
  BY DEF Sane, PlayerType
<1>. DEFINE rs == IF p.cur # <<>> /\ Length(p.kind, p.cur[1]) # 0
                    THEN Append(p.ranges, Ended(p, p.cur[1], t)) ELSE p.ranges
<1>2. q = [p EXCEPT !.ranges = rs, !.cur = <<>>]
  BY DEF SessionEnd
<1>3. rs \in Seq(RangeType)
  <2>1. p.cur # <<>> => Ended(p, p.cur[1], t) \in RangeType
    BY RangeEnds
  <2>. QED BY <1>1, <2>1, AppendProperties
<1>. HIDE DEF rs
<1>4. /\ q \in PlayerType /\ q.ranges = rs /\ q.cur = <<>>
      /\ q.kind = p.kind /\ q.track = p.track /\ q.seen = p.seen
  <2>1. <<>> \in Seq(RangeType)
    BY EmptySeq
  <2>. QED BY <1>1, <1>2, <1>3, <2>1 DEF PlayerType
<1>5. q = [p EXCEPT !.ranges = q.ranges, !.cur = <<>>]
  BY <1>2, <1>4
<1>6. p.kind = "positional" => \A i \in 1..Len(rs) : InTime(rs[i])
  <2>1. CASE rs = p.ranges
    BY <2>1 DEF Sane
  <2>2. CASE p.cur # <<>> /\ rs = Append(p.ranges, Ended(p, p.cur[1], t))
    <3>. DEFINE e == Ended(p, p.cur[1], t)
    <3>1. e \in RangeType /\ (p.kind = "positional" => InTime(e))
      BY <2>2, RangeEnds
    <3>. HIDE DEF e
    <3>2. /\ Len(rs) = Len(p.ranges) + 1 /\ Len(p.ranges) \in Nat /\ rs[Len(p.ranges) + 1] = e
          /\ \A i \in 1..Len(p.ranges) : rs[i] = p.ranges[i]
      BY <1>1, <2>2, <3>1, AppendProperties, LenProperties DEF e
    <3>3. \A i \in 1..Len(rs) : i \in 1..Len(p.ranges) \/ i = Len(p.ranges) + 1
      BY <3>2
    <3>. QED BY <3>1, <3>2, <3>3 DEF Sane
  <2>. QED BY <2>1, <2>2 DEF rs
<1>7. Sane(q)
  BY <1>4, <1>6, EmptySeq DEF Sane
<1>8. p.kind = "positional" => Due(q, x) <= Due(p, x)
  <2>0. Due(q, x) = Credit(rs) /\ Due(p, x) \in Nat /\ Credit(p.ranges) \in Nat
    <3>1. Credit(rs) \in Nat
      BY <1>3, CreditIsSum
    <3>2. Due(q, x) = Credit(rs) + 0
      BY <1>4, Zenon DEF Due
    <3>3. Due(p, x) \in Nat /\ Credit(p.ranges) \in Nat
      BY DueIsNat, Zenon
    <3>. QED BY <3>1, <3>2, <3>3
  <2>1. CASE rs = p.ranges
    <3>. DEFINE o == IF p.cur = <<>> THEN 0 ELSE Owed(p.cur[1], x)
    <3>1. o \in Nat
      BY <1>1, OneRange, OwedIsNat DEF Sane
    <3>2. Due(p, x) = Credit(p.ranges) + o
      BY DEF Due
    <3>3. Due(q, x) = Credit(p.ranges)
      BY <2>0, <2>1
    <3>. HIDE DEF o
    <3>. QED BY <2>0, <3>1, <3>2, <3>3
  <2>2. CASE p.cur # <<>> /\ rs = Append(p.ranges, Ended(p, p.cur[1], t))
    <3>. DEFINE e == Ended(p, p.cur[1], t)
    <3>1. e \in RangeType /\ (p.kind = "positional" => Beyond(e) <= Owed(p.cur[1], x))
      BY <2>2, RangeEnds
    <3>. HIDE DEF e
    <3>2. Credit(rs) = Credit(p.ranges) + Beyond(e) /\ Beyond(e) \in Nat
      BY <1>1, <2>2, <3>1, CreditGoesOn DEF e
    <3>3. Due(p, x) = Credit(p.ranges) + Owed(p.cur[1], x) /\ Owed(p.cur[1], x) \in Nat
      BY <1>1, <2>2, OneRange, OwedIsNat DEF Due, Sane
    <3>. QED BY <2>0, <3>1, <3>2, <3>3
  <2>. QED BY <2>1, <2>2 DEF rs
<1>. QED BY <1>4, <1>5, <1>7, <1>8 DEF Follows, Ranged, rs

\* What is told of a player besides its play: nothing that is listened to.
Retouched(p, q) ==
  /\ q \in PlayerType
  /\ q.kind = p.kind /\ q.track = p.track /\ q.seen = p.seen
  /\ q.ranges = p.ranges /\ q.cur = p.cur

LEMMA RetouchedFollows ==
  ASSUME NEW p, Sane(p), NEW q, Retouched(p, q), NEW x \in Nat
  PROVE  Follows(p, q, x) /\ Listened(q) = Listened(p)
<1>1. Sane(q)
  BY DEF Retouched, Sane
<1>2. Listened(q) = Listened(p)
  BY DEF Retouched, Listened
<1>3. Due(q, x) = Due(p, x) /\ Due(p, x) \in Nat
  BY DueIsNat DEF Retouched, Due
<1>. QED BY <1>1, <1>2, <1>3 DEF Retouched, Follows

LEMMA FollowsOn ==
  ASSUME NEW p, Sane(p), NEW q, NEW r, NEW x \in Nat, Follows(p, q, x), Follows(q, r, x)
  PROVE  Follows(p, r, x)
<1>1. Sane(q) /\ Sane(r)
  BY DEF Follows
<1>2. Due(p, x) \in Nat /\ Due(q, x) \in Nat /\ Due(r, x) \in Nat
  BY <1>1, DueIsNat
<1>. QED BY <1>1, <1>2 DEF Follows

\* What was listened to, when a range goes on and when none does.
LEMMA ListenedIs ==
  ASSUME NEW p, Sane(p)
  PROVE  /\ SumOf(p.kind, p.ranges) \in Int /\ Listened(p) \in Int
         /\ p.cur = <<>> => Listened(p) = SumOf(p.kind, p.ranges)
         /\ p.cur # <<>> => /\ p.cur = <<p.cur[1]>> /\ p.cur[1] \in RangeType
                            /\ Length(p.kind, p.cur[1]) \in Int
                            /\ Listened(p) = SumOf(p.kind, p.ranges) + Length(p.kind, p.cur[1])
<1>1. p.ranges \in Seq(RangeType) /\ p.cur \in Seq(RangeType) /\ Len(p.cur) <= 1
  BY DEF Sane, PlayerType
<1>2. CASE p.cur = <<>>
  <2>1. p.ranges \o p.cur = p.ranges
    BY <1>1, <1>2, ConcatEmptySeq
  <2>2. SumOf(p.kind, p.ranges) \in Int
    <3>. DEFINE a == [i \in 1..Len(p.ranges) |-> Length(p.kind, p.ranges[i])]
    <3>1. Len(p.ranges) \in Nat /\ \A i \in 1..Len(p.ranges) : p.ranges[i] \in RangeType
      BY <1>1, LenProperties, ElementOfSeq
    <3>2. \A i \in 1..Len(p.ranges) : Length(p.kind, p.ranges[i]) \in Int
      BY <1>1, <3>1, ListenedGoesOn
    <3>3. a \in Seq(Int)
      BY <3>1, <3>2
    <3>. QED BY <3>3, SumIsInt DEF SumOf
  <2>. QED BY <1>2, <2>1, <2>2 DEF Listened
<1>3. CASE p.cur # <<>>
  <2>. DEFINE r == p.cur[1]
  <2>1. r \in RangeType /\ p.cur = <<r>>
    BY <1>1, <1>3, OneRange
  <2>. HIDE DEF r
  <2>2. /\ SumOf(p.kind, p.ranges \o <<r>>) = SumOf(p.kind, p.ranges) + Length(p.kind, r)
        /\ SumOf(p.kind, p.ranges) \in Int /\ Length(p.kind, r) \in Int
    BY <1>1, <2>1, ListenedGoesOn
  <2>. QED BY <1>3, <2>1, <2>2 DEF Listened, r
<1>. QED BY <1>2, <1>3

\* Enough is enough.
LEMMA MorePasses ==
  ASSUME NEW a \in Int, NEW b \in Int, a <= b, PassesThreshold(a)
  PROVE  PassesThreshold(b)
<1>1. CASE a >= Threshold
  BY <1>1, Limits DEF PassesThreshold
<1>2. CASE 200 * a >= 99 * Duration
  <2>1. 200 * b >= 200 * a
    OBVIOUS
  <2>. QED BY <1>2, <2>1, Limits DEF PassesThreshold
<1>. QED BY <1>1, <1>2 DEF PassesThreshold

\* What was listened to for long enough when nothing is told is so when the session ends.
LEMMA LongWhenEnded ==
  ASSUME NEW p, Sane(p), now \in Nat, LongEnough(p), NEW q, Retouched(p, q)
  PROVE  PassesThreshold(Listened(SessionEnd(q, now)))
<1>. DEFINE e == SessionEnd(q, now)
            s == [p EXCEPT !.reported = "stopped", !.calc = "stopped", !.playAt = now]
            z == SessionEnd(s, now)
            r == p.cur[1]
<1>1. p \in PlayerType /\ p.ranges \in Seq(RangeType) /\ 0 \in Nat
  BY DEF Sane, PlayerType
<1>2. Sane(q) /\ Sane(s) /\ Listened(q) = Listened(p)
  <2>1. "stopped" \in Statuses
    BY DEF Statuses
  <2>2. Retouched(p, s)
    BY <1>1, <2>1 DEF Retouched, PlayerType
  <2>. HIDE DEF s
  <2>. QED BY <1>1, <2>2, RetouchedFollows DEF Follows
<1>3. Follows(q, e, 0) /\ Ranged(q, e, now)
  <2>. HIDE DEF e
  <2>1. e = SessionEnd(q, now)
    BY DEF e
  <2>. QED BY <1>1, <1>2, <2>1, SessionEnds
<1>4. Follows(s, z, 0) /\ Ranged(s, z, now)
  <2>1. z = SessionEnd(s, now)
    OBVIOUS
  <2>. HIDE DEF z, s
  <2>. QED BY <1>1, <1>2, <2>1, SessionEnds
<1>5. PassesThreshold(Listened(p)) /\ PassesThreshold(Listened(z)) /\ Listened(p) \in Int
  BY ListenedIs DEF LongEnough, Stopped
<1>6. Listened(e) \in Int /\ Listened(e) = SumOf(p.kind, e.ranges)
  <2>. HIDE DEF e
  <2>1. Sane(e) /\ e.kind = p.kind /\ e.cur = <<>>
    BY <1>3 DEF Follows, Ranged, Retouched
  <2>. QED BY <2>1, ListenedIs
<1>7. Listened(z) = SumOf(p.kind, z.ranges)
  <2>0. s.kind = p.kind
    BY <1>1 DEF PlayerType
  <2>. HIDE DEF z, s
  <2>1. Sane(z) /\ z.kind = p.kind /\ z.cur = <<>>
    BY <1>4, <2>0 DEF Follows, Ranged
  <2>. QED BY <2>1, ListenedIs
<1>8. q.kind = p.kind /\ q.ranges = p.ranges /\ q.cur = p.cur
  BY DEF Retouched
<1>9. s.kind = p.kind /\ s.ranges = p.ranges /\ s.cur = p.cur /\ s.calc = "stopped"
  BY <1>1 DEF PlayerType
<1>10. CASE p.cur = <<>> \/ Length(p.kind, r) = 0
  <2>1. e.ranges = p.ranges
    <3>. HIDE DEF e
    <3>. QED BY <1>3, <1>8, <1>10 DEF Ranged
  <2>2. Listened(p) = SumOf(p.kind, p.ranges)
    <3>. HIDE DEF e, z, s
    <3>. QED BY <1>10, ListenedIs
  <2>3. PassesThreshold(Listened(e))
    <3>. HIDE DEF e, z, s
    <3>. QED BY <1>5, <1>6, <2>1, <2>2
  <2>. QED BY <2>3
<1>11. CASE p.cur # <<>> /\ Length(p.kind, r) # 0
  <2>. DEFINE a == Ended(q, r, now)
              b == Ended(s, r, now)
  <2>1. e.ranges = Append(p.ranges, a) /\ z.ranges = Append(p.ranges, b)
    <3>. HIDE DEF e, z, s
    <3>. QED BY <1>3, <1>4, <1>8, <1>9, <1>11 DEF Ranged
  <2>2. a \in RangeType /\ b \in RangeType
    <3>. HIDE DEF s
    <3>. QED BY <1>1, <1>2, <1>8, <1>9, <1>11, RangeEnds
  <2>3. \/ a = b
        \/ Length(p.kind, r) <= Length(p.kind, a)
    <3>1. CASE a = r
      <4>1. Length(p.kind, r) \in Int
        BY <1>11, ListenedIs
      <4>. QED BY <3>1, <4>1
    <3>2. CASE p.kind # "timestamp" /\ a = [r EXCEPT !.to = Duration]
      <4>1. r \in RangeType /\ r.to <= Duration
        BY <1>11, ListenedIs DEF Sane
      <4>. HIDE DEF r, a
      <4>2. /\ a.to = Duration /\ a.from = r.from /\ r.from \in Nat /\ r.to \in Int
            /\ Duration \in Nat
        BY <3>2, <4>1, Limits DEF RangeType
      <4>. QED BY <3>2, <4>1, <4>2 DEF Length
    <3>3. CASE p.kind = "plex" /\ a = [r EXCEPT !.to = Clock(r, now)]
      <4>1. b = [r EXCEPT !.to = Clock(r, now)]
        <5>. HIDE DEF s, r
        <5>. QED BY <1>9, <3>3 DEF Ended
      <4>. QED BY <3>3, <4>1
    <3>4. \/ a = r
          \/ p.kind # "timestamp" /\ a = [r EXCEPT !.to = Duration]
          \/ p.kind = "plex" /\ a = [r EXCEPT !.to = Clock(r, now)]
      <4>. HIDE DEF r
      <4>. QED BY <1>8 DEF Ended
    <3>. QED BY <3>1, <3>2, <3>3, <3>4
  <2>. HIDE DEF e, z, s, a, b
  <2>4. /\ Listened(e) = SumOf(p.kind, p.ranges) + Length(p.kind, a)
        /\ Listened(z) = SumOf(p.kind, p.ranges) + Length(p.kind, b)
        /\ SumOf(p.kind, p.ranges) \in Int /\ Length(p.kind, a) \in Int
    BY <1>1, <1>6, <1>7, <2>1, <2>2, ListenedGoesOn
  <2>5. Listened(p) = SumOf(p.kind, p.ranges) + Length(p.kind, r) /\ Length(p.kind, r) \in Int
    BY <1>11, ListenedIs
  <2>6. CASE a = b
    BY <1>5, <2>4, <2>6 DEF e
  <2>7. CASE Length(p.kind, r) <= Length(p.kind, a)
    <3>. HIDE DEF r
    <3>1. Listened(p) <= Listened(e)
      BY <2>4, <2>5, <2>7
    <3>. QED BY <1>5, <1>6, <3>1, MorePasses DEF e
  <2>. QED BY <2>3, <2>6, <2>7
<1>. QED BY <1>10, <1>11

\* A play with no range is credited with nothing.
LEMMA NoCredit == Credit(<<>>) = 0
<1>1. [i \in 1..0 |-> Beyond(<<>>[i])] = <<>>
  OBVIOUS
<1>2. Len(<<>>) = 0
  OBVIOUS
<1>. QED BY <1>1, <1>2, SumOfFew DEF Credit

GoesTo(r, e, pos, t) ==
  e \in RangeType /\ e.from = r.from /\ e.to = pos /\ e.since = r.since /\ e.until = t

LEMMA RangeGoesOn ==
  ASSUME NEW r \in RangeType, NEW pos \in Int, NEW t \in Nat
  PROVE  GoesTo(r, [r EXCEPT !.to = pos, !.until = t], pos, t)
BY DEF RangeType, GoesTo

\* A new range owes nothing; a range that goes on owes what it owed.
LEMMA SessionContinues ==
  ASSUME NEW p, Sane(p), NEW pos \in 0..(Duration - 1), NEW t \in Nat,
         p.cur = <<>> \/ ~Seeked(p, pos, t),
         NEW q, q = SessionContinue(p, pos, t)
  PROVE  /\ Follows(p, q, pos) /\ q.ranges = p.ranges
         /\ p.cur = <<>> => Due(q, pos) = Credit(p.ranges)
<1>1. p \in PlayerType /\ p.ranges \in Seq(RangeType) /\ p.cur \in Seq(RangeType) /\ Len(p.cur) <= 1
  BY DEF Sane, PlayerType
<1>2. pos \in Nat /\ pos + 1 <= Duration /\ pos <= Duration
  BY Limits
<1>3. CASE p.cur = <<>>
  <2>. DEFINE at == IF Positional(p) /\ p.calc = "playing" /\ pos <= Snap THEN 1 ELSE pos
              r == [from |-> at, to |-> at, since |-> t, until |-> t]
  <2>1. at \in Nat /\ at <= Duration /\ 0 <= at /\ Later(at, pos) - at <= Snap - 1
        /\ Later(at, pos) \in Nat
    BY <1>2, Limits DEF Later
  <2>. HIDE DEF at
  <2>2. r \in RangeType /\ r.from = at /\ r.to = at /\ r.since = t /\ r.until = t
    BY <2>1 DEF RangeType
  <2>3. Owed(r, pos) = 0
    BY <2>1, <2>2, Limits DEF Owed
  <2>4. q = [p EXCEPT !.cur = <<r>>]
    BY <1>3 DEF SessionContinue, at
  <2>. HIDE DEF r
  <2>5. <<r>> \in Seq(RangeType) /\ Len(<<r>>) = 1 /\ <<r>>[1] = r /\ <<r>> # <<>>
    BY <2>2
  <2>6. q \in PlayerType /\ q.cur = <<r>> /\ q.ranges = p.ranges /\ q.kind = p.kind
        /\ q.track = p.track /\ q.seen = p.seen
    BY <1>1, <2>4, <2>5 DEF PlayerType
  <2>7. Sane(q)
    <3>1. r.to - r.from <= r.until - r.since + Drift
      BY <2>1, <2>2, Limits
    <3>. QED BY <2>1, <2>2, <2>5, <2>6, <3>1 DEF Sane
  <2>8. Due(q, pos) = Credit(p.ranges) /\ Due(p, pos) = Credit(p.ranges) /\ Credit(p.ranges) \in Nat
    <3>1. Credit(p.ranges) \in Nat
      BY <1>1, CreditIsSum
    <3>. QED BY <1>3, <2>3, <2>5, <2>6, <3>1 DEF Due
  <2>. QED BY <2>6, <2>7, <2>8 DEF Follows
<1>4. CASE p.cur # <<>>
  <2>. DEFINE r == p.cur[1]
              e == [r EXCEPT !.to = pos, !.until = t]
  <2>1. r \in RangeType
    BY <1>1, <1>4, OneRange
  <2>2. StatusAfter(p, pos, t) \in Statuses
    <3>1. p.calc \in Statuses
      BY <1>1 DEF PlayerType
    <3>. QED BY <3>1 DEF StatusAfter, Statuses
  <2>3. q = [p EXCEPT !.calc = StatusAfter(p, pos, t), !.cur = <<e>>]
    BY <1>4 DEF SessionContinue
  <2>. HIDE DEF r, e
  <2>4. e \in RangeType /\ e.from = r.from /\ e.to = pos /\ e.since = r.since /\ e.until = t
        /\ r.from \in Nat /\ r.to \in Int /\ r.since \in Nat
    <3>1. pos \in Int
      BY <1>2
    <3>2. r.from \in Nat /\ r.to \in Int /\ r.since \in Nat
      BY <2>1 DEF RangeType
    <3>3. GoesTo(r, e, pos, t)
      BY <2>1, <3>1, RangeGoesOn DEF e
    <3>. QED BY <3>2, <3>3 DEF GoesTo
  <2>5. <<e>> \in Seq(RangeType) /\ Len(<<e>>) = 1 /\ <<e>>[1] = e /\ <<e>> # <<>>
    BY <2>4
  <2>6. q \in PlayerType /\ q.cur = <<e>> /\ q.ranges = p.ranges /\ q.kind = p.kind
        /\ q.track = p.track /\ q.seen = p.seen
    BY <1>1, <2>2, <2>3, <2>5 DEF PlayerType
  <2>7. p.kind = "positional" => r.to <= pos /\ pos - Clock(r, t) <= Drift
    <3>1. p.kind = "positional" => ~(pos < r.to) /\ ~(pos - Clock(r, t) > Drift)
      BY <1>4 DEF Seeked, Positional, Drifted, r
    <3>2. Clock(r, t) \in Int /\ Drift \in Nat
      BY <2>4, Limits DEF Clock
    <3>. QED BY <1>2, <2>4, <3>1, <3>2
  <2>8. Sane(q)
    <3>1. p.kind = "positional" => e.to - e.from <= e.until - e.since + Drift
      BY <1>2, <2>4, <2>7, Limits DEF Clock
    <3>. QED BY <1>2, <2>4, <2>5, <2>6, <3>1 DEF Sane
  <2>9. p.kind = "positional" => Due(q, pos) <= Due(p, pos)
    <3>1. p.kind = "positional" => Later(e.to, pos) = Later(r.to, pos)
      BY <1>2, <2>4, <2>7 DEF Later
    <3>2. p.kind = "positional" => Owed(e, pos) = Owed(r, pos)
      BY <2>4, <3>1 DEF Owed
    <3>3. p.kind = "positional" => Due(q, pos) = Due(p, pos)
      BY <1>4, <2>5, <2>6, <3>2 DEF Due, r
    <3>. QED BY <1>2, <3>3, DueIsNat
  <2>. QED BY <1>4, <2>6, <2>8, <2>9 DEF Follows
<1>. QED BY <1>3, <1>4

RepType ==
  [track : Tracks \cup {NoTrack}, pos : 0..(Duration - 1),
   status : {"none", "playing", "paused", "stopped"}]

\* A player at the start of a play that began at t: nothing is owed at x.
Fresh(q, p, track, t, x) ==
  /\ Sane(q) /\ q.kind = p.kind /\ q.track = track /\ q.seen = t
  /\ Due(q, x) = 0

LEMMA SetsCurrentPlay ==
  ASSUME NEW p, Sane(p), NEW rep \in RepType, rep.track \in Tracks, NEW t \in Nat
  PROVE  Fresh(SetCurrentPlay(p, rep, t), p, rep.track, t, rep.pos)
<1>. DEFINE q == [p EXCEPT !.track = rep.track, !.seen = t, !.ranges = <<>>, !.cur = <<>>]
            n == SetCurrentPlay(p, rep, t)
<1>1. p \in PlayerType /\ <<>> \in Seq(RangeType) /\ rep.pos \in 0..(Duration - 1) /\ Len(<<>>) = 0
  BY EmptySeq DEF Sane, RepType
<1>2. q \in PlayerType /\ q.ranges = <<>> /\ q.cur = <<>> /\ q.kind = p.kind
      /\ q.track = rep.track /\ q.seen = t
  BY <1>1 DEF PlayerType
<1>. HIDE DEF q
<1>3. Sane(q)
  BY <1>1, <1>2 DEF Sane
<1>4. n = IF q.reported = "stopped" THEN q ELSE SessionContinue(q, rep.pos, t)
  BY DEF SetCurrentPlay, q
<1>. HIDE DEF n
<1>5. CASE n = q
  BY <1>2, <1>3, <1>5, NoCredit DEF Fresh, Due, n
<1>6. CASE n = SessionContinue(q, rep.pos, t)
  <2>1. Follows(q, n, rep.pos) /\ Due(n, rep.pos) = Credit(<<>>)
    BY <1>1, <1>2, <1>3, <1>6, SessionContinues
  <2>. QED BY <1>2, <2>1, NoCredit DEF Fresh, Follows, n
<1>. QED BY <1>4, <1>5, <1>6

LEMMA SeekEndsSession ==
  ASSUME NEW p, Sane(p), NEW rep \in RepType, NEW t \in Nat, NEW q, q = SeekEnds(p, rep, t)
  PROVE  Follows(p, q, rep.pos) /\ (q.cur = <<>> \/ ~Seeked(q, rep.pos, t))
<1>1. p \in PlayerType /\ rep.pos \in Nat
  BY DEF Sane, RepType
<1>2. CASE ~Seeked(p, rep.pos, t)
  <2>1. q = p
    BY <1>2 DEF SeekEnds
  <2>2. Retouched(p, p)
    BY <1>1 DEF Retouched
  <2>. QED BY <1>1, <1>2, <2>1, <2>2, RetouchedFollows
<1>3. CASE Seeked(p, rep.pos, t)
  <2>. DEFINE s == [p EXCEPT !.calc = IF p.cur[1].to = rep.pos THEN "paused" ELSE @]
  <2>1. q = SessionEnd(s, t)
    BY <1>3 DEF SeekEnds
  <2>2. Retouched(p, s)
    <3>1. "paused" \in Statuses
      BY DEF Statuses
    <3>. QED BY <1>1, <3>1 DEF Retouched, PlayerType
  <2>. HIDE DEF s
  <2>3. Follows(p, s, rep.pos) /\ Sane(s)
    BY <1>1, <2>2, RetouchedFollows DEF Follows
  <2>4. Follows(s, q, rep.pos) /\ Ranged(s, q, t)
    BY <1>1, <2>1, <2>3, SessionEnds
  <2>5. q.cur = <<>>
    BY <2>4 DEF Ranged
  <2>. QED BY <1>1, <2>3, <2>4, <2>5, FollowsOn
<1>. QED BY <1>2, <1>3

\* Where the user is in a track.
At(t) == IF user.track = t THEN user.pos ELSE 0

\* A play that is given away is the one that was played, with what was listened to of it.
Gives(p, done, x) ==
  /\ p.track # NoTrack
  /\ \E e : /\ Follows(p, e, x)
            /\ done = Played(e)
            /\ LongEnough(p) => PassesThreshold(Listened(e))

\* What becomes of a player that is updated or cleaned up: it goes on, or it is at the
\* start of another play when it gave its own.
Goes(p, q, done) ==
  /\ Sane(q) /\ q.kind = p.kind
  /\ done = <<>> \/ Gives(p, done, At(p.track))
  /\ \/ Follows(p, q, At(p.track))
     \/ /\ p.track = NoTrack \/ done # <<>>
        /\ q.track = NoTrack \/ Due(q, At(q.track)) = 0

LEMMA AtIsNat ==
  ASSUME user.pos \in 0..(Duration - 1), NEW t
  PROVE  At(t) \in Nat
BY DEF At

\* The session that ends gives its play.
LEMMA EndedGives ==
  ASSUME NEW p, Sane(p), now \in Nat, NEW q, Retouched(p, q), p.track # NoTrack, NEW x \in Nat
  PROVE  Gives(p, Played(SessionEnd(q, now)), x) /\ Played(SessionEnd(q, now)) # <<>>
<1>. DEFINE e == SessionEnd(q, now)
<1>1. LongEnough(p) => PassesThreshold(Listened(e))
  BY LongWhenEnded
<1>. HIDE DEF e
<1>2. Follows(p, q, x) /\ Sane(q)
  BY RetouchedFollows DEF Follows
<1>3. Follows(q, e, x)
  BY <1>2, SessionEnds DEF e
<1>4. Follows(p, e, x)
  BY <1>2, <1>3, FollowsOn
<1>5. Played(e) # <<>>
  <2>1. e.track = p.track
    BY <1>4 DEF Follows
  <2>. QED BY <2>1 DEF Played
<1>. QED BY <1>1, <1>4, <1>5 DEF Gives, e

\* setPlay()
LEMMA SetPlayGoes ==
  ASSUME NEW p0, Sane(p0), now \in Nat, NEW rep \in RepType, rep.track \in Tracks,
         user.track = rep.track, user.pos = rep.pos,
         NEW p1, Retouched(p0, p1), NEW u, u = SetPlay(p1, rep, now)
  PROVE  Goes(p0, u.player, u.done)
<1>. DEFINE p == [p1 EXCEPT !.playAt = now,
                            !.reported = IF rep.status = "none" THEN @ ELSE rep.status]
            ended == SessionEnd(p, now)
            next  == SetCurrentPlay(ended, rep, now)
            x     == At(p0.track)
<1>1. rep.pos \in 0..(Duration - 1) /\ rep.pos \in Nat /\ x \in Nat /\ At(rep.track) = rep.pos
      /\ rep.track # NoTrack /\ p0 \in PlayerType
  <2>1. rep.pos \in 0..(Duration - 1)
    BY DEF RepType
  <2>. QED BY <2>1, AtIsNat, PlayerStateAssumption DEF At, Sane
<1>2. Retouched(p0, p)
  <2>1. rep.status = "none" \/ rep.status \in Statuses
    BY DEF RepType, Statuses
  <2>. QED BY <2>1 DEF Retouched, PlayerType
<1>. HIDE DEF p
<1>3. Sane(p) /\ Follows(p0, p, x) /\ p.track = p0.track /\ p.kind = p0.kind
  BY <1>1, <1>2, RetouchedFollows DEF Follows, Retouched
<1>4. Follows(p, ended, x) /\ Sane(ended) /\ ended.track = p0.track /\ ended.kind = p0.kind
      /\ Follows(p0, ended, x)
  <2>. HIDE DEF x
  <2>1. Follows(p, ended, x)
    BY <1>1, <1>3, SessionEnds
  <2>2. Sane(ended) /\ ended.track = p0.track /\ ended.kind = p0.kind
    BY <1>3, <2>1 DEF Follows
  <2>. QED BY <1>1, <1>3, <2>1, <2>2, FollowsOn
<1>. HIDE DEF ended
<1>5. Fresh(next, ended, rep.track, now, rep.pos)
  BY <1>4, SetsCurrentPlay
<1>6. p0.track # NoTrack => Gives(p0, Played(ended), x) /\ Played(ended) # <<>>
  BY <1>1, <1>2, EndedGives DEF ended
<1>. HIDE DEF next, x
<1>7. ASSUME NEW c \in Statuses, NEW n, Fresh(n, p, rep.track, now, rep.pos),
             NEW m, m = [n EXCEPT !.calc = c]
      PROVE  Fresh(m, p0, rep.track, now, rep.pos)
  <2>1. n \in PlayerType /\ Sane(n) /\ n.kind = p0.kind /\ n.track = rep.track /\ n.seen = now
    BY <1>3, <1>7 DEF Fresh, Sane
  <2>2. Retouched(n, m)
    BY <1>7, <2>1 DEF Retouched, PlayerType
  <2>3. Sane(m)
    BY <1>1, <2>1, <2>2, RetouchedFollows DEF Follows
  <2>4. Due(m, rep.pos) = Due(n, rep.pos)
    BY <2>2 DEF Due, Retouched
  <2>. QED BY <1>7, <2>1, <2>2, <2>3, <2>4 DEF Fresh, Retouched
<1>8. CASE p.track = NoTrack
  <2>. DEFINE n == SetCurrentPlay(p, rep, now)
              m == [n EXCEPT !.calc = "unknown"]
  <2>1. Fresh(n, p, rep.track, now, rep.pos)
    BY <1>3, SetsCurrentPlay
  <2>2. u.player = m /\ u.done = <<>>
    BY <1>1, <1>8 DEF SetPlay, p
  <2>3. "unknown" \in Statuses
    BY DEF Statuses
  <2>. HIDE DEF n
  <2>4. Fresh(m, p0, rep.track, now, rep.pos)
    BY <1>7, <2>1, <2>3
  <2>. HIDE DEF m
  <2>. QED BY <1>1, <1>3, <1>8, <2>2, <2>4 DEF Goes, Fresh
<1>9. CASE p.track # NoTrack /\ p.track # rep.track
  <2>. DEFINE c == IF next.calc = "playing" THEN next.calc ELSE "unknown"
              m == [next EXCEPT !.calc = c]
  <2>1. u.player = m /\ u.done = Played(ended)
    BY <1>1, <1>9 DEF SetPlay, p, next, ended
  <2>2. c \in Statuses
    BY DEF Statuses
  <2>. HIDE DEF c
  <2>3. Fresh(next, p, rep.track, now, rep.pos)
    BY <1>3, <1>4, <1>5 DEF Fresh
  <2>4. Fresh(m, p0, rep.track, now, rep.pos)
    BY <1>7, <2>2, <2>3
  <2>. HIDE DEF m
  <2>. QED BY <1>1, <1>3, <1>6, <1>9, <2>1, <2>4 DEF Goes, Fresh, x
<1>10. CASE p.track = rep.track /\ rep.status \in {"paused", "stopped"}
  <2>. DEFINE m == [ended EXCEPT !.calc = p.reported]
  <2>1. u = [player |-> m, done |-> <<>>]
    BY <1>1, <1>10 DEF SetPlay, p, ended
  <2>2. Retouched(ended, m)
    <3>1. p.reported \in Statuses /\ ended \in PlayerType
      BY <1>3, <1>4 DEF Sane, PlayerType
    <3>. QED BY <3>1 DEF Retouched, PlayerType
  <2>. HIDE DEF m
  <2>3. Follows(ended, m, x)
    BY <1>1, <1>4, <2>2, RetouchedFollows
  <2>4. Follows(p0, m, x)
    BY <1>1, <1>4, <2>3, FollowsOn
  <2>. QED BY <2>1, <2>4 DEF Goes, Follows, x
<1>11. CASE p.track = rep.track /\ rep.status \notin {"paused", "stopped"}
            /\ SessionRepeat(p, rep.pos, now)
  <2>1. u = [player |-> next, done |-> Played(ended)]
    BY <1>1, <1>11 DEF SetPlay, p, next, ended
  <2>. QED BY <1>1, <1>3, <1>4, <1>5, <1>6, <1>11, <2>1 DEF Goes, Fresh, x
<1>12. CASE p.track = rep.track /\ rep.status \notin {"paused", "stopped"}
            /\ ~SessionRepeat(p, rep.pos, now)
  <2>. DEFINE s == SeekEnds(p, rep, now)
              m == SessionContinue(s, rep.pos, now)
  <2>1. u = [player |-> m, done |-> <<>>]
    BY <1>1, <1>12 DEF SetPlay, p
  <2>2. Follows(p, s, rep.pos) /\ (s.cur = <<>> \/ ~Seeked(s, rep.pos, now)) /\ Sane(s)
    BY <1>3, SeekEndsSession DEF Follows
  <2>. HIDE DEF s
  <2>3. Follows(s, m, rep.pos)
    BY <1>1, <2>2, SessionContinues
  <2>. HIDE DEF m
  <2>4. Follows(p, m, rep.pos)
    BY <1>1, <1>3, <2>2, <2>3, FollowsOn
  <2>5. x = rep.pos
    BY <1>1, <1>3, <1>12 DEF x
  <2>6. Follows(p0, m, x)
    BY <1>1, <1>3, <2>4, <2>5, FollowsOn
  <2>. QED BY <2>1, <2>6 DEF Goes, Follows, x
<1>. QED BY <1>8, <1>9, <1>10, <1>11, <1>12

\* update(), also of a player that takes over from p0.
LEMMA UpdateGoes ==
  ASSUME NEW p0, Sane(p0), now \in Nat, NEW rep \in RepType,
         user.track = rep.track, user.pos = rep.pos,
         NEW p1, Retouched(p0, p1), NEW u, u = Update(p1, rep, now)
  PROVE  Goes(p0, u.player, u.done)
<1>. DEFINE p == [p1 EXCEPT !.stateAt = now]
            x == At(p0.track)
<1>1. p0 \in PlayerType /\ x \in Nat /\ user.pos \in 0..(Duration - 1) /\ 0 \in Nat
  <2>1. rep.pos \in 0..(Duration - 1)
    BY DEF RepType
  <2>. QED BY <2>1, AtIsNat DEF Sane
<1>2. Retouched(p0, p)
  BY DEF Retouched, PlayerType
<1>. HIDE DEF p, x
<1>3. Sane(p) /\ Follows(p0, p, x) /\ p.track = p0.track /\ p.kind = p0.kind /\ p \in PlayerType
  BY <1>1, <1>2, RetouchedFollows DEF Follows, Retouched
<1>4. CASE rep.track # NoTrack
  <2>1. u = SetPlay(p, rep, now)
    BY <1>4 DEF Update, p
  <2>2. rep.track \in Tracks
    BY <1>4 DEF RepType
  <2>. QED BY <1>2, <2>1, <2>2, SetPlayGoes
<1>5. CASE rep.track = NoTrack /\ rep.status = "stopped" /\ p.reported # "stopped" /\ p.track # NoTrack
  <2>. DEFINE s == [p EXCEPT !.reported = "stopped", !.calc = "stopped", !.playAt = now]
              e == SessionEnd(s, now)
              c == Cleared(e)
  <2>1. u = [player |-> c, done |-> Played(e)]
    BY <1>5 DEF Update, p, Stopped
  <2>2. Retouched(p0, s)
    <3>1. "stopped" \in Statuses
      BY DEF Statuses
    <3>. QED BY <1>2, <3>1 DEF Retouched, PlayerType
  <2>. HIDE DEF s
  <2>3. Gives(p0, Played(e), x) /\ Played(e) # <<>>
    BY <1>1, <1>3, <1>5, <2>2, EndedGives
  <2>4. Sane(e) /\ e.kind = p0.kind
    <3>. HIDE DEF e
    <3>1. Sane(s) /\ s.kind = p0.kind
      BY <1>1, <2>2, RetouchedFollows DEF Follows
    <3>2. Follows(s, e, x)
      BY <1>1, <3>1, SessionEnds DEF e
    <3>. QED BY <3>1, <3>2 DEF Follows
  <2>. HIDE DEF e
  <2>5. e \in PlayerType /\ <<>> \in Seq(RangeType) /\ Len(<<>>) = 0
    BY <2>4, EmptySeq DEF Sane
  <2>6. c \in PlayerType /\ c.cur = <<>> /\ c.ranges = <<>> /\ c.track = NoTrack /\ c.kind = p0.kind
    BY <2>4, <2>5 DEF Cleared, PlayerType
  <2>. HIDE DEF c
  <2>7. Sane(c)
    BY <2>5, <2>6 DEF Sane
  <2>. QED BY <2>1, <2>3, <2>6, <2>7 DEF Goes, x
<1>6. CASE rep.track = NoTrack /\ ~(rep.status = "stopped" /\ p.reported # "stopped" /\ p.track # NoTrack)
  <2>. DEFINE q == [p EXCEPT !.reported = IF rep.status = "none" THEN @ ELSE rep.status]
  <2>1. u = [player |-> q, done |-> <<>>]
    BY <1>6 DEF Update, p
  <2>2. Retouched(p0, q)
    <3>1. rep.status = "none" \/ rep.status \in Statuses
      BY DEF RepType, Statuses
    <3>. QED BY <1>2, <3>1 DEF Retouched, PlayerType
  <2>. HIDE DEF q
  <2>3. Follows(p0, q, x)
    BY <1>1, <2>2, RetouchedFollows
  <2>. QED BY <2>1, <2>3 DEF Goes, Follows, x
<1>. QED BY <1>4, <1>5, <1>6

\* A player after a cleanup has the same play; when it was silent already it is as before.
Cleans(key, p, u) ==
  /\ Goes(p, u.player, u.done) /\ Follows(p, u.player, At(p.track))
  /\ ~u.tried => u.done = <<>> /\ ~u.gone
  /\ u.tried => /\ p.track # NoTrack /\ u.player.calc \in {"stale", "orphaned"}
                /\ key \notin attempted => u.done = Played(u.player)
                /\ p.calc \in {"stale", "orphaned"} => Listened(u.player) = Listened(p)
                /\ LongEnough(p) => PassesThreshold(Listened(u.player))

LEMMA CleanupGoes ==
  ASSUME NEW key, NEW p, Sane(p), now \in Nat, user.pos \in 0..(Duration - 1),
         NEW u, u = Cleanup(key, p)
  PROVE  Cleans(key, p, u)
<1>. DEFINE x == At(p.track)
            s == CheckStale(p, now)
            q == CheckOrphaned(s, now)
<1>1. p \in PlayerType /\ x \in Nat
  BY AtIsNat DEF Sane
<1>. HIDE DEF x
<1>2. CASE ~UpdateStale(p, now)
  <2>1. u.player = p /\ u.done = <<>> /\ ~u.gone /\ ~u.tried
    BY <1>2 DEF Cleanup
  <2>2. Follows(p, p, x)
    <3>1. Retouched(p, p)
      BY <1>1 DEF Retouched
    <3>. QED BY <1>1, <3>1, RetouchedFollows
  <2>. QED BY <2>1, <2>2 DEF Cleans, Goes, Follows, x
<1>3. CASE UpdateStale(p, now)
  <2>1. u.player = q /\ u.tried /\ u.done = (IF key \notin attempted THEN Played(q) ELSE <<>>)
    BY <1>3 DEF Cleanup
  <2>2. p.track # NoTrack
    BY <1>3 DEF UpdateStale
  <2>3. /\ Follows(p, s, x) /\ s.calc \in {"stale", "orphaned"}
        /\ p.calc \in {"stale", "orphaned"} => Listened(s) = Listened(p)
        /\ LongEnough(p) => PassesThreshold(Listened(s))
    <3>1. CASE p.calc \in {"stale", "orphaned"}
      <4>1. s = p
        BY <3>1 DEF CheckStale
      <4>2. Follows(p, p, x)
        <5>1. Retouched(p, p)
          BY <1>1 DEF Retouched
        <5>. QED BY <1>1, <5>1, RetouchedFollows
      <4>. QED BY <3>1, <4>1, <4>2 DEF LongEnough
    <3>2. CASE p.calc \notin {"stale", "orphaned"}
      <4>. DEFINE y == [p EXCEPT !.calc = "stale"]
      <4>1. s = SessionEnd(y, now)
        BY <1>3, <3>2 DEF CheckStale
      <4>2. Retouched(p, y) /\ y.calc = "stale"
        <5>1. "stale" \in Statuses
          BY DEF Statuses
        <5>. QED BY <1>1, <5>1 DEF Retouched, PlayerType
      <4>. HIDE DEF y, s
      <4>3. Follows(p, y, x) /\ Sane(y)
        BY <1>1, <4>2, RetouchedFollows DEF Follows
      <4>4. Follows(y, s, x) /\ s = [y EXCEPT !.ranges = s.ranges, !.cur = <<>>]
        BY <1>1, <4>1, <4>3, SessionEnds
      <4>5. s.calc = "stale"
        BY <4>2, <4>4 DEF Retouched, PlayerType
      <4>6. LongEnough(p) => PassesThreshold(Listened(s))
        BY <4>1, <4>2, LongWhenEnded
      <4>7. Follows(p, s, x)
        BY <1>1, <4>3, <4>4, FollowsOn
      <4>. QED BY <3>2, <4>5, <4>6, <4>7
    <3>. QED BY <3>1, <3>2
  <2>. HIDE DEF s
  <2>4. Sane(s) /\ s \in PlayerType
    BY <2>3 DEF Follows, Sane
  <2>5. Retouched(s, q) /\ q.calc \in {"stale", "orphaned"}
    <3>1. "orphaned" \in Statuses
      BY DEF Statuses
    <3>. QED BY <2>3, <2>4, <3>1 DEF Retouched, PlayerType, CheckOrphaned
  <2>. HIDE DEF q
  <2>6. Follows(p, q, x) /\ Listened(q) = Listened(s) /\ q.track = p.track
    <3>1. Follows(s, q, x) /\ Listened(q) = Listened(s)
      BY <1>1, <2>4, <2>5, RetouchedFollows
    <3>2. Follows(p, q, x)
      BY <1>1, <2>3, <3>1, FollowsOn
    <3>. QED BY <3>1, <3>2 DEF Follows
  <2>7. LongEnough(p) => PassesThreshold(Listened(q))
    BY <2>3, <2>6
  <2>8. Gives(p, Played(q), x)
    BY <2>2, <2>6, <2>7 DEF Gives
  <2>9. Goes(p, q, u.done)
    BY <2>1, <2>6, <2>8 DEF Goes, Follows, x
  <2>. QED BY <2>1, <2>2, <2>3, <2>5, <2>6, <2>7, <2>9 DEF Cleans, x
<1>. QED BY <1>2, <1>3

\* All ranges of a player are in time, and credit no more than is owed.
AllInTime(rs) == \A i \in 1..Len(rs) : InTime(rs[i])

LEMMA OneInTime ==
  ASSUME NEW rs, AllInTime(rs), NEW r \in ToSet(rs)
  PROVE  InTime(r)
<1>1. PICK i \in 1..Len(rs) : r = rs[i]
  BY DEF ToSet
<1>. QED BY <1>1 DEF AllInTime

LEMMA RangesOfPlayer ==
  ASSUME NEW p, Sane(p), NEW x \in Nat
  PROVE  /\ p.ranges \o p.cur \in Seq(RangeType)
         /\ p.kind = "positional" =>
              AllInTime(p.ranges \o p.cur) /\ Credit(p.ranges \o p.cur) <= Due(p, x)
<1>. DEFINE rs == p.ranges \o p.cur
            r  == p.cur[1]
<1>1. p.ranges \in Seq(RangeType) /\ p.cur \in Seq(RangeType) /\ Len(p.cur) <= 1
      /\ (p.kind = "positional" => AllInTime(p.ranges))
  BY DEF Sane, PlayerType, AllInTime
<1>2. CASE p.cur = <<>>
  <2>1. rs = p.ranges
    BY <1>1, <1>2, ConcatEmptySeq
  <2>2. Due(p, x) = Credit(p.ranges) /\ Credit(p.ranges) \in Nat
    BY <1>1, <1>2, CreditIsSum DEF Due
  <2>. QED BY <1>1, <2>1, <2>2
<1>3. CASE p.cur # <<>>
  <2>1. r \in RangeType /\ p.cur = <<r>>
    BY <1>1, <1>3, OneRange
  <2>2. p.kind = "positional" => InTime(r) /\ Beyond(r) <= Owed(r, x)
    <3>1. p.kind = "positional" => r.to - r.from <= r.until - r.since + Drift
      BY <1>3 DEF Sane
    <3>2. p.kind = "positional" => Beyond(r) <= Owed(r, x)
      BY <1>3, RangeEnds
    <3>. HIDE DEF r
    <3>3. r.from \in Nat /\ r.to \in Int /\ r.since \in Nat /\ r.until \in Nat
      BY <2>1 DEF RangeType
    <3>4. p.kind = "positional" => InTime(r)
      BY <3>1, <3>3, Limits DEF InTime
    <3>. QED BY <3>2, <3>4
  <2>3. Due(p, x) = Credit(p.ranges) + Owed(r, x)
    BY <1>3 DEF Due
  <2>. HIDE DEF r, rs
  <2>4. rs = p.ranges \o <<r>> /\ <<r>> \in Seq(RangeType) /\ Len(<<r>>) = 1 /\ <<r>>[1] = r
    BY <2>1 DEF rs
  <2>5. Parts(p.ranges, <<r>>, rs) /\ rs \in Seq(RangeType)
    BY <1>1, <2>4, ConcatParts
  <2>6. Credit(rs) = Credit(p.ranges) + Beyond(r) /\ Beyond(r) \in Nat /\ Credit(p.ranges) \in Nat
        /\ Owed(r, x) \in Nat
    BY <1>1, <2>1, <2>4, CreditGoesOn, OwedIsNat
  <2>7. p.kind = "positional" => AllInTime(rs)
    <3>1. Len(p.ranges) \in Nat /\ Len(rs) = Len(p.ranges) + 1 /\ rs[Len(p.ranges) + 1] = r
          /\ \A i \in 1..Len(p.ranges) : rs[i] = p.ranges[i]
      BY <1>1, <2>4, <2>5, LenProperties DEF Parts
    <3>2. \A i \in 1..Len(rs) : i \in 1..Len(p.ranges) \/ i = Len(p.ranges) + 1
      BY <3>1
    <3>. QED BY <1>1, <2>2, <3>1, <3>2 DEF AllInTime
  <2>. QED BY <2>2, <2>3, <2>5, <2>6, <2>7 DEF rs
<1>. QED BY <1>2, <1>3

-----------------------------------------------------------------------------
(* What is discovered.                                                        *)

PlayType == [track : Tracks, date : Nat, listened : Int, ranges : Seq(RangeType)]
EntryType == [platform : Platforms, play : PlayType]
IsPlay(c) == c \in PlayType /\ (source.kind = "positional" => AllInTime(c.ranges))

\* The play that a player gives.
IsGiven(p, c, x) ==
  /\ IsPlay(c) /\ c.track = p.track /\ c.date = p.seen
  /\ p.kind = "positional" => Credit(c.ranges) <= Due(p, x)
  /\ LongEnough(p) => PassesThreshold(c.listened)

LEMMA PlayOfPlayer ==
  ASSUME NEW p, Sane(p), p.kind = source.kind, p.track # NoTrack
  PROVE  \E c : /\ Played(p) = <<c>> /\ IsPlay(c) /\ c.track = p.track /\ c.date = p.seen
                /\ c.listened = Listened(p) /\ c.ranges = p.ranges \o p.cur
<1>. DEFINE c == [track |-> p.track, date |-> p.seen, listened |-> Listened(p),
                  ranges |-> p.ranges \o p.cur]
<1>1. Played(p) = <<c>>
  BY DEF Played
<1>2. p.track \in Tracks /\ p.seen \in Nat /\ Listened(p) \in Int /\ p.ranges \o p.cur \in Seq(RangeType)
      /\ (p.kind = "positional" => AllInTime(p.ranges \o p.cur))
  <2>1. p.track \in Tracks /\ p.seen \in Nat
    BY DEF Sane, PlayerType
  <2>2. 0 \in Nat
    OBVIOUS
  <2>. QED BY <2>1, <2>2, ListenedIs, RangesOfPlayer
<1>3. c \in PlayType
  BY <1>2 DEF PlayType
<1>4. c.track = p.track /\ c.date = p.seen /\ c.listened = Listened(p) /\ c.ranges = p.ranges \o p.cur
  OBVIOUS
<1>. HIDE DEF c
<1>. QED BY <1>1, <1>2, <1>3, <1>4 DEF IsPlay

LEMMA GivesPlay ==
  ASSUME NEW p, Sane(p), p.kind = source.kind, NEW x \in Nat, NEW done, Gives(p, done, x)
  PROVE  \E c : done = <<c>> /\ IsGiven(p, c, x)
<1>1. PICK e : /\ Follows(p, e, x)
               /\ done = Played(e)
               /\ LongEnough(p) => PassesThreshold(Listened(e))
  BY DEF Gives
<1>2. Sane(e) /\ e.kind = p.kind /\ e.track = p.track /\ e.seen = p.seen /\ e.track # NoTrack
  BY <1>1 DEF Follows, Gives
<1>3. PICK c : /\ Played(e) = <<c>> /\ IsPlay(c) /\ c.track = e.track /\ c.date = e.seen
               /\ c.listened = Listened(e) /\ c.ranges = e.ranges \o e.cur
  BY <1>2, PlayOfPlayer
<1>4. p.kind = "positional" => Credit(c.ranges) <= Due(p, x)
  <2>1. p.kind = "positional" => Credit(c.ranges) <= Due(e, x) /\ Due(e, x) <= Due(p, x)
    BY <1>1, <1>2, <1>3, RangesOfPlayer DEF Follows
  <2>2. Credit(c.ranges) \in Nat /\ Due(e, x) \in Nat /\ Due(p, x) \in Nat
    <3>1. c.ranges \in Seq(RangeType)
      BY <1>3 DEF IsPlay, PlayType
    <3>. QED BY <1>2, <3>1, DueIsNat, CreditIsSum
  <2>. QED BY <2>1, <2>2
<1>. QED BY <1>1, <1>2, <1>3, <1>4 DEF IsGiven

\* A play that has the track and date of another is of the same listen as those that are.
LEMMA SameListenOf ==
  ASSUME NEW d, NEW c, NEW b, c.track = b.track, c.date = b.date, SameListen(d, c)
  PROVE  SameListen(d, b)
BY DEF SameListen

LEMMA SameListenAsItself ==
  ASSUME NEW c, NEW d, c.date \in Nat, d.track = c.track, d.date = c.date
  PROVE  SameListen(d, c)
<1>1. d.date - c.date = 0 /\ 0 \in (-CloseDates)..CloseDates
  BY Limits
<1>. QED BY <1>1 DEF SameListen

\* A round of updates and cleanups: outcomes of the players base, and what is handed over.
Team(f) ==
  /\ DOMAIN f \subseteq Platforms /\ IsFiniteSet(DOMAIN f)
  /\ \A k \in DOMAIN f : Sane(f[k]) /\ f[k].kind = source.kind
  /\ ~source.multi => \A k, l \in DOMAIN f : k = l

Round(base, outcomes) ==
  /\ Team(base) /\ DOMAIN outcomes = DOMAIN base
  /\ \A k \in DOMAIN base : Goes(base[k], outcomes[k].player, outcomes[k].done)

GivenIn(base, outcomes, k, c) ==
  outcomes[k].done = <<c>> /\ IsGiven(base[k], c, At(base[k].track))

LEMMA RoundGives ==
  ASSUME NEW base, NEW outcomes, Round(base, outcomes), NEW k \in DOMAIN base,
         user.pos \in 0..(Duration - 1), outcomes[k].done # <<>>
  PROVE  \E c : GivenIn(base, outcomes, k, c)
<1>1. Sane(base[k]) /\ base[k].kind = source.kind /\ At(base[k].track) \in Nat
  BY AtIsNat DEF Round, Team
<1>2. Gives(base[k], outcomes[k].done, At(base[k].track))
  BY DEF Round, Goes
<1>. QED BY <1>1, <1>2, GivesPlay DEF GivenIn

\* What is new in the list.
News(outcomes) == UNION {Discover(k, outcomes[k].done) : k \in DOMAIN outcomes}
Added1(base, outcomes, k, c) ==
  GivenIn(base, outcomes, k, c) /\ Existing(k, c) = {} /\ PassesThreshold(c.listened)

Hands(base, outcomes, k, c) ==
  /\ GivenIn(base, outcomes, k, c)
  /\ Discover(k, outcomes[k].done)
       = IF Added1(base, outcomes, k, c) THEN {[platform |-> k, play |-> c]} ELSE {}

LEMMA NewsAre ==
  ASSUME NEW base, NEW outcomes, Round(base, outcomes), user.pos \in 0..(Duration - 1)
  PROVE  /\ IsFiniteSet(News(outcomes)) /\ News(outcomes) \subseteq EntryType
         /\ \A e \in News(outcomes) : \E k \in DOMAIN base : \E c :
              e = [platform |-> k, play |-> c] /\ Added1(base, outcomes, k, c)
         /\ \A k \in DOMAIN base : \A c :
              Added1(base, outcomes, k, c) => [platform |-> k, play |-> c] \in News(outcomes)
<1>1. ASSUME NEW k \in DOMAIN base
      PROVE  \/ outcomes[k].done = <<>> /\ Discover(k, outcomes[k].done) = {}
             \/ \E c : Hands(base, outcomes, k, c)
  <2>1. CASE outcomes[k].done = <<>>
    <3>1. ToSet(<<>>) = {}
      BY DEF ToSet
    <3>. QED BY <2>1, <3>1 DEF Discover
  <2>2. CASE outcomes[k].done # <<>>
    <3>1. PICK c : GivenIn(base, outcomes, k, c)
      BY <2>2, RoundGives
    <3>2. outcomes[k].done = <<c>> /\ ToSet(<<c>>) = {c}
      BY <3>1 DEF GivenIn, ToSet
    <3>3. Discover(k, outcomes[k].done)
            = {[platform |-> k, play |-> b] : b \in {b \in {c} : Discoverable(k, b) /\ Existing(k, b) = {}}}
      BY <3>2 DEF Discover
    <3>4. Added1(base, outcomes, k, c) <=> Discoverable(k, c) /\ Existing(k, c) = {}
      BY <3>1 DEF Added1, Discoverable
    <3>5. Hands(base, outcomes, k, c)
      BY <3>1, <3>3, <3>4 DEF Hands
    <3>. QED BY <3>5
  <2>. QED BY <2>1, <2>2
<1>2. ASSUME NEW e \in News(outcomes)
      PROVE  \E k \in DOMAIN base : \E c :
               e = [platform |-> k, play |-> c] /\ Added1(base, outcomes, k, c)
  <2>1. PICK k \in DOMAIN base : e \in Discover(k, outcomes[k].done)
    BY DEF News, Round
  <2>2. PICK c : Hands(base, outcomes, k, c)
    BY <1>1, <2>1
  <2>. QED BY <2>1, <2>2 DEF Hands
<1>3. ASSUME NEW k \in DOMAIN base, NEW c, Added1(base, outcomes, k, c)
      PROVE  [platform |-> k, play |-> c] \in News(outcomes)
  <2>1. outcomes[k].done = <<c>>
    BY <1>3 DEF Added1, GivenIn
  <2>2. PICK b : Hands(base, outcomes, k, b)
    <3>1. <<c>> # <<>>
      OBVIOUS
    <3>. QED BY <1>1, <2>1, <3>1
  <2>3. b = c
    BY <2>1, <2>2 DEF GivenIn, Hands
  <2>4. [platform |-> k, play |-> c] \in Discover(k, outcomes[k].done)
    BY <1>3, <2>2, <2>3 DEF Hands
  <2>. QED BY <2>4 DEF News, Round
<1>4. News(outcomes) \subseteq EntryType
  <2>1. ASSUME NEW k \in DOMAIN base, NEW c, Added1(base, outcomes, k, c)
        PROVE  [platform |-> k, play |-> c] \in EntryType
    BY <2>1 DEF Added1, GivenIn, IsGiven, IsPlay, EntryType, Round, Team
  <2>. QED BY <1>2, <2>1
<1>5. IsFiniteSet(News(outcomes))
  <2>. DEFINE parts == {Discover(k, outcomes[k].done) : k \in DOMAIN base}
  <2>1. IsFiniteSet(parts)
    <3>1. IsFiniteSet(DOMAIN base)
      BY DEF Round, Team
    <3>. DEFINE f == [k \in DOMAIN base |-> Discover(k, outcomes[k].done)]
    <3>2. f \in Surjection(DOMAIN base, parts)
      BY DEF Surjection
    <3>. HIDE DEF f, parts
    <3>. QED BY <3>1, <3>2, FS_Surjection
  <2>2. \A part \in parts : IsFiniteSet(part)
    <3>1. ASSUME NEW k \in DOMAIN base PROVE IsFiniteSet(Discover(k, outcomes[k].done))
      BY <1>1, FS_EmptySet, FS_Singleton DEF Hands
    <3>. QED BY <3>1
  <2>3. News(outcomes) = UNION parts
    BY DEF News, Round
  <2>. HIDE DEF parts
  <2>. QED BY <2>1, <2>2, <2>3, FS_UNION
<1>. QED BY <1>2, <1>3, <1>4, <1>5

\* The list afterwards: it goes on with the news, each once.
Listed(old, new, ns, S) ==
  /\ new = old \o ns /\ new \in Seq(EntryType) /\ ns \in Seq(EntryType)
  /\ ToSet(ns) = S /\ ToSet(new) = ToSet(old) \cup S
  /\ \A i, j \in 1..Len(ns) : ns[i] = ns[j] => i = j

LEMMA HandsOver ==
  ASSUME NEW base, NEW outcomes, Round(base, outcomes), user.pos \in 0..(Duration - 1),
         discovered \in Seq(EntryType)
  PROVE  \E ns : Listed(discovered, HandOver(outcomes), ns, News(outcomes))
<1>. DEFINE ns == SetToSeq(News(outcomes))
            new == discovered \o ns
<1>1. IsFiniteSet(News(outcomes)) /\ News(outcomes) \subseteq EntryType
  BY NewsAre
<1>2. ns \in Seq(News(outcomes)) /\ ToSet(ns) = News(outcomes)
      /\ \A i, j \in 1..Len(ns) : ns[i] = ns[j] => i = j
  BY <1>1, SetAsSequence
<1>3. HandOver(outcomes) = new
  BY DEF HandOver, News
<1>. HIDE DEF ns, new
<1>4. ns \in Seq(EntryType)
  BY <1>1, <1>2
<1>5. new \in Seq(EntryType) /\ Parts(discovered, ns, new)
  BY <1>4, ConcatParts DEF new
<1>6. ToSet(new) = ToSet(discovered) \cup ToSet(ns)
  <2>1. Len(discovered) \in Nat /\ Len(ns) \in Nat /\ Len(new) = Len(discovered) + Len(ns)
    BY <1>4, <1>5, LenProperties DEF Parts
  <2>2. ASSUME NEW e \in ToSet(new) PROVE e \in ToSet(discovered) \cup ToSet(ns)
    <3>1. PICK i \in 1..Len(new) : e = new[i]
      BY DEF ToSet
    <3>2. CASE i \in 1..Len(discovered)
      BY <1>5, <3>1, <3>2 DEF ToSet, Parts
    <3>3. CASE i \notin 1..Len(discovered)
      <4>1. i - Len(discovered) \in 1..Len(ns) /\ Len(discovered) + (i - Len(discovered)) = i
        BY <2>1, <3>3
      <4>2. new[i] = ns[i - Len(discovered)]
        BY <1>5, <4>1 DEF Parts
      <4>3. ns[i - Len(discovered)] \in ToSet(ns)
        BY <4>1 DEF ToSet
      <4>. QED BY <3>1, <4>2, <4>3
    <3>. QED BY <3>2, <3>3
  <2>3. ASSUME NEW e \in ToSet(discovered) PROVE e \in ToSet(new)
    <3>1. PICK i \in 1..Len(discovered) : e = discovered[i]
      BY DEF ToSet
    <3>2. i \in 1..Len(new)
      BY <2>1
    <3>. QED BY <1>5, <3>1, <3>2 DEF ToSet, Parts
  <2>4. ASSUME NEW e \in ToSet(ns) PROVE e \in ToSet(new)
    <3>1. PICK i \in 1..Len(ns) : e = ns[i]
      BY DEF ToSet
    <3>2. Len(discovered) + i \in 1..Len(new)
      BY <2>1
    <3>. QED BY <1>5, <3>1, <3>2 DEF ToSet, Parts
  <2>. QED BY <2>2, <2>3, <2>4
<1>7. Listed(discovered, new, ns, News(outcomes))
  BY <1>2, <1>4, <1>5, <1>6 DEF Listed, new
<1>. QED BY <1>3, <1>7

\* A play that was listened to for long enough is in the list after it was given.
LEMMA GivenIsListed ==
  ASSUME NEW base, NEW outcomes, Round(base, outcomes), user.pos \in 0..(Duration - 1),
         discovered \in Seq(EntryType), NEW k \in DOMAIN base, NEW c,
         GivenIn(base, outcomes, k, c), PassesThreshold(c.listened)
  PROVE  \E d \in ToSet(HandOver(outcomes)) : SameListen(d.play, c)
<1>1. PICK ns : Listed(discovered, HandOver(outcomes), ns, News(outcomes))
  BY HandsOver
<1>2. CASE Existing(k, c) # {}
  <2>1. PICK d \in Existing(k, c) : TRUE
    BY <1>2
  <2>. QED BY <1>1, <2>1 DEF Existing, Listed
<1>3. CASE Existing(k, c) = {}
  <2>. DEFINE d == [platform |-> k, play |-> c]
  <2>1. d \in News(outcomes)
    BY <1>3, NewsAre DEF Added1
  <2>2. SameListen(d.play, c)
    <3>1. c.date \in Nat
      BY DEF GivenIn, IsGiven, IsPlay, PlayType
    <3>. QED BY <3>1, SameListenAsItself
  <2>. HIDE DEF d
  <2>. QED BY <1>1, <2>1, <2>2 DEF Listed
<1>. QED BY <1>2, <1>3

-----------------------------------------------------------------------------
(* What is credited.                                                          *)

Counts(d, t, key) == From(d, key) /\ d.play.track = t
FoundIn(s, t, key) ==
  Sum([i \in 1..Len(s) |-> IF Counts(s[i], t, key) THEN Credit(s[i].play.ranges) ELSE 0])
Unfound(s, p, t, key) == \A d \in ToSet(s) : Counts(d, t, key) => d.play.date # p.seen
DueOf(s, p, t, key) == IF p.track = t /\ Unfound(s, p, t, key) THEN Due(p, At(t)) ELSE 0

\* What was found of a player and what it is owed was heard.
Fits(s, p, t, key) == FoundIn(s, t, key) + DueOf(s, p, t, key) <= heard[t]

LEMMA FoundInIs ==
  ASSUME NEW a \in Seq(EntryType), NEW t, NEW key
  PROVE  /\ FoundIn(a, t, key) \in Nat
         /\ (\A i \in 1..Len(a) : ~Counts(a[i], t, key)) => FoundIn(a, t, key) = 0
         /\ \A k \in 1..Len(a) :
              Counts(a[k], t, key) /\ (\A i \in 1..Len(a) : Counts(a[i], t, key) => i = k)
                => FoundIn(a, t, key) = Credit(a[k].play.ranges)
<1>. DEFINE f(i) == IF Counts(a[i], t, key) THEN Credit(a[i].play.ranges) ELSE 0
            s == [i \in 1..Len(a) |-> f(i)]
<1>1. Len(a) \in Nat /\ \A i \in 1..Len(a) : a[i].play.ranges \in Seq(RangeType)
  <2>1. Len(a) \in Nat /\ \A i \in 1..Len(a) : a[i] \in EntryType
    BY LenProperties, ElementOfSeq
  <2>. QED BY <2>1 DEF EntryType, PlayType
<1>2. \A i \in 1..Len(a) : f(i) \in Nat
  BY <1>1, CreditIsSum
<1>. HIDE DEF f
<1>3. s \in Seq(Nat) /\ s \in Seq(Int) /\ Len(s) = Len(a) /\ \A i \in 1..Len(a) : s[i] = f(i)
  BY <1>1, <1>2
<1>4. FoundIn(a, t, key) = Sum(s)
  BY DEF FoundIn, f
<1>. HIDE DEF s
<1>5. Sum(s) \in Nat
  BY <1>3, SumOfNats
<1>6. ASSUME \A i \in 1..Len(a) : ~Counts(a[i], t, key) PROVE Sum(s) = 0
  <2>1. \A n \in 1..Len(s) : n # 0 => s[n] = 0
    BY <1>3, <1>6 DEF f
  <2>2. 0 \in 0..Len(s)
    BY <1>1, <1>3
  <2>. QED BY <1>3, <2>1, <2>2, SumOfOne
<1>7. ASSUME NEW k \in 1..Len(a), Counts(a[k], t, key),
             \A i \in 1..Len(a) : Counts(a[i], t, key) => i = k
      PROVE  Sum(s) = Credit(a[k].play.ranges)
  <2>1. \A n \in 1..Len(s) : n # k => s[n] = 0
    BY <1>3, <1>7 DEF f
  <2>2. k \in 0..Len(s) /\ k # 0 /\ s[k] = Credit(a[k].play.ranges)
    BY <1>1, <1>3, <1>7 DEF f
  <2>. QED BY <1>3, <2>1, <2>2, SumOfOne
<1>. QED BY <1>4, <1>5, <1>6, <1>7

LEMMA FoundInGoesOn ==
  ASSUME NEW a \in Seq(EntryType), NEW b \in Seq(EntryType), NEW t, NEW key
  PROVE  FoundIn(a \o b, t, key) = FoundIn(a, t, key) + FoundIn(b, t, key)
<1>. DEFINE f == [d \in EntryType |-> IF Counts(d, t, key) THEN Credit(d.play.ranges) ELSE 0]
            c == a \o b
<1>1. f \in [EntryType -> Int]
  <2>1. ASSUME NEW d \in EntryType PROVE Credit(d.play.ranges) \in Int
    <3>1. d.play.ranges \in Seq(RangeType)
      BY DEF EntryType, PlayType
    <3>. QED BY <3>1, CreditIsSum
  <2>. QED BY <2>1
<1>2. ASSUME NEW s \in Seq(EntryType)
      PROVE  FoundIn(s, t, key) = ImageSum(f, s)
  <2>1. \A i \in 1..Len(s) : s[i] \in EntryType
    BY ElementOfSeq
  <2>2. [i \in 1..Len(s) |-> f[s[i]]]
          = [i \in 1..Len(s) |-> IF Counts(s[i], t, key) THEN Credit(s[i].play.ranges) ELSE 0]
    BY <2>1
  <2>. QED BY <2>2 DEF FoundIn, ImageSum
<1>. HIDE DEF f, c
<1>3. c \in Seq(EntryType) /\ ImageSum(f, c) = ImageSum(f, a) + ImageSum(f, b)
  <2>1. ImagesAdd(EntryType, f, a, b)
    BY <1>1, ImagesGoOn
  <2>. QED BY <2>1 DEF c, ImagesAdd
<1>4. FoundIn(c, t, key) = ImageSum(f, c) /\ FoundIn(a, t, key) = ImageSum(f, a)
      /\ FoundIn(b, t, key) = ImageSum(f, b)
  BY <1>2, <1>3
<1>. QED BY <1>3, <1>4 DEF c

\* The news of a player's group are its own, and at most one.
LEMMA NewsOfOne ==
  ASSUME NEW base, NEW outcomes, Round(base, outcomes), user.pos \in 0..(Duration - 1),
         NEW k \in DOMAIN base, NEW t, NEW e \in News(outcomes), Counts(e, t, k)
  PROVE  \E c : e = [platform |-> k, play |-> c] /\ Added1(base, outcomes, k, c) /\ c.track = t
<1>1. PICK l \in DOMAIN base :
        \E c : e = [platform |-> l, play |-> c] /\ Added1(base, outcomes, l, c)
  BY NewsAre
<1>2. PICK c : e = [platform |-> l, play |-> c] /\ Added1(base, outcomes, l, c)
  BY <1>1
<1>3. l = k
  <2>1. CASE source.multi
    BY <1>2, <2>1 DEF Counts, From
  <2>2. CASE ~source.multi
    BY <2>2 DEF Round, Team
  <2>. QED BY <2>1, <2>2
<1>4. c.track = t
  BY <1>2 DEF Counts
<1>. QED BY <1>2, <1>3, <1>4

\* Another round: what is found was owed before.
LEMMA RoundFits ==
  ASSUME NEW base, NEW outcomes, Round(base, outcomes), user.pos \in 0..(Duration - 1),
         discovered \in Seq(EntryType), source.kind = "positional",
         NEW k \in DOMAIN base, NEW t \in Tracks, heard[t] \in Nat,
         Fits(discovered, base[k], t, k)
  PROVE  Fits(HandOver(outcomes), outcomes[k].player, t, k)
<1>. DEFINE p == base[k]
            q == outcomes[k].player
            new == HandOver(outcomes)
            x == At(t)
<1>1. Sane(p) /\ p.kind = "positional" /\ Goes(p, q, outcomes[k].done) /\ x \in Nat
      /\ Sane(q) /\ q.kind = "positional" /\ t # NoTrack
  BY AtIsNat, PlayerStateAssumption DEF Round, Team, Goes
<1>2. PICK ns : Listed(discovered, new, ns, News(outcomes))
  BY HandsOver
<1>. HIDE DEF new
<1>3. new \in Seq(EntryType) /\ ns \in Seq(EntryType) /\ new = discovered \o ns /\ ToSet(ns) = News(outcomes)
      /\ ToSet(new) = ToSet(discovered) \cup News(outcomes)
      /\ \A i, j \in 1..Len(ns) : ns[i] = ns[j] => i = j
  BY <1>2 DEF Listed
<1>4. FoundIn(new, t, k) = FoundIn(discovered, t, k) + FoundIn(ns, t, k)
      /\ FoundIn(discovered, t, k) \in Nat
  BY <1>3, FoundInGoesOn, FoundInIs
<1>5. \A i \in 1..Len(ns) : ns[i] \in News(outcomes)
  BY <1>3 DEF ToSet
<1>6. Due(p, x) \in Nat /\ Due(q, x) \in Nat
  BY <1>1, DueIsNat
<1>7. FoundIn(discovered, t, k) + DueOf(discovered, p, t, k) <= heard[t]
  BY DEF Fits
<1>8. DueOf(new, q, t, k) = 0 \/ (Follows(p, q, x) /\ q.track = t)
  <2>1. CASE q.track = t /\ ~Follows(p, q, At(p.track))
    <3>1. Due(q, At(q.track)) = 0
      BY <1>1, <2>1 DEF Goes
    <3>. QED BY <2>1, <3>1 DEF DueOf
  <2>2. CASE q.track = t /\ Follows(p, q, At(p.track))
    <3>1. p.track = t
      BY <2>2 DEF Follows
    <3>. QED BY <2>2, <3>1
  <2>3. CASE q.track # t
    BY <2>3 DEF DueOf
  <2>. QED BY <2>1, <2>2, <2>3
<1>. HIDE DEF p, q, x
<1>9. CASE \A i \in 1..Len(ns) : ~Counts(ns[i], t, k)
  <2>1. FoundIn(new, t, k) = FoundIn(discovered, t, k)
    BY <1>3, <1>4, <1>9, FoundInIs
  <2>2. DueOf(new, q, t, k) <= DueOf(discovered, p, t, k)
    <3>1. CASE DueOf(new, q, t, k) = 0
      BY <1>6, <3>1 DEF DueOf, x
    <3>2. CASE Follows(p, q, x) /\ q.track = t
      <4>1. p.track = t /\ q.seen = p.seen /\ Due(q, x) <= Due(p, x)
        BY <1>1, <3>2 DEF Follows
      <4>2. Unfound(new, q, t, k) => Unfound(discovered, p, t, k)
        BY <1>3, <4>1 DEF Unfound
      <4>. QED BY <1>6, <3>2, <4>1, <4>2 DEF DueOf, x
    <3>. QED BY <1>8, <3>1, <3>2
  <2>3. DueOf(new, q, t, k) \in Nat /\ DueOf(discovered, p, t, k) \in Nat
    BY <1>6 DEF DueOf, x
  <2>4. FoundIn(new, t, k) + DueOf(new, q, t, k) <= heard[t]
    BY <1>4, <1>7, <2>1, <2>2, <2>3
  <2>. QED BY <2>4 DEF Fits, new, q
<1>10. ASSUME NEW i \in 1..Len(ns), Counts(ns[i], t, k)
       PROVE  Fits(HandOver(outcomes), outcomes[k].player, t, k)
  <2>1. PICK c : ns[i] = [platform |-> k, play |-> c] /\ Added1(base, outcomes, k, c) /\ c.track = t
    BY <1>5, <1>10, NewsOfOne
  <2>2. IsGiven(p, c, At(p.track)) /\ outcomes[k].done = <<c>> /\ Existing(k, c) = {}
    BY <2>1 DEF Added1, GivenIn, p
  <2>3. p.track = t /\ c.date = p.seen /\ Credit(c.ranges) <= Due(p, x) /\ c.date \in Nat
        /\ c.ranges \in Seq(RangeType)
    BY <1>1, <2>1, <2>2 DEF IsGiven, IsPlay, PlayType, x
  <2>4. ASSUME NEW j \in 1..Len(ns), Counts(ns[j], t, k) PROVE j = i
    <3>1. PICK b : ns[j] = [platform |-> k, play |-> b] /\ Added1(base, outcomes, k, b) /\ b.track = t
      BY <1>5, <2>4, NewsOfOne
    <3>2. b = c
      BY <2>2, <3>1 DEF Added1, GivenIn
    <3>. QED BY <1>3, <2>1, <3>1, <3>2
  <2>5. FoundIn(ns, t, k) = Credit(c.ranges)
    <3>1. FoundIn(ns, t, k) = Credit(ns[i].play.ranges)
      BY <1>3, <1>10, <2>4, FoundInIs
    <3>2. ns[i].play = c
      BY <2>1
    <3>. QED BY <3>1, <3>2
  <2>6. Unfound(discovered, p, t, k)
    <3>1. ASSUME NEW d \in ToSet(discovered), Counts(d, t, k), d.play.date = p.seen PROVE FALSE
      <4>1. SameListen(d.play, c)
        BY <2>1, <2>3, <3>1, SameListenAsItself DEF Counts
      <4>2. d \in Existing(k, c)
        BY <3>1, <4>1 DEF Existing, Counts, From
      <4>. QED BY <2>2, <4>2
    <3>. QED BY <3>1 DEF Unfound
  <2>7. FoundIn(discovered, t, k) + Due(p, x) <= heard[t]
    BY <1>7, <2>3, <2>6 DEF DueOf, x
  <2>8. DueOf(new, q, t, k) = 0
    <3>1. ASSUME Follows(p, q, x), q.track = t PROVE DueOf(new, q, t, k) = 0
      <4>1. ns[i] \in ToSet(new) /\ ns[i].play.date = q.seen
        BY <1>3, <1>5, <2>1, <2>3, <3>1 DEF Follows
      <4>2. ~Unfound(new, q, t, k)
        BY <1>10, <4>1 DEF Unfound
      <4>. QED BY <4>2 DEF DueOf
    <3>. QED BY <1>8, <3>1
  <2>9. Credit(c.ranges) \in Nat
    BY <2>3, CreditIsSum
  <2>10. FoundIn(new, t, k) + DueOf(new, q, t, k) <= heard[t]
    BY <1>4, <1>6, <2>3, <2>5, <2>7, <2>8, <2>9
  <2>. QED BY <2>10 DEF Fits, new, q
<1>. QED BY <1>9, <1>10

\* When the user goes on in a track, so much more may be owed.
LEMMA DueMoves ==
  ASSUME NEW p, Sane(p), NEW x \in Nat, NEW y \in Nat, NEW n \in Nat, y <= x + n
  PROVE  Due(p, y) <= Due(p, x) + n
<1>1. Due(p, x) \in Nat /\ Due(p, y) \in Nat /\ Credit(p.ranges) \in Nat
  BY DueIsNat
<1>2. CASE p.cur = <<>>
  BY <1>1, <1>2 DEF Due
<1>3. CASE p.cur # <<>>
  <2>. DEFINE r == p.cur[1]
  <2>1. r \in RangeType
    BY <1>3, OneRange DEF Sane, PlayerType
  <2>. HIDE DEF r
  <2>2. r.from \in Nat /\ r.to \in Int
    BY <2>1 DEF RangeType
  <2>3. Later(r.to, y) <= Later(r.to, x) + n /\ Later(r.to, x) \in Int /\ Later(r.to, y) \in Int
    BY <2>2 DEF Later
  <2>4. Owed(r, y) <= Owed(r, x) + n /\ Owed(r, x) \in Nat /\ Owed(r, y) \in Nat
    <3>. DEFINE a == Later(r.to, y) - r.from
                b == Later(r.to, x) - r.from
                m == Snap - 1
    <3>1. a \in Int /\ b \in Int /\ m \in Nat /\ a <= b + n
      BY <2>2, <2>3, Limits
    <3>2. Owed(r, y) = (IF a > m THEN a - m ELSE 0) /\ Owed(r, x) = (IF b > m THEN b - m ELSE 0)
      BY DEF Owed
    <3>. HIDE DEF a, b, m
    <3>. QED BY <3>1, <3>2
  <2>5. Due(p, x) = Credit(p.ranges) + Owed(r, x) /\ Due(p, y) = Credit(p.ranges) + Owed(r, y)
    BY <1>3 DEF Due, r
  <2>. QED BY <1>1, <2>4, <2>5
<1>. QED BY <1>2, <1>3

-----------------------------------------------------------------------------
(* The invariant.                                                             *)

UserType == [platform : Platforms, track : Tracks \cup {NoTrack}, pos : 0..(Duration - 1), on : BOOLEAN]

Typed ==
  /\ source \in Sources /\ now \in Nat /\ seeks \in Nat
  /\ user \in UserType /\ (user.on => user.track # NoTrack)
  /\ heard \in [Tracks -> Nat]
  /\ players = [k \in DOMAIN players |-> players[k]] /\ Team(players)
  /\ attempted \subseteq Platforms
  /\ discovered \in Seq(EntryType) /\ \A d \in ToSet(discovered) : IsPlay(d.play)

\* What is found of the players and owed to them was heard.
Credits(s, f) ==
  \A t \in Tracks, k \in Platforms :
    FoundIn(s, t, k) <= heard[t] /\ (k \in DOMAIN f => Fits(s, f[k], t, k))
Counted == source.kind = "positional" /\ seeks = 0 => Credits(discovered, players)

\* A player whose play was handed over when it was found silent is silent still.
Handed(k) ==
  /\ players[k].track # NoTrack /\ players[k].calc \in {"stale", "orphaned"}
  /\ IsDiscovered(k)
Tried == source.polled => \A k \in attempted \cap DOMAIN players : Handed(k)

MemInv == Typed /\ Counted /\ Tried

LEMMA UserIs ==
  ASSUME Typed
  PROVE  user.pos \in 0..(Duration - 1) /\ user.platform \in Platforms
         /\ user.track \in Tracks \cup {NoTrack}
BY DEF Typed, UserType

\* A new player has no play.
LEMMA NewPlayerIs ==
  ASSUME Typed, NEW p, p = NewPlayer(source.kind, now)
  PROVE  Sane(p) /\ p.kind = source.kind /\ p.track = NoTrack
<1>1. source.kind \in {"timestamp", "positional", "plex"} /\ now \in Nat
  BY MemorySourceAssumption DEF Typed
<1>2. <<>> \in Seq(RangeType) /\ Len(<<>>) = 0 /\ "unknown" \in Statuses
  BY EmptySeq DEF Statuses
<1>3. p \in PlayerType /\ p.kind = source.kind /\ p.track = NoTrack /\ p.cur = <<>> /\ p.ranges = <<>>
  BY <1>1, <1>2 DEF NewPlayer, PlayerType
<1>. QED BY <1>2, <1>3 DEF Sane

\* The players once one for key was added, and what they took over.
TakesOver(base, ps, key) ==
  /\ Team(base) /\ DOMAIN ps = DOMAIN base /\ key \in DOMAIN base
  /\ \A k \in DOMAIN base :
       /\ Retouched(base[k], ps[k])
       /\ k # key => k \in DOMAIN players /\ ps[k] = players[k] /\ base[k] = players[k]
  /\ \A k \in DOMAIN players : \E l \in DOMAIN base :
       base[l] = players[k] /\ (l \in DOMAIN players => l = k)
  /\ Credits(discovered, players) => Credits(discovered, base)

LEMMA Untouched ==
  ASSUME NEW p, Sane(p)
  PROVE  Retouched(p, p)
BY DEF Sane, Retouched

LEMMA NoPlayers ==
  ASSUME Typed
  PROVE  players = <<>> <=> DOMAIN players = {}
<1>1. ASSUME DOMAIN players = {} PROVE players = <<>>
  <2>1. players = [k \in {} |-> players[k]]
    BY <1>1 DEF Typed
  <2>. QED BY <2>1
<1>. QED BY <1>1

\* A player without a play is owed nothing.
LEMMA FitsNone ==
  ASSUME NEW s \in Seq(EntryType), NEW p, p.track = NoTrack, NEW t \in Tracks, NEW k,
         FoundIn(s, t, k) <= heard[t]
  PROVE  Fits(s, p, t, k)
<1>1. p.track # t
  BY PlayerStateAssumption
<1>2. DueOf(s, p, t, k) = 0 /\ FoundIn(s, t, k) \in Nat
  BY <1>1, FoundInIs DEF DueOf
<1>. QED BY <1>2 DEF Fits

LEMMA AddedTakesOver ==
  ASSUME Typed, NEW key \in Platforms
  PROVE  \E base : TakesOver(base, Added(key), key)
<1>. DEFINE n == NewPlayer(source.kind, now)
            o == CHOOSE o \in DOMAIN players : TRUE
            ps == Added(key)
<1>1. Sane(n) /\ n.kind = source.kind /\ n.track = NoTrack
  BY NewPlayerIs
<1>. HIDE DEF n
<1>2. Team(players) /\ discovered \in Seq(EntryType)
  BY DEF Typed
<1>3. CASE key \in DOMAIN players
  <2>1. ps = players
    BY <1>3 DEF Added
  <2>. HIDE DEF ps
  <2>2. TakesOver(players, ps, key)
    BY <1>2, <1>3, <2>1, Untouched DEF TakesOver, Team
  <2>. QED BY <2>2 DEF ps
<1>4. CASE key \notin DOMAIN players /\ source.multi
  <2>1. ps = [k \in DOMAIN players \cup {key} |-> IF k = key THEN n ELSE players[k]]
    BY <1>4 DEF Added, n
  <2>. HIDE DEF ps
  <2>2. DOMAIN ps = DOMAIN players \cup {key} /\ ps[key] = n
        /\ \A k \in DOMAIN players : ps[k] = players[k] /\ k # key
    BY <1>4, <2>1
  <2>3. Team(ps)
    <3>1. IsFiniteSet(DOMAIN ps)
      BY <1>2, <2>2, FS_AddElement DEF Team
    <3>. QED BY <1>1, <1>2, <1>4, <2>2, <3>1 DEF Team
  <2>4. ASSUME Credits(discovered, players) PROVE Credits(discovered, ps)
    <3>1. ASSUME NEW t \in Tracks, NEW k \in Platforms, k \in DOMAIN ps
          PROVE  Fits(discovered, ps[k], t, k)
      <4>1. CASE k = key
        BY <1>1, <1>2, <2>2, <2>4, <4>1, FitsNone DEF Credits
      <4>2. CASE k # key
        BY <2>2, <2>4, <3>1, <4>2 DEF Credits
      <4>. QED BY <4>1, <4>2
    <3>. QED BY <2>4, <3>1 DEF Credits
  <2>5. \A k \in DOMAIN ps : Retouched(ps[k], ps[k])
    BY <2>3, Untouched DEF Team
  <2>6. TakesOver(ps, ps, key)
    BY <2>2, <2>3, <2>4, <2>5 DEF TakesOver
  <2>. QED BY <2>6 DEF ps
<1>5. CASE key \notin DOMAIN players /\ ~source.multi /\ players = <<>>
  <2>1. ps = [k \in {key} |-> n]
    BY <1>5 DEF Added, n
  <2>. HIDE DEF ps
  <2>2. DOMAIN ps = {key} /\ ps[key] = n /\ DOMAIN players = {}
    BY <1>5, <2>1, NoPlayers
  <2>3. Team(ps)
    <3>1. IsFiniteSet(DOMAIN ps)
      BY <2>2, FS_Singleton
    <3>. QED BY <1>1, <2>2, <3>1 DEF Team
  <2>4. ASSUME Credits(discovered, players) PROVE Credits(discovered, ps)
    <3>1. ASSUME NEW t \in Tracks, NEW k \in Platforms, k \in DOMAIN ps
          PROVE  Fits(discovered, ps[k], t, k)
      BY <1>1, <1>2, <2>2, <2>4, <3>1, FitsNone DEF Credits
    <3>. QED BY <2>4, <3>1 DEF Credits
  <2>5. Retouched(n, n)
    BY <1>1, Untouched
  <2>6. TakesOver(ps, ps, key)
    BY <2>2, <2>3, <2>4, <2>5 DEF TakesOver
  <2>. QED BY <2>6 DEF ps
<1>6. CASE key \notin DOMAIN players /\ ~source.multi /\ players # <<>>
  <2>. DEFINE p == players[o]
              r == TransferTo(p, now)
              base == [k \in {key} |-> p]
  <2>1. ps = [k \in {key} |-> r]
    BY <1>6 DEF Added
  <2>2. DOMAIN players = {o} /\ Sane(p) /\ p.kind = source.kind /\ o \in Platforms
    <3>1. o \in DOMAIN players
      BY <1>6, NoPlayers
    <3>. HIDE DEF o
    <3>. QED BY <1>2, <1>6, <3>1 DEF Team
  <2>3. Retouched(p, r)
    <3>. HIDE DEF p
    <3>1. p \in PlayerType /\ now \in Nat /\ "unknown" \in Statuses
      BY <2>2 DEF Sane, Typed, Statuses
    <3>. QED BY <3>1 DEF Retouched, PlayerType, TransferTo, NewPlayer
  <2>. HIDE DEF r, ps
  <2>4. DOMAIN ps = {key} /\ ps[key] = r /\ DOMAIN base = {key} /\ base[key] = p
    BY <2>1
  <2>. HIDE DEF base, o
  <2>5. Team(base)
    <3>1. IsFiniteSet(DOMAIN base)
      BY <2>4, FS_Singleton
    <3>. HIDE DEF p
    <3>. QED BY <2>2, <2>4, <3>1 DEF Team
  <2>6. ASSUME Credits(discovered, players) PROVE Credits(discovered, base)
    <3>1. ASSUME NEW t \in Tracks PROVE Fits(discovered, p, t, key)
      <4>1. \A d : Counts(d, t, key) <=> Counts(d, t, o)
        BY <1>6 DEF Counts, From
      <4>2. FoundIn(discovered, t, key) = FoundIn(discovered, t, o)
        BY <4>1 DEF FoundIn
      <4>3. DueOf(discovered, p, t, key) = DueOf(discovered, p, t, o)
        BY <4>1 DEF DueOf, Unfound
      <4>4. Fits(discovered, p, t, o)
        BY <2>2, <2>6 DEF Credits
      <4>. QED BY <4>2, <4>3, <4>4 DEF Fits
    <3>. QED BY <2>4, <2>6, <3>1 DEF Credits
  <2>7. TakesOver(base, ps, key)
    BY <1>6, <2>2, <2>3, <2>4, <2>5, <2>6 DEF TakesOver
  <2>. QED BY <2>7 DEF ps
<1>. QED BY <1>3, <1>4, <1>5, <1>6

-----------------------------------------------------------------------------
(* A report.                                                                  *)

\* A round of the players that there are: only those cleaned up are found silent or go.
RoundOf(base, outcomes) ==
  /\ Round(base, outcomes)
  /\ \A k \in DOMAIN players : \E l \in DOMAIN base :
       base[l] = players[k] /\ (l \in DOMAIN players => l = k)
  /\ \A k \in DOMAIN base : outcomes[k].tried \/ outcomes[k].gone =>
       /\ k \in DOMAIN players /\ base[k] = players[k]
       /\ Cleans(k, players[k], outcomes[k]) /\ outcomes[k].tried
  /\ Credits(discovered, players) => Credits(discovered, base)

LEMMA CleanupIs ==
  ASSUME Typed, NEW k \in DOMAIN players, NEW u, u = Cleanup(k, players[k])
  PROVE  Cleans(k, players[k], u) /\ (u.gone => u.tried)
<1>1. Sane(players[k]) /\ now \in Nat /\ user.pos \in 0..(Duration - 1)
  BY UserIs DEF Typed, Team
<1>2. Cleans(k, players[k], u)
  BY <1>1, CleanupGoes
<1>3. u.gone => u.tried
  BY DEF Cleanup
<1>. QED BY <1>2, <1>3

LEMMA ProcessNothing ==
  ASSUME Typed, Process(<<>>)
  PROVE  \E base, outcomes :
           RoundOf(base, outcomes) /\ Settle(outcomes) /\ discovered' = HandOver(outcomes)
<1>. DEFINE outcomes == [k \in DOMAIN players |-> Outcome(k, players[k], <<>>)]
<1>1. Settle(outcomes) /\ discovered' = HandOver(outcomes)
  BY DEF Process
<1>2. ASSUME NEW k \in DOMAIN players PROVE outcomes[k] = Cleanup(k, players[k])
  BY DEF Outcome
<1>3. DOMAIN outcomes = DOMAIN players
  OBVIOUS
<1>. HIDE DEF outcomes
<1>4. ASSUME NEW k \in DOMAIN players
      PROVE  Cleans(k, players[k], outcomes[k]) /\ (outcomes[k].gone => outcomes[k].tried)
  BY <1>2, CleanupIs
<1>5. Round(players, outcomes)
  BY <1>3, <1>4 DEF Round, Cleans, Typed
<1>6. RoundOf(players, outcomes)
  BY <1>4, <1>5 DEF RoundOf
<1>. QED BY <1>1, <1>6

LEMMA ReportIs ==
  ASSUME Typed
  PROVE  Report \in RepType /\ Report.track = user.track /\ Report.pos = user.pos
BY UserIs DEF Report, RepType

LEMMA ProcessReport ==
  ASSUME Typed, Process([k \in {user.platform} |-> Report])
  PROVE  \E base, outcomes :
           RoundOf(base, outcomes) /\ Settle(outcomes) /\ discovered' = HandOver(outcomes)
<1>. DEFINE key == user.platform
            reports == [k \in {key} |-> Report]
            ps == Added(key)
            outcomes == [k \in DOMAIN ps |-> Outcome(k, ps[k], reports)]
<1>1. DOMAIN reports = {key} /\ reports[key] = Report /\ reports # <<>> /\ key \in Platforms
      /\ (CHOOSE k \in DOMAIN reports : TRUE) = key
  <2>1. DOMAIN reports = {key} /\ reports[key] = Report /\ key \in Platforms
    BY UserIs
  <2>2. DOMAIN <<>> # DOMAIN reports
    BY <2>1
  <2>. QED BY <2>1, <2>2
<1>. HIDE DEF reports
<1>2. Settle(outcomes) /\ discovered' = HandOver(outcomes)
  <2>1. Process(reports)
    BY DEF reports
  <2>. QED BY <1>1, <2>1 DEF Process
<1>3. PICK base : TakesOver(base, ps, key)
  BY <1>1, AddedTakesOver
<1>4. DOMAIN outcomes = DOMAIN base /\ \A k \in DOMAIN base : outcomes[k] = Outcome(k, ps[k], reports)
  BY <1>3 DEF TakesOver
<1>. HIDE DEF outcomes, ps
<1>5. ASSUME NEW k \in DOMAIN base, k = key
      PROVE  Goes(base[k], outcomes[k].player, outcomes[k].done) /\ ~outcomes[k].tried /\ ~outcomes[k].gone
  <2>. DEFINE u == Update(ps[k], Report, now)
  <2>1. outcomes[k] = [player |-> u.player, gone |-> FALSE, tried |-> FALSE, done |-> u.done]
    BY <1>1, <1>4, <1>5 DEF Outcome
  <2>2. Sane(base[k]) /\ Retouched(base[k], ps[k]) /\ now \in Nat
    BY <1>3 DEF TakesOver, Team, Typed
  <2>. HIDE DEF u
  <2>3. Goes(base[k], u.player, u.done)
    BY <2>2, ReportIs, UpdateGoes DEF u
  <2>. QED BY <2>1, <2>3
<1>6. ASSUME NEW k \in DOMAIN base, k # key
      PROVE  /\ k \in DOMAIN players /\ base[k] = players[k]
             /\ Cleans(k, players[k], outcomes[k]) /\ (outcomes[k].gone => outcomes[k].tried)
  <2>1. k \in DOMAIN players /\ ps[k] = players[k] /\ base[k] = players[k]
    BY <1>3, <1>6 DEF TakesOver
  <2>2. outcomes[k] = Cleanup(k, players[k])
    BY <1>1, <1>4, <1>6, <2>1 DEF Outcome
  <2>. QED BY <2>1, <2>2, CleanupIs
<1>7. Round(base, outcomes)
  <2>1. ASSUME NEW k \in DOMAIN base PROVE Goes(base[k], outcomes[k].player, outcomes[k].done)
    BY <1>5, <1>6 DEF Cleans
  <2>. QED BY <1>3, <1>4, <2>1 DEF Round, TakesOver
<1>8. RoundOf(base, outcomes)
  <2>1. ASSUME NEW k \in DOMAIN base, outcomes[k].tried \/ outcomes[k].gone
        PROVE  /\ k \in DOMAIN players /\ base[k] = players[k]
               /\ Cleans(k, players[k], outcomes[k]) /\ outcomes[k].tried
    BY <1>5, <1>6, <2>1
  <2>. QED BY <1>3, <1>7, <2>1 DEF RoundOf, TakesOver
<1>. QED BY <1>2, <1>8

\* What Settle() leaves.
Settled(base, outcomes) ==
  /\ players' = [k \in DOMAIN players' |-> players'[k]]
  /\ DOMAIN players' = {k \in DOMAIN base : ~outcomes[k].gone}
  /\ \A k \in DOMAIN players' : players'[k] = outcomes[k].player
  /\ Team(players') /\ attempted' \subseteq Platforms
  /\ \A k \in attempted' \cap DOMAIN players' : k \in DOMAIN base /\ outcomes[k].tried

LEMMA SettleKeeps ==
  ASSUME Typed, NEW base, NEW outcomes, Round(base, outcomes), Settle(outcomes)
  PROVE  Settled(base, outcomes)
<1>1. DOMAIN outcomes = DOMAIN base /\ Team(base)
  BY DEF Round
<1>2. DOMAIN players' = {k \in DOMAIN base : ~outcomes[k].gone}
      /\ players' = [k \in DOMAIN players' |-> players'[k]]
      /\ \A k \in DOMAIN players' : players'[k] = outcomes[k].player
  BY <1>1 DEF Settle
<1>3. Team(players')
  <2>1. IsFiniteSet(DOMAIN players')
    BY <1>1, <1>2, FS_Subset DEF Team
  <2>2. \A k \in DOMAIN base : Sane(outcomes[k].player) /\ outcomes[k].player.kind = source.kind
    BY <1>1 DEF Round, Goes, Team
  <2>. QED BY <1>1, <1>2, <2>1, <2>2 DEF Team
<1>4. attempted' \subseteq Platforms
      /\ \A k \in attempted' \cap DOMAIN players' : k \in DOMAIN base /\ outcomes[k].tried
  BY <1>1, <1>2 DEF Settle
<1>. QED BY <1>2, <1>3, <1>4 DEF Settled

\* The list stays a list of plays.
LEMMA ListKeeps ==
  ASSUME Typed, NEW base, NEW outcomes, Round(base, outcomes)
  PROVE  /\ HandOver(outcomes) \in Seq(EntryType)
         /\ \A d \in ToSet(HandOver(outcomes)) : IsPlay(d.play)
         /\ ToSet(discovered) \subseteq ToSet(HandOver(outcomes))
<1>1. discovered \in Seq(EntryType) /\ user.pos \in 0..(Duration - 1)
  BY UserIs DEF Typed
<1>2. PICK ns : Listed(discovered, HandOver(outcomes), ns, News(outcomes))
  BY <1>1, HandsOver
<1>3. ASSUME NEW d \in News(outcomes) PROVE IsPlay(d.play)
  <2>1. PICK k \in DOMAIN base :
          \E c : d = [platform |-> k, play |-> c] /\ Added1(base, outcomes, k, c)
    BY <1>1, NewsAre
  <2>2. PICK c : d = [platform |-> k, play |-> c] /\ Added1(base, outcomes, k, c)
    BY <2>1
  <2>. QED BY <2>2 DEF Added1, GivenIn, IsGiven
<1>. QED BY <1>2, <1>3 DEF Listed, Typed

LEMMA CreditsGoOn ==
  ASSUME Typed, source.kind = "positional", Credits(discovered, players),
         NEW base, NEW outcomes, RoundOf(base, outcomes), Settle(outcomes)
  PROVE  Credits(HandOver(outcomes), players')
<1>1. /\ discovered \in Seq(EntryType) /\ user.pos \in 0..(Duration - 1)
      /\ Round(base, outcomes) /\ Credits(discovered, base) /\ heard \in [Tracks -> Nat]
      /\ HandOver(outcomes) \in Seq(EntryType)
  BY UserIs, ListKeeps DEF Typed, RoundOf
<1>2. ASSUME NEW t \in Tracks, NEW k \in DOMAIN base
      PROVE  Fits(HandOver(outcomes), outcomes[k].player, t, k) /\ FoundIn(HandOver(outcomes), t, k) <= heard[t]
  <2>1. Fits(discovered, base[k], t, k) /\ heard[t] \in Nat
    BY <1>1 DEF Credits, Round, Team
  <2>2. Fits(HandOver(outcomes), outcomes[k].player, t, k)
    BY <1>1, <2>1, RoundFits
  <2>3. DueOf(HandOver(outcomes), outcomes[k].player, t, k) \in Nat
    <3>1. Sane(outcomes[k].player) /\ At(t) \in Nat
      BY <1>1, AtIsNat DEF Round, Goes
    <3>. QED BY <3>1, DueIsNat DEF DueOf
  <2>4. FoundIn(HandOver(outcomes), t, k) \in Nat
    BY <1>1, FoundInIs
  <2>. QED BY <2>1, <2>2, <2>3, <2>4 DEF Fits
<1>3. ASSUME NEW t \in Tracks, NEW k \in Platforms PROVE FoundIn(HandOver(outcomes), t, k) <= heard[t]
  <2>1. CASE k \in DOMAIN base
    BY <1>2, <2>1
  <2>2. CASE ~source.multi /\ DOMAIN base # {}
    <3>1. PICK o \in DOMAIN base : TRUE
      BY <2>2
    <3>2. \A d : Counts(d, t, k) <=> Counts(d, t, o)
      BY <2>2 DEF Counts, From
    <3>3. FoundIn(HandOver(outcomes), t, k) = FoundIn(HandOver(outcomes), t, o)
      BY <3>2 DEF FoundIn
    <3>. QED BY <1>2, <3>3
  <2>3. CASE k \notin DOMAIN base /\ (source.multi \/ DOMAIN base = {})
    <3>1. PICK ns : Listed(discovered, HandOver(outcomes), ns, News(outcomes))
      BY <1>1, HandsOver
    <3>2. ASSUME NEW i \in 1..Len(ns), Counts(ns[i], t, k) PROVE FALSE
      <4>1. ns[i] \in News(outcomes)
        BY <3>1 DEF Listed, ToSet
      <4>2. PICK l \in DOMAIN base :
              \E c : ns[i] = [platform |-> l, play |-> c] /\ Added1(base, outcomes, l, c)
        BY <1>1, <4>1, NewsAre
      <4>. QED BY <2>3, <3>2, <4>2 DEF Counts, From
    <3>3. FoundIn(ns, t, k) = 0
      BY <3>1, <3>2, FoundInIs DEF Listed
    <3>4. FoundIn(HandOver(outcomes), t, k) = FoundIn(discovered, t, k) + FoundIn(ns, t, k)
          /\ FoundIn(discovered, t, k) \in Nat
      BY <1>1, <3>1, FoundInGoesOn, FoundInIs DEF Listed
    <3>5. FoundIn(discovered, t, k) <= heard[t]
      BY <1>1 DEF Credits
    <3>. QED BY <3>3, <3>4, <3>5
  <2>. QED BY <2>1, <2>2, <2>3
<1>4. \A k \in DOMAIN players' : k \in DOMAIN base /\ players'[k] = outcomes[k].player
  <2>1. Settled(base, outcomes)
    BY <1>1, SettleKeeps
  <2>. QED BY <2>1 DEF Settled
<1>5. ASSUME NEW t \in Tracks, NEW k \in Platforms, k \in DOMAIN players'
      PROVE  Fits(HandOver(outcomes), players'[k], t, k)
  BY <1>2, <1>4, <1>5
<1>. QED BY <1>3, <1>5 DEF Credits

\* A round keeps the invariant.
LEMMA RoundKeeps ==
  ASSUME MemInv, NEW base, NEW outcomes, RoundOf(base, outcomes), Settle(outcomes),
         discovered' = HandOver(outcomes), UNCHANGED <<source, now, env>>
  PROVE  MemInv'
<1>1. /\ Typed /\ Counted /\ Tried /\ Round(base, outcomes)
      /\ discovered \in Seq(EntryType) /\ user.pos \in 0..(Duration - 1)
  BY UserIs DEF MemInv, RoundOf, Typed
<1>2. Settled(base, outcomes)
  BY <1>1, SettleKeeps
<1>3. /\ discovered' \in Seq(EntryType)
      /\ \A d \in ToSet(discovered') : IsPlay(d.play)
      /\ ToSet(discovered) \subseteq ToSet(discovered')
  BY <1>1, ListKeeps
<1>4. source' = source /\ now' = now /\ user' = user /\ heard' = heard /\ seeks' = seeks
  BY DEF env
<1>5. Typed'
  <2>1. Team(players)'
    BY <1>2, <1>4 DEF Settled, Team
  <2>2. \A d : IsPlay(d)' <=> IsPlay(d)
    BY <1>4 DEF IsPlay
  <2>. QED BY <1>1, <1>2, <1>3, <1>4, <2>1, <2>2 DEF Typed, Settled
<1>6. Counted'
  <2>1. ASSUME source.kind = "positional", seeks = 0 PROVE Credits(discovered', players')
    BY <1>1, <2>1, CreditsGoOn DEF Counted
  <2>2. \A t, k : At(t)' = At(t) /\ \A d : Counts(d, t, k)' <=> Counts(d, t, k)
    BY <1>4 DEF At, Counts, From
  <2>3. \A s, t, k : FoundIn(s, t, k)' = FoundIn(s, t, k)
    BY <1>4 DEF FoundIn, Counts, From
  <2>. QED BY <1>4, <2>1, <2>2, <2>3 DEF Counted, Credits, Fits, DueOf, Unfound
<1>7. Tried'
  <2>. SUFFICES ASSUME source.polled, NEW k \in attempted' \cap DOMAIN players'
                PROVE  Handed(k)'
    BY <1>4 DEF Tried
  <2>. DEFINE o == outcomes[k]
              p == players[k]
              q == o.player
  <2>1. k \in DOMAIN base /\ o.tried /\ players'[k] = q
    BY <1>2 DEF Settled
  <2>2. k \in DOMAIN players /\ base[k] = p /\ Cleans(k, p, o)
    BY <2>1 DEF RoundOf
  <2>. HIDE DEF o, p, q
  <2>3. /\ p.track # NoTrack /\ q.calc \in {"stale", "orphaned"}
        /\ k \notin attempted => o.done = Played(q)
        /\ p.calc \in {"stale", "orphaned"} => Listened(q) = Listened(p)
    BY <2>1, <2>2 DEF Cleans, q, o
  <2>4. Follows(p, q, At(p.track)) /\ Sane(p) /\ p.kind = source.kind
    BY <1>1, <2>2 DEF Cleans, Round, Team, p, q, Typed
  <2>5. q.track = p.track /\ q.seen = p.seen /\ Sane(q) /\ q.kind = source.kind
    BY <2>4 DEF Follows
  <2>6. PICK c : /\ Played(q) = <<c>> /\ c.track = q.track /\ c.date = q.seen
                 /\ c.listened = Listened(q)
    BY <2>3, <2>5, PlayOfPlayer
  <2>7. ASSUME PassesThreshold(Listened(q))
        PROVE  \E d \in ToSet(discovered') : SameListen(d.play, Played(q)[1])
    <3>1. CASE k \notin attempted
      <4>1. o.done = <<c>> /\ o.done # <<>>
        <5>1. <<c>> # <<>>
          OBVIOUS
        <5>. QED BY <2>3, <2>6, <3>1, <5>1
      <4>2. PICK b : GivenIn(base, outcomes, k, b)
        BY <1>1, <2>1, <4>1, RoundGives DEF o
      <4>3. b = c
        BY <4>1, <4>2 DEF GivenIn, o
      <4>4. \E d \in ToSet(HandOver(outcomes)) : SameListen(d.play, c)
        BY <1>1, <2>1, <2>6, <2>7, <4>2, <4>3, GivenIsListed
      <4>. QED BY <2>6, <4>4
    <3>2. CASE k \in attempted
      <4>1. p.calc \in {"stale", "orphaned"} /\ IsDiscovered(k)
        BY <1>1, <2>2, <3>2 DEF Tried, Handed, p
      <4>2. Listened(q) = Listened(p)
        BY <2>3, <4>1
      <4>3. PICK d \in ToSet(discovered) : SameListen(d.play, Played(p)[1])
        BY <2>7, <4>1, <4>2 DEF IsDiscovered, p
      <4>4. Played(p)[1].track = c.track /\ Played(p)[1].date = c.date
        BY <2>3, <2>5, <2>6 DEF Played
      <4>5. SameListen(d.play, c)
        BY <4>3, <4>4, SameListenOf
      <4>. QED BY <1>3, <2>6, <4>5
    <3>. QED BY <3>1, <3>2
  <2>8. players'[k].track # NoTrack /\ players'[k].calc \in {"stale", "orphaned"}
    BY <2>1, <2>3, <2>5
  <2>9. IsDiscovered(k)'
    BY <2>1, <2>7 DEF IsDiscovered
  <2>. QED BY <2>8, <2>9 DEF Handed
<1>. QED BY <1>5, <1>6, <1>7 DEF MemInv

LEMMA ReportedIs ==
  ASSUME Typed, Reported
  PROVE  /\ UNCHANGED <<source, now, env>>
         /\ \E base, outcomes :
              RoundOf(base, outcomes) /\ Settle(outcomes) /\ discovered' = HandOver(outcomes)
<1>1. CASE Process([k \in {user.platform} |-> Report])
  BY <1>1, ProcessReport DEF Reported
<1>2. CASE Process(<<>>)
  BY <1>2, ProcessNothing DEF Reported
<1>. QED BY <1>1, <1>2 DEF Reported

\* So does a cleanup on its own, of which nothing is handed over.
LEMMA ScheduledCleanupIs ==
  ASSUME Typed, ScheduledCleanup
  PROVE  LET outcomes == [k \in DOMAIN players |-> Cleanup(k, players[k])]
         IN  /\ Round(players, outcomes) /\ Settle(outcomes) /\ Settled(players, outcomes)
             /\ \A k \in DOMAIN players : Cleans(k, players[k], outcomes[k])
<1>. DEFINE outcomes == [k \in DOMAIN players |-> Cleanup(k, players[k])]
<1>1. Settle(outcomes)
  BY DEF ScheduledCleanup
<1>2. DOMAIN outcomes = DOMAIN players /\ \A k \in DOMAIN players : outcomes[k] = Cleanup(k, players[k])
  OBVIOUS
<1>. HIDE DEF outcomes
<1>3. \A k \in DOMAIN players : Cleans(k, players[k], outcomes[k])
  BY <1>2, CleanupIs
<1>4. Round(players, outcomes)
  BY <1>2, <1>3 DEF Round, Cleans, Typed
<1>5. Settled(players, outcomes)
  BY <1>1, <1>4, SettleKeeps
<1>. QED BY <1>1, <1>3, <1>4, <1>5 DEF outcomes

LEMMA ScheduledCleanupKeeps ==
  ASSUME MemInv, ScheduledCleanup
  PROVE  MemInv'
<1>. DEFINE outcomes == [k \in DOMAIN players |-> Cleanup(k, players[k])]
<1>1. /\ Typed /\ Counted /\ ~source.polled
      /\ source' = source /\ now' = now /\ user' = user /\ heard' = heard /\ seeks' = seeks
      /\ discovered' = discovered
  BY DEF MemInv, ScheduledCleanup, env
<1>2. Settled(players, outcomes) /\ Round(players, outcomes)
      /\ \A k \in DOMAIN players : Cleans(k, players[k], outcomes[k])
  BY <1>1, ScheduledCleanupIs
<1>. HIDE DEF outcomes
<1>3. Typed'
  <2>1. Team(players)'
    BY <1>1, <1>2 DEF Settled, Team
  <2>2. \A d : IsPlay(d)' <=> IsPlay(d)
    BY <1>1 DEF IsPlay
  <2>. QED BY <1>1, <1>2, <2>1, <2>2 DEF Typed, Settled
<1>4. Counted'
  <2>1. ASSUME source.kind = "positional", seeks = 0 PROVE Credits(discovered, players')
    <3>1. Credits(discovered, players)
      BY <1>1, <2>1 DEF Counted
    <3>2. ASSUME NEW t \in Tracks, NEW k \in Platforms, k \in DOMAIN players'
          PROVE  Fits(discovered, players'[k], t, k)
      <4>. DEFINE p == players[k]
                  q == players'[k]
      <4>1. k \in DOMAIN players /\ q = outcomes[k].player
        BY <1>2, <3>2 DEF Settled
      <4>. HIDE DEF q
      <4>2. Follows(p, q, At(p.track)) /\ Sane(p) /\ p.kind = "positional"
        BY <1>1, <1>2, <2>1, <4>1 DEF Cleans, Typed, Team
      <4>3. Fits(discovered, p, t, k)
        BY <3>1, <4>1 DEF Credits
      <4>. HIDE DEF p
      <4>4. DueOf(discovered, q, t, k) <= DueOf(discovered, p, t, k)
            /\ DueOf(discovered, q, t, k) \in Nat /\ DueOf(discovered, p, t, k) \in Nat
        <5>1. q.track = p.track /\ q.seen = p.seen /\ Due(q, At(p.track)) <= Due(p, At(p.track)) /\ Sane(q)
          BY <4>2 DEF Follows
        <5>2. Due(q, At(t)) \in Nat /\ Due(p, At(t)) \in Nat
          BY <1>1, <4>2, <5>1, AtIsNat, UserIs, DueIsNat
        <5>3. Unfound(discovered, q, t, k) <=> Unfound(discovered, p, t, k)
          BY <5>1 DEF Unfound
        <5>. QED BY <5>1, <5>2, <5>3 DEF DueOf
      <4>5. FoundIn(discovered, t, k) \in Nat /\ heard[t] \in Nat
        BY <1>1, FoundInIs DEF Typed
      <4>6. FoundIn(discovered, t, k) + DueOf(discovered, q, t, k) <= heard[t]
        BY <4>3, <4>4, <4>5 DEF Fits
      <4>. QED BY <4>6 DEF Fits, q
    <3>. QED BY <3>1, <3>2 DEF Credits
  <2>2. \A t, k : At(t)' = At(t) /\ \A d : Counts(d, t, k)' <=> Counts(d, t, k)
    BY <1>1 DEF At, Counts, From
  <2>3. \A s, t, k : FoundIn(s, t, k)' = FoundIn(s, t, k)
    BY <1>1 DEF FoundIn, Counts, From
  <2>. QED BY <1>1, <2>1, <2>2, <2>3 DEF Counted, Credits, Fits, DueOf, Unfound
<1>5. Tried'
  BY <1>1 DEF Tried
<1>. QED BY <1>3, <1>4, <1>5 DEF MemInv

-----------------------------------------------------------------------------
(* The user.                                                                  *)

\* What the user does leaves the source alone, and what is owed grows with what is heard.
UserMoves ==
  /\ UNCHANGED <<source, players, attempted, discovered>>
  /\ now' \in Nat /\ seeks' \in Nat /\ heard' \in [Tracks -> Nat]
  /\ user' \in UserType /\ (user'.on => user'.track # NoTrack)
  /\ seeks' = 0 => \A t \in Tracks : \E n \in Nat : heard'[t] = heard[t] + n /\ At(t)' <= At(t) + n
  /\ seeks' = 0 => seeks = 0

LEMMA UserMovesKeeps ==
  ASSUME MemInv, UserMoves
  PROVE  MemInv'
<1>1. /\ Typed /\ Counted /\ Tried
      /\ source' = source /\ players' = players /\ attempted' = attempted /\ discovered' = discovered
  BY DEF MemInv, UserMoves
<1>2. Typed'
  <2>1. Team(players)'
    BY <1>1 DEF Typed, Team
  <2>2. \A d : IsPlay(d)' <=> IsPlay(d)
    BY <1>1 DEF IsPlay
  <2>. QED BY <1>1, <2>1, <2>2 DEF Typed, UserMoves
<1>3. Counted'
  <2>1. ASSUME source.kind = "positional", seeks' = 0, NEW t \in Tracks, NEW k \in Platforms
        PROVE  /\ FoundIn(discovered, t, k) <= heard'[t]
               /\ k \in DOMAIN players =>
                    FoundIn(discovered, t, k)
                      + (IF players[k].track = t /\ Unfound(discovered, players[k], t, k)
                           THEN Due(players[k], At(t)') ELSE 0) <= heard'[t]
    <3>1. PICK n \in Nat : heard'[t] = heard[t] + n /\ At(t)' <= At(t) + n
      BY <2>1 DEF UserMoves
    <3>2. Credits(discovered, players) /\ heard[t] \in Nat /\ FoundIn(discovered, t, k) \in Nat
      BY <1>1, <2>1, FoundInIs DEF Counted, UserMoves, Typed
    <3>3. FoundIn(discovered, t, k) <= heard'[t]
      BY <3>1, <3>2 DEF Credits
    <3>4. ASSUME k \in DOMAIN players
          PROVE  FoundIn(discovered, t, k)
                      + (IF players[k].track = t /\ Unfound(discovered, players[k], t, k)
                           THEN Due(players[k], At(t)') ELSE 0) <= heard'[t]
      <4>. DEFINE p == players[k]
                  c == players[k].track = t /\ Unfound(discovered, players[k], t, k)
      <4>1. Sane(p)
        BY <1>1, <3>4 DEF Typed, Team
      <4>2. At(t) \in Nat /\ At(t)' \in Nat
        BY <1>1, <1>2 DEF At, Typed, UserType
      <4>3. FoundIn(discovered, t, k) + (IF c THEN Due(p, At(t)) ELSE 0) <= heard[t]
        BY <3>2, <3>4 DEF Credits, Fits, DueOf
      <4>. HIDE DEF c, p
      <4>4. Due(p, At(t)) \in Nat /\ Due(p, At(t)') \in Nat /\ Due(p, At(t)') <= Due(p, At(t)) + n
        BY <3>1, <4>1, <4>2, DueIsNat, DueMoves
      <4>5. FoundIn(discovered, t, k) + (IF c THEN Due(p, At(t)') ELSE 0) <= heard'[t]
        BY <3>1, <3>2, <4>3, <4>4
      <4>. QED BY <4>5 DEF c, p
    <3>. QED BY <3>3, <3>4
  <2>2. \A t, k, d : Counts(d, t, k)' <=> Counts(d, t, k)
    BY <1>1 DEF Counts, From
  <2>3. \A s, t, k : FoundIn(s, t, k)' = FoundIn(s, t, k)
    BY <1>1 DEF FoundIn, Counts, From
  <2>. QED BY <1>1, <2>1, <2>2, <2>3 DEF Counted, Credits, Fits, DueOf, Unfound
<1>4. Tried'
  BY <1>1 DEF Tried, Handed, IsDiscovered
<1>. QED BY <1>2, <1>3, <1>4 DEF MemInv

LEMMA TickMoves ==
  ASSUME Typed, Tick
  PROVE  UserMoves
<1>1. /\ user \in UserType /\ (user.on => user.track # NoTrack) /\ heard \in [Tracks -> Nat]
      /\ now \in Nat /\ seeks \in Nat /\ Duration \in Nat
  BY Limits DEF Typed
<1>2. user.track \in Tracks \cup {NoTrack} /\ user.pos \in 0..(Duration - 1) /\ user.on \in BOOLEAN
      /\ user.platform \in Platforms
  BY <1>1 DEF UserType
<1>3. UNCHANGED <<source, players, attempted, discovered>> /\ now' \in Nat /\ seeks' = seeks
  BY <1>1 DEF Tick
<1>4. CASE user.on
  <2>1. user.track \in Tracks /\ heard' = [heard EXCEPT ![user.track] = @ + 1]
    BY <1>1, <1>2, <1>4 DEF Tick
  <2>2. heard' \in [Tracks -> Nat]
    BY <1>1, <2>1
  <2>3. CASE user.pos + 1 < Duration
    <3>1. user' = [user EXCEPT !.pos = @ + 1]
      BY <1>4, <2>3 DEF Tick
    <3>2. user.pos + 1 \in 0..(Duration - 1)
      BY <1>1, <1>2, <2>3
    <3>3. user' \in UserType /\ user'.track = user.track /\ user'.pos = user.pos + 1
      BY <1>1, <3>1, <3>2 DEF UserType
    <3>4. ASSUME NEW t \in Tracks
          PROVE  \E n \in Nat : heard'[t] = heard[t] + n /\ At(t)' <= At(t) + n
      <4>1. CASE t = user.track
        <5>1. heard'[t] = heard[t] + 1 /\ At(t)' = At(t) + 1 /\ At(t) \in Nat
          BY <1>1, <1>2, <2>1, <3>3, <4>1 DEF At
        <5>2. heard'[t] = heard[t] + 1 /\ At(t)' <= At(t) + 1 /\ 1 \in Nat
          BY <5>1
        <5>. QED BY <5>2
      <4>2. CASE t # user.track
        <5>1. heard'[t] = heard[t] + 0 /\ At(t)' <= At(t) + 0 /\ 0 \in Nat
          BY <1>1, <2>1, <3>3, <4>2 DEF At
        <5>. QED BY <5>1
      <4>. QED BY <4>1, <4>2
    <3>. QED BY <1>1, <1>3, <2>1, <2>2, <3>3, <3>4, PlayerStateAssumption DEF UserMoves
  <2>4. CASE ~(user.pos + 1 < Duration)
    <3>1. user' = [user EXCEPT !.track = NoTrack, !.pos = 0, !.on = FALSE]
      BY <1>4, <2>4 DEF Tick
    <3>2. 0 \in 0..(Duration - 1)
      BY Limits
    <3>3. user' \in UserType /\ user'.track = NoTrack /\ ~user'.on
      BY <1>1, <3>1, <3>2 DEF UserType
    <3>4. ASSUME NEW t \in Tracks
          PROVE  \E n \in Nat : heard'[t] = heard[t] + n /\ At(t)' <= At(t) + n
      <4>1. At(t)' = 0 /\ At(t) \in Nat
        BY <1>2, <3>3, PlayerStateAssumption DEF At
      <4>2. heard'[t] = heard[t] + 1 \/ heard'[t] = heard[t] + 0
        BY <1>1, <2>1
      <4>3. At(t)' <= At(t) + 0 /\ At(t)' <= At(t) + 1 /\ 0 \in Nat /\ 1 \in Nat
        BY <4>1
      <4>. QED BY <4>2, <4>3
    <3>. QED BY <1>1, <1>3, <2>2, <3>3, <3>4 DEF UserMoves
  <2>. QED BY <2>3, <2>4
<1>5. CASE ~user.on
  <2>1. heard' = heard /\ user' = user
    BY <1>5 DEF Tick
  <2>2. ASSUME NEW t \in Tracks
        PROVE  \E n \in Nat : heard'[t] = heard[t] + n /\ At(t)' <= At(t) + n
    <3>1. heard'[t] = heard[t] + 0 /\ At(t)' <= At(t) + 0 /\ 0 \in Nat
      BY <1>1, <1>2, <2>1 DEF At
    <3>. QED BY <3>1
  <2>. QED BY <1>1, <1>3, <2>1, <2>2 DEF UserMoves
<1>. QED BY <1>4, <1>5

\* Whatever else the user does, they are no further in any track, unless they jump.
LEMMA ActMoves ==
  ASSUME Typed, UNCHANGED <<source, now, heard, players, attempted, discovered>>,
         user' \in UserType, user'.on => user'.track # NoTrack, seeks' \in Nat,
         seeks' = 0 => seeks = 0 /\ \A t \in Tracks : At(t)' <= At(t)
  PROVE  UserMoves
<1>1. heard \in [Tracks -> Nat] /\ now \in Nat /\ user.pos \in 0..(Duration - 1)
  BY UserIs DEF Typed
<1>2. ASSUME NEW t \in Tracks, seeks' = 0
      PROVE  \E n \in Nat : heard'[t] = heard[t] + n /\ At(t)' <= At(t) + n
  <2>1. At(t) \in Nat /\ At(t)' \in Nat
    BY <1>1 DEF At, UserType
  <2>2. heard'[t] = heard[t] + 0 /\ At(t)' <= At(t) + 0 /\ 0 \in Nat
    BY <1>1, <1>2, <2>1
  <2>. QED BY <2>2
<1>. QED BY <1>1, <1>2 DEF UserMoves

LEMMA UserActs ==
  ASSUME Typed,
         \/ PauseOrResume \/ Seek \/ Leave \/ Move
         \/ \E t \in Tracks : StartTrack(t)
  PROVE  UserMoves
<1>1. /\ user \in UserType /\ (user.on => user.track # NoTrack) /\ seeks \in Nat
      /\ 0 \in 0..(Duration - 1) /\ NoTrack \notin Tracks
      /\ user.track \in Tracks \cup {NoTrack} /\ user.pos \in Nat
  <2>1. user \in UserType /\ (user.on => user.track # NoTrack) /\ seeks \in Nat
    BY DEF Typed
  <2>2. user.pos \in 0..(Duration - 1) /\ user.track \in Tracks \cup {NoTrack}
    BY UserIs
  <2>3. 0 \in 0..(Duration - 1) /\ user.pos \in Nat
    BY <2>2, Limits
  <2>. QED BY <2>1, <2>2, <2>3, PlayerStateAssumption
<1>2. CASE PauseOrResume
  <2>1. user' = [user EXCEPT !.on = ~@] /\ user.track # NoTrack /\ seeks' = seeks
        /\ UNCHANGED <<source, now, heard, players, attempted, discovered>>
    BY <1>2 DEF PauseOrResume, Acts, Silent
  <2>2. user' \in UserType /\ user'.track = user.track /\ user'.pos = user.pos
    BY <1>1, <2>1 DEF UserType
  <2>3. \A t \in Tracks : At(t)' <= At(t)
    BY <1>1, <2>2 DEF At
  <2>. QED BY <1>1, <2>1, <2>2, <2>3, ActMoves
<1>3. CASE Seek
  <2>1. PICK pos \in 0..(Duration - 1) : user' = [user EXCEPT !.pos = pos]
    BY <1>3 DEF Seek
  <2>2. user.track # NoTrack /\ seeks' = seeks + 1
        /\ UNCHANGED <<source, now, heard, players, attempted, discovered>>
    BY <1>3 DEF Seek, Acts, Silent
  <2>3. user' \in UserType /\ user'.track = user.track
    BY <1>1, <2>1 DEF UserType
  <2>4. seeks' \in Nat /\ seeks' # 0
    BY <1>1, <2>2
  <2>. QED BY <1>1, <2>2, <2>3, <2>4, ActMoves
<1>4. CASE Leave
  <2>1. user' = [user EXCEPT !.track = NoTrack, !.pos = 0, !.on = FALSE] /\ seeks' = seeks
        /\ UNCHANGED <<source, now, heard, players, attempted, discovered>>
    BY <1>4 DEF Leave, Acts
  <2>2. user' \in UserType /\ user'.track = NoTrack /\ user'.pos = 0 /\ ~user'.on
    BY <1>1, <2>1 DEF UserType
  <2>3. \A t \in Tracks : At(t)' <= At(t)
    BY <1>1, <2>2 DEF At
  <2>. QED BY <1>1, <2>1, <2>2, <2>3, ActMoves
<1>5. CASE Move
  <2>1. PICK k \in Platforms : user' = [user EXCEPT !.platform = k]
    BY <1>5 DEF Move
  <2>2. seeks' = seeks /\ UNCHANGED <<source, now, heard, players, attempted, discovered>>
    BY <1>5 DEF Move, Acts
  <2>3. user' \in UserType /\ user'.track = user.track /\ user'.pos = user.pos /\ user'.on = user.on
    BY <1>1, <2>1 DEF UserType
  <2>4. \A t \in Tracks : At(t)' <= At(t)
    BY <1>1, <2>3 DEF At
  <2>. QED BY <1>1, <2>2, <2>3, <2>4, ActMoves
<1>6. ASSUME NEW u \in Tracks, StartTrack(u) PROVE UserMoves
  <2>1. user' = [user EXCEPT !.track = u, !.pos = 0, !.on = TRUE] /\ seeks' = seeks
        /\ UNCHANGED <<source, now, heard, players, attempted, discovered>>
    BY <1>6 DEF StartTrack, Acts
  <2>2. user' \in UserType /\ user'.track = u /\ user'.pos = 0
    BY <1>1, <2>1 DEF UserType
  <2>3. u # NoTrack
    BY <1>1
  <2>4. \A t \in Tracks : At(t)' <= At(t)
    BY <1>1, <2>2 DEF At
  <2>. QED BY <1>1, <2>1, <2>2, <2>3, <2>4, ActMoves
<1>. QED BY <1>2, <1>3, <1>4, <1>5, <1>6

-----------------------------------------------------------------------------
(* The theorems.                                                              *)

LEMMA InitHolds ==
  ASSUME Init
  PROVE  MemInv
<1>1. /\ source \in Sources /\ now = 0 /\ seeks = 0 /\ heard = [t \in Tracks |-> 0]
      /\ players = <<>> /\ attempted = {} /\ discovered = <<>>
      /\ user = [platform |-> CHOOSE k \in Platforms : TRUE, track |-> NoTrack, pos |-> 0, on |-> FALSE]
  BY DEF Init
<1>2. DOMAIN players = {} /\ players = [k \in DOMAIN players |-> players[k]]
  BY <1>1
<1>3. user \in UserType /\ ~user.on
  <2>1. (CHOOSE k \in Platforms : TRUE) \in Platforms
    BY MemorySourceAssumption
  <2>2. 0 \in 0..(Duration - 1)
    BY Limits
  <2>. QED BY <1>1, <2>1, <2>2 DEF UserType
<1>4. discovered \in Seq(EntryType) /\ ToSet(discovered) = {} /\ Len(discovered) = 0
  <2>1. ToSet(<<>>) = {}
    BY DEF ToSet
  <2>. QED BY <1>1, <2>1, EmptySeq
<1>5. Typed
  BY <1>1, <1>2, <1>3, <1>4, FS_EmptySet DEF Typed, Team
<1>6. Counted
  <2>1. ASSUME NEW t \in Tracks, NEW k \in Platforms PROVE FoundIn(discovered, t, k) <= heard[t]
    <3>1. FoundIn(discovered, t, k) = 0
      <4>1. \A i \in 1..Len(discovered) : ~Counts(discovered[i], t, k)
        BY <1>4
      <4>. QED BY <1>4, <4>1, FoundInIs
    <3>. QED BY <1>1, <3>1
  <2>. QED BY <1>2, <2>1 DEF Counted, Credits
<1>7. Tried
  BY <1>1 DEF Tried
<1>. QED BY <1>5, <1>6, <1>7 DEF MemInv

LEMMA StepHolds ==
  ASSUME MemInv, [Next]_vars
  PROVE  MemInv'
<1>1. Typed
  BY DEF MemInv
<1>2. CASE Tick
  BY <1>1, <1>2, TickMoves, UserMovesKeeps
<1>3. CASE \/ PauseOrResume \/ Seek \/ Leave \/ Move
           \/ \E t \in Tracks : StartTrack(t)
  BY <1>1, <1>3, UserActs, UserMovesKeeps
<1>4. CASE Reported
  <2>1. /\ UNCHANGED <<source, now, env>>
        /\ \E base, outcomes :
             RoundOf(base, outcomes) /\ Settle(outcomes) /\ discovered' = HandOver(outcomes)
    BY <1>1, <1>4, ReportedIs
  <2>. QED BY <2>1, RoundKeeps
<1>5. CASE ScheduledCleanup
  BY <1>5, ScheduledCleanupKeeps
<1>6. CASE UNCHANGED vars
  <2>1. UserMoves
    <3>1. /\ UNCHANGED <<source, now, heard, players, attempted, discovered>>
          /\ user' = user /\ seeks' = seeks
      BY <1>6 DEF vars, env
    <3>2. user \in UserType /\ (user.on => user.track # NoTrack) /\ seeks \in Nat
      BY <1>1 DEF Typed
    <3>3. \A t \in Tracks : At(t)' <= At(t)
      <4>1. \A t \in Tracks : At(t)' = At(t) /\ At(t) \in Nat
        BY <1>1, <3>1, UserIs, AtIsNat DEF At
      <4>. QED BY <4>1
    <3>. QED BY <1>1, <3>1, <3>2, <3>3, ActMoves
  <2>. QED BY <2>1, UserMovesKeeps
<1>. QED BY <1>2, <1>3, <1>4, <1>5, <1>6 DEF Next

\* MemInv is an inductive invariant.
THEOREM Invariant == Spec => []MemInv
<1>1. Init => MemInv
  BY InitHolds
<1>2. MemInv /\ [Next]_vars => MemInv'
  BY StepHolds
<1>. QED BY <1>1, <1>2, PTL DEF Spec

\* cleanupPlayer() hands the play of a silent player over once, so while the player waits
\* to be removed a play that passes the threshold is among those discovered, for every
\* number of players and every interval.
THEOREM SilentPlaysAreDiscovered == Spec => []StaleIsDiscovered
<1>1. MemInv => StaleIsDiscovered
  BY DEF MemInv, Tried, Handed, StaleIsDiscovered
<1>. QED BY <1>1, Invariant, PTL

\* Players of the class PositionalPlayerState never count more than was heard.
THEOREM PlayersCountWhatWasHeard == Spec => []CountsWhatWasHeard
<1>1. ASSUME MemInv, source.kind = "positional", seeks = 0, NEW t \in Tracks, NEW k \in Platforms
      PROVE  Found(t, k) + Playing(t, k) <= heard[t]
  <2>1. Typed /\ Credits(discovered, players)
    BY <1>1 DEF MemInv, Counted
  <2>2. Found(t, k) = FoundIn(discovered, t, k) /\ FoundIn(discovered, t, k) \in Nat
    BY <2>1, FoundInIs DEF Found, FoundIn, Counts, Typed
  <2>3. FoundIn(discovered, t, k) <= heard[t]
    BY <2>1 DEF Credits
  <2>4. CASE Playing(t, k) = 0
    BY <2>2, <2>3, <2>4
  <2>5. CASE Playing(t, k) # 0
    <3>. DEFINE p == players[k]
    <3>1. k \in DOMAIN players /\ p.track = t /\ Unfound(discovered, p, t, k)
          /\ Playing(t, k) = Credit(p.ranges \o p.cur)
      BY <2>5 DEF Playing, Unfound, Counts
    <3>2. Sane(p) /\ p.kind = "positional"
      BY <1>1, <2>1, <3>1 DEF Typed, Team
    <3>3. Fits(discovered, p, t, k)
      BY <2>1, <3>1 DEF Credits
    <3>. HIDE DEF p
    <3>4. At(t) \in Nat
      BY <2>1, UserIs, AtIsNat
    <3>5. Credit(p.ranges \o p.cur) <= Due(p, At(t)) /\ Due(p, At(t)) \in Nat
          /\ Credit(p.ranges \o p.cur) \in Nat
      BY <3>2, <3>4, RangesOfPlayer, DueIsNat, CreditIsSum
    <3>6. FoundIn(discovered, t, k) + Due(p, At(t)) <= heard[t]
      BY <3>1, <3>3 DEF Fits, DueOf
    <3>7. heard[t] \in Nat
      BY <2>1 DEF Typed
    <3>. QED BY <2>2, <3>1, <3>5, <3>6, <3>7
  <2>. QED BY <2>4, <2>5
<1>2. ASSUME MemInv, source.kind = "positional", NEW d \in ToSet(discovered), NEW r \in ToSet(d.play.ranges)
      PROVE  InTime(r)
  <2>1. AllInTime(d.play.ranges)
    BY <1>2 DEF MemInv, Typed, IsPlay
  <2>. QED BY <2>1, OneInTime
<1>3. ASSUME MemInv, source.kind = "positional", NEW k \in DOMAIN players,
             NEW r \in ToSet(players[k].ranges \o players[k].cur)
      PROVE  InTime(r)
  <2>1. Sane(players[k]) /\ players[k].kind = "positional" /\ 0 \in Nat
    BY <1>3 DEF MemInv, Typed, Team
  <2>2. AllInTime(players[k].ranges \o players[k].cur)
    BY <2>1, RangesOfPlayer
  <2>. QED BY <2>2, OneInTime
<1>4. MemInv => CountsWhatWasHeard
  BY <1>1, <1>2, <1>3 DEF CountsWhatWasHeard
<1>. QED BY <1>4, Invariant, PTL

\* What becomes of one player in a step.
LostNot(k) ==
  LET p == players[k]
  IN  p.track # NoTrack /\ LongEnough(p)
        => \/ Holds(players', [track |-> p.track, date |-> p.seen])
           \/ \E d \in ToSet(discovered') : SameListen(d.play, Played(p)[1])
           \/ ~source.polled /\ k \notin DOMAIN players'

LEMMA StepLosesNothing ==
  ASSUME MemInv, Next, NEW k \in DOMAIN players
  PROVE  LostNot(k)
<1>. DEFINE p == players[k]
            play == [track |-> p.track, date |-> p.seen]
<1>. SUFFICES ASSUME p.track # NoTrack, LongEnough(p)
              PROVE  \/ Holds(players', play)
                     \/ \E d \in ToSet(discovered') : SameListen(d.play, Played(p)[1])
                     \/ ~source.polled /\ k \notin DOMAIN players'
  BY DEF LostNot
<1>1. Typed /\ Tried /\ discovered \in Seq(EntryType) /\ user.pos \in 0..(Duration - 1)
      /\ Sane(p) /\ p.kind = source.kind
  BY UserIs DEF MemInv, Typed, Team
<1>2. CASE players' = players
  BY <1>2 DEF Holds
<1>3. CASE ScheduledCleanup
  <2>. DEFINE outcomes == [l \in DOMAIN players |-> Cleanup(l, players[l])]
  <2>1. Settled(players, outcomes) /\ \A l \in DOMAIN players : Cleans(l, players[l], outcomes[l])
    BY <1>1, <1>3, ScheduledCleanupIs
  <2>. HIDE DEF outcomes
  <2>2. CASE k \notin DOMAIN players'
    BY <1>3, <2>2 DEF ScheduledCleanup
  <2>3. CASE k \in DOMAIN players'
    <3>1. players'[k].track = p.track /\ players'[k].seen = p.seen
      BY <2>1, <2>3 DEF Settled, Cleans, Follows
    <3>. HIDE DEF p
    <3>. QED BY <2>3, <3>1 DEF Holds
  <2>. QED BY <2>2, <2>3
<1>4. CASE Reported
  <2>1. PICK base, outcomes :
          RoundOf(base, outcomes) /\ Settle(outcomes) /\ discovered' = HandOver(outcomes)
    BY <1>1, <1>4, ReportedIs
  <2>2. Round(base, outcomes) /\ Settled(base, outcomes) /\ ToSet(discovered) \subseteq ToSet(discovered')
    BY <1>1, <2>1, SettleKeeps, ListKeeps DEF RoundOf
  <2>3. PICK l \in DOMAIN base : base[l] = p /\ (l \in DOMAIN players => l = k)
    BY <2>1 DEF RoundOf
  <2>. DEFINE o == outcomes[l]
              q == o.player
  <2>. HIDE DEF p
  <2>4. Goes(p, q, o.done)
    BY <2>2, <2>3 DEF Round
  <2>5. PICK e : Played(p) = <<e>> /\ e.track = p.track /\ e.date = p.seen
    BY <1>1, PlayOfPlayer
  <2>6. ASSUME NEW c, o.done = <<c>>, c.track = p.track, c.date = p.seen, PassesThreshold(c.listened)
        PROVE  \E d \in ToSet(discovered') : SameListen(d.play, Played(p)[1])
    <3>1. o.done # <<>>
      <4>1. <<c>> # <<>>
        OBVIOUS
      <4>. QED BY <2>6, <4>1
    <3>2. PICK b : GivenIn(base, outcomes, l, b)
      BY <1>1, <2>2, <3>1, RoundGives
    <3>3. b = c
      BY <2>6, <3>2 DEF GivenIn
    <3>4. PICK d \in ToSet(discovered') : SameListen(d.play, c)
      BY <1>1, <2>1, <2>2, <2>6, <3>2, <3>3, GivenIsListed
    <3>5. SameListen(d.play, e)
      BY <2>5, <2>6, <3>4, SameListenOf
    <3>. QED BY <2>5, <3>5
  <2>7. CASE o.gone
    <3>1. /\ l \in DOMAIN players /\ l = k /\ o.tried /\ Cleans(k, p, o)
      BY <2>1, <2>3, <2>7 DEF RoundOf, p
    <3>2. PassesThreshold(Listened(q)) /\ (k \notin attempted => o.done = Played(q))
          /\ Follows(p, q, At(p.track))
      BY <3>1 DEF Cleans
    <3>3. q.track = p.track /\ q.seen = p.seen /\ Sane(q) /\ q.kind = source.kind
      BY <1>1, <3>2 DEF Follows
    <3>. HIDE DEF o, q
    <3>4. CASE k \notin attempted
      <4>1. PICK c : Played(q) = <<c>> /\ c.track = q.track /\ c.date = q.seen /\ c.listened = Listened(q)
        BY <3>3, PlayOfPlayer
      <4>. QED BY <2>6, <3>2, <3>3, <3>4, <4>1
    <3>5. CASE k \in attempted /\ source.polled
      <4>1. IsDiscovered(k)
        BY <1>1, <3>1, <3>5 DEF Tried, Handed
      <4>2. PassesThreshold(Listened(p))
        BY DEF LongEnough
      <4>3. PICK d \in ToSet(discovered) : SameListen(d.play, Played(p)[1])
        BY <4>1, <4>2 DEF IsDiscovered, p
      <4>. QED BY <2>2, <4>3
    <3>6. CASE ~source.polled
      <4>1. k \notin DOMAIN players'
        BY <2>2, <2>7, <3>1 DEF Settled, o
      <4>. QED BY <3>6, <4>1
    <3>. QED BY <3>4, <3>5, <3>6
  <2>8. CASE ~o.gone /\ Follows(p, q, At(p.track))
    <3>1. l \in DOMAIN players' /\ players'[l] = q
      BY <2>2, <2>3, <2>8 DEF Settled
    <3>2. q.track = p.track /\ q.seen = p.seen
      BY <2>8 DEF Follows
    <3>. HIDE DEF q
    <3>. QED BY <3>1, <3>2 DEF Holds
  <2>9. CASE ~Follows(p, q, At(p.track))
    <3>1. o.done # <<>>
      BY <2>4, <2>9 DEF Goes
    <3>2. PICK c : GivenIn(base, outcomes, l, c)
      BY <1>1, <2>2, <3>1, RoundGives
    <3>3. o.done = <<c>> /\ c.track = p.track /\ c.date = p.seen /\ PassesThreshold(c.listened)
      BY <2>3, <3>2 DEF GivenIn, IsGiven
    <3>. QED BY <2>6, <3>3
  <2>. QED BY <2>7, <2>8, <2>9
<1>5. CASE \/ Tick \/ PauseOrResume \/ Seek \/ Leave \/ Move
           \/ \E t \in Tracks : StartTrack(t)
  <2>1. players' = players
    BY <1>5 DEF Tick, PauseOrResume, Seek, Leave, Move, StartTrack, Acts
  <2>. QED BY <1>2, <2>1
<1>. QED BY <1>3, <1>4, <1>5 DEF Next

\* A play that was listened to for long enough is not let go of before it is discovered:
\* a change of the track, a repeat, a stop, a change of the device and the removal of a
\* silent player hand it over first.
THEOREM NoPlayIsLost == Spec => NothingIsLost
<1>1. MemInv /\ [Next]_vars => [\A k \in DOMAIN players : LostNot(k)]_vars
  BY StepLosesNothing
<1>2. [\A k \in DOMAIN players : LostNot(k)]_vars
        => [\A k \in DOMAIN players :
              LET p == players[k]
              IN  p.track # NoTrack /\ LongEnough(p)
                    => \/ Holds(players', [track |-> p.track, date |-> p.seen])
                       \/ \E d \in ToSet(discovered') : SameListen(d.play, Played(p)[1])
                       \/ ~source.polled /\ k \notin DOMAIN players']_vars
  BY DEF LostNot
<1>. QED BY <1>1, <1>2, Invariant, PTL DEF Spec, NothingIsLost

=============================================================================
