---------------------------- MODULE OrderBookProofs ---------------------------
(* Theorems about the order book, for every pool size, every range of prices   *)
(* and every segment size.                                                    *)
EXTENDS OrderBook, FiniteSetTheorems, SequenceTheorems, TLAPS

-----------------------------------------------------------------------------
(* Numbers: the least and the greatest of a set, sums, segments.             *)

LEMMA QuantitiesPositive == \A q \in Quantities : q \in Nat /\ q # 0
BY BookAssumption

\* Every set of numbers that is not empty has a least one.
LEMMA Least ==
  ASSUME NEW T, T \subseteq Nat, T # {}
  PROVE  \E m \in T : \A n \in T : m <= n
<1> DEFINE U == {1 .. n : n \in T}
           R == StrictSubsetOrdering(Nat)
           F == FiniteSubsetsOf(Nat)
<1>1. IsWellFoundedOn(R, F)
  BY FS_StrictSubsetOrderingWellFounded
<1>2. U \subseteq F
  BY FS_Interval DEF FiniteSubsetsOf
<1>3. PICK u \in U : \A v \in U : ~(<<v, u>> \in R)
  <2>1. U # {}
    OBVIOUS
  <2> HIDE DEF U, R, F
  <2> QED BY <1>1, <1>2, <2>1, WFMin
<1>4. PICK m \in T : u = 1 .. m
  BY <1>3
<1>5. ASSUME NEW n \in T, n < m PROVE FALSE
  <2>1. 1 .. n \subseteq 1 .. m /\ 1 .. n # 1 .. m
    <3>1. m \in 1 .. m /\ m \notin 1 .. n
      BY <1>5
    <3> QED BY <1>5, <3>1
  <2>2. <<1 .. n, 1 .. m>> \in R
    BY <2>1 DEF StrictSubsetOrdering
  <2> QED BY <1>3, <1>4, <2>2
<1> QED BY <1>5

\* Every finite set of numbers that is not empty has a greatest one.
LEMMA Greatest ==
  ASSUME NEW n \in Nat, NEW T, T \subseteq 0 .. n, T # {}
  PROVE  \E m \in T : \A k \in T : k <= m
<1> DEFINE U == {n - k : k \in T}
<1>1. U \subseteq Nat /\ U # {}
  OBVIOUS
<1>2. PICK u \in U : \A v \in U : u <= v
  <2> HIDE DEF U
  <2> QED BY <1>1, Least
<1>3. PICK m \in T : u = n - m
  BY <1>2
<1>4. ASSUME NEW k \in T PROVE k <= m
  <2>1. n - k \in U
    OBVIOUS
  <2>2. n - m <= n - k
    BY <1>2, <1>3, <2>1
  <2> QED BY <2>2
<1> QED BY <1>4

\* What a loop over n numbers has added up after each of them.
PartialSums(f, n, sum) ==
  /\ sum[0] = 0
  /\ \A k \in 1 .. n : sum[k] = sum[k - 1] + f[k]

LEMMA PartialSumsUnique ==
  ASSUME NEW n \in Nat, NEW f, NEW g, NEW h,
         PartialSums(f, n, g), PartialSums(f, n, h)
  PROVE  \A k \in 0 .. n : g[k] = h[k]
<1> SUFFICES ASSUME NEW j \in 0 .. n, g[j] # h[j] PROVE FALSE
  OBVIOUS
<1> DEFINE T == {k \in 0 .. n : g[k] # h[k]}
<1>1. PICK m \in T : \A k \in T : m <= k
  <2> T \subseteq Nat /\ T # {}
    OBVIOUS
  <2> HIDE DEF T
  <2> QED BY Least
<1>2. m \in 1 .. n /\ m - 1 \in 0 .. n
  BY DEF PartialSums
<1>3. g[m - 1] = h[m - 1]
  BY <1>1, <1>2
<1> QED BY <1>2, <1>3 DEF PartialSums

LEMMA PartialSumsExist ==
  ASSUME NEW n \in Nat, NEW f \in [1 .. n -> Int]
  PROVE  \E sum \in [0 .. n -> Int] : PartialSums(f, n, sum)
<1> DEFINE Has(m) == \E sum \in [0 .. m -> Int] : PartialSums(f, m, sum)
           T == {m \in 0 .. n : ~Has(m)}
<1> SUFFICES ASSUME n \in T PROVE FALSE
  OBVIOUS
<1>1. PICK m \in T : \A k \in T : m <= k
  <2> T \subseteq Nat /\ T # {}
    OBVIOUS
  <2> HIDE DEF T
  <2> QED BY Least
<1>2. m # 0
  <2>1. Has(0)
    <3>1. PartialSums(f, 0, [k \in 0 .. 0 |-> 0])
      BY DEF PartialSums
    <3> QED BY <3>1
  <2> QED BY <2>1
<1>3. m - 1 \in 0 .. n /\ m - 1 \notin T
  BY <1>1, <1>2
<1>4. PICK sum \in [0 .. m - 1 -> Int] : PartialSums(f, m - 1, sum)
  BY <1>3
<1> DEFINE longer == [k \in 0 .. m |-> IF k = m THEN sum[m - 1] + f[m] ELSE sum[k]]
<1>5. f[m] \in Int /\ sum[m - 1] \in Int
  BY <1>2
<1>6. longer \in [0 .. m -> Int]
  BY <1>5
<1>7. PartialSums(f, m, longer)
  <2>1. /\ m \in 1 .. n /\ \A k \in 0 .. m - 1 : longer[k] = sum[k]
        /\ longer[m] = sum[m - 1] + f[m]
    BY <1>2
  <2>2. sum[0] = 0 /\ \A k \in 1 .. m - 1 : sum[k] = sum[k - 1] + f[k]
    BY <1>4 DEF PartialSums
  <2> HIDE DEF longer
  <2>3. longer[0] = 0
    BY <2>1, <2>2
  <2>4. ASSUME NEW k \in 1 .. m PROVE longer[k] = longer[k - 1] + f[k]
    <3>1. k - 1 \in 0 .. m - 1
      BY <2>1
    <3>2. longer[k - 1] = sum[k - 1]
      BY <2>1, <3>1
    <3>3. CASE k = m
      BY <2>1, <3>2, <3>3
    <3>4. CASE k # m
      <4>1. k \in 1 .. m - 1 /\ k \in 0 .. m - 1
        BY <2>1, <3>4
      <4> QED BY <2>1, <2>2, <3>2, <4>1
    <3> QED BY <3>3, <3>4
  <2> QED BY <2>3, <2>4 DEF PartialSums
<1> QED BY <1>6, <1>7

\* Sum is the last of the partial sums.
LEMMA SumIs ==
  ASSUME NEW n \in Nat, NEW f \in [1 .. n -> Int], NEW sum, PartialSums(f, n, sum)
  PROVE  Sum(f) = sum[n] /\ Sum(f) \in Int
<1>1. f \in Seq(Int) /\ Len(f) = n
  OBVIOUS
<1>2. PICK t \in [0 .. n -> Int] : PartialSums(f, n, t)
  BY PartialSumsExist
<1> DEFINE Rec(g) == g = [k \in 0 .. n |-> IF k = 0 THEN 0 ELSE g[k - 1] + f[k]]
           chosen == CHOOSE g : Rec(g)
<1>3. Rec(t)
  <2>1. \A k \in 0 .. n : t[k] = IF k = 0 THEN 0 ELSE t[k - 1] + f[k]
    BY <1>2 DEF PartialSums
  <2> QED BY <2>1
<1>4. Rec(chosen)
  BY <1>3
<1>5. PartialSums(f, n, chosen)
  <2> HIDE DEF chosen
  <2>1. \A k \in 0 .. n : chosen[k] = IF k = 0 THEN 0 ELSE chosen[k - 1] + f[k]
    BY <1>4
  <2> QED BY <2>1 DEF PartialSums
<1>6. Sum(f) = chosen[n]
  BY <1>1 DEF Sum
<1> HIDE DEF chosen
<1>7. chosen[n] = sum[n] /\ chosen[n] = t[n]
  BY <1>2, <1>5, PartialSumsUnique
<1> QED BY <1>6, <1>7

\* The sum of no negative number is none.
LEMMA SumNat ==
  ASSUME NEW n \in Nat, NEW f \in [1 .. n -> Nat]
  PROVE  Sum(f) \in Nat
<1>1. PICK sum \in [0 .. n -> Int] : PartialSums(f, n, sum)
  BY PartialSumsExist
<1> DEFINE T == {k \in 0 .. n : sum[k] < 0}
<1>2. T = {}
  <2> SUFFICES ASSUME T # {} PROVE FALSE
    OBVIOUS
  <2>1. PICK m \in T : \A k \in T : m <= k
    <3> T \subseteq Nat
      OBVIOUS
    <3> HIDE DEF T
    <3> QED BY Least
  <2>2. m \in 1 .. n /\ m - 1 \in 0 .. n
    BY <1>1 DEF PartialSums
  <2>3. sum[m] = sum[m - 1] + f[m] /\ sum[m - 1] >= 0 /\ f[m] \in Nat
    BY <1>1, <2>1, <2>2 DEF PartialSums
  <2> QED BY <2>2, <2>3
<1>3. Sum(f) = sum[n]
  BY <1>1, SumIs
<1> QED BY <1>2, <1>3

LEMMA SumZero ==
  ASSUME NEW n \in Nat, NEW f \in [1 .. n -> Int], \A k \in 1 .. n : f[k] = 0
  PROVE  Sum(f) = 0
<1>1. PartialSums(f, n, [k \in 0 .. n |-> 0])
  BY DEF PartialSums
<1>2. Sum(f) = [k \in 0 .. n |-> 0][n]
  BY <1>1, SumIs
<1> QED BY <1>2

\* One more number.
LEMMA SumAppend ==
  ASSUME NEW n \in Nat, NEW f \in [1 .. n -> Int], NEW g \in [1 .. n + 1 -> Int],
         \A k \in 1 .. n : g[k] = f[k]
  PROVE  Sum(g) = Sum(f) + g[n + 1]
<1>1. PICK sum \in [0 .. n + 1 -> Int] : PartialSums(g, n + 1, sum)
  BY PartialSumsExist
<1>2. PartialSums(f, n, sum)
  BY <1>1 DEF PartialSums
<1>3. Sum(g) = sum[n + 1] /\ Sum(f) = sum[n]
  <2>1. n + 1 \in Nat
    OBVIOUS
  <2> QED BY <1>1, <1>2, <2>1, SumIs
<1>4. sum[n + 1] = sum[n] + g[n + 1]
  BY <1>1 DEF PartialSums
<1> QED BY <1>3, <1>4

\* One number changes.
LEMMA SumUpdate ==
  ASSUME NEW n \in Nat, NEW f \in [1 .. n -> Int], NEW g \in [1 .. n -> Int],
         NEW j \in 1 .. n, \A k \in (1 .. n) \ {j} : g[k] = f[k]
  PROVE  Sum(g) = Sum(f) + g[j] - f[j]
<1>1. PICK sum \in [0 .. n -> Int] : PartialSums(f, n, sum)
  BY PartialSumsExist
<1> DEFINE new == [k \in 0 .. n |-> IF k < j THEN sum[k] ELSE sum[k] + g[j] - f[j]]
<1>2. PartialSums(g, n, new)
  <2>1. new[0] = 0
    BY <1>1 DEF PartialSums
  <2>2. ASSUME NEW k \in 1 .. n PROVE new[k] = new[k - 1] + g[k]
    <3>1. k - 1 \in 0 .. n /\ k \in 0 .. n
      OBVIOUS
    <3>2. sum[k] = sum[k - 1] + f[k]
      BY <1>1 DEF PartialSums
    <3>3. /\ sum[k] \in Int /\ sum[k - 1] \in Int
          /\ f[k] \in Int /\ f[j] \in Int /\ g[j] \in Int /\ g[k] \in Int
      BY <1>1, <3>1
    <3>4. CASE k = j
      BY <3>1, <3>2, <3>3, <3>4
    <3>5. CASE k < j
      <4>1. new[k] = sum[k] /\ new[k - 1] = sum[k - 1] /\ g[k] = f[k]
        BY <3>1, <3>5
      <4> QED BY <3>2, <4>1
    <3>6. CASE k > j
      <4>1. /\ new[k] = sum[k] + g[j] - f[j] /\ new[k - 1] = sum[k - 1] + g[j] - f[j]
            /\ g[k] = f[k]
        BY <3>1, <3>6
      <4> HIDE DEF new
      <4> QED BY <3>2, <3>3, <4>1
    <3> QED BY <3>4, <3>5, <3>6
  <2> QED BY <2>1, <2>2 DEF PartialSums
<1>3. Sum(g) = new[n] /\ Sum(f) = sum[n]
  <2> HIDE DEF new
  <2> QED BY <1>1, <1>2, SumIs
<1> QED BY <1>3

\* One number goes.
LEMMA SumRemove ==
  ASSUME NEW n \in Nat \ {0}, NEW f \in [1 .. n -> Int], NEW g \in [1 .. n - 1 -> Int],
         NEW j \in 1 .. n,
         \A k \in 1 .. n - 1 : g[k] = IF k < j THEN f[k] ELSE f[k + 1]
  PROVE  Sum(g) = Sum(f) - f[j]
<1>1. PICK sum \in [0 .. n -> Int] : PartialSums(f, n, sum)
  BY PartialSumsExist
<1> DEFINE new == [k \in 0 .. n - 1 |-> IF k < j THEN sum[k] ELSE sum[k + 1] - f[j]]
<1>2. PartialSums(g, n - 1, new)
  <2>1. new[0] = 0
    BY <1>1 DEF PartialSums
  <2>2. ASSUME NEW k \in 1 .. n - 1 PROVE new[k] = new[k - 1] + g[k]
    <3>0. k \in 1 .. n /\ k + 1 \in 1 .. n /\ (k + 1) - 1 = k /\ k - 1 \in 0 .. n - 1
      OBVIOUS
    <3>1. /\ sum[k] = sum[k - 1] + f[k] /\ sum[k + 1] = sum[k] + f[k + 1]
          /\ sum[k] \in Int /\ sum[k - 1] \in Int /\ sum[k + 1] \in Int
          /\ f[k] \in Int /\ f[j] \in Int /\ f[k + 1] \in Int
      <4>1. /\ sum[k] = sum[k - 1] + f[k]
            /\ sum[k + 1] = sum[(k + 1) - 1] + f[k + 1]
        BY <1>1, <3>0 DEF PartialSums
      <4> QED BY <1>1, <3>0, <4>1
    <3>5. /\ new[k] = IF k < j THEN sum[k] ELSE sum[k + 1] - f[j]
          /\ new[k - 1] = IF k - 1 < j THEN sum[k - 1] ELSE sum[k] - f[j]
          /\ g[k] = IF k < j THEN f[k] ELSE f[k + 1]
      BY <3>0
    <3> HIDE DEF new
    <3>2. CASE k < j
      BY <3>1, <3>2, <3>5
    <3>3. CASE k = j
      <4>1. /\ new[k] = sum[k + 1] - f[k] /\ new[k - 1] = sum[k - 1]
            /\ g[k] = f[k + 1]
        BY <3>3, <3>5
      <4>2. sum[k + 1] - f[k] = sum[k - 1] + f[k + 1]
        <5>1. PICK a \in Int : a = sum[k - 1]
          BY ONLY <3>1
        <5>2. PICK b \in Int : b = sum[k]
          BY ONLY <3>1
        <5>3. PICK c \in Int : c = sum[k + 1]
          BY ONLY <3>1
        <5>4. PICK d \in Int : d = f[k]
          BY ONLY <3>1
        <5>5. PICK e \in Int : e = f[k + 1]
          BY ONLY <3>1
        <5>6. b = a + d /\ c = b + e
          BY ONLY <3>1, <5>1, <5>2, <5>3, <5>4, <5>5, Zenon
        <5>7. c - d = a + e
          BY ONLY <5>6
        <5> QED BY ONLY <5>1, <5>3, <5>4, <5>5, <5>7, Zenon
      <4> QED BY ONLY <4>1, <4>2, Zenon
    <3>4. CASE k > j
      <4>1. /\ new[k] = sum[k + 1] - f[j] /\ new[k - 1] = sum[k] - f[j]
            /\ g[k] = f[k + 1]
        BY <3>4, <3>5
      <4>2. sum[k + 1] - f[j] = (sum[k] - f[j]) + f[k + 1]
        <5>2. PICK b \in Int : b = sum[k]
          BY ONLY <3>1
        <5>3. PICK c \in Int : c = sum[k + 1]
          BY ONLY <3>1
        <5>4. PICK d \in Int : d = f[j]
          BY ONLY <3>1
        <5>5. PICK e \in Int : e = f[k + 1]
          BY ONLY <3>1
        <5>6. c = b + e
          BY ONLY <3>1, <5>2, <5>3, <5>5, Zenon
        <5>7. c - d = (b - d) + e
          BY ONLY <5>6
        <5> QED BY ONLY <5>2, <5>3, <5>4, <5>5, <5>7, Zenon
      <4> QED BY ONLY <4>1, <4>2, Zenon
    <3> QED BY <3>2, <3>3, <3>4
  <2> QED BY <2>1, <2>2 DEF PartialSums
<1>3. Sum(g) = new[n - 1] /\ Sum(f) = sum[n]
  <2> HIDE DEF new
  <2>1. n - 1 \in Nat
    OBVIOUS
  <2> QED BY <1>1, <1>2, <2>1, SumIs
<1>4. new[n - 1] = sum[n] - f[j]
  <2>1. sum[n] = sum[n - 1] + f[n] /\ sum[n - 1] \in Int /\ f[n] \in Int
    BY <1>1 DEF PartialSums
  <2>2. CASE j = n
    BY <2>1, <2>2
  <2>3. CASE j < n
    BY <2>1, <2>3
  <2> QED BY <2>2, <2>3
<1> QED BY <1>3, <1>4

\* Segments cover the prices in their order.
LEMMA DivisionMonotonic ==
  ASSUME NEW c \in Nat \ {0}, NEW a \in Nat, NEW b \in Nat, a <= b
  PROVE  a \div c \in Nat /\ b \div c \in Nat /\ a \div c <= b \div c
<1> DEFINE qa == a \div c
           qb == b \div c
<1>1. /\ qa \in Int /\ qb \in Int
      /\ a = c * qa + (a % c) /\ b = c * qb + (b % c)
      /\ a % c \in 0 .. c - 1 /\ b % c \in 0 .. c - 1
  BY SMT
<1> HIDE DEF qa, qb
<1>2. qa >= 0 /\ qb >= 0
  <2>1. CASE qa <= -1
    <3>1. c * qa <= -c
      BY <1>1, <2>1, SMT
    <3> QED BY <1>1, <3>1
  <2>2. CASE qb <= -1
    <3>1. c * qb <= -c
      BY <1>1, <2>2, SMT
    <3> QED BY <1>1, <3>1
  <2> QED BY <1>1, <2>1, <2>2
<1>3. qa <= qb
  <2>4. qa \in Int /\ qb \in Int
    BY <1>1
  <2>1. SUFFICES ASSUME qb + 1 <= qa PROVE FALSE
    BY <2>4
  <2>2. c * (qb + 1) <= c * qa
    BY <1>1, <2>1, SMT
  <2>3. c * (qb + 1) = c * qb + c
    BY <1>1, SMT
  <2> QED BY <1>1, <2>2, <2>3, SMT
<1> QED BY <1>2, <1>3 DEF qa, qb

LEMMA SegmentsOrdered ==
  /\ \A p \in Prices : SegmentOf(p) \in Segments
  /\ \A p, q \in Prices : p <= q => SegmentOf(p) <= SegmentOf(q)
  /\ Prices \subseteq 0 .. MaxPrice /\ SegmentOf(MaxPrice) \in Nat
  /\ Segments \subseteq Nat
<1>1. ASSUME NEW p \in Prices
      PROVE  /\ p \div PricesPerSegment \in Nat /\ MinPrice \div PricesPerSegment \in Nat
             /\ MinPrice \div PricesPerSegment <= p \div PricesPerSegment
             /\ p \div PricesPerSegment <= MaxPrice \div PricesPerSegment
             /\ MaxPrice \div PricesPerSegment \in Nat
  BY BookAssumption, DivisionMonotonic DEF Prices
<1>2. ASSUME NEW p \in Prices, NEW q \in Prices, p <= q
      PROVE  p \div PricesPerSegment <= q \div PricesPerSegment
  BY <1>2, BookAssumption, DivisionMonotonic DEF Prices
<1>3. MaxPrice \in Prices
  BY BookAssumption DEF Prices
<1>4. \A p \in Prices : SegmentOf(p) \in Nat /\ SegmentOf(p) <= SegmentOf(MaxPrice)
  <2>1. TAKE p \in Prices
  <2> QED BY <1>1, <1>3 DEF SegmentOf
<1>5. \A p, q \in Prices : p <= q => SegmentOf(p) <= SegmentOf(q)
  <2>1. TAKE p, q \in Prices
  <2>2. HAVE p <= q
  <2> QED BY <1>1, <1>2, <2>2 DEF SegmentOf
<1> QED BY <1>3, <1>4, <1>5, BookAssumption DEF Segments, Prices

-----------------------------------------------------------------------------
(* The best segment and the best price.                                      *)

\* m is as good for side s as n.
AsGood(s, m, n) == IF s = "Bid" THEN n <= m ELSE m <= n

\* The extreme of a set is its best element.
LEMMA ExtremeIsBest ==
  ASSUME NEW s, NEW n \in Nat, NEW T, T \subseteq 0 .. n, T # {}
  PROVE  /\ Extreme(s, T) \in T
         /\ \A k \in T : AsGood(s, Extreme(s, T), k)
<1>1. CASE s = "Bid"
  <2>1. \E m \in T : \A k \in T : m >= k
    <3>1. PICK m \in T : \A k \in T : k <= m
      BY Greatest
    <3> QED BY <3>1
  <2>2. Max(T) \in T /\ \A k \in T : Max(T) >= k
    BY <2>1 DEF Max
  <2>3. Extreme(s, T) = Max(T)
    BY <1>1 DEF Extreme
  <2> QED BY <1>1, <2>2, <2>3 DEF AsGood
<1>2. CASE s # "Bid"
  <2>1. \E m \in T : \A k \in T : m =< k
    <3>1. T \subseteq Nat
      OBVIOUS
    <3>2. PICK m \in T : \A k \in T : m <= k
      BY <3>1, Least
    <3> QED BY <3>2
  <2>2. Min(T) \in T /\ \A k \in T : Min(T) =< k
    BY <2>1 DEF Min
  <2>3. Extreme(s, T) = Min(T)
    BY <1>2 DEF Extreme
  <2> QED BY <1>2, <2>2, <2>3 DEF AsGood
<1> QED BY <1>1, <1>2

\* And the only one that is as good as all of them.
LEMMA ExtremeUnique ==
  ASSUME NEW s, NEW n \in Nat, NEW T, T \subseteq 0 .. n,
         NEW m \in T, \A k \in T : AsGood(s, m, k)
  PROVE  Extreme(s, T) = m
<1> T # {}
  OBVIOUS
<1>1. /\ Extreme(s, T) \in T
      /\ \A k \in T : AsGood(s, Extreme(s, T), k)
  BY ExtremeIsBest
<1>2. m \in Nat /\ Extreme(s, T) \in Nat
  <2>1. \A k \in T : k \in Nat
    OBVIOUS
  <2> QED BY <1>1, <2>1
<1> QED BY <1>1, <1>2 DEF AsGood

LEMMA ExtremeOfNone == \A s : Extreme(s, {}) = NoSegment
BY DEF Extreme

-----------------------------------------------------------------------------
(* Paths through the links of the slots.                                     *)

\* f is the path from head along next in pool o.
Path(o, f, head) ==
  /\ f \in Seq(Slots) /\ IsInjective(f)
  /\ head = IF Len(f) = 0 THEN NoSlot ELSE f[1]
  /\ \A k \in 1 .. Len(f) : o[f[k]].next = IF k = Len(f) THEN NoSlot ELSE f[k + 1]

\* prev leads back along f.
Back(o, f) ==
  \A k \in 1 .. Len(f) : o[f[k]].prev = IF k = 1 THEN NoSlot ELSE f[k - 1]

\* Chain, of pool o.
Walk(o, head) ==
  LET slot[k \in 0 .. MaxOrders] ==
        IF k = 0 THEN head
        ELSE IF slot[k - 1] = NoSlot THEN NoSlot ELSE o[slot[k - 1]].next
      length == Cardinality({k \in 0 .. MaxOrders : slot[k] # NoSlot})
  IN  [k \in 1 .. length |-> slot[k - 1]]

LEMMA SlotsFinite ==
  /\ IsFiniteSet(Slots) /\ Cardinality(Slots) = MaxOrders
  /\ NoSlot \notin Slots /\ Slots \subseteq Nat /\ NoSlot \in Nat
<1>1. MaxOrders - 1 \in Int /\ 0 \in Int /\ MaxOrders \in Nat
  BY BookAssumption
<1>2. IsFiniteSet(0 .. MaxOrders - 1) /\ Cardinality(0 .. MaxOrders - 1) = MaxOrders
  <2>1. /\ IsFiniteSet(0 .. MaxOrders - 1)
        /\ Cardinality(0 .. MaxOrders - 1)
             = IF 0 > MaxOrders - 1 THEN 0 ELSE (MaxOrders - 1) - 0 + 1
    BY <1>1, FS_Interval
  <2> QED BY <1>1, <2>1
<1> QED BY <1>1, <1>2 DEF Slots, NoSlot

\* What is in a sequence of slots.
LEMMA Members ==
  ASSUME NEW f \in Seq(Slots)
  PROVE  /\ \A x : x \in ToSet(f) <=> \E k \in 1 .. Len(f) : f[k] = x
         /\ ToSet(f) \subseteq Slots
         /\ \A k \in 1 .. Len(f) : f[k] \in Slots /\ f[k] # NoSlot
         /\ Len(f) \in Nat
BY SlotsFinite DEF ToSet

LEMMA PathShort ==
  ASSUME NEW o, NEW f, NEW head, Path(o, f, head)
  PROVE  Len(f) \in 0 .. MaxOrders
<1>1. f \in Seq(Slots) /\ IsInjective(f) /\ Len(f) \in Nat /\ f \in [1 .. Len(f) -> Slots]
  BY DEF Path
<1>2. f \in Injection(1 .. Len(f), Slots)
  BY <1>1 DEF Injection
<1>3. Cardinality(1 .. Len(f)) <= Cardinality(Slots)
  BY <1>2, SlotsFinite, FS_Injection
<1>4. Cardinality(1 .. Len(f)) = Len(f)
  <2>1. Cardinality(1 .. Len(f)) = IF 1 > Len(f) THEN 0 ELSE Len(f) - 1 + 1
    BY <1>1, FS_Interval
  <2> QED BY <1>1, <2>1
<1> QED BY <1>1, <1>3, <1>4, SlotsFinite, BookAssumption

\* A walk follows the path.
LEMMA WalkFollows ==
  ASSUME NEW o, NEW f, NEW head, Path(o, f, head)
  PROVE  Walk(o, head) = f
<1> DEFINE Rec(g) == g = [k \in 0 .. MaxOrders |->
                            IF k = 0 THEN head
                            ELSE IF g[k - 1] = NoSlot THEN NoSlot
                                 ELSE o[g[k - 1]].next]
           n == Len(f)
           path == [k \in 0 .. MaxOrders |-> IF k < n THEN f[k + 1] ELSE NoSlot]
           slot == CHOOSE g : Rec(g)
<1>1. n \in 0 .. MaxOrders /\ MaxOrders \in Nat
  BY PathShort, BookAssumption
<1>2. /\ \A k \in 1 .. n : f[k] \in Slots /\ f[k] # NoSlot
      /\ head = IF n = 0 THEN NoSlot ELSE f[1]
      /\ \A k \in 1 .. n : o[f[k]].next = IF k = n THEN NoSlot ELSE f[k + 1]
      /\ f \in Seq(Slots)
  BY Members DEF Path
<1>3. Rec(path)
  <2>1. ASSUME NEW k \in 0 .. MaxOrders
        PROVE  path[k] = IF k = 0 THEN head
                         ELSE IF path[k - 1] = NoSlot THEN NoSlot
                              ELSE o[path[k - 1]].next
    <3>1. CASE k = 0
      BY <1>1, <1>2, <3>1
    <3>2. CASE k # 0 /\ k <= n
      <4>1. k \in 1 .. n /\ k - 1 \in 0 .. MaxOrders /\ k - 1 < n /\ (k - 1) + 1 = k
        BY <1>1, <3>2
      <4>2. path[k - 1] = f[k] /\ f[k] # NoSlot
        BY <1>2, <4>1
      <4>3. path[k] = IF k < n THEN f[k + 1] ELSE NoSlot
        OBVIOUS
      <4>4. path[k] = o[f[k]].next
        BY <1>1, <1>2, <4>1, <4>3
      <4> HIDE DEF path
      <4> QED BY <3>2, <4>2, <4>4
    <3>3. CASE k # 0 /\ k > n
      <4>1. k - 1 \in 0 .. MaxOrders /\ ~(k - 1 < n) /\ ~(k < n)
        BY <1>1, <3>3
      <4>2. path[k - 1] = NoSlot /\ path[k] = NoSlot
        BY <4>1
      <4> HIDE DEF path
      <4> QED BY <3>3, <4>2
    <3> QED BY <1>1, <3>1, <3>2, <3>3
  <2> QED BY <2>1
<1>4. Rec(slot)
  <2> HIDE DEF path, Rec
  <2> QED BY <1>3
<1>5. \A k \in 0 .. MaxOrders : slot[k] = path[k]
  <2> SUFFICES ASSUME NEW j \in 0 .. MaxOrders, slot[j] # path[j] PROVE FALSE
    OBVIOUS
  <2> DEFINE T == {k \in 0 .. MaxOrders : slot[k] # path[k]}
  <2>1. PICK m \in T : \A k \in T : m <= k
    <3> HIDE DEF slot, path
    <3> T \subseteq Nat /\ T # {}
      OBVIOUS
    <3> HIDE DEF T
    <3> QED BY Least
  <2> HIDE DEF slot, path
  <2>2. slot[m] = IF m = 0 THEN head
                  ELSE IF slot[m - 1] = NoSlot THEN NoSlot ELSE o[slot[m - 1]].next
    BY <1>4, <2>1
  <2>3. path[m] = IF m = 0 THEN head
                  ELSE IF path[m - 1] = NoSlot THEN NoSlot ELSE o[path[m - 1]].next
    BY <1>3, <2>1
  <2>4. m # 0 /\ m - 1 \in 0 .. MaxOrders /\ m - 1 \notin T
    <3>1. m \in 0 .. MaxOrders /\ slot[m] # path[m]
      BY <2>1
    <3>2. m # 0
      BY <2>2, <2>3, <3>1
    <3>3. m - 1 \in 0 .. MaxOrders /\ m - 1 < m
      BY <1>1, <3>1, <3>2
    <3> QED BY <2>1, <3>2, <3>3
  <2> QED BY <2>1, <2>2, <2>3, <2>4
<1>6. {k \in 0 .. MaxOrders : slot[k] # NoSlot} = 0 .. n - 1
  <2>1. \A k \in 0 .. MaxOrders : path[k] # NoSlot <=> k < n
    BY <1>1, <1>2
  <2> HIDE DEF slot, path
  <2> QED BY <1>1, <1>5, <2>1
<1>7. Cardinality(0 .. n - 1) = n
  <2> HIDE DEF n
  <2>1. n - 1 \in Int /\ 0 \in Int
    BY <1>1
  <2>2. Cardinality(0 .. n - 1) = IF 0 > n - 1 THEN 0 ELSE (n - 1) - 0 + 1
    BY <2>1, FS_Interval
  <2> QED BY <1>1, <2>2
<1>8. Walk(o, head) = [k \in 1 .. n |-> slot[k - 1]]
  <2>1. Walk(o, head) = [k \in 1 .. Cardinality({k \in 0 .. MaxOrders : slot[k] # NoSlot})
                           |-> slot[k - 1]]
    BY DEF Walk
  <2> HIDE DEF slot, n
  <2> QED BY <1>6, <1>7, <2>1
<1>9. \A k \in 1 .. n : slot[k - 1] = f[k]
  <2>1. \A k \in 1 .. n : k - 1 \in 0 .. MaxOrders /\ path[k - 1] = f[k]
    BY <1>1
  <2> HIDE DEF slot, path
  <2> QED BY <1>5, <2>1
<1>10. f = [k \in 1 .. n |-> f[k]]
  BY <1>2
<1> HIDE DEF slot, path
<1> QED BY <1>8, <1>9, <1>10

\* A path whose links stay.
LEMMA PathSame ==
  ASSUME NEW o, NEW q, NEW f, NEW head, Path(o, f, head),
         \A k \in 1 .. Len(f) : q[f[k]].next = o[f[k]].next
  PROVE  Path(q, f, head)
BY DEF Path

\* Acquire: the first slot leaves.
LEMMA PathPop ==
  ASSUME NEW o, NEW f, NEW head, Path(o, f, head), Len(f) # 0
  PROVE  /\ Path(o, Tail(f), o[head].next) /\ head \in Slots
         /\ Len(Tail(f)) = Len(f) - 1
         /\ \A x : x \in ToSet(Tail(f)) <=> x \in ToSet(f) /\ x # head
<1> DEFINE g == Tail(f)
<1>1. /\ f \in Seq(Slots) /\ head = f[1] /\ head \in Slots /\ Len(f) \in Nat \ {0}
      /\ \A i, j \in 1 .. Len(f) : f[i] = f[j] => i = j
      /\ \A k \in 1 .. Len(f) : o[f[k]].next = IF k = Len(f) THEN NoSlot ELSE f[k + 1]
  BY DEF Path, IsInjective
<1>2. /\ g \in Seq(Slots) /\ Len(g) = Len(f) - 1
      /\ \A k \in 1 .. Len(g) : g[k] = f[k + 1] /\ k + 1 \in 1 .. Len(f)
  BY <1>1
<1>3. \A i, j \in 1 .. Len(g) : g[i] = g[j] => i = j
  <2> HIDE DEF g
  <2>1. TAKE i, j \in 1 .. Len(g)
  <2>2. HAVE g[i] = g[j]
  <2>3. i + 1 = j + 1
    BY <1>1, <1>2, <2>2
  <2> QED BY <2>3
<1> HIDE DEF g
<1>4. o[head].next = IF Len(g) = 0 THEN NoSlot ELSE g[1]
  <2>1. o[head].next = IF 1 = Len(f) THEN NoSlot ELSE f[2]
    <3>1. 1 \in 1 .. Len(f) /\ 1 + 1 = 2 /\ head = f[1]
      BY <1>1
    <3>2. o[f[1]].next = IF 1 = Len(f) THEN NoSlot ELSE f[1 + 1]
      BY <1>1, <3>1
    <3> QED BY <3>1, <3>2
  <2> QED BY <1>1, <1>2, <2>1
<1>5. ASSUME NEW k \in 1 .. Len(g)
      PROVE  o[g[k]].next = IF k = Len(g) THEN NoSlot ELSE g[k + 1]
  <2>1. /\ g[k] = f[k + 1] /\ k + 1 \in 1 .. Len(f)
        /\ o[f[k + 1]].next = IF k + 1 = Len(f) THEN NoSlot ELSE f[(k + 1) + 1]
    BY <1>1, <1>2
  <2>2. CASE k = Len(g)
    BY <1>1, <1>2, <2>1, <2>2
  <2>3. CASE k # Len(g)
    <3>1. k + 1 \in 1 .. Len(g) /\ k + 1 # Len(f)
      BY <1>1, <1>2, <2>3
    <3>2. g[k + 1] = f[(k + 1) + 1]
      BY <1>2, <3>1
    <3> QED BY <2>1, <2>3, <3>1, <3>2
  <2> QED BY <2>2, <2>3
<1>6. Path(o, g, o[head].next)
  BY <1>2, <1>3, <1>4, <1>5 DEF Path, IsInjective
<1>7. ASSUME NEW x PROVE x \in ToSet(g) <=> x \in ToSet(f) /\ x # head
  <2>1. ASSUME x \in ToSet(g) PROVE x \in ToSet(f) /\ x # head
    <3>1. PICK k \in 1 .. Len(g) : g[k] = x
      BY <1>2, <2>1, Members
    <3>2. f[k + 1] = x /\ k + 1 \in 1 .. Len(f) /\ k + 1 # 1
      BY <1>2, <3>1
    <3>3. x # f[1]
      BY <1>1, <3>2
    <3> QED BY <1>1, <3>2, <3>3, Members
  <2>2. ASSUME x \in ToSet(f), x # head PROVE x \in ToSet(g)
    <3>1. PICK k \in 1 .. Len(f) : f[k] = x
      BY <1>1, <2>2, Members
    <3>2. k # 1 /\ k - 1 \in 1 .. Len(g) /\ (k - 1) + 1 = k
      BY <1>1, <1>2, <2>2, <3>1
    <3>3. g[k - 1] = x
      BY <1>2, <3>1, <3>2
    <3> QED BY <1>2, <3>2, <3>3, Members
  <2> QED BY <2>1, <2>2
<1> QED BY <1>1, <1>2, <1>6, <1>7 DEF g

\* Release: a slot becomes the first.
LEMMA PathPush ==
  ASSUME NEW o, NEW q, NEW f, NEW head, Path(o, f, head),
         NEW slot \in Slots, slot \notin ToSet(f),
         q[slot].next = head,
         \A k \in 1 .. Len(f) : q[f[k]].next = o[f[k]].next
  PROVE  /\ Path(q, <<slot>> \o f, slot)
         /\ Len(<<slot>> \o f) = Len(f) + 1
         /\ \A x : x \in ToSet(<<slot>> \o f) <=> x \in ToSet(f) \/ x = slot
<1> DEFINE g == <<slot>> \o f
<1>1. /\ f \in Seq(Slots) /\ head = (IF Len(f) = 0 THEN NoSlot ELSE f[1]) /\ Len(f) \in Nat
      /\ \A i, j \in 1 .. Len(f) : f[i] = f[j] => i = j
      /\ \A k \in 1 .. Len(f) : o[f[k]].next = IF k = Len(f) THEN NoSlot ELSE f[k + 1]
      /\ \A k \in 1 .. Len(f) : f[k] # slot
  BY Members DEF Path, IsInjective
<1>2. /\ g \in Seq(Slots) /\ Len(g) = Len(f) + 1
      /\ \A k \in 1 .. Len(g) : g[k] = IF k = 1 THEN slot ELSE f[k - 1]
  BY <1>1
<1> HIDE DEF g
<1>3. \A i, j \in 1 .. Len(g) : g[i] = g[j] => i = j
  <2>1. TAKE i, j \in 1 .. Len(g)
  <2>2. HAVE g[i] = g[j]
  <2>3. /\ i # 1 => i - 1 \in 1 .. Len(f) /\ g[i] = f[i - 1]
        /\ j # 1 => j - 1 \in 1 .. Len(f) /\ g[j] = f[j - 1]
        /\ i = 1 => g[i] = slot
        /\ j = 1 => g[j] = slot
    BY <1>1, <1>2
  <2>4. i = 1 <=> j = 1
    BY <1>1, <2>2, <2>3
  <2>5. CASE i # 1
    <3>1. i - 1 = j - 1
      BY <1>1, <2>2, <2>3, <2>4, <2>5
    <3> QED BY <3>1
  <2> QED BY <2>4, <2>5
<1>4. ASSUME NEW k \in 1 .. Len(g)
      PROVE  q[g[k]].next = IF k = Len(g) THEN NoSlot ELSE g[k + 1]
  <2>1. CASE k = 1
    <3>1. q[g[k]].next = head /\ (k = Len(g) <=> Len(f) = 0)
      BY <1>1, <1>2, <2>1
    <3>2. Len(f) # 0 => g[k + 1] = f[1]
      BY <1>1, <1>2, <2>1
    <3> QED BY <1>1, <3>1, <3>2
  <2>2. CASE k # 1
    <3>1. /\ k - 1 \in 1 .. Len(f) /\ g[k] = f[k - 1] /\ (k = Len(g) <=> k - 1 = Len(f))
          /\ q[f[k - 1]].next = o[f[k - 1]].next
          /\ o[f[k - 1]].next = IF k - 1 = Len(f) THEN NoSlot ELSE f[(k - 1) + 1]
      BY <1>1, <1>2, <2>2
    <3>2. k # Len(g) => g[k + 1] = f[(k - 1) + 1]
      BY <1>1, <1>2, <2>2
    <3> QED BY <3>1, <3>2
  <2> QED BY <2>1, <2>2
<1>5. Path(q, g, slot)
  <2>1. slot = IF Len(g) = 0 THEN NoSlot ELSE g[1]
    BY <1>1, <1>2
  <2> QED BY <1>2, <1>3, <1>4, <2>1 DEF Path, IsInjective
<1>6. ASSUME NEW x PROVE x \in ToSet(g) <=> x \in ToSet(f) \/ x = slot
  <2>1. ASSUME x \in ToSet(g) PROVE x \in ToSet(f) \/ x = slot
    <3>1. PICK k \in 1 .. Len(g) : g[k] = x
      BY <1>2, <2>1, Members
    <3>2. CASE k = 1
      BY <1>2, <3>1, <3>2
    <3>3. CASE k # 1
      <4>1. k - 1 \in 1 .. Len(f) /\ f[k - 1] = x
        BY <1>1, <1>2, <3>1, <3>3
      <4> QED BY <1>1, <4>1, Members
    <3> QED BY <3>2, <3>3
  <2>2. ASSUME x \in ToSet(f) PROVE x \in ToSet(g)
    <3>1. PICK k \in 1 .. Len(f) : f[k] = x
      BY <1>1, <2>2, Members
    <3>2. k + 1 \in 1 .. Len(g) /\ (k + 1) - 1 = k /\ k + 1 # 1
      BY <1>1, <1>2
    <3>3. g[k + 1] = f[(k + 1) - 1]
      BY <1>2, <3>2
    <3>4. g[k + 1] = x
      BY <3>1, <3>2, <3>3
    <3> QED BY <1>2, <3>2, <3>4, Members
  <2>3. slot \in ToSet(g)
    <3>1. 1 \in 1 .. Len(g) /\ g[1] = slot
      BY <1>1, <1>2
    <3> QED BY <1>2, <3>1, Members
  <2> QED BY <2>1, <2>2, <2>3
<1> QED BY <1>2, <1>5, <1>6 DEF g

\* The sequence that loses its element at j.
LEMMA Removed ==
  ASSUME NEW S, NEW f \in Seq(S), NEW j \in 1 .. Len(f)
  PROVE  /\ RemoveAt(f, j) \in Seq(S)
         /\ Len(RemoveAt(f, j)) = Len(f) - 1
         /\ \A k \in 1 .. Len(f) - 1 : RemoveAt(f, j)[k] = IF k < j THEN f[k] ELSE f[k + 1]
<1> DEFINE a == SubSeq(f, 1, j - 1)
           b == SubSeq(f, j + 1, Len(f))
<1>0. Len(f) \in Nat /\ \A k \in 1 .. Len(f) : f[k] \in S
  BY LenProperties, ElementOfSeq
<1>1. /\ a \in Seq(S) /\ Len(a) = j - 1
      /\ \A k \in 1 .. j - 1 : a[k] = f[k]
  <2>1. \A k \in 1 .. j - 1 : f[k] \in S
    BY <1>0
  <2>2. /\ a \in Seq(S) /\ Len(a) = IF 1 <= j - 1 THEN ((j - 1) - 1) + 1 ELSE 0
        /\ \A k \in 1 .. ((j - 1) - 1) + 1 : a[k] = f[(1 + k) - 1]
    BY <1>0, <2>1, SubSeqProperties
  <2> QED BY <1>0, <2>2
<1>2. /\ b \in Seq(S) /\ Len(b) = Len(f) - j
      /\ \A k \in 1 .. Len(f) - j : b[k] = f[j + k]
  <2>1. \A k \in j + 1 .. Len(f) : f[k] \in S
    BY <1>0
  <2>2. /\ b \in Seq(S)
        /\ Len(b) = IF j + 1 <= Len(f) THEN (Len(f) - (j + 1)) + 1 ELSE 0
        /\ \A k \in 1 .. (Len(f) - (j + 1)) + 1 : b[k] = f[((j + 1) + k) - 1]
    BY <1>0, <2>1, SubSeqProperties
  <2> QED BY <1>0, <2>2
<1> HIDE DEF a, b
<1>3. /\ a \o b \in Seq(S) /\ Len(a \o b) = Len(a) + Len(b)
      /\ \A k \in 1 .. Len(a) + Len(b) :
           (a \o b)[k] = IF k <= Len(a) THEN a[k] ELSE b[k - Len(a)]
  BY <1>1, <1>2, ConcatProperties
<1>4. ASSUME NEW k \in 1 .. Len(f) - 1
      PROVE  (a \o b)[k] = IF k < j THEN f[k] ELSE f[k + 1]
  <2>1. CASE k < j
    BY <1>0, <1>1, <1>2, <1>3, <2>1
  <2>2. CASE ~(k < j)
    <3>1. (a \o b)[k] = b[k - (j - 1)]
      BY <1>0, <1>1, <1>2, <1>3, <2>2
    <3>2. b[k - (j - 1)] = f[j + (k - (j - 1))]
      <4>1. k - (j - 1) \in 1 .. Len(f) - j
        BY <1>0, <2>2
      <4> QED BY <1>2, <4>1
    <3>3. j + (k - (j - 1)) = k + 1
      BY <1>0
    <3> QED BY <2>2, <3>1, <3>2, <3>3
  <2> QED BY <2>1, <2>2
<1>5. RemoveAt(f, j) = a \o b
  BY DEF RemoveAt, a, b
<1>6. Len(a \o b) = Len(f) - 1
  BY <1>0, <1>1, <1>2, <1>3
<1> QED BY <1>3, <1>4, <1>5, <1>6

LEMMA RemovedMembers ==
  ASSUME NEW f \in Seq(Slots), IsInjective(f), NEW j \in 1 .. Len(f)
  PROVE  /\ IsInjective(RemoveAt(f, j))
         /\ \A x : x \in ToSet(RemoveAt(f, j)) <=> x \in ToSet(f) /\ x # f[j]
<1> DEFINE g == RemoveAt(f, j)
           to(k) == IF k < j THEN k ELSE k + 1
<1>1. /\ g \in Seq(Slots) /\ Len(g) = Len(f) - 1 /\ Len(f) \in Nat
      /\ \A k \in 1 .. Len(f) - 1 : g[k] = IF k < j THEN f[k] ELSE f[k + 1]
  BY Removed
<1> HIDE DEF g
<1>2. \A a, b \in 1 .. Len(f) : f[a] = f[b] => a = b
  BY DEF IsInjective
<1>3. \A k \in 1 .. Len(g) : g[k] = f[to(k)] /\ to(k) \in 1 .. Len(f) /\ to(k) # j
  BY <1>1
<1>4. \A a, b \in 1 .. Len(g) : g[a] = g[b] => a = b
  <2>1. TAKE a, b \in 1 .. Len(g)
  <2>2. HAVE g[a] = g[b]
  <2>3. to(a) = to(b)
    <3> HIDE DEF to
    <3> QED BY <1>2, <1>3, <2>2
  <2> QED BY <2>3
<1>5. IsInjective(g)
  BY <1>1, <1>4 DEF IsInjective
<1>6. ASSUME NEW x PROVE x \in ToSet(g) <=> x \in ToSet(f) /\ x # f[j]
  <2>1. ASSUME x \in ToSet(g) PROVE x \in ToSet(f) /\ x # f[j]
    <3>1. PICK k \in 1 .. Len(g) : g[k] = x
      BY <1>1, <2>1, Members
    <3> HIDE DEF to
    <3>2. f[to(k)] = x /\ to(k) \in 1 .. Len(f) /\ to(k) # j
      BY <1>3, <3>1
    <3> QED BY <1>2, <3>2, Members
  <2>2. ASSUME x \in ToSet(f), x # f[j] PROVE x \in ToSet(g)
    <3>1. PICK k \in 1 .. Len(f) : f[k] = x
      BY <2>2, Members
    <3>2. k # j
      BY <2>2, <3>1
    <3>3. CASE k < j
      <4>1. k \in 1 .. Len(g) /\ g[k] = x
        BY <1>1, <3>1, <3>3
      <4> QED BY <1>1, <4>1, Members
    <3>4. CASE k > j
      <4>1. k - 1 \in 1 .. Len(g) /\ ~(k - 1 < j) /\ (k - 1) + 1 = k
        BY <1>1, <3>4
      <4>2. g[k - 1] = x
        BY <1>1, <3>1, <4>1
      <4> QED BY <1>1, <4>1, <4>2, Members
    <3> QED BY <3>2, <3>3, <3>4
  <2> QED BY <2>1, <2>2
<1> QED BY <1>5, <1>6 DEF g

\* A FIFO: next leads from head to tail and prev leads back.
Linked(o, f, head, tail) ==
  /\ Path(o, f, head) /\ Back(o, f)
  /\ tail = IF Len(f) = 0 THEN NoSlot ELSE f[Len(f)]

\* The links as facts about positions.
LEMMA LinkedFacts ==
  ASSUME NEW o, NEW f, NEW head, NEW tail
  PROVE  Linked(o, f, head, tail) <=>
           /\ f \in Seq(Slots)
           /\ \A i, j \in 1 .. Len(f) : f[i] = f[j] => i = j
           /\ head = IF Len(f) = 0 THEN NoSlot ELSE f[1]
           /\ tail = IF Len(f) = 0 THEN NoSlot ELSE f[Len(f)]
           /\ \A k \in 1 .. Len(f) :
                /\ o[f[k]].next = IF k = Len(f) THEN NoSlot ELSE f[k + 1]
                /\ o[f[k]].prev = IF k = 1 THEN NoSlot ELSE f[k - 1]
BY DEF Linked, Path, Back, IsInjective

LEMMA LinkedSame ==
  ASSUME NEW o, NEW q, NEW f, NEW head, NEW tail, Linked(o, f, head, tail),
         \A k \in 1 .. Len(f) : /\ q[f[k]].next = o[f[k]].next
                                /\ q[f[k]].prev = o[f[k]].prev
  PROVE  Linked(q, f, head, tail)
BY DEF Linked, Path, Back

\* append: the new slot follows the tail.
LEMMA LinkedAppend ==
  ASSUME NEW o, NEW q, NEW f, NEW head, NEW tail, Linked(o, f, head, tail),
         NEW slot \in Slots, slot \notin ToSet(f),
         \A x \in Slots :
           /\ q[x].next = IF x = tail THEN slot ELSE IF x = slot THEN NoSlot ELSE o[x].next
           /\ q[x].prev = IF x = slot THEN tail ELSE o[x].prev
  PROVE  /\ Linked(q, Append(f, slot), IF tail = NoSlot THEN slot ELSE head, slot)
         /\ \A x : x \in ToSet(Append(f, slot)) <=> x \in ToSet(f) \/ x = slot
<1> DEFINE g == Append(f, slot)
           n == Len(f)
<1>1. /\ f \in Seq(Slots)
      /\ \A i, j \in 1 .. n : f[i] = f[j] => i = j
      /\ head = IF n = 0 THEN NoSlot ELSE f[1]
      /\ tail = IF n = 0 THEN NoSlot ELSE f[n]
      /\ \A k \in 1 .. n :
           /\ o[f[k]].next = IF k = n THEN NoSlot ELSE f[k + 1]
           /\ o[f[k]].prev = IF k = 1 THEN NoSlot ELSE f[k - 1]
  BY LinkedFacts
<1>2. /\ n \in Nat /\ \A k \in 1 .. n : f[k] \in Slots /\ f[k] # NoSlot /\ f[k] # slot
      /\ slot # NoSlot
  BY <1>1, Members, SlotsFinite
<1>3. /\ g \in Seq(Slots) /\ Len(g) = n + 1 /\ g[n + 1] = slot
      /\ \A k \in 1 .. n : g[k] = f[k]
  BY <1>1, <1>2
<1> HIDE DEF g, n
<1>4. \A i, j \in 1 .. Len(g) : g[i] = g[j] => i = j
  <2>1. TAKE i, j \in 1 .. Len(g)
  <2>2. HAVE g[i] = g[j]
  <2>3. (i = n + 1 \/ i \in 1 .. n) /\ (j = n + 1 \/ j \in 1 .. n)
    BY <1>2, <1>3
  <2> QED BY <1>1, <1>2, <1>3, <2>2, <2>3
<1>5. ASSUME NEW k \in 1 .. n + 1
      PROVE  /\ q[g[k]].next = IF k = n + 1 THEN NoSlot ELSE g[k + 1]
             /\ q[g[k]].prev = IF k = 1 THEN NoSlot ELSE g[k - 1]
  <2>1. CASE k = n + 1
    <3>1. slot # tail
      BY <1>1, <1>2
    <3>2. q[slot].next = NoSlot /\ q[slot].prev = tail
      BY <3>1
    <3>3. n # 0 => g[k - 1] = f[n] /\ k # 1
      BY <1>2, <1>3, <2>1
    <3>4. n = 0 <=> k = 1
      BY <1>2, <2>1
    <3> QED BY <1>1, <1>3, <2>1, <3>2, <3>3, <3>4
  <2>2. CASE k \in 1 .. n
    <3>1. g[k] = f[k] /\ f[k] \in Slots /\ f[k] # slot /\ k # n + 1
      BY <1>2, <1>3, <2>2
    <3>2. q[f[k]].prev = IF k = 1 THEN NoSlot ELSE f[k - 1]
      BY <1>1, <2>2, <3>1
    <3>3. k # 1 => g[k - 1] = f[k - 1]
      <4>1. k # 1 => k - 1 \in 1 .. n
        BY <1>2, <2>2
      <4> QED BY <1>3, <4>1
    <3>4. CASE k = n
      <4>1. f[k] = tail
        BY <1>1, <1>2, <2>2, <3>4
      <4>2. q[f[k]].next = slot
        BY <3>1, <4>1
      <4> QED BY <1>3, <3>1, <3>2, <3>3, <3>4, <4>2
    <3>5. CASE k # n
      <4>1. f[k] # tail
        BY <1>1, <1>2, <2>2, <3>5
      <4>2. q[f[k]].next = f[k + 1]
        BY <1>1, <2>2, <3>1, <3>5, <4>1
      <4>3. g[k + 1] = f[k + 1]
        BY <1>2, <1>3, <2>2, <3>5
      <4> QED BY <3>1, <3>2, <3>3, <4>2, <4>3
    <3> QED BY <3>4, <3>5
  <2> QED BY <1>2, <2>1, <2>2
<1>6. (IF tail = NoSlot THEN slot ELSE head) = g[1]
  <2>1. CASE n = 0
    BY <1>1, <1>3, <2>1
  <2>2. CASE n # 0
    <3>1. 1 \in 1 .. n /\ n \in 1 .. n
      BY <1>2, <2>2
    <3> QED BY <1>1, <1>2, <1>3, <2>2, <3>1
  <2> QED BY <2>1, <2>2
<1>7. Linked(q, g, IF tail = NoSlot THEN slot ELSE head, slot)
  <2> DEFINE first == IF tail = NoSlot THEN slot ELSE head
  <2>1. /\ first = IF Len(g) = 0 THEN NoSlot ELSE g[1]
        /\ slot = IF Len(g) = 0 THEN NoSlot ELSE g[Len(g)]
    BY <1>2, <1>3, <1>6
  <2>2. \A k \in 1 .. Len(g) :
          /\ q[g[k]].next = IF k = Len(g) THEN NoSlot ELSE g[k + 1]
          /\ q[g[k]].prev = IF k = 1 THEN NoSlot ELSE g[k - 1]
    BY <1>3, <1>5
  <2> HIDE DEF first
  <2>3. Linked(q, g, first, slot)
    BY <1>3, <1>4, <2>1, <2>2, LinkedFacts
  <2> QED BY <2>3 DEF first
<1>8. ASSUME NEW x PROVE x \in ToSet(g) <=> x \in ToSet(f) \/ x = slot
  <2>1. x \in ToSet(g) <=> \E k \in 1 .. n + 1 : g[k] = x
    BY <1>3, Members
  <2>2. x \in ToSet(f) <=> \E k \in 1 .. n : f[k] = x
    BY <1>1, Members DEF n
  <2>3. \A k : k \in 1 .. n + 1 <=> k \in 1 .. n \/ k = n + 1
    BY <1>2
  <2> QED BY <1>3, <2>1, <2>2, <2>3
<1> QED BY <1>7, <1>8 DEF g

\* remove: the links go around the slot.
LEMMA LinkedRemove ==
  ASSUME NEW o, NEW q, NEW f, NEW head, NEW tail, Linked(o, f, head, tail),
         NEW j \in 1 .. Len(f),
         \A x \in Slots \ {f[j]} :
           /\ q[x].next = IF x = o[f[j]].prev THEN o[f[j]].next ELSE o[x].next
           /\ q[x].prev = IF x = o[f[j]].next THEN o[f[j]].prev ELSE o[x].prev
  PROVE  Linked(q, RemoveAt(f, j),
                IF o[f[j]].prev = NoSlot THEN o[f[j]].next ELSE head,
                IF o[f[j]].next = NoSlot THEN o[f[j]].prev ELSE tail)
<1> DEFINE g == RemoveAt(f, j)
           n == Len(f)
           prev == o[f[j]].prev
           next == o[f[j]].next
<1>1. /\ f \in Seq(Slots)
      /\ \A a, b \in 1 .. n : f[a] = f[b] => a = b
      /\ head = IF n = 0 THEN NoSlot ELSE f[1]
      /\ tail = IF n = 0 THEN NoSlot ELSE f[n]
      /\ \A k \in 1 .. n :
           /\ o[f[k]].next = IF k = n THEN NoSlot ELSE f[k + 1]
           /\ o[f[k]].prev = IF k = 1 THEN NoSlot ELSE f[k - 1]
  BY LinkedFacts
<1>2. n \in Nat \ {0} /\ j \in 1 .. n /\ \A k \in 1 .. n : f[k] \in Slots /\ f[k] # NoSlot
  BY <1>1, Members
<1>3. /\ g \in Seq(Slots) /\ Len(g) = n - 1
      /\ \A k \in 1 .. n - 1 : g[k] = IF k < j THEN f[k] ELSE f[k + 1]
  BY <1>1, Removed
<1>4. \A a, b \in 1 .. Len(g) : g[a] = g[b] => a = b
  <2>1. IsInjective(f)
    BY <1>1 DEF IsInjective
  <2>2. IsInjective(g)
    BY <1>1, <2>1, RemovedMembers
  <2> QED BY <1>3, <2>2 DEF IsInjective
<1>5. /\ next = IF j = n THEN NoSlot ELSE f[j + 1]
      /\ prev = IF j = 1 THEN NoSlot ELSE f[j - 1]
  BY <1>1, <1>2
<1>6. \A x \in Slots : x # f[j] =>
        /\ q[x].next = IF x = prev THEN next ELSE o[x].next
        /\ q[x].prev = IF x = next THEN prev ELSE o[x].prev
  OBVIOUS
<1> HIDE DEF g, n, prev, next
<1>7. ASSUME NEW k \in 1 .. n, k # j
      PROVE  /\ f[k] \in Slots /\ f[k] # f[j]
             /\ f[k] = prev <=> k + 1 = j
             /\ f[k] = next <=> k = j + 1
  <2>1. f[k] \in Slots /\ f[k] # f[j] /\ f[k] # NoSlot
    BY <1>1, <1>2, <1>7
  <2>2. f[k] = prev <=> k + 1 = j
    <3>1. CASE j = 1
      BY <1>2, <1>5, <2>1, <3>1
    <3>2. CASE j # 1
      <4>1. j - 1 \in 1 .. n /\ prev = f[j - 1]
        BY <1>2, <1>5, <3>2
      <4>2. f[k] = f[j - 1] <=> k = j - 1
        BY <1>1, <4>1
      <4> QED BY <1>2, <4>1, <4>2
    <3> QED BY <3>1, <3>2
  <2>3. f[k] = next <=> k = j + 1
    <3>1. CASE j = n
      BY <1>2, <1>5, <2>1, <3>1
    <3>2. CASE j # n
      <4>1. j + 1 \in 1 .. n /\ next = f[j + 1]
        BY <1>2, <1>5, <3>2
      <4> QED BY <1>1, <4>1
    <3> QED BY <3>1, <3>2
  <2> QED BY <2>1, <2>2, <2>3
<1>8. ASSUME NEW k \in 1 .. n, k # j
      PROVE  /\ q[f[k]].next = IF k + 1 = j THEN next
                               ELSE IF k = n THEN NoSlot ELSE f[k + 1]
             /\ q[f[k]].prev = IF k = j + 1 THEN prev
                               ELSE IF k = 1 THEN NoSlot ELSE f[k - 1]
  <2>1. /\ f[k] \in Slots /\ f[k] # f[j]
        /\ f[k] = prev <=> k + 1 = j
        /\ f[k] = next <=> k = j + 1
    BY <1>7, <1>8
  <2>2. /\ q[f[k]].next = IF f[k] = prev THEN next ELSE o[f[k]].next
        /\ q[f[k]].prev = IF f[k] = next THEN prev ELSE o[f[k]].prev
    BY <1>6, <2>1
  <2>3. /\ o[f[k]].next = IF k = n THEN NoSlot ELSE f[k + 1]
        /\ o[f[k]].prev = IF k = 1 THEN NoSlot ELSE f[k - 1]
    BY <1>1
  <2> QED BY <2>1, <2>2, <2>3
<1>9. ASSUME NEW k \in 1 .. n - 1
      PROVE  /\ q[g[k]].next = IF k = n - 1 THEN NoSlot ELSE g[k + 1]
             /\ q[g[k]].prev = IF k = 1 THEN NoSlot ELSE g[k - 1]
  <2>1. CASE k < j
    <3>1. k \in 1 .. n /\ k # j /\ g[k] = f[k] /\ k # j + 1
      BY <1>2, <1>3, <2>1
    <3>2. q[g[k]].prev = IF k = 1 THEN NoSlot ELSE f[k - 1]
      BY <1>8, <3>1
    <3>3. k # 1 => g[k - 1] = f[k - 1]
      <4>1. k # 1 => k - 1 \in 1 .. n - 1 /\ k - 1 < j
        BY <1>2, <2>1
      <4> QED BY <1>3, <4>1
    <3>4. CASE k + 1 = j
      <4>1. q[g[k]].next = next
        BY <1>8, <3>1, <3>4
      <4>2. k = n - 1 <=> j = n
        BY <1>2, <3>4
      <4>3. k # n - 1 => g[k + 1] = f[j + 1]
        <5>1. k # n - 1 => k + 1 \in 1 .. n - 1 /\ ~(k + 1 < j)
          BY <1>2, <3>4
        <5> QED BY <1>3, <3>4, <5>1
      <4> QED BY <1>5, <3>2, <3>3, <4>1, <4>2, <4>3
    <3>5. CASE k + 1 # j
      <4>1. k + 1 < j /\ k # n - 1 /\ k # n /\ k + 1 \in 1 .. n - 1
        BY <1>2, <2>1, <3>5
      <4>2. q[g[k]].next = f[k + 1] /\ g[k + 1] = f[k + 1]
        BY <1>3, <1>8, <3>1, <4>1
      <4> QED BY <3>2, <3>3, <4>1, <4>2
    <3> QED BY <3>4, <3>5
  <2>2. CASE ~(k < j)
    <3>1. /\ k + 1 \in 1 .. n /\ k + 1 # j /\ g[k] = f[k + 1] /\ (k + 1) + 1 # j
          /\ k + 1 # 1 /\ (k + 1) - 1 = k
      <4>1. g[k] = f[k + 1]
        BY <1>3, <2>2
      <4> QED BY <1>2, <2>2, <4>1
    <3>2. q[g[k]].next = IF k + 1 = n THEN NoSlot ELSE f[(k + 1) + 1]
      BY <1>8, <3>1
    <3>3. k + 1 = n <=> k = n - 1
      BY <1>2
    <3>4. k # n - 1 => g[k + 1] = f[(k + 1) + 1]
      <4>1. k # n - 1 => k + 1 \in 1 .. n - 1 /\ ~(k + 1 < j)
        BY <1>2, <2>2
      <4> QED BY <1>3, <4>1
    <3>5. q[g[k]].prev = IF k + 1 = j + 1 THEN prev ELSE f[k]
      BY <1>8, <3>1
    <3>6. CASE k = j
      <4>1. q[g[k]].prev = prev /\ (k # 1 => k - 1 \in 1 .. n - 1 /\ k - 1 < j)
        BY <1>2, <3>5, <3>6
      <4>2. k # 1 => g[k - 1] = f[k - 1]
        BY <1>3, <4>1
      <4>3. prev = IF k = 1 THEN NoSlot ELSE f[k - 1]
        BY <1>5, <3>6
      <4> QED BY <3>2, <3>3, <3>4, <4>1, <4>2, <4>3
    <3>7. CASE k # j
      <4>1. /\ q[g[k]].prev = f[k] /\ k # 1
            /\ k - 1 \in 1 .. n - 1 /\ ~(k - 1 < j) /\ (k - 1) + 1 = k
        BY <1>2, <2>2, <3>5, <3>7
      <4>2. g[k - 1] = f[k]
        BY <1>3, <4>1
      <4> QED BY <3>2, <3>3, <3>4, <4>1, <4>2
    <3> QED BY <3>6, <3>7
  <2> QED BY <2>1, <2>2
<1> DEFINE first == IF prev = NoSlot THEN next ELSE head
           last == IF next = NoSlot THEN prev ELSE tail
<1>10. first = IF n - 1 = 0 THEN NoSlot ELSE g[1]
  <2>1. prev = NoSlot <=> j = 1
    <3>1. j # 1 => j - 1 \in 1 .. n
      BY <1>2
    <3> QED BY <1>2, <1>5, <3>1
  <2>2. CASE j = 1
    <3>1. n - 1 # 0 => 1 \in 1 .. n - 1
      BY <1>2
    <3>2. n - 1 # 0 => g[1] = f[1 + 1]
      BY <1>3, <2>2, <3>1
    <3>3. n - 1 = 0 <=> j = n
      BY <1>2, <2>2
    <3> QED BY <1>5, <2>1, <2>2, <3>2, <3>3
  <2>3. CASE j # 1
    <3>1. n - 1 # 0 /\ n # 0 /\ 1 \in 1 .. n - 1 /\ 1 < j
      BY <1>2, <2>3
    <3>2. g[1] = f[1]
      BY <1>3, <3>1
    <3> QED BY <1>1, <2>1, <2>3, <3>1, <3>2
  <2> QED BY <2>2, <2>3
<1>11. last = IF n - 1 = 0 THEN NoSlot ELSE g[n - 1]
  <2>1. next = NoSlot <=> j = n
    <3>1. j # n => j + 1 \in 1 .. n
      BY <1>2
    <3> QED BY <1>2, <1>5, <3>1
  <2>2. CASE j = n
    <3>1. n - 1 # 0 => n - 1 \in 1 .. n - 1 /\ n - 1 < j
      BY <1>2, <2>2
    <3>2. n - 1 # 0 => g[n - 1] = f[n - 1]
      BY <1>3, <3>1
    <3>3. n - 1 = 0 <=> j = 1
      BY <1>2, <2>2
    <3> QED BY <1>5, <2>1, <2>2, <3>2, <3>3
  <2>3. CASE j # n
    <3>1. n - 1 # 0 /\ n # 0 /\ n - 1 \in 1 .. n - 1 /\ ~(n - 1 < j) /\ (n - 1) + 1 = n
      BY <1>2, <2>3
    <3>2. g[n - 1] = f[n]
      BY <1>3, <3>1
    <3> QED BY <1>1, <2>1, <2>3, <3>1, <3>2
  <2> QED BY <2>2, <2>3
<1>12. Linked(q, g, first, last)
  <2>1. \A k \in 1 .. Len(g) :
          /\ q[g[k]].next = IF k = Len(g) THEN NoSlot ELSE g[k + 1]
          /\ q[g[k]].prev = IF k = 1 THEN NoSlot ELSE g[k - 1]
    BY <1>3, <1>9
  <2>2. /\ first = IF Len(g) = 0 THEN NoSlot ELSE g[1]
        /\ last = IF Len(g) = 0 THEN NoSlot ELSE g[Len(g)]
    BY <1>3, <1>10, <1>11
  <2> HIDE DEF first, last
  <2> QED BY <1>3, <1>4, <2>1, <2>2, LinkedFacts
<1> QED BY <1>12 DEF g, prev, next

-----------------------------------------------------------------------------
(* What the pool operations do to each slot.                                 *)

AnySlot == Slots \cup {NoSlot}

\* A record with one field replaced.
LEMMA FieldsReplaced ==
  ASSUME NEW r \in OrderType
  PROVE  /\ \A to \in AnySlot :
              /\ [r EXCEPT !.next = to] \in OrderType
              /\ [r EXCEPT !.next = to].next = to
              /\ [r EXCEPT !.next = to].prev = r.prev
              /\ [r EXCEPT !.next = to].id = r.id
              /\ [r EXCEPT !.next = to].side = r.side
              /\ [r EXCEPT !.next = to].price = r.price
              /\ [r EXCEPT !.next = to].remaining = r.remaining
              /\ [r EXCEPT !.next = to].inUse = r.inUse
         /\ \A to \in AnySlot :
              /\ [r EXCEPT !.prev = to] \in OrderType
              /\ [r EXCEPT !.prev = to].prev = to
              /\ [r EXCEPT !.prev = to].next = r.next
              /\ [r EXCEPT !.prev = to].id = r.id
              /\ [r EXCEPT !.prev = to].side = r.side
              /\ [r EXCEPT !.prev = to].price = r.price
              /\ [r EXCEPT !.prev = to].remaining = r.remaining
              /\ [r EXCEPT !.prev = to].inUse = r.inUse
         /\ \A quantity \in Nat :
              /\ [r EXCEPT !.remaining = quantity] \in OrderType
              /\ [r EXCEPT !.remaining = quantity].remaining = quantity
              /\ [r EXCEPT !.remaining = quantity].next = r.next
              /\ [r EXCEPT !.remaining = quantity].prev = r.prev
              /\ [r EXCEPT !.remaining = quantity].id = r.id
              /\ [r EXCEPT !.remaining = quantity].side = r.side
              /\ [r EXCEPT !.remaining = quantity].price = r.price
              /\ [r EXCEPT !.remaining = quantity].inUse = r.inUse
BY DEF OrderType, AnySlot

LEMMA SetNextEffect ==
  ASSUME NEW o \in [Slots -> OrderType], NEW slot \in AnySlot, NEW to \in AnySlot
  PROVE  /\ SetNext(o, slot, to) \in [Slots -> OrderType]
         /\ \A x \in Slots :
              /\ SetNext(o, slot, to)[x].next = IF x = slot THEN to ELSE o[x].next
              /\ SetNext(o, slot, to)[x].prev = o[x].prev
              /\ SetNext(o, slot, to)[x].id = o[x].id
              /\ SetNext(o, slot, to)[x].side = o[x].side
              /\ SetNext(o, slot, to)[x].price = o[x].price
              /\ SetNext(o, slot, to)[x].remaining = o[x].remaining
              /\ SetNext(o, slot, to)[x].inUse = o[x].inUse
<1>1. CASE slot = NoSlot
  <2>1. SetNext(o, slot, to) = o
    BY <1>1 DEF SetNext
  <2>2. \A x \in Slots : x # slot
    BY <1>1, SlotsFinite
  <2> QED BY <2>1, <2>2
<1>2. CASE slot # NoSlot
  <2>1. slot \in Slots
    BY <1>2 DEF AnySlot
  <2>2. PICK r : r = [o[slot] EXCEPT !.next = to]
    OBVIOUS
  <2>3. o[slot] \in OrderType
    BY <2>1
  <2>4. /\ r \in OrderType /\ r.next = to /\ r.prev = o[slot].prev
        /\ r.id = o[slot].id /\ r.side = o[slot].side /\ r.price = o[slot].price
        /\ r.remaining = o[slot].remaining /\ r.inUse = o[slot].inUse
    BY <2>2, <2>3, FieldsReplaced
  <2>5. SetNext(o, slot, to) = [o EXCEPT ![slot] = r]
    BY <1>2, <2>2 DEF SetNext
  <2>6. PICK q : q = [o EXCEPT ![slot] = r]
    OBVIOUS
  <2>7. /\ q \in [Slots -> OrderType] /\ q[slot] = r
        /\ \A x \in Slots : x # slot => q[x] = o[x]
    BY <2>1, <2>4, <2>6
  <2>8. \A x \in Slots : /\ q[x].next = IF x = slot THEN to ELSE o[x].next
                         /\ q[x].prev = o[x].prev
                         /\ q[x].id = o[x].id
                         /\ q[x].side = o[x].side
                         /\ q[x].price = o[x].price
                         /\ q[x].remaining = o[x].remaining
                         /\ q[x].inUse = o[x].inUse
    BY <2>4, <2>7
  <2> QED BY <2>5, <2>6, <2>7, <2>8
<1> QED BY <1>1, <1>2

LEMMA SetPrevEffect ==
  ASSUME NEW o \in [Slots -> OrderType], NEW slot \in AnySlot, NEW to \in AnySlot
  PROVE  /\ SetPrev(o, slot, to) \in [Slots -> OrderType]
         /\ \A x \in Slots :
              /\ SetPrev(o, slot, to)[x].prev = IF x = slot THEN to ELSE o[x].prev
              /\ SetPrev(o, slot, to)[x].next = o[x].next
              /\ SetPrev(o, slot, to)[x].id = o[x].id
              /\ SetPrev(o, slot, to)[x].side = o[x].side
              /\ SetPrev(o, slot, to)[x].price = o[x].price
              /\ SetPrev(o, slot, to)[x].remaining = o[x].remaining
              /\ SetPrev(o, slot, to)[x].inUse = o[x].inUse
<1>1. CASE slot = NoSlot
  <2>1. SetPrev(o, slot, to) = o
    BY <1>1 DEF SetPrev
  <2>2. \A x \in Slots : x # slot
    BY <1>1, SlotsFinite
  <2> QED BY <2>1, <2>2
<1>2. CASE slot # NoSlot
  <2>1. slot \in Slots
    BY <1>2 DEF AnySlot
  <2>2. PICK r : r = [o[slot] EXCEPT !.prev = to]
    OBVIOUS
  <2>3. o[slot] \in OrderType
    BY <2>1
  <2>4. /\ r \in OrderType /\ r.prev = to /\ r.next = o[slot].next
        /\ r.id = o[slot].id /\ r.side = o[slot].side /\ r.price = o[slot].price
        /\ r.remaining = o[slot].remaining /\ r.inUse = o[slot].inUse
    BY <2>2, <2>3, FieldsReplaced
  <2>5. SetPrev(o, slot, to) = [o EXCEPT ![slot] = r]
    BY <1>2, <2>2 DEF SetPrev
  <2>6. PICK q : q = [o EXCEPT ![slot] = r]
    OBVIOUS
  <2>7. /\ q \in [Slots -> OrderType] /\ q[slot] = r
        /\ \A x \in Slots : x # slot => q[x] = o[x]
    BY <2>1, <2>4, <2>6
  <2>8. \A x \in Slots : /\ q[x].prev = IF x = slot THEN to ELSE o[x].prev
                         /\ q[x].next = o[x].next
                         /\ q[x].id = o[x].id
                         /\ q[x].side = o[x].side
                         /\ q[x].price = o[x].price
                         /\ q[x].remaining = o[x].remaining
                         /\ q[x].inUse = o[x].inUse
    BY <2>4, <2>7
  <2> QED BY <2>5, <2>6, <2>7, <2>8
<1> QED BY <1>1, <1>2

\* An order that a caller may pass to insert.
OrderArguments == [id : Ids, side : Sides, price : Nat, remaining : Quantities \cup {0}]

\* append, field by field.
Appended(q, o, slot, tail) ==
  /\ q \in [Slots -> OrderType]
  /\ \A x \in Slots :
       /\ q[x].next = IF x = tail THEN slot
                      ELSE IF x = slot THEN NoSlot ELSE orders[x].next
       /\ q[x].prev = IF x = slot THEN tail ELSE orders[x].prev
  /\ /\ q[slot].id = o.id /\ q[slot].side = o.side /\ q[slot].price = o.price
     /\ q[slot].remaining = o.remaining /\ q[slot].inUse = TRUE
  /\ \A x \in Slots \ {slot} :
       /\ q[x].id = orders[x].id /\ q[x].side = orders[x].side
       /\ q[x].price = orders[x].price /\ q[x].remaining = orders[x].remaining
       /\ q[x].inUse = orders[x].inUse

LEMMA AppendEffect ==
  ASSUME orders \in [Slots -> OrderType],
         NEW o \in OrderArguments, o.price \in Prices,
         NEW slot \in Slots, NEW tail \in AnySlot, tail # slot
  PROVE  Appended(SetNext(SetPrev(Emplaced(slot, o), slot, tail), tail, slot), o, slot, tail)
<1>1. PICK r : r = [id |-> o.id, side |-> o.side, price |-> o.price,
                    remaining |-> o.remaining, prev |-> NoSlot,
                    next |-> NoSlot, inUse |-> TRUE]
  OBVIOUS
<1>2. /\ r \in OrderType /\ r.id = o.id /\ r.side = o.side /\ r.price = o.price
      /\ r.remaining = o.remaining /\ r.prev = NoSlot /\ r.next = NoSlot /\ r.inUse = TRUE
  <2>1. o.remaining \in Nat
    <3>1. o.remaining \in Quantities \cup {0}
      BY DEF OrderArguments
    <3>2. PICK quantity : quantity = o.remaining
      OBVIOUS
    <3>3. quantity \in Nat
      BY <3>1, <3>2, QuantitiesPositive
    <3> QED BY <3>2, <3>3
  <2> QED BY <1>1, <2>1 DEF OrderType, OrderArguments
<1>3. PICK e : e = [orders EXCEPT ![slot] = r]
  OBVIOUS
<1>4. Emplaced(slot, o) = e
  BY <1>1, <1>3 DEF Emplaced
<1>5. /\ e \in [Slots -> OrderType] /\ e[slot] = r
      /\ \A x \in Slots : x # slot => e[x] = orders[x]
  BY <1>2, <1>3
<1>6. PICK p : p = SetPrev(e, slot, tail)
  OBVIOUS
<1>7. slot \in AnySlot
  BY DEF AnySlot
<1>8. /\ p \in [Slots -> OrderType]
      /\ \A x \in Slots :
           /\ p[x].prev = IF x = slot THEN tail ELSE e[x].prev
           /\ p[x].next = e[x].next
           /\ p[x].id = e[x].id
           /\ p[x].side = e[x].side
           /\ p[x].price = e[x].price
           /\ p[x].remaining = e[x].remaining
           /\ p[x].inUse = e[x].inUse
  BY <1>5, <1>6, <1>7, SetPrevEffect
<1>9. PICK q : q = SetNext(p, tail, slot)
  OBVIOUS
<1>10. /\ q \in [Slots -> OrderType]
       /\ \A x \in Slots :
            /\ q[x].next = IF x = tail THEN slot ELSE p[x].next
            /\ q[x].prev = p[x].prev
            /\ q[x].id = p[x].id
            /\ q[x].side = p[x].side
            /\ q[x].price = p[x].price
            /\ q[x].remaining = p[x].remaining
            /\ q[x].inUse = p[x].inUse
  BY <1>7, <1>8, <1>9, SetNextEffect
<1>11. \A x \in Slots :
         /\ q[x].next = IF x = tail THEN slot ELSE e[x].next
         /\ q[x].prev = IF x = slot THEN tail ELSE e[x].prev
         /\ q[x].id = e[x].id
         /\ q[x].side = e[x].side
         /\ q[x].price = e[x].price
         /\ q[x].remaining = e[x].remaining
         /\ q[x].inUse = e[x].inUse
  BY <1>8, <1>10
<1>12. \A x \in Slots \ {slot} : e[x] = orders[x]
  BY <1>5
<1>13. \A x \in Slots :
         /\ e[x].next = IF x = slot THEN NoSlot ELSE orders[x].next
         /\ x # slot => e[x].prev = orders[x].prev
  BY <1>2, <1>5
<1>14. \A x \in Slots :
         /\ q[x].next = IF x = tail THEN slot
                        ELSE IF x = slot THEN NoSlot ELSE orders[x].next
         /\ q[x].prev = IF x = slot THEN tail ELSE orders[x].prev
  BY <1>11, <1>13
<1>15. /\ q[slot].id = o.id /\ q[slot].side = o.side /\ q[slot].price = o.price
       /\ q[slot].remaining = o.remaining /\ q[slot].inUse = TRUE
  BY <1>2, <1>5, <1>11
<1>16. \A x \in Slots \ {slot} :
         /\ q[x].id = orders[x].id /\ q[x].side = orders[x].side
         /\ q[x].price = orders[x].price /\ q[x].remaining = orders[x].remaining
         /\ q[x].inUse = orders[x].inUse
  BY <1>11, <1>12
<1>17. Appended(q, o, slot, tail)
  BY <1>10, <1>14, <1>15, <1>16 DEF Appended
<1> QED BY <1>4, <1>6, <1>9, <1>17

\* remove and release, field by field.
Erased(q, slot) ==
  /\ q \in [Slots -> OrderType]
  /\ \A x \in Slots \ {slot} :
       /\ q[x].next = IF x = orders[slot].prev THEN orders[slot].next ELSE orders[x].next
       /\ q[x].prev = IF x = orders[slot].next THEN orders[slot].prev ELSE orders[x].prev
       /\ q[x].id = orders[x].id /\ q[x].side = orders[x].side
       /\ q[x].price = orders[x].price /\ q[x].remaining = orders[x].remaining
       /\ q[x].inUse = orders[x].inUse
  /\ q[slot].next = freeHead /\ q[slot].inUse = FALSE

LEMMA RemoveEffect ==
  ASSUME orders \in [Slots -> OrderType], freeHead \in AnySlot, NEW slot \in Slots
  PROVE  Erased([Unlinked(orders[slot]) EXCEPT ![slot] = FreeOrder(freeHead)], slot)
<1>1. PICK o : o = orders[slot]
  OBVIOUS
<1>2. o \in OrderType /\ o.next \in AnySlot /\ o.prev \in AnySlot
  BY <1>1 DEF OrderType, AnySlot
<1>3. PICK e : e = SetNext(orders, o.prev, o.next)
  OBVIOUS
<1>4. /\ e \in [Slots -> OrderType]
      /\ \A x \in Slots :
           /\ e[x].next = IF x = o.prev THEN o.next ELSE orders[x].next
           /\ e[x].prev = orders[x].prev
           /\ e[x].id = orders[x].id
           /\ e[x].side = orders[x].side
           /\ e[x].price = orders[x].price
           /\ e[x].remaining = orders[x].remaining
           /\ e[x].inUse = orders[x].inUse
  BY <1>2, <1>3, SetNextEffect
<1>5. PICK p : p = SetPrev(e, o.next, o.prev)
  OBVIOUS
<1>6. /\ p \in [Slots -> OrderType]
      /\ \A x \in Slots :
           /\ p[x].prev = IF x = o.next THEN o.prev ELSE e[x].prev
           /\ p[x].next = e[x].next
           /\ p[x].id = e[x].id
           /\ p[x].side = e[x].side
           /\ p[x].price = e[x].price
           /\ p[x].remaining = e[x].remaining
           /\ p[x].inUse = e[x].inUse
  BY <1>2, <1>4, <1>5, SetPrevEffect
<1>7. p = Unlinked(orders[slot])
  BY <1>1, <1>3, <1>5 DEF Unlinked
<1>8. PICK r : r = FreeOrder(freeHead)
  OBVIOUS
<1>9. r \in OrderType /\ r.next = freeHead /\ r.inUse = FALSE
  BY <1>8 DEF FreeOrder, OrderType, Sides, AnySlot
<1>10. PICK q : q = [p EXCEPT ![slot] = r]
  OBVIOUS
<1>11. /\ q \in [Slots -> OrderType] /\ q[slot] = r
       /\ \A x \in Slots \ {slot} : q[x] = p[x]
  BY <1>6, <1>9, <1>10
<1>12. \A x \in Slots \ {slot} :
         /\ p[x].next = IF x = o.prev THEN o.next ELSE orders[x].next
         /\ p[x].prev = IF x = o.next THEN o.prev ELSE orders[x].prev
         /\ p[x].id = orders[x].id /\ p[x].side = orders[x].side
         /\ p[x].price = orders[x].price /\ p[x].remaining = orders[x].remaining
         /\ p[x].inUse = orders[x].inUse
  BY <1>4, <1>6
<1>13. \A x \in Slots \ {slot} :
         /\ q[x].next = IF x = o.prev THEN o.next ELSE orders[x].next
         /\ q[x].prev = IF x = o.next THEN o.prev ELSE orders[x].prev
         /\ q[x].id = orders[x].id /\ q[x].side = orders[x].side
         /\ q[x].price = orders[x].price /\ q[x].remaining = orders[x].remaining
         /\ q[x].inUse = orders[x].inUse
  BY <1>11, <1>12
<1>14. Erased(q, slot)
  BY <1>1, <1>9, <1>11, <1>13 DEF Erased
<1> QED BY <1>7, <1>8, <1>10, <1>14

-----------------------------------------------------------------------------
(* The inductive invariant.  The sequences it speaks of, the free list and the *)
(* FIFOs, are what the links mean: each link, cached end, counter and bitmap   *)
(* is a function of them and of the orders.                                   *)

PoolInv(free) ==
  /\ Path(orders, free, freeHead) /\ freeCount = Len(free)
  /\ \A x \in Slots : x \in ToSet(free) <=> ~orders[x].inUse
  /\ Len(free) + Cardinality(InUse) = MaxOrders

LevelInv(f, s, p) ==
  /\ Linked(orders, f, levels[s][p].head, levels[s][p].tail)
  /\ levels[s][p].count = Len(f) /\ levels[s][p].quantity = SumRemaining(f)
  /\ \A x \in Slots : x \in ToSet(f) <=> /\ orders[x].inUse
                                         /\ orders[x].side = s /\ orders[x].price = p

Indexed == {id \in Ids : index[id] # NoSlot}

IndexInv ==
  /\ \A x \in Slots : orders[x].inUse =>
       /\ orders[x].id \in Ids /\ index[orders[x].id] = x
       /\ orders[x].price \in Prices /\ orders[x].remaining \in Quantities
  /\ \A id \in Ids : index[id] # NoSlot =>
       orders[index[id]].inUse /\ orders[index[id]].id = id
  /\ IsFiniteSet(Indexed) /\ Cardinality(Indexed) = count["Bid"] + count["Ask"]

OrdersOf(s) == {x \in InUse : orders[x].side = s}

SideInv(s) ==
  /\ \A g \in Segments : active[s][g] = {p \in Prices : /\ levels[s][p].count # 0
                                                        /\ SegmentOf(p) = g}
  /\ occupied[s] = {g \in Segments : active[s][g] # {}}
  /\ best[s] = Extreme(s, occupied[s])
  /\ count[s] = Cardinality(OrdersOf(s))
  /\ count[s] = Sum([k \in LevelNumbers |-> levels[s][MinPrice + k - 1].count])
  /\ total[s] = Sum([k \in LevelNumbers |-> levels[s][MinPrice + k - 1].quantity])

RestoreInv ==
  /\ image \in Seq(OrderArguments) /\ Len(image) <= MaxOrders
  /\ image # <<>> => restored < Len(image)

FifoTable == [Sides -> [Prices -> Seq(Slots)]]

BookInv(free, fifos) ==
  /\ PoolInv(free) /\ IndexInv
  /\ \A s \in Sides : SideInv(s) /\ \A p \in Prices : LevelInv(fifos[s][p], s, p)

IInv == /\ TypeOK /\ RestoreInv
        /\ \E free \in Seq(Slots), fifos \in FifoTable : BookInv(free, fifos)

-----------------------------------------------------------------------------
(* The invariant holds in an empty book.                                     *)

\* One entry of a table of tables is replaced.
LEMMA EntryReplaced ==
  ASSUME NEW A, NEW B, NEW V, NEW L \in [A -> [B -> V]], NEW a \in A, NEW b \in B, NEW v
  PROVE  /\ [L EXCEPT ![a][b] = v][a][b] = v
         /\ \A c \in A, d \in B : c # a \/ d # b => [L EXCEPT ![a][b] = v][c][d] = L[c][d]
         /\ v \in V => [L EXCEPT ![a][b] = v] \in [A -> [B -> V]]
<1>1. PICK row : row = [L[a] EXCEPT ![b] = v]
  OBVIOUS
<1>2. L[a] \in [B -> V]
  OBVIOUS
<1>3. /\ row[b] = v /\ \A d \in B : d # b => row[d] = L[a][d]
      /\ v \in V => row \in [B -> V]
  BY <1>1, <1>2
<1>4. PICK M : M = [L EXCEPT ![a] = row]
  OBVIOUS
<1>5. [L EXCEPT ![a][b] = v] = M
  BY <1>1, <1>4
<1>6. M[a] = row /\ \A c \in A : c # a => M[c] = L[c]
  BY <1>4
<1>7. v \in V => M \in [A -> [B -> V]]
  BY <1>3, <1>4
<1> QED BY <1>3, <1>5, <1>6, <1>7

FullList == [k \in 1 .. MaxOrders |-> k - 1]

LEMMA EmptyPool ==
  ASSUME NEW o, o = [slot \in Slots |-> FreeOrder(slot + 1)]
  PROVE  /\ FullList \in Seq(Slots) /\ Len(FullList) = MaxOrders
         /\ Path(o, FullList, 0)
         /\ \A x \in Slots : x \in ToSet(FullList) /\ ~o[x].inUse
         /\ o \in [Slots -> OrderType]
<1> DEFINE f == FullList
<1>1. MaxOrders \in Nat
  BY BookAssumption
<1>2. f \in Seq(Slots) /\ Len(f) = MaxOrders /\ \A k \in 1 .. MaxOrders : f[k] = k - 1
  BY <1>1 DEF FullList, Slots
<1>3. \A x \in Slots : o[x].next = x + 1 /\ o[x].inUse = FALSE
  BY DEF FreeOrder
<1>4. \A k \in 1 .. MaxOrders : k - 1 \in Slots
  BY <1>1 DEF Slots
<1> HIDE DEF f
<1>5. Path(o, f, 0)
  <2>1. IsInjective(f)
    BY <1>1, <1>2 DEF IsInjective
  <2>2. 0 = IF Len(f) = 0 THEN NoSlot ELSE f[1]
    BY <1>1, <1>2 DEF NoSlot
  <2>3. ASSUME NEW k \in 1 .. Len(f)
        PROVE  o[f[k]].next = IF k = Len(f) THEN NoSlot ELSE f[k + 1]
    <3>1. o[f[k]].next = k
      BY <1>1, <1>2, <1>3, <1>4
    <3> QED BY <1>1, <1>2, <3>1 DEF NoSlot
  <2> QED BY <1>2, <2>1, <2>2, <2>3 DEF Path
<1>6. ASSUME NEW x \in Slots PROVE x \in ToSet(f)
  <2>1. x + 1 \in 1 .. Len(f) /\ f[x + 1] = x
    BY <1>1, <1>2 DEF Slots
  <2> QED BY <1>2, <2>1, Members
<1>7. ASSUME NEW x \in Slots PROVE FreeOrder(x + 1) \in OrderType
  BY <1>1 DEF FreeOrder, OrderType, Sides, Slots, NoSlot
<1>8. o \in [Slots -> OrderType]
  <2> HIDE DEF OrderType
  <2> QED BY <1>7
<1> QED BY <1>2, <1>3, <1>5, <1>6, <1>8 DEF f

LEMMA EmptyFifo ==
  ASSUME NEW o
  PROVE  Linked(o, <<>>, NoSlot, NoSlot)
BY DEF Linked, Path, Back, IsInjective

LEMMA LevelNumbering ==
  /\ MaxPrice - MinPrice + 1 \in Nat /\ LevelNumbers = 1 .. MaxPrice - MinPrice + 1
  /\ \A k \in LevelNumbers : MinPrice + k - 1 \in Prices
  /\ \A p \in Prices : p - MinPrice + 1 \in LevelNumbers /\ MinPrice + (p - MinPrice + 1) - 1 = p
  /\ Prices \subseteq Nat
BY BookAssumption DEF LevelNumbers, Prices

NoFifos == [s \in Sides |-> [p \in Prices |-> <<>>]]

EmptyBook ==
  /\ orders = [slot \in Slots |-> FreeOrder(slot + 1)]
  /\ freeHead = 0 /\ freeCount = MaxOrders
  /\ index = [id \in Ids |-> NoSlot]
  /\ levels = [s \in Sides |-> [p \in Prices |-> EmptyLevel]]
  /\ active = [s \in Sides |-> [g \in Segments |-> {}]]
  /\ occupied = [s \in Sides |-> {}]
  /\ best = [s \in Sides |-> NoSegment]
  /\ count = [s \in Sides |-> 0] /\ total = [s \in Sides |-> 0]
  /\ restored \in 0 .. MaxOrders /\ own \in BOOLEAN

LEMMA EmptyBookInvariant == EmptyBook => TypeOK /\ BookInv(FullList, NoFifos)
<1> SUFFICES ASSUME EmptyBook PROVE TypeOK /\ BookInv(FullList, NoFifos)
  OBVIOUS
<1> USE DEF EmptyBook
<1>1. /\ FullList \in Seq(Slots) /\ Len(FullList) = MaxOrders
      /\ Path(orders, FullList, 0)
      /\ \A x \in Slots : x \in ToSet(FullList) /\ ~orders[x].inUse
      /\ orders \in [Slots -> OrderType]
  BY EmptyPool
<1>2. InUse = {} /\ \A s \in Sides : OrdersOf(s) = {}
  BY <1>1 DEF InUse, OrdersOf
<1>3. Indexed = {}
  BY DEF Indexed
<1>4. \A s \in Sides, p \in Prices : levels[s][p] = EmptyLevel
  OBVIOUS
<1>5. PoolInv(FullList)
  BY <1>1, <1>2, FS_EmptySet, BookAssumption DEF PoolInv
<1>6. IndexInv
  <2>1. Cardinality(Indexed) = count["Bid"] + count["Ask"] /\ IsFiniteSet(Indexed)
    BY <1>3, FS_EmptySet DEF Sides
  <2> QED BY <1>1, <2>1 DEF IndexInv
<1>7. ASSUME NEW s \in Sides, NEW p \in Prices PROVE LevelInv(<<>>, s, p)
  <2>1. Linked(orders, <<>>, levels[s][p].head, levels[s][p].tail)
    BY <1>4, EmptyFifo DEF EmptyLevel
  <2>2. SumRemaining(<<>>) = 0
    <3> DEFINE f == [k \in DOMAIN <<>> |-> orders[<<>>[k]].remaining]
    <3>1. 0 \in Nat /\ f \in [1 .. 0 -> Int] /\ \A k \in 1 .. 0 : f[k] = 0
      OBVIOUS
    <3> HIDE DEF f
    <3>2. Sum(f) = 0
      BY <3>1, SumZero
    <3> QED BY <3>2 DEF SumRemaining, f
  <2>3. \A x \in Slots : x \notin ToSet(<<>>)
    BY DEF ToSet
  <2> QED BY <1>1, <1>4, <2>1, <2>2, <2>3 DEF LevelInv, EmptyLevel
<1>8. ASSUME NEW s \in Sides PROVE SideInv(s)
  <2>1. /\ \A g \in Segments : active[s][g] = {} /\ occupied[s] = {}
        /\ best[s] = NoSegment /\ count[s] = 0 /\ total[s] = 0
    OBVIOUS
  <2>2. \A p \in Prices : levels[s][p].count = 0 /\ levels[s][p].quantity = 0
    BY <1>4 DEF EmptyLevel
  <2>3. /\ Sum([k \in LevelNumbers |-> levels[s][MinPrice + k - 1].count]) = 0
        /\ Sum([k \in LevelNumbers |-> levels[s][MinPrice + k - 1].quantity]) = 0
    <3> DEFINE a == [k \in LevelNumbers |-> levels[s][MinPrice + k - 1].count]
               b == [k \in LevelNumbers |-> levels[s][MinPrice + k - 1].quantity]
    <3>0. \A k \in LevelNumbers : /\ levels[s][MinPrice + k - 1].count = 0
                                  /\ levels[s][MinPrice + k - 1].quantity = 0
      BY <2>2, LevelNumbering
    <3>1. /\ a \in [1 .. MaxPrice - MinPrice + 1 -> Int]
          /\ b \in [1 .. MaxPrice - MinPrice + 1 -> Int]
          /\ \A k \in 1 .. MaxPrice - MinPrice + 1 : a[k] = 0 /\ b[k] = 0
      BY <3>0 DEF LevelNumbers
    <3> HIDE DEF a, b
    <3>2. Sum(a) = 0 /\ Sum(b) = 0
      BY <3>1, LevelNumbering, SumZero
    <3> QED BY <3>2 DEF a, b
  <2>4. occupied[s] = {g \in Segments : active[s][g] # {}}
    BY <2>1
  <2>5. \A g \in Segments : active[s][g] = {p \in Prices : /\ levels[s][p].count # 0
                                                          /\ SegmentOf(p) = g}
    BY <2>1, <2>2
  <2>6. best[s] = Extreme(s, occupied[s])
    BY <2>1, ExtremeOfNone
  <2>7. count[s] = Cardinality(OrdersOf(s))
    BY <1>2, <2>1, FS_EmptySet
  <2> QED BY <2>1, <2>3, <2>4, <2>5, <2>6, <2>7 DEF SideInv
<1>9. BookInv(FullList, NoFifos)
  BY <1>5, <1>6, <1>7, <1>8 DEF BookInv, NoFifos
<1>10. TypeOK
  <2>1. EmptyLevel \in LevelType
    BY SlotsFinite DEF EmptyLevel, LevelType
  <2>2. 0 \in Slots \cup {NoSlot} /\ MaxOrders \in 0 .. MaxOrders
    BY BookAssumption DEF Slots, NoSlot
  <2>3. /\ freeHead \in Slots \cup {NoSlot} /\ freeCount \in 0 .. MaxOrders
        /\ index \in [Ids -> Slots \cup {NoSlot}]
    BY <2>2
  <2>4. levels \in [Sides -> [Prices -> LevelType]]
    BY <2>1
  <2>5. /\ active \in [Sides -> [Segments -> SUBSET Prices]]
        /\ occupied \in [Sides -> SUBSET Segments]
        /\ best \in [Sides -> Segments \cup {NoSegment}]
    OBVIOUS
  <2>6. /\ count \in [Sides -> Nat] /\ total \in [Sides -> Nat]
    OBVIOUS
  <2>7. restored \in 0 .. MaxOrders /\ own \in BOOLEAN
    OBVIOUS
  <2> HIDE DEF EmptyBook
  <2> QED BY <1>1, <2>3, <2>4, <2>5, <2>6, <2>7 DEF TypeOK
<1> QED BY <1>9, <1>10

LEMMA EmptyBookNext == EmptyBook' => TypeOK' /\ BookInv(FullList, NoFifos)'
BY EmptyBookInvariant, PTL

LEMMA NoFifosType == FullList \in Seq(Slots) /\ NoFifos \in FifoTable
<1>1. PICK o : o = [slot \in Slots |-> FreeOrder(slot + 1)]
  OBVIOUS
<1> QED BY <1>1, EmptyPool DEF NoFifos, FifoTable

LEMMA InitInvariant == Init => IInv
<1> SUFFICES ASSUME Init PROVE IInv
  OBVIOUS
<1>1. EmptyBook
  <2>1. restored = 0 /\ 0 \in 0 .. MaxOrders /\ own = FALSE
    BY BookAssumption DEF Init
  <2> QED BY <2>1 DEF Init, EmptyBook
<1>2. RestoreInv
  BY BookAssumption DEF Init, RestoreInv
<1> QED BY <1>1, <1>2, EmptyBookInvariant, NoFifosType DEF IInv

LEMMA ClearedInvariant ==
  ASSUME Cleared, restored' \in 0 .. MaxOrders, own' \in BOOLEAN, RestoreInv'
  PROVE  IInv'
<1>1. EmptyBook'
  BY DEF Cleared, InitializeFreelist, ClearSides, EmptyBook
<1> QED BY <1>1, EmptyBookNext, NoFifosType DEF IInv

-----------------------------------------------------------------------------
(* insert keeps the invariant.                                               *)

LEMMA AcceptedFacts ==
  ASSUME NEW o, Accepts(o)
  PROVE  /\ o.remaining # 0 /\ o.price \in Prices
         /\ index[o.id] = NoSlot /\ freeHead # NoSlot
<1>1. InsertStatus(o) = "Ok"
  BY DEF Accepts
<1>2. /\ ~(o.remaining = 0) /\ ~(o.price \notin Prices)
      /\ ~(index[o.id] # NoSlot) /\ ~(freeHead = NoSlot)
  BY <1>1 DEF InsertStatus
<1> QED BY <1>2

\* An accepted order o is appended to a book that satisfies the invariant.
Appending(o, free, fifos) ==
  /\ TypeOK /\ free \in Seq(Slots) /\ fifos \in FifoTable /\ BookInv(free, fifos)
  /\ o \in OrderArguments /\ Accepts(o) /\ AppendOrder(o)

Tails(o) == levels[o.side][o.price].tail

\* The types of the parts of the state that the operations read.
LEMMA TypeFacts ==
  ASSUME TypeOK
  PROVE  /\ orders \in [Slots -> OrderType]
         /\ \A x \in Slots : /\ orders[x] \in OrderType
                             /\ orders[x].next \in AnySlot /\ orders[x].prev \in AnySlot
                             /\ orders[x].remaining \in Nat /\ orders[x].side \in Sides
                             /\ orders[x].inUse \in BOOLEAN
         /\ freeHead \in AnySlot /\ freeCount \in 0 .. MaxOrders
         /\ index \in [Ids -> AnySlot]
         /\ levels \in [Sides -> [Prices -> LevelType]]
         /\ \A s \in Sides, p \in Prices :
              /\ levels[s][p] \in LevelType
              /\ levels[s][p].head \in AnySlot /\ levels[s][p].tail \in AnySlot
              /\ levels[s][p].quantity \in Nat /\ levels[s][p].count \in Nat
         /\ active \in [Sides -> [Segments -> SUBSET Prices]]
         /\ occupied \in [Sides -> SUBSET Segments]
         /\ best \in [Sides -> Segments \cup {NoSegment}]
         /\ count \in [Sides -> Nat] /\ total \in [Sides -> Nat]
<1>1. \A r \in OrderType : /\ r.next \in AnySlot /\ r.prev \in AnySlot
                           /\ r.remaining \in Nat /\ r.side \in Sides /\ r.inUse \in BOOLEAN
  BY DEF OrderType, AnySlot
<1>2. \A r \in LevelType : /\ r.head \in AnySlot /\ r.tail \in AnySlot
                           /\ r.quantity \in Nat /\ r.count \in Nat
  BY DEF LevelType, AnySlot
<1> HIDE DEF OrderType, LevelType
<1>3. /\ orders \in [Slots -> OrderType] /\ levels \in [Sides -> [Prices -> LevelType]]
      /\ freeHead \in AnySlot /\ index \in [Ids -> AnySlot]
  BY DEF TypeOK, AnySlot
<1>4. \A x \in Slots : orders[x] \in OrderType
  BY <1>3
<1>5. \A s \in Sides, p \in Prices : levels[s][p] \in LevelType
  BY <1>3
<1>6. /\ freeCount \in 0 .. MaxOrders
      /\ active \in [Sides -> [Segments -> SUBSET Prices]]
      /\ occupied \in [Sides -> SUBSET Segments]
      /\ best \in [Sides -> Segments \cup {NoSegment}]
      /\ count \in [Sides -> Nat] /\ total \in [Sides -> Nat]
  BY DEF TypeOK
<1> QED BY <1>1, <1>2, <1>3, <1>4, <1>5, <1>6

\* The slots that append writes to: one that was free, and the tail of the level.
LEMMA AppendSlots ==
  ASSUME NEW o, NEW free, NEW fifos, Appending(o, free, fifos)
  PROVE  /\ o.side \in Sides /\ o.price \in Prices /\ o.id \in Ids
         /\ o.remaining \in Nat /\ o.remaining \in Quantities /\ index[o.id] = NoSlot
         /\ freeHead \in Slots /\ ~orders[freeHead].inUse /\ Len(free) # 0
         /\ Tails(o) \in AnySlot /\ Tails(o) # freeHead
         /\ Tails(o) # NoSlot => /\ Tails(o) \in Slots /\ orders[Tails(o)].inUse
                                 /\ orders[Tails(o)].side = o.side
                                 /\ orders[Tails(o)].price = o.price
<1>1. /\ o.side \in Sides /\ o.price \in Prices /\ o.id \in Ids
      /\ o.remaining \in Nat /\ o.remaining \in Quantities /\ index[o.id] = NoSlot
      /\ freeHead # NoSlot
  BY AcceptedFacts, BookAssumption DEF Appending, OrderArguments
<1>2. /\ PoolInv(free) /\ TypeOK
      /\ LevelInv(fifos[o.side][o.price], o.side, o.price)
      /\ fifos[o.side][o.price] \in Seq(Slots) /\ free \in Seq(Slots)
  BY <1>1 DEF Appending, BookInv, FifoTable
<1>3. /\ Path(orders, free, freeHead) /\ \A x \in Slots : x \in ToSet(free) => ~orders[x].inUse
  BY <1>2 DEF PoolInv
<1>4. Len(free) # 0
  BY <1>1, <1>3 DEF Path
<1>5. freeHead \in Slots
  BY <1>3, <1>4, PathPop
<1>6. freeHead \in ToSet(free)
  <2>1. freeHead = free[1] /\ 1 \in 1 .. Len(free)
    BY <1>2, <1>3, <1>4, Members DEF Path
  <2> QED BY <1>2, <2>1, Members
<1>7. PICK f \in Seq(Slots) : f = fifos[o.side][o.price]
  BY <1>2
<1>8. /\ Tails(o) = IF Len(f) = 0 THEN NoSlot ELSE f[Len(f)]
      /\ \A x \in Slots : x \in ToSet(f) => /\ orders[x].inUse /\ orders[x].side = o.side
                                            /\ orders[x].price = o.price
  BY <1>2, <1>7 DEF LevelInv, Linked, Tails
<1>9. CASE Len(f) = 0
  <2>1. Tails(o) = NoSlot
    BY <1>8, <1>9
  <2> QED BY <1>1, <1>3, <1>4, <1>5, <1>6, <2>1 DEF AnySlot
<1>10. CASE Len(f) # 0
  <2>1. Tails(o) = f[Len(f)] /\ Len(f) \in 1 .. Len(f)
    BY <1>8, <1>10, Members
  <2>2. Tails(o) \in Slots /\ Tails(o) \in ToSet(f)
    BY <2>1, Members
  <2> QED BY <1>1, <1>3, <1>4, <1>5, <1>6, <1>8, <2>2 DEF AnySlot
<1> QED BY <1>9, <1>10

\* What append does to the pool.
LEMMA AppendOrders ==
  ASSUME NEW o, NEW free, NEW fifos, Appending(o, free, fifos)
  PROVE  /\ orders' \in [Slots -> OrderType]
         /\ \A x \in Slots :
              /\ orders'[x].next = IF x = Tails(o) THEN freeHead
                                   ELSE IF x = freeHead THEN NoSlot ELSE orders[x].next
              /\ orders'[x].prev = IF x = freeHead THEN Tails(o) ELSE orders[x].prev
         /\ /\ orders'[freeHead].id = o.id /\ orders'[freeHead].side = o.side
            /\ orders'[freeHead].price = o.price
            /\ orders'[freeHead].remaining = o.remaining
            /\ orders'[freeHead].inUse = TRUE
         /\ \A x \in Slots \ {freeHead} :
              /\ orders'[x].id = orders[x].id /\ orders'[x].side = orders[x].side
              /\ orders'[x].price = orders[x].price
              /\ orders'[x].remaining = orders[x].remaining
              /\ orders'[x].inUse = orders[x].inUse
<1>1. /\ o.price \in Prices /\ freeHead \in Slots
      /\ Tails(o) \in AnySlot /\ Tails(o) # freeHead
  BY AppendSlots
<1>2. orders' = SetNext(SetPrev(Emplaced(freeHead, o), freeHead, Tails(o)), Tails(o), freeHead)
  BY DEF Appending, AppendOrder, AppendToSide, Tails
<1>3. o \in OrderArguments /\ orders \in [Slots -> OrderType]
  BY TypeFacts DEF Appending
<1>4. Appended(SetNext(SetPrev(Emplaced(freeHead, o), freeHead, Tails(o)), Tails(o), freeHead),
               o, freeHead, Tails(o))
  BY <1>1, <1>3, AppendEffect
<1>5. Appended(orders', o, freeHead, Tails(o))
  BY <1>2, <1>4
<1> QED BY <1>5 DEF Appended

LEMMA AppendPool ==
  ASSUME NEW o, NEW free, NEW fifos, Appending(o, free, fifos)
  PROVE  PoolInv(Tail(free))' /\ Tail(free) \in Seq(Slots)
<1>1. /\ freeHead \in Slots /\ ~orders[freeHead].inUse /\ Len(free) # 0
      /\ Tails(o) # NoSlot => Tails(o) \in Slots /\ orders[Tails(o)].inUse
  BY AppendSlots
<1>2. /\ Path(orders, free, freeHead) /\ freeCount = Len(free) /\ free \in Seq(Slots)
      /\ \A x \in Slots : x \in ToSet(free) <=> ~orders[x].inUse
      /\ Len(free) + Cardinality(InUse) = MaxOrders
  BY DEF Appending, BookInv, PoolInv
<1>3. freeHead' = orders[freeHead].next /\ freeCount' = freeCount - 1
  BY DEF Appending, AppendOrder, Acquire
<1>4. /\ \A x \in Slots : /\ x # Tails(o) /\ x # freeHead => orders'[x].next = orders[x].next
                          /\ x # freeHead => orders'[x].inUse = orders[x].inUse
      /\ orders'[freeHead].inUse = TRUE
  BY AppendOrders
<1> DEFINE rest == Tail(free)
<1>5. /\ Path(orders, rest, freeHead') /\ Len(rest) = Len(free) - 1
      /\ \A x : x \in ToSet(rest) <=> x \in ToSet(free) /\ x # freeHead
  BY <1>1, <1>2, <1>3, PathPop
<1> HIDE DEF rest
<1>6. rest \in Seq(Slots)
  BY <1>5 DEF Path
<1>7. Path(orders', rest, freeHead')
  <2>1. ASSUME NEW k \in 1 .. Len(rest) PROVE orders'[rest[k]].next = orders[rest[k]].next
    <3>1. rest[k] \in Slots /\ rest[k] \in ToSet(rest)
      BY <1>6, Members
    <3>2. rest[k] # freeHead /\ ~orders[rest[k]].inUse
      BY <1>2, <1>5, <3>1
    <3>3. rest[k] # Tails(o)
      BY <1>1, <3>1, <3>2, SlotsFinite
    <3> QED BY <1>4, <3>1, <3>2, <3>3
  <2> QED BY <1>5, <2>1, PathSame
<1>8. InUse' = InUse \cup {freeHead} /\ freeHead \notin InUse
  BY <1>1, <1>4 DEF InUse
<1>9. IsFiniteSet(InUse) /\ Cardinality(InUse) \in Nat
  BY SlotsFinite, FS_Subset, FS_CardinalityType DEF InUse
<1>10. Cardinality(InUse') = Cardinality(InUse) + 1
  BY <1>8, <1>9, FS_AddElement
<1>11. Len(rest) + Cardinality(InUse') = MaxOrders /\ freeCount' = Len(rest)
  <2>1. Len(free) \in Nat
    BY <1>2, Members
  <2> QED BY <1>2, <1>3, <1>5, <1>9, <1>10, <2>1
<1>12. \A x \in Slots : x \in ToSet(rest) <=> ~orders'[x].inUse
  BY <1>2, <1>4, <1>5
<1> QED BY <1>6, <1>7, <1>11, <1>12 DEF PoolInv, rest

\* The FIFOs after it.
Longer(o, fifos) == [fifos EXCEPT ![o.side][o.price] = Append(@, freeHead)]

LEMMA AppendedFifos ==
  ASSUME NEW o, NEW free, NEW fifos, Appending(o, free, fifos)
  PROVE  /\ Longer(o, fifos) \in FifoTable
         /\ Longer(o, fifos)[o.side][o.price] = Append(fifos[o.side][o.price], freeHead)
         /\ \A s \in Sides, p \in Prices : s # o.side \/ p # o.price =>
              Longer(o, fifos)[s][p] = fifos[s][p]
<1>1. o.side \in Sides /\ o.price \in Prices /\ freeHead \in Slots
  BY AppendSlots
<1>2. fifos \in [Sides -> [Prices -> Seq(Slots)]]
  BY DEF Appending, FifoTable
<1>3. PICK v : v = Append(fifos[o.side][o.price], freeHead)
  OBVIOUS
<1>4. v \in Seq(Slots)
  BY <1>1, <1>2, <1>3
<1>5. Longer(o, fifos) = [fifos EXCEPT ![o.side][o.price] = v]
  BY <1>3 DEF Longer
<1> QED BY <1>1, <1>2, <1>3, <1>4, <1>5, EntryReplaced DEF FifoTable

\* What append does to the levels.
LEMMA AppendLevels ==
  ASSUME NEW o, NEW free, NEW fifos, Appending(o, free, fifos)
  PROVE  /\ levels' \in [Sides -> [Prices -> LevelType]]
         /\ levels'[o.side][o.price].head =
              IF Tails(o) = NoSlot THEN freeHead ELSE levels[o.side][o.price].head
         /\ levels'[o.side][o.price].tail = freeHead
         /\ levels'[o.side][o.price].quantity = levels[o.side][o.price].quantity + o.remaining
         /\ levels'[o.side][o.price].count = levels[o.side][o.price].count + 1
         /\ \A s \in Sides, p \in Prices : s # o.side \/ p # o.price =>
              levels'[s][p] = levels[s][p]
<1>1. /\ o.side \in Sides /\ o.price \in Prices /\ freeHead \in Slots /\ o.remaining \in Nat
  BY AppendSlots
<1>2. /\ levels \in [Sides -> [Prices -> LevelType]]
      /\ levels[o.side][o.price].head \in AnySlot
      /\ levels[o.side][o.price].quantity \in Nat /\ levels[o.side][o.price].count \in Nat
  BY <1>1, TypeFacts DEF Appending
<1>3. PICK l : l = levels[o.side][o.price]
  OBVIOUS
<1>4. PICK v : v = [head |-> IF Tails(o) = NoSlot THEN freeHead ELSE l.head,
                    tail |-> freeHead, quantity |-> l.quantity + o.remaining,
                    count |-> l.count + 1]
  OBVIOUS
<1>5. levels' = [levels EXCEPT ![o.side][o.price] = v]
  BY <1>3, <1>4 DEF Appending, AppendOrder, AppendToSide, Tails
<1>6. /\ v.head = IF Tails(o) = NoSlot THEN freeHead ELSE l.head
      /\ v.tail = freeHead /\ v.quantity = l.quantity + o.remaining /\ v.count = l.count + 1
  BY <1>4
<1>7. v \in LevelType
  <2>1. /\ l.head \in Slots \cup {NoSlot} /\ l.quantity + o.remaining \in Nat
        /\ l.count + 1 \in Nat
    BY <1>1, <1>2, <1>3 DEF AnySlot
  <2> QED BY <1>1, <1>4, <2>1 DEF LevelType
<1> HIDE DEF LevelType
<1>8. /\ levels'[o.side][o.price] = v
      /\ \A s \in Sides, p \in Prices : s # o.side \/ p # o.price =>
           levels'[s][p] = levels[s][p]
      /\ levels' \in [Sides -> [Prices -> LevelType]]
  BY <1>1, <1>2, <1>5, <1>7, EntryReplaced
<1> QED BY <1>3, <1>6, <1>8

\* A level that an operation leaves alone.
LEMMA LevelKept ==
  ASSUME NEW f, NEW s, NEW p, LevelInv(f, s, p), levels'[s][p] = levels[s][p],
         \A x \in ToSet(f) :
           /\ orders'[x].next = orders[x].next /\ orders'[x].prev = orders[x].prev
           /\ orders'[x].remaining = orders[x].remaining
           /\ orders'[x].inUse = orders[x].inUse
           /\ orders'[x].side = orders[x].side /\ orders'[x].price = orders[x].price,
         \A x \in Slots \ ToSet(f) :
           orders'[x].inUse => orders'[x].side # s \/ orders'[x].price # p
  PROVE  LevelInv(f, s, p)'
<1>1. /\ Linked(orders, f, levels[s][p].head, levels[s][p].tail)
      /\ levels[s][p].count = Len(f) /\ levels[s][p].quantity = SumRemaining(f)
      /\ \A x \in Slots : x \in ToSet(f) <=> /\ orders[x].inUse
                                             /\ orders[x].side = s /\ orders[x].price = p
  BY DEF LevelInv
<1>2. f \in Seq(Slots)
  BY <1>1 DEF Linked, Path
<1>3. \A k \in 1 .. Len(f) : f[k] \in ToSet(f)
  BY <1>2, Members
<1>4. Linked(orders', f, levels[s][p].head, levels[s][p].tail)
  BY <1>1, <1>3, LinkedSame
<1>5. SumRemaining(f)' = SumRemaining(f)
  <2>1. \A k \in DOMAIN f : orders'[f[k]].remaining = orders[f[k]].remaining
    BY <1>2, <1>3
  <2>2. [k \in DOMAIN f |-> orders'[f[k]].remaining] = [k \in DOMAIN f |-> orders[f[k]].remaining]
    BY <2>1
  <2> QED BY <2>2 DEF SumRemaining
<1>6. \A x \in Slots : x \in ToSet(f) <=> /\ orders'[x].inUse
                                          /\ orders'[x].side = s /\ orders'[x].price = p
  BY <1>1
<1> QED BY <1>1, <1>4, <1>5, <1>6 DEF LevelInv

\* SumRemaining, in pool o.
Remaining(o, f) == Sum([k \in DOMAIN f |-> o[f[k]].remaining])

\* The quantity of a FIFO one longer.
LEMMA AppendedSum ==
  ASSUME NEW f \in Seq(Slots), NEW slot \in Slots, slot \notin ToSet(f),
         NEW o, NEW q,
         \A x \in Slots : o[x].remaining \in Nat,
         \A x \in Slots \ {slot} : q[x].remaining = o[x].remaining,
         q[slot].remaining \in Nat
  PROVE  Remaining(q, Append(f, slot)) = Remaining(o, f) + q[slot].remaining
<1> DEFINE n == Len(f)
           a == [k \in DOMAIN f |-> o[f[k]].remaining]
           b == [k \in DOMAIN Append(f, slot) |-> q[Append(f, slot)[k]].remaining]
<1>1. n \in Nat /\ \A k \in 1 .. n : f[k] \in Slots /\ f[k] # slot
  BY Members
<1>2. /\ DOMAIN Append(f, slot) = 1 .. n + 1 /\ DOMAIN f = 1 .. n
      /\ \A k \in 1 .. n : Append(f, slot)[k] = f[k]
      /\ Append(f, slot)[n + 1] = slot
  BY <1>1
<1>3. \A k \in 1 .. n : a[k] \in Nat /\ a[k] = o[f[k]].remaining
  BY <1>1, <1>2
<1>4. \A k \in 1 .. n : b[k] = a[k]
  BY <1>1, <1>2, <1>3
<1>5. b[n + 1] = q[slot].remaining
  BY <1>1, <1>2
<1>6. a \in [1 .. n -> Int]
  BY <1>2, <1>3
<1>7. b \in [1 .. n + 1 -> Int]
  <2>1. \A k \in 1 .. n + 1 : b[k] \in Int
    <3> SUFFICES ASSUME NEW k \in 1 .. n + 1 PROVE b[k] \in Int
      OBVIOUS
    <3>1. k \in 1 .. n \/ k = n + 1
      BY <1>1
    <3> HIDE DEF a, b
    <3> QED BY <1>3, <1>4, <1>5, <3>1
  <2> QED BY <1>2, <2>1
<1> HIDE DEF a, b, n
<1>8. Sum(b) = Sum(a) + b[n + 1]
  BY <1>1, <1>4, <1>6, <1>7, SumAppend
<1> QED BY <1>5, <1>8 DEF a, b, Remaining

LEMMA AppendLevel ==
  ASSUME NEW o, NEW free, NEW fifos, Appending(o, free, fifos),
         NEW s \in Sides, NEW p \in Prices, NEW after, after = Longer(o, fifos)
  PROVE  LevelInv(after[s][p], s, p)'
<1>1. /\ o.side \in Sides /\ o.price \in Prices /\ o.remaining \in Nat
      /\ freeHead \in Slots /\ ~orders[freeHead].inUse
      /\ Tails(o) # NoSlot => /\ Tails(o) \in Slots /\ orders[Tails(o)].inUse
                              /\ orders[Tails(o)].side = o.side
                              /\ orders[Tails(o)].price = o.price
  BY AppendSlots
<1>2. PICK f \in Seq(Slots) : f = fifos[s][p]
  BY DEF Appending, FifoTable
<1>3. LevelInv(f, s, p)
  BY <1>2 DEF Appending, BookInv
<1>4. /\ Linked(orders, f, levels[s][p].head, levels[s][p].tail)
      /\ levels[s][p].count = Len(f) /\ levels[s][p].quantity = SumRemaining(f)
      /\ \A x \in Slots : x \in ToSet(f) <=> /\ orders[x].inUse
                                             /\ orders[x].side = s /\ orders[x].price = p
  BY <1>3 DEF LevelInv
<1>5. /\ \A x \in Slots :
           /\ orders'[x].next = IF x = Tails(o) THEN freeHead
                                ELSE IF x = freeHead THEN NoSlot ELSE orders[x].next
           /\ orders'[x].prev = IF x = freeHead THEN Tails(o) ELSE orders[x].prev
      /\ /\ orders'[freeHead].side = o.side /\ orders'[freeHead].price = o.price
         /\ orders'[freeHead].remaining = o.remaining /\ orders'[freeHead].inUse = TRUE
      /\ \A x \in Slots \ {freeHead} :
           /\ orders'[x].side = orders[x].side /\ orders'[x].price = orders[x].price
           /\ orders'[x].remaining = orders[x].remaining
           /\ orders'[x].inUse = orders[x].inUse
  BY AppendOrders
<1>6. freeHead \notin ToSet(f)
  BY <1>1, <1>4
<1>7. CASE s = o.side /\ p = o.price
  <2>1. PICK slot : slot = freeHead
    OBVIOUS
  <2>2. PICK g : g = Append(f, slot)
    OBVIOUS
  <2>3. after[s][p] = g
    BY <1>2, <1>7, <2>1, <2>2, AppendedFifos
  <2>4. levels[s][p].tail = Tails(o)
    BY <1>7 DEF Tails
  <2>5. /\ levels'[s][p].head = IF Tails(o) = NoSlot THEN slot ELSE levels[s][p].head
        /\ levels'[s][p].tail = slot
        /\ levels'[s][p].quantity = levels[s][p].quantity + o.remaining
        /\ levels'[s][p].count = levels[s][p].count + 1
    BY <1>7, <2>1, AppendLevels
  <2>6. PICK h, t : h = levels[s][p].head /\ t = levels[s][p].tail
    OBVIOUS
  <2>7. /\ Linked(orders', g, IF t = NoSlot THEN slot ELSE h, slot)
        /\ \A x : x \in ToSet(g) <=> x \in ToSet(f) \/ x = slot
    <3>1. Linked(orders, f, h, t) /\ slot \in Slots /\ slot \notin ToSet(f)
      BY <1>1, <1>4, <1>6, <2>1, <2>6
    <3>2. \A x \in Slots :
            /\ orders'[x].next = IF x = t THEN slot
                                 ELSE IF x = slot THEN NoSlot ELSE orders[x].next
            /\ orders'[x].prev = IF x = slot THEN t ELSE orders[x].prev
      BY <1>5, <2>1, <2>4, <2>6
    <3> QED BY <2>2, <3>1, <3>2, LinkedAppend
  <2>8. Linked(orders', g, levels'[s][p].head, levels'[s][p].tail)
    BY <2>4, <2>5, <2>6, <2>7
  <2>9. SumRemaining(g)' = SumRemaining(f) + o.remaining
    <3>1. /\ \A x \in Slots : orders[x].remaining \in Nat
          /\ \A x \in Slots \ {slot} : orders'[x].remaining = orders[x].remaining
          /\ orders'[slot].remaining = o.remaining
      BY <1>5, <2>1, TypeFacts DEF Appending
    <3>2. Remaining(orders', Append(f, slot)) = Remaining(orders, f) + orders'[slot].remaining
      BY <1>1, <1>6, <2>1, <3>1, AppendedSum
    <3> QED BY <2>2, <3>1, <3>2 DEF SumRemaining, Remaining
  <2>10. levels'[s][p].count = Len(g)
    BY <1>4, <2>2, <2>5
  <2>11. \A x \in Slots : x \in ToSet(g) <=> /\ orders'[x].inUse
                                             /\ orders'[x].side = s /\ orders'[x].price = p
    BY <1>4, <1>5, <1>7, <2>1, <2>7
  <2>12. LevelInv(g, s, p)'
    BY <1>4, <2>5, <2>8, <2>9, <2>10, <2>11 DEF LevelInv
  <2> QED BY <2>3, <2>12
<1>8. CASE s # o.side \/ p # o.price
  <2>1. after[s][p] = f
    BY <1>2, <1>8, AppendedFifos
  <2>2. levels'[s][p] = levels[s][p]
    BY <1>8, AppendLevels
  <2>3. ASSUME NEW x \in ToSet(f)
        PROVE  x \in Slots /\ x # freeHead /\ x # Tails(o)
    <3>1. x \in Slots
      BY Members
    <3> QED BY <1>1, <1>4, <1>6, <1>8, <3>1, SlotsFinite
  <2>4. LevelInv(f, s, p)'
    <3>1. \A x \in ToSet(f) :
            /\ orders'[x].next = orders[x].next /\ orders'[x].prev = orders[x].prev
            /\ orders'[x].remaining = orders[x].remaining
            /\ orders'[x].inUse = orders[x].inUse
            /\ orders'[x].side = orders[x].side /\ orders'[x].price = orders[x].price
      BY <1>5, <2>3
    <3>2. \A x \in Slots \ ToSet(f) :
            orders'[x].inUse => orders'[x].side # s \/ orders'[x].price # p
      BY <1>4, <1>5, <1>8
    <3> QED BY <1>3, <2>2, <3>1, <3>2, LevelKept
  <2> QED BY <2>1, <2>4
<1> QED BY <1>7, <1>8

\* The best segment of a side whose other cached values stay.
LEMMA SideKept ==
  ASSUME NEW s, SideInv(s), levels'[s] = levels[s], active'[s] = active[s],
         occupied'[s] = occupied[s], best'[s] = best[s],
         count'[s] = count[s], total'[s] = total[s], OrdersOf(s)' = OrdersOf(s)
  PROVE  SideInv(s)'
BY DEF SideInv

\* The counters of a side, from a table of levels.
CountSum(table, s) == Sum([k \in LevelNumbers |-> table[s][MinPrice + k - 1].count])
QuantitySum(table, s) == Sum([k \in LevelNumbers |-> table[s][MinPrice + k - 1].quantity])

\* The counters of a side of which one level changes.
LEMMA LevelSums ==
  ASSUME NEW before1, NEW after1, NEW s \in Sides, NEW p \in Prices,
         before1 \in [Sides -> [Prices -> LevelType]],
         after1 \in [Sides -> [Prices -> LevelType]],
         \A x \in Prices : x # p => after1[s][x] = before1[s][x]
  PROVE  /\ CountSum(after1, s)
              = CountSum(before1, s) + after1[s][p].count - before1[s][p].count
         /\ QuantitySum(after1, s)
              = QuantitySum(before1, s) + after1[s][p].quantity - before1[s][p].quantity
<1> DEFINE n == MaxPrice - MinPrice + 1
           j == p - MinPrice + 1
           a == [k \in LevelNumbers |-> before1[s][MinPrice + k - 1].count]
           b == [k \in LevelNumbers |-> after1[s][MinPrice + k - 1].count]
           c == [k \in LevelNumbers |-> before1[s][MinPrice + k - 1].quantity]
           d == [k \in LevelNumbers |-> after1[s][MinPrice + k - 1].quantity]
<1>1. n \in Nat /\ LevelNumbers = 1 .. n /\ j \in 1 .. n /\ MinPrice + j - 1 = p
  BY LevelNumbering
<1>2. \A k \in 1 .. n : MinPrice + k - 1 \in Prices
  BY <1>1, LevelNumbering
<1>3. \A k \in 1 .. n : k # j => MinPrice + k - 1 # p
  BY <1>1, BookAssumption DEF Prices
<1>4. \A r \in LevelType : r.count \in Nat /\ r.quantity \in Nat
  BY DEF LevelType
<1> HIDE DEF LevelType, n, j
<1>5. \A k \in 1 .. n : /\ before1[s][MinPrice + k - 1] \in LevelType
                        /\ after1[s][MinPrice + k - 1] \in LevelType
  BY <1>2
<1>6. \A k \in 1 .. n : /\ before1[s][MinPrice + k - 1].count \in Int
                        /\ after1[s][MinPrice + k - 1].count \in Int
                        /\ before1[s][MinPrice + k - 1].quantity \in Int
                        /\ after1[s][MinPrice + k - 1].quantity \in Int
  BY <1>4, <1>5
<1>7. /\ a \in [1 .. n -> Int] /\ b \in [1 .. n -> Int]
      /\ c \in [1 .. n -> Int] /\ d \in [1 .. n -> Int]
  BY <1>1, <1>6
<1>8. \A k \in (1 .. n) \ {j} : b[k] = a[k] /\ d[k] = c[k]
  BY <1>1, <1>2, <1>3
<1>9. /\ a[j] = before1[s][p].count /\ b[j] = after1[s][p].count
      /\ c[j] = before1[s][p].quantity /\ d[j] = after1[s][p].quantity
  BY <1>1
<1> HIDE DEF a, b, c, d
<1>10. Sum(b) = Sum(a) + b[j] - a[j] /\ Sum(d) = Sum(c) + d[j] - c[j]
  BY <1>1, <1>7, <1>8, SumUpdate
<1> QED BY <1>9, <1>10 DEF a, b, c, d, CountSum, QuantitySum

\* update_best_after_insert: the better of the best and the new segment.
Better(s, m, g) == Extreme(s, IF m = NoSegment THEN {g} ELSE {m, g})

LEMMA BestAfterInsert ==
  ASSUME NEW s, NEW T \in SUBSET Segments, NEW g \in Segments
  PROVE  Better(s, Extreme(s, T), g) = Extreme(s, T \cup {g})
<1>1. CASE T = {}
  BY <1>1, ExtremeOfNone DEF Better
<1>2. CASE T # {}
  <2> DEFINE n == SegmentOf(MaxPrice)
  <2>0. n \in Nat /\ Segments = 0 .. n
    BY SegmentsOrdered DEF Segments
  <2> HIDE DEF n
  <2>1. PICK m : m = Extreme(s, T)
    OBVIOUS
  <2>2. m \in T /\ \A k \in T : AsGood(s, m, k)
    BY <1>2, <2>0, <2>1, ExtremeIsBest
  <2>3. m \in 0 .. n /\ m # NoSegment
    BY <2>0, <2>2 DEF NoSegment
  <2>4. PICK b : b = Extreme(s, {m, g})
    OBVIOUS
  <2>5. b \in {m, g} /\ AsGood(s, b, m) /\ AsGood(s, b, g)
    <3>1. {m, g} \subseteq 0 .. n /\ {m, g} # {}
      BY <2>0, <2>3
    <3> QED BY <2>0, <2>4, <3>1, ExtremeIsBest
  <2>6. \A k \in T \cup {g} : AsGood(s, b, k)
    <3>1. SUFFICES ASSUME NEW k \in T PROVE AsGood(s, b, k)
      BY <2>5
    <3>2. AsGood(s, m, k)
      BY <2>2
    <3> QED BY <2>0, <2>3, <2>5, <3>2 DEF AsGood
  <2>7. Extreme(s, T \cup {g}) = b
    <3>1. T \cup {g} \subseteq 0 .. n /\ b \in T \cup {g}
      BY <2>0, <2>2, <2>5
    <3> QED BY <2>0, <2>6, <3>1, ExtremeUnique
  <2> QED BY <2>1, <2>3, <2>4, <2>7 DEF Better
<1> QED BY <1>1, <1>2

LEMMA AppendIndex ==
  ASSUME NEW o, NEW free, NEW fifos, Appending(o, free, fifos)
  PROVE  IndexInv' /\ index' \in [Ids -> AnySlot]
<1>1. /\ o.side \in Sides /\ o.price \in Prices /\ o.id \in Ids /\ o.remaining \in Quantities
      /\ freeHead \in Slots /\ ~orders[freeHead].inUse /\ index[o.id] = NoSlot
  BY AppendSlots
<1>2. /\ index \in [Ids -> AnySlot] /\ count \in [Sides -> Nat]
  BY TypeFacts DEF Appending
<1>3. /\ \A x \in Slots : orders[x].inUse =>
           /\ orders[x].id \in Ids /\ index[orders[x].id] = x
           /\ orders[x].price \in Prices /\ orders[x].remaining \in Quantities
      /\ \A id \in Ids : index[id] # NoSlot =>
           orders[index[id]].inUse /\ orders[index[id]].id = id
      /\ IsFiniteSet(Indexed) /\ Cardinality(Indexed) = count["Bid"] + count["Ask"]
  BY DEF Appending, BookInv, IndexInv
<1>4. /\ index' = [index EXCEPT ![o.id] = freeHead]
      /\ count' = [count EXCEPT ![o.side] = @ + 1]
  BY DEF Appending, AppendOrder, AppendToSide
<1>5. index'[o.id] = freeHead /\ \A id \in Ids : id # o.id => index'[id] = index[id]
  BY <1>1, <1>2, <1>4
<1>6. /\ /\ orders'[freeHead].id = o.id /\ orders'[freeHead].price = o.price
         /\ orders'[freeHead].remaining = o.remaining /\ orders'[freeHead].inUse = TRUE
      /\ \A x \in Slots \ {freeHead} :
           /\ orders'[x].id = orders[x].id /\ orders'[x].price = orders[x].price
           /\ orders'[x].remaining = orders[x].remaining
           /\ orders'[x].inUse = orders[x].inUse
  BY AppendOrders
<1>7. \A x \in Slots : orders'[x].inUse =>
        /\ orders'[x].id \in Ids /\ index'[orders'[x].id] = x
        /\ orders'[x].price \in Prices /\ orders'[x].remaining \in Quantities
  <2> SUFFICES ASSUME NEW x \in Slots, orders'[x].inUse
               PROVE  /\ orders'[x].id \in Ids /\ index'[orders'[x].id] = x
                      /\ orders'[x].price \in Prices /\ orders'[x].remaining \in Quantities
    OBVIOUS
  <2>1. CASE x = freeHead
    BY <1>1, <1>5, <1>6, <2>1
  <2>2. CASE x # freeHead
    <3>1. /\ orders[x].id \in Ids /\ index[orders[x].id] = x
          /\ orders[x].price \in Prices /\ orders[x].remaining \in Quantities
      BY <1>3, <1>6, <2>2
    <3>2. orders[x].id # o.id
      BY <1>1, <3>1, SlotsFinite
    <3> QED BY <1>5, <1>6, <2>2, <3>1, <3>2
  <2> QED BY <2>1, <2>2
<1>8. ASSUME NEW id \in Ids, index'[id] # NoSlot
      PROVE  orders'[index'[id]].inUse /\ orders'[index'[id]].id = id
  <2>1. CASE id = o.id
    BY <1>5, <1>6, <2>1
  <2>2. CASE id # o.id
    <3>1. index'[id] = index[id] /\ index[id] \in Slots
      BY <1>2, <1>5, <1>8, <2>2 DEF AnySlot
    <3>2. orders[index[id]].inUse /\ orders[index[id]].id = id
      BY <1>3, <1>8, <3>1
    <3> QED BY <1>1, <1>6, <3>1, <3>2
  <2> QED BY <2>1, <2>2
<1>9. Indexed' = Indexed \cup {o.id} /\ o.id \notin Indexed
  BY <1>1, <1>5, SlotsFinite DEF Indexed
<1>10. IsFiniteSet(Indexed') /\ Cardinality(Indexed') = Cardinality(Indexed) + 1
  BY <1>3, <1>9, FS_AddElement
<1>11. count'["Bid"] + count'["Ask"] = count["Bid"] + count["Ask"] + 1
  <2>1. PICK a, b \in Nat : a = count["Bid"] /\ b = count["Ask"]
    BY <1>2 DEF Sides
  <2>2. CASE o.side = "Bid"
    <3>1. count'["Bid"] = a + 1 /\ count'["Ask"] = b
      BY <1>2, <1>4, <2>1, <2>2 DEF Sides
    <3> QED BY <1>2, <2>1, <3>1 DEF Sides
  <2>3. CASE o.side = "Ask"
    <3>1. count'["Bid"] = a /\ count'["Ask"] = b + 1
      BY <1>2, <1>4, <2>1, <2>3 DEF Sides
    <3> QED BY <1>2, <2>1, <3>1 DEF Sides
  <2> QED BY <1>1, <2>2, <2>3 DEF Sides
<1>12. index' \in [Ids -> AnySlot]
  BY <1>1, <1>2, <1>4 DEF AnySlot
<1> QED BY <1>3, <1>7, <1>8, <1>10, <1>11, <1>12 DEF IndexInv

LEMMA AppendSide ==
  ASSUME NEW o, NEW free, NEW fifos, Appending(o, free, fifos), NEW s \in Sides
  PROVE  SideInv(s)'
<1>1. /\ o.side \in Sides /\ o.price \in Prices /\ o.remaining \in Nat
      /\ freeHead \in Slots /\ ~orders[freeHead].inUse
  BY AppendSlots
<1>2. PICK g0 : g0 = SegmentOf(o.price)
  OBVIOUS
<1>3. g0 \in Segments /\ Segments = 0 .. SegmentOf(MaxPrice) /\ SegmentOf(MaxPrice) \in Nat
  BY <1>1, <1>2, SegmentsOrdered DEF Segments
<1>4. SideInv(s)
  BY DEF Appending, BookInv
<1>5. /\ active \in [Sides -> [Segments -> SUBSET Prices]]
      /\ occupied \in [Sides -> SUBSET Segments]
      /\ best \in [Sides -> Segments \cup {NoSegment}]
      /\ count \in [Sides -> Nat] /\ total \in [Sides -> Nat]
      /\ levels \in [Sides -> [Prices -> LevelType]]
      /\ \A p \in Prices : levels[s][p].count \in Nat /\ levels[s][p].quantity \in Nat
  BY TypeFacts DEF Appending
<1>6. /\ active' = [active EXCEPT ![o.side][g0] = @ \cup {o.price}]
      /\ occupied' = [occupied EXCEPT ![o.side] = @ \cup {g0}]
      /\ best' = [best EXCEPT ![o.side] = UpdateBestAfterInsert(o.side, g0)]
      /\ count' = [count EXCEPT ![o.side] = @ + 1]
      /\ total' = [total EXCEPT ![o.side] = @ + o.remaining]
  BY <1>2 DEF Appending, AppendOrder, AppendToSide
<1>7. /\ levels' \in [Sides -> [Prices -> LevelType]]
      /\ levels'[o.side][o.price].quantity = levels[o.side][o.price].quantity + o.remaining
      /\ levels'[o.side][o.price].count = levels[o.side][o.price].count + 1
      /\ \A r \in Sides, p \in Prices : r # o.side \/ p # o.price =>
           levels'[r][p] = levels[r][p]
  BY AppendLevels
<1>8. /\ orders'[freeHead].side = o.side /\ orders'[freeHead].inUse = TRUE
      /\ \A x \in Slots \ {freeHead} : /\ orders'[x].side = orders[x].side
                                       /\ orders'[x].inUse = orders[x].inUse
  BY AppendOrders
<1>9. CASE s # o.side
  <2>1. levels'[s] = levels[s]
    <3>1. levels'[s] \in [Prices -> LevelType] /\ levels[s] \in [Prices -> LevelType]
      BY <1>5, <1>7
    <3>2. \A p \in Prices : levels'[s][p] = levels[s][p]
      BY <1>7, <1>9
    <3> HIDE DEF LevelType
    <3> QED BY <3>1, <3>2
  <2>2. /\ active'[s] = active[s] /\ occupied'[s] = occupied[s] /\ best'[s] = best[s]
        /\ count'[s] = count[s] /\ total'[s] = total[s]
    BY <1>1, <1>5, <1>6, <1>9
  <2>3. OrdersOf(s)' = OrdersOf(s)
    BY <1>1, <1>8, <1>9 DEF OrdersOf, InUse
  <2> QED BY <1>4, <2>1, <2>2, <2>3, SideKept
<1>10. CASE s = o.side
  <2>1. /\ \A g \in Segments : active[s][g] = {p \in Prices : /\ levels[s][p].count # 0
                                                             /\ SegmentOf(p) = g}
        /\ occupied[s] = {g \in Segments : active[s][g] # {}}
        /\ best[s] = Extreme(s, occupied[s])
        /\ count[s] = Cardinality(OrdersOf(s))
        /\ count[s] = Sum([k \in LevelNumbers |-> levels[s][MinPrice + k - 1].count])
        /\ total[s] = Sum([k \in LevelNumbers |-> levels[s][MinPrice + k - 1].quantity])
    BY <1>4 DEF SideInv
  <2>2. /\ active'[s][g0] = active[s][g0] \cup {o.price}
        /\ \A g \in Segments : g # g0 => active'[s][g] = active[s][g]
    <3>1. PICK v : v = active[s][g0] \cup {o.price}
      OBVIOUS
    <3>2. active' = [active EXCEPT ![s][g0] = v]
      BY <1>6, <1>10, <3>1
    <3>3. /\ active'[s][g0] = v
          /\ \A r \in Sides, g \in Segments : r # s \/ g # g0 => active'[r][g] = active[r][g]
      BY <1>3, <1>5, <3>2, EntryReplaced
    <3> QED BY <3>1, <3>3
  <2>3. ASSUME NEW g \in Segments
        PROVE  active'[s][g] = {p \in Prices : /\ levels'[s][p].count # 0 /\ SegmentOf(p) = g}
    <3>1. levels'[s][o.price].count # 0
      BY <1>1, <1>5, <1>7, <1>10
    <3>2. \A p \in Prices \ {o.price} : levels'[s][p] = levels[s][p]
      BY <1>7, <1>10
    <3>3. CASE g = g0
      BY <1>1, <1>2, <1>3, <2>1, <2>2, <3>1, <3>2, <3>3
    <3>4. CASE g # g0
      BY <1>1, <1>2, <2>1, <2>2, <3>1, <3>2, <3>4
    <3> QED BY <3>3, <3>4
  <2>4. occupied'[s] = occupied[s] \cup {g0}
    BY <1>5, <1>6, <1>10
  <2>5. occupied'[s] = {g \in Segments : active'[s][g] # {}}
    BY <1>3, <2>1, <2>2, <2>4
  <2>6. best'[s] = Extreme(s, occupied'[s])
    <3>1. best'[s] = Better(s, best[s], g0)
      BY <1>5, <1>6, <1>10 DEF UpdateBestAfterInsert, Better
    <3>2. PICK T : T = occupied[s]
      OBVIOUS
    <3>3. T \in SUBSET Segments /\ g0 \in Segments
      BY <1>3, <1>5, <3>2
    <3>4. Better(s, Extreme(s, T), g0) = Extreme(s, T \cup {g0})
      BY <3>3, BestAfterInsert
    <3> QED BY <2>1, <2>4, <3>1, <3>2, <3>4
  <2>7. count'[s] = count[s] + 1 /\ total'[s] = total[s] + o.remaining
    BY <1>5, <1>6, <1>10
  <2>8. count'[s] = Cardinality(OrdersOf(s)')
    <3>1. OrdersOf(s)' = OrdersOf(s) \cup {freeHead} /\ freeHead \notin OrdersOf(s)
      BY <1>1, <1>8, <1>10 DEF OrdersOf, InUse
    <3>2. IsFiniteSet(OrdersOf(s))
      BY SlotsFinite, FS_Subset DEF OrdersOf, InUse
    <3>3. Cardinality(OrdersOf(s)') = Cardinality(OrdersOf(s)) + 1
      BY <3>1, <3>2, FS_AddElement
    <3> QED BY <2>1, <2>7, <3>3
  <2>9. /\ CountSum(levels', s)
             = CountSum(levels, s) + levels'[s][o.price].count - levels[s][o.price].count
        /\ QuantitySum(levels', s)
             = QuantitySum(levels, s)
               + levels'[s][o.price].quantity - levels[s][o.price].quantity
    <3>1. \A p \in Prices : p # o.price => levels'[s][p] = levels[s][p]
      BY <1>7, <1>10
    <3>2. /\ s \in Sides /\ levels' \in [Sides -> [Prices -> LevelType]]
          /\ levels \in [Sides -> [Prices -> LevelType]]
      BY <1>5, <1>7
    <3>3. PICK p \in Prices : p = o.price
      BY <1>1
    <3>4. \A x \in Prices : x # p => levels'[s][x] = levels[s][x]
      BY <3>1, <3>3
    <3>5. /\ CountSum(levels', s)
               = CountSum(levels, s) + levels'[s][p].count - levels[s][p].count
          /\ QuantitySum(levels', s)
               = QuantitySum(levels, s) + levels'[s][p].quantity - levels[s][p].quantity
      <4> HIDE DEF LevelType
      <4> QED BY <3>2, <3>4, LevelSums
    <3> QED BY <3>3, <3>5
  <2>10. /\ count'[s] = Sum([k \in LevelNumbers |-> levels'[s][MinPrice + k - 1].count])
         /\ total'[s] = Sum([k \in LevelNumbers |-> levels'[s][MinPrice + k - 1].quantity])
    <3>1. PICK a, b, c, d : /\ a = count[s] /\ b = total[s]
                            /\ c = levels[s][o.price].count /\ d = levels[s][o.price].quantity
      OBVIOUS
    <3>2. a \in Nat /\ b \in Nat /\ c \in Nat /\ d \in Nat
      BY <1>1, <1>5, <1>10, <3>1
    <3>3. /\ CountSum(levels', s) = a + (c + 1) - c
          /\ QuantitySum(levels', s) = b + (d + o.remaining) - d
      BY <1>7, <1>10, <2>1, <2>9, <3>1 DEF CountSum, QuantitySum
    <3>4. a + (c + 1) - c = a + 1 /\ b + (d + o.remaining) - d = b + o.remaining
      BY <1>1, <3>2
    <3> QED BY <2>7, <3>1, <3>3, <3>4 DEF CountSum, QuantitySum
  <2> QED BY <2>3, <2>5, <2>6, <2>8, <2>10 DEF SideInv
<1> QED BY <1>9, <1>10

\* The cached values of a side have their types.
SidesOK == /\ levels \in [Sides -> [Prices -> LevelType]]
           /\ occupied \in [Sides -> SUBSET Segments]
           /\ \A s \in Sides : SideInv(s)

SidesTyped == \A s \in Sides : /\ count[s] \in Nat /\ total[s] \in Nat
                               /\ best[s] \in Segments \cup {NoSegment}

LEMMA SideTypes == SidesOK => SidesTyped
<1> SUFFICES ASSUME levels \in [Sides -> [Prices -> LevelType]],
                    NEW s \in Sides, occupied[s] \in SUBSET Segments, SideInv(s)
             PROVE  /\ count[s] \in Nat /\ total[s] \in Nat
                    /\ best[s] \in Segments \cup {NoSegment}
  BY DEF SidesOK, SidesTyped
<1>1. /\ best[s] = Extreme(s, occupied[s])
      /\ count[s] = CountSum(levels, s) /\ total[s] = QuantitySum(levels, s)
  BY DEF SideInv, CountSum, QuantitySum
<1>2. best[s] \in Segments \cup {NoSegment}
  <2>1. PICK T : T = occupied[s]
    OBVIOUS
  <2>2. T # {} => Extreme(s, T) \in T
    BY <2>1, SegmentsOrdered, ExtremeIsBest DEF Segments
  <2> QED BY <1>1, <2>1, <2>2, ExtremeOfNone
<1>3. CountSum(levels, s) \in Nat /\ QuantitySum(levels, s) \in Nat
  <2> DEFINE a == [k \in LevelNumbers |-> levels[s][MinPrice + k - 1].count]
             b == [k \in LevelNumbers |-> levels[s][MinPrice + k - 1].quantity]
  <2>1. \A r \in LevelType : r.count \in Nat /\ r.quantity \in Nat
    BY DEF LevelType
  <2> HIDE DEF LevelType
  <2>2. \A k \in LevelNumbers : levels[s][MinPrice + k - 1] \in LevelType
    BY LevelNumbering
  <2>3. a \in [LevelNumbers -> Nat] /\ b \in [LevelNumbers -> Nat]
    BY <2>1, <2>2
  <2> HIDE DEF a, b
  <2>4. Sum(a) \in Nat /\ Sum(b) \in Nat
    BY <2>3, LevelNumbering, SumNat
  <2> QED BY <2>4 DEF a, b, CountSum, QuantitySum
<1> QED BY <1>1, <1>2, <1>3

LEMMA SideTypesNext == SidesOK' => SidesTyped'
BY SideTypes, PTL

\* An append that finds the invariant leaves it.
LEMMA AppendInvariant ==
  ASSUME NEW o, NEW free, NEW fifos, Appending(o, free, fifos),
         restored' \in 0 .. MaxOrders, own' \in BOOLEAN, RestoreInv'
  PROVE  IInv'
<1>1. PICK rest \in Seq(Slots) : PoolInv(rest)'
  <2>1. PICK t : t = Tail(free)
    OBVIOUS
  <2> QED BY <2>1, AppendPool
<1>2. PICK after : after = Longer(o, fifos)
  OBVIOUS
<1>3. after \in FifoTable
  BY <1>2, AppendedFifos
<1>4. BookInv(rest, after)'
  <2>1. \A s \in Sides : SideInv(s)'
    BY AppendSide
  <2>2. \A s \in Sides, p \in Prices : LevelInv(after[s][p], s, p)'
    BY <1>2, AppendLevel
  <2>3. IndexInv'
    BY AppendIndex
  <2> QED BY <1>1, <2>1, <2>2, <2>3 DEF BookInv
<1>5. TypeOK'
  <2>1. /\ o.side \in Sides /\ o.price \in Prices /\ o.id \in Ids /\ o.remaining \in Nat
        /\ freeHead \in Slots /\ Len(free) # 0
    BY AppendSlots
  <2>2. /\ orders[freeHead].next \in AnySlot /\ freeCount \in 0 .. MaxOrders
        /\ active \in [Sides -> [Segments -> SUBSET Prices]]
        /\ occupied \in [Sides -> SUBSET Segments]
        /\ best \in [Sides -> Segments \cup {NoSegment}]
        /\ count \in [Sides -> Nat] /\ total \in [Sides -> Nat]
    BY <2>1, TypeFacts DEF Appending
  <2>3. SegmentOf(o.price) \in Segments
    BY <2>1, SegmentsOrdered
  <2>4. /\ freeHead' = orders[freeHead].next /\ freeCount' = freeCount - 1
        /\ active' = [active EXCEPT ![o.side][SegmentOf(o.price)] = @ \cup {o.price}]
        /\ occupied' = [occupied EXCEPT ![o.side] = @ \cup {SegmentOf(o.price)}]
        /\ best' = [best EXCEPT ![o.side] = UpdateBestAfterInsert(o.side, SegmentOf(o.price))]
        /\ count' = [count EXCEPT ![o.side] = @ + 1]
        /\ total' = [total EXCEPT ![o.side] = @ + o.remaining]
    BY DEF Appending, AppendOrder, AppendToSide, Acquire
  <2>5. freeHead' \in Slots \cup {NoSlot}
    BY <2>2, <2>4 DEF AnySlot
  <2>6. freeCount' \in 0 .. MaxOrders
    <3>1. freeCount = Len(free) /\ free \in Seq(Slots)
      BY DEF Appending, BookInv, PoolInv
    <3>2. freeCount # 0 /\ MaxOrders \in Nat
      BY <2>1, <3>1, BookAssumption
    <3> QED BY <2>2, <2>4, <3>2
  <2>7. /\ orders' \in [Slots -> OrderType] /\ levels' \in [Sides -> [Prices -> LevelType]]
        /\ index' \in [Ids -> Slots \cup {NoSlot}]
    BY AppendOrders, AppendLevels, AppendIndex DEF AnySlot
  <2>8. active' \in [Sides -> [Segments -> SUBSET Prices]]
    <3>1. PICK v : v = active[o.side][SegmentOf(o.price)] \cup {o.price}
      OBVIOUS
    <3>2. v \in SUBSET Prices /\ active' = [active EXCEPT ![o.side][SegmentOf(o.price)] = v]
      BY <2>1, <2>2, <2>3, <2>4, <3>1
    <3> QED BY <2>1, <2>2, <2>3, <3>2, EntryReplaced
  <2>9. /\ occupied' \in [Sides -> SUBSET Segments]
        /\ count' \in [Sides -> Nat] /\ total' \in [Sides -> Nat]
    <3>1. PICK g : g = SegmentOf(o.price)
      OBVIOUS
    <3>2. occupied' \in [Sides -> SUBSET Segments]
      BY <2>1, <2>2, <2>3, <2>4, <3>1
    <3>3. count' \in [Sides -> Nat]
      BY <2>1, <2>2, <2>4
    <3>4. total' \in [Sides -> Nat]
      BY <2>1, <2>2, <2>4
    <3> QED BY <3>2, <3>3, <3>4
  <2>10. best' \in [Sides -> Segments \cup {NoSegment}]
    <3>1. best'[o.side] \in Segments \cup {NoSegment}
      <4>1. SideInv(o.side)'
        BY <2>1, AppendSide
      <4>2. PICK T : T = occupied'[o.side]
        OBVIOUS
      <4>3. best'[o.side] = Extreme(o.side, T) /\ T \subseteq Segments
        BY <2>1, <2>9, <4>1, <4>2 DEF SideInv
      <4>4. T # {} => Extreme(o.side, T) \in T
        BY <4>3, SegmentsOrdered, ExtremeIsBest DEF Segments
      <4> QED BY <4>3, <4>4, ExtremeOfNone
    <3>2. \A s \in Sides : s # o.side => best'[s] = best[s]
      BY <2>2, <2>4
    <3>3. \A s \in Sides : best'[s] \in Segments \cup {NoSegment}
      BY <2>2, <3>1, <3>2
    <3>4. DOMAIN best' = Sides /\ best' = [s \in Sides |-> best'[s]]
      BY <2>2, <2>4
    <3> QED BY <3>3, <3>4
  <2> HIDE DEF OrderType, LevelType
  <2> QED BY <2>5, <2>6, <2>7, <2>8, <2>9, <2>10 DEF TypeOK
<1> QED BY <1>1, <1>3, <1>4, <1>5 DEF IInv

-----------------------------------------------------------------------------
(* erase keeps the invariant.                                                *)

\* Order id, in slot and the j-th of the FIFO of side s0 and price p0, is removed
\* from a book that satisfies the invariant.
Removing(id, slot, s0, p0, j, free, fifos) ==
  /\ TypeOK /\ free \in Seq(Slots) /\ fifos \in FifoTable /\ BookInv(free, fifos)
  /\ id \in Ids /\ slot = index[id] /\ slot # NoSlot
  /\ s0 = orders[slot].side /\ p0 = orders[slot].price
  /\ j \in 1 .. Len(fifos[s0][p0]) /\ fifos[s0][p0][j] = slot
  /\ index' = [index EXCEPT ![id] = NoSlot]
  /\ RemoveActiveOrder(slot)

\* Every order that the index leads to has a place in a FIFO.
LEMMA Indexing ==
  ASSUME TypeOK, NEW free, NEW fifos, fifos \in FifoTable, BookInv(free, fifos),
         NEW id \in Ids, index[id] # NoSlot
  PROVE  /\ index[id] \in Slots /\ orders[index[id]].inUse /\ orders[index[id]].id = id
         /\ orders[index[id]].side \in Sides /\ orders[index[id]].price \in Prices
         /\ \E j \in 1 .. Len(fifos[orders[index[id]].side][orders[index[id]].price]) :
              fifos[orders[index[id]].side][orders[index[id]].price][j] = index[id]
<1>1. PICK slot : slot = index[id]
  OBVIOUS
<1>2. slot \in Slots
  <2>1. slot \in AnySlot
    BY <1>1, TypeFacts
  <2> QED BY <1>1, <2>1 DEF AnySlot
<1>3. orders[slot].inUse /\ orders[slot].id = id /\ orders[slot].price \in Prices
  BY <1>1, <1>2 DEF BookInv, IndexInv
<1>4. orders[slot].side \in Sides
  BY <1>2, TypeFacts
<1>5. PICK s \in Sides, p \in Prices : s = orders[slot].side /\ p = orders[slot].price
  BY <1>3, <1>4
<1>6. PICK f \in Seq(Slots) : f = fifos[s][p]
  BY DEF FifoTable
<1>7. LevelInv(f, s, p)
  BY <1>6 DEF BookInv
<1>8. slot \in ToSet(f)
  BY <1>2, <1>3, <1>5, <1>7 DEF LevelInv
<1>9. \E j \in 1 .. Len(f) : f[j] = slot
  BY <1>8, Members
<1> QED BY <1>1, <1>2, <1>3, <1>4, <1>5, <1>6, <1>9

\* The slots that remove writes to.
LEMMA RemoveSlots ==
  ASSUME NEW id, NEW slot, NEW s0, NEW p0, NEW j, NEW free, NEW fifos,
         Removing(id, slot, s0, p0, j, free, fifos)
  PROVE  /\ slot \in Slots /\ orders[slot].inUse /\ orders[slot].id = id
         /\ s0 \in Sides /\ p0 \in Prices /\ s0 = orders[slot].side /\ p0 = orders[slot].price
         /\ orders[slot].remaining \in Nat
         /\ fifos[s0][p0] \in Seq(Slots) /\ LevelInv(fifos[s0][p0], s0, p0)
         /\ \A x \in {orders[slot].prev, orders[slot].next} :
              x # NoSlot => /\ x \in Slots /\ x # slot /\ orders[x].inUse
                            /\ orders[x].side = s0 /\ orders[x].price = p0
<1>1. TypeOK /\ fifos \in FifoTable /\ BookInv(free, fifos) /\ id \in Ids /\ index[id] # NoSlot
  BY DEF Removing
<1>2. slot = index[id] /\ s0 = orders[slot].side /\ p0 = orders[slot].price
  BY DEF Removing
<1>3. /\ slot \in Slots /\ orders[slot].inUse /\ orders[slot].id = id
      /\ s0 \in Sides /\ p0 \in Prices
  BY <1>1, <1>2, Indexing
<1>4. orders[slot].remaining \in Nat
  BY <1>1, <1>3, TypeFacts
<1>5. PICK f \in Seq(Slots) : f = fifos[s0][p0]
  BY <1>1, <1>3 DEF FifoTable
<1>6. j \in 1 .. Len(f) /\ f[j] = slot
  BY <1>5 DEF Removing
<1>7. LevelInv(f, s0, p0)
  BY <1>1, <1>3, <1>5 DEF BookInv
<1>8. /\ \A a, b \in 1 .. Len(f) : f[a] = f[b] => a = b
      /\ \A k \in 1 .. Len(f) :
           /\ orders[f[k]].next = IF k = Len(f) THEN NoSlot ELSE f[k + 1]
           /\ orders[f[k]].prev = IF k = 1 THEN NoSlot ELSE f[k - 1]
      /\ \A x \in Slots : x \in ToSet(f) <=> /\ orders[x].inUse
                                             /\ orders[x].side = s0 /\ orders[x].price = p0
  BY <1>7, LinkedFacts DEF LevelInv
<1>9. Len(f) \in Nat /\ \A k \in 1 .. Len(f) : f[k] \in Slots /\ f[k] \in ToSet(f)
  BY Members
<1>10. orders[slot].next # NoSlot => \E k \in 1 .. Len(f) : k # j /\ orders[slot].next = f[k]
  <2>1. j # Len(f) => j + 1 \in 1 .. Len(f) /\ j + 1 # j
    BY <1>6, <1>9
  <2> QED BY <1>6, <1>8, <2>1
<1>11. orders[slot].prev # NoSlot => \E k \in 1 .. Len(f) : k # j /\ orders[slot].prev = f[k]
  <2>1. j # 1 => j - 1 \in 1 .. Len(f) /\ j - 1 # j
    BY <1>6, <1>9
  <2> QED BY <1>6, <1>8, <2>1
<1>12. ASSUME NEW x \in {orders[slot].prev, orders[slot].next}, x # NoSlot
       PROVE  /\ x \in Slots /\ x # slot /\ orders[x].inUse
              /\ orders[x].side = s0 /\ orders[x].price = p0
  <2>1. PICK k \in 1 .. Len(f) : k # j /\ x = f[k]
    BY <1>10, <1>11, <1>12
  <2>2. x \in Slots /\ x \in ToSet(f)
    BY <1>9, <2>1
  <2>3. x # slot
    BY <1>6, <1>8, <2>1
  <2> QED BY <1>8, <2>2, <2>3
<1> QED BY <1>2, <1>3, <1>4, <1>5, <1>7, <1>12

LEMMA RemoveOrders ==
  ASSUME NEW id, NEW slot, NEW s0, NEW p0, NEW j, NEW free, NEW fifos,
         Removing(id, slot, s0, p0, j, free, fifos)
  PROVE  Erased(orders', slot) /\ freeHead' = slot /\ freeCount' = freeCount + 1
<1>1. slot \in Slots /\ orders \in [Slots -> OrderType] /\ freeHead \in AnySlot
  <2>1. slot \in Slots
    BY RemoveSlots
  <2>2. TypeOK
    BY DEF Removing
  <2> QED BY <2>1, <2>2, TypeFacts
<1>2. Release(Unlinked(orders[slot]), slot)
  BY DEF Removing, RemoveActiveOrder
<1>3. /\ orders' = [Unlinked(orders[slot]) EXCEPT ![slot] = FreeOrder(freeHead)]
      /\ freeHead' = slot /\ freeCount' = freeCount + 1
  BY <1>2 DEF Release
<1>4. Erased([Unlinked(orders[slot]) EXCEPT ![slot] = FreeOrder(freeHead)], slot)
  BY <1>1, RemoveEffect
<1> QED BY <1>3, <1>4

LEMMA RemovePool ==
  ASSUME NEW id, NEW slot, NEW s0, NEW p0, NEW j, NEW free, NEW fifos,
         Removing(id, slot, s0, p0, j, free, fifos)
  PROVE  PoolInv(<<slot>> \o free)' /\ <<slot>> \o free \in Seq(Slots)
<1>1. /\ slot \in Slots /\ orders[slot].inUse
      /\ orders[slot].prev # NoSlot => orders[orders[slot].prev].inUse
  BY RemoveSlots
<1>2. /\ Path(orders, free, freeHead) /\ freeCount = Len(free) /\ free \in Seq(Slots)
      /\ \A x \in Slots : x \in ToSet(free) <=> ~orders[x].inUse
      /\ Len(free) + Cardinality(InUse) = MaxOrders
  BY DEF Removing, BookInv, PoolInv
<1>3. /\ freeHead' = slot /\ freeCount' = freeCount + 1
      /\ \A x \in Slots \ {slot} :
           /\ orders'[x].next = IF x = orders[slot].prev THEN orders[slot].next
                                ELSE orders[x].next
           /\ orders'[x].inUse = orders[x].inUse
      /\ orders'[slot].next = freeHead /\ orders'[slot].inUse = FALSE
  <2>1. Erased(orders', slot) /\ freeHead' = slot /\ freeCount' = freeCount + 1
    BY RemoveOrders
  <2> QED BY <2>1 DEF Erased
<1> DEFINE more == <<slot>> \o free
<1>4. ASSUME NEW k \in 1 .. Len(free) PROVE orders'[free[k]].next = orders[free[k]].next
  <2>1. free[k] \in Slots /\ free[k] \in ToSet(free) /\ free[k] # NoSlot
    BY <1>2, Members
  <2>2. ~orders[free[k]].inUse
    BY <1>2, <2>1
  <2>3. free[k] # slot /\ free[k] # orders[slot].prev
    BY <1>1, <2>1, <2>2
  <2> QED BY <1>3, <2>1, <2>3
<1>5. /\ Path(orders', more, slot) /\ Len(more) = Len(free) + 1
      /\ \A x : x \in ToSet(more) <=> x \in ToSet(free) \/ x = slot
  <2>1. slot \notin ToSet(free)
    BY <1>1, <1>2
  <2> QED BY <1>1, <1>2, <1>3, <1>4, <2>1, PathPush
<1> HIDE DEF more
<1>6. more \in Seq(Slots)
  BY <1>5 DEF Path
<1>7. InUse' = InUse \ {slot} /\ slot \in InUse
  BY <1>1, <1>3 DEF InUse
<1>8. IsFiniteSet(InUse) /\ Cardinality(InUse) \in Nat
  BY SlotsFinite, FS_Subset, FS_CardinalityType DEF InUse
<1>9. Cardinality(InUse') = Cardinality(InUse) - 1
  BY <1>7, <1>8, FS_RemoveElement
<1>10. Len(more) + Cardinality(InUse') = MaxOrders /\ freeCount' = Len(more)
  <2>1. Len(free) \in Nat
    BY <1>2, Members
  <2> QED BY <1>2, <1>3, <1>5, <1>8, <1>9, <2>1
<1>11. \A x \in Slots : x \in ToSet(more) <=> ~orders'[x].inUse
  BY <1>2, <1>3, <1>5
<1>12. PoolInv(more)'
  BY <1>3, <1>5, <1>10, <1>11 DEF PoolInv
<1> QED BY <1>6, <1>12 DEF more

\* The quantity of a FIFO that loses a slot.
LEMMA RemovedSum ==
  ASSUME NEW f \in Seq(Slots), NEW j \in 1 .. Len(f), IsInjective(f), NEW o, NEW q,
         \A x \in Slots : o[x].remaining \in Nat,
         \A x \in Slots \ {f[j]} : q[x].remaining = o[x].remaining
  PROVE  Remaining(q, RemoveAt(f, j)) = Remaining(o, f) - o[f[j]].remaining
<1> DEFINE n == Len(f)
           g == RemoveAt(f, j)
           a == [k \in DOMAIN f |-> o[f[k]].remaining]
           b == [k \in DOMAIN g |-> q[g[k]].remaining]
<1>1. n \in Nat \ {0} /\ \A k \in 1 .. n : f[k] \in Slots
  BY Members
<1>2. /\ g \in Seq(Slots) /\ Len(g) = n - 1
      /\ \A k \in 1 .. n - 1 : g[k] = IF k < j THEN f[k] ELSE f[k + 1]
  BY Removed
<1>3. \A k \in 1 .. n - 1 : g[k] \in Slots \ {f[j]}
  <2> SUFFICES ASSUME NEW k \in 1 .. n - 1 PROVE g[k] \in Slots \ {f[j]}
    OBVIOUS
  <2>1. g[k] \in Slots /\ g[k] \in ToSet(g)
    BY <1>2, Members
  <2> QED BY <2>1, RemovedMembers
<1>4. DOMAIN f = 1 .. n /\ DOMAIN g = 1 .. n - 1
  BY <1>2
<1>5. a \in [1 .. n -> Int] /\ a[j] = o[f[j]].remaining
  BY <1>1, <1>4
<1>6. b \in [1 .. n - 1 -> Int] /\ \A k \in 1 .. n - 1 : b[k] = o[g[k]].remaining
  <2>1. \A k \in 1 .. n - 1 : /\ q[g[k]].remaining = o[g[k]].remaining
                              /\ o[g[k]].remaining \in Nat
    BY <1>3
  <2>2. DOMAIN b = 1 .. n - 1 /\ \A k \in 1 .. n - 1 : b[k] = q[g[k]].remaining
    BY <1>4
  <2>3. b = [k \in 1 .. n - 1 |-> b[k]]
    BY <1>4
  <2> HIDE DEF b, g, n
  <2> QED BY <2>1, <2>2, <2>3
<1>7. \A k \in 1 .. n - 1 : b[k] = IF k < j THEN a[k] ELSE a[k + 1]
  <2> SUFFICES ASSUME NEW k \in 1 .. n - 1 PROVE b[k] = IF k < j THEN a[k] ELSE a[k + 1]
    OBVIOUS
  <2>1. k \in 1 .. n /\ k + 1 \in 1 .. n
    BY <1>1
  <2>2. a[k] = o[f[k]].remaining /\ a[k + 1] = o[f[k + 1]].remaining
    BY <1>4, <2>1
  <2>3. b[k] = o[g[k]].remaining
    BY <1>6
  <2> HIDE DEF a, b, g, n
  <2> QED BY <1>2, <2>2, <2>3
<1> HIDE DEF a, b, n, g
<1>8. j \in 1 .. n
  BY DEF n
<1>9. Sum(b) = Sum(a) - a[j]
  BY <1>1, <1>5, <1>6, <1>7, <1>8, SumRemove
<1> QED BY <1>5, <1>9 DEF a, b, g, Remaining

\* What remove does to the levels.
LEMMA RemoveLevels ==
  ASSUME NEW id, NEW slot, NEW s0, NEW p0, NEW j, NEW free, NEW fifos,
         Removing(id, slot, s0, p0, j, free, fifos)
  PROVE  /\ levels' \in [Sides -> [Prices -> LevelType]]
         /\ levels'[s0][p0].head = IF orders[slot].prev = NoSlot THEN orders[slot].next
                                   ELSE levels[s0][p0].head
         /\ levels'[s0][p0].tail = IF orders[slot].next = NoSlot THEN orders[slot].prev
                                   ELSE levels[s0][p0].tail
         /\ levels'[s0][p0].quantity = levels[s0][p0].quantity - orders[slot].remaining
         /\ levels'[s0][p0].count = levels[s0][p0].count - 1
         /\ \A s \in Sides, p \in Prices : s # s0 \/ p # p0 => levels'[s][p] = levels[s][p]
         /\ levels[s0][p0].count = Len(fifos[s0][p0])
<1>1. PICK o : o = orders[slot]
  OBVIOUS
<1>2. PICK l : l = levels[s0][p0]
  OBVIOUS
<1>3. PICK f \in Seq(Slots) : f = fifos[s0][p0]
  BY RemoveSlots
<1>4. /\ slot \in Slots /\ s0 \in Sides /\ p0 \in Prices /\ o.remaining \in Nat
      /\ s0 = o.side /\ p0 = o.price /\ LevelInv(f, s0, p0)
  BY <1>1, <1>3, RemoveSlots
<1>5. /\ levels \in [Sides -> [Prices -> LevelType]] /\ l.head \in AnySlot
      /\ l.tail \in AnySlot /\ l.quantity \in Nat /\ l.count \in Nat
      /\ o.prev \in AnySlot /\ o.next \in AnySlot
      /\ \A x \in Slots : orders[x].remaining \in Nat
  BY <1>1, <1>2, <1>4, TypeFacts DEF Removing
<1>6. PICK v : v = [head |-> IF o.prev = NoSlot THEN o.next ELSE l.head,
                    tail |-> IF o.next = NoSlot THEN o.prev ELSE l.tail,
                    quantity |-> l.quantity - o.remaining,
                    count |-> l.count - 1]
  OBVIOUS
<1>7. RemoveFromSide(orders[slot])
  BY DEF Removing, RemoveActiveOrder
<1>8. levels' = [levels EXCEPT ![s0][p0] = v]
  BY <1>1, <1>2, <1>4, <1>6, <1>7 DEF RemoveFromSide
<1>9. /\ v.head = IF o.prev = NoSlot THEN o.next ELSE l.head
      /\ v.tail = IF o.next = NoSlot THEN o.prev ELSE l.tail
      /\ v.quantity = l.quantity - o.remaining /\ v.count = l.count - 1
  BY <1>6
<1>10. l.count = Len(f) /\ l.quantity = SumRemaining(f)
  BY <1>2, <1>4 DEF LevelInv
<1>11. j \in 1 .. Len(f) /\ f[j] = slot /\ Len(f) \in Nat /\ Len(f) # 0
  <2>1. j \in 1 .. Len(f) /\ f[j] = slot
    BY <1>3 DEF Removing
  <2> QED BY <2>1, Members
<1>12. l.quantity - o.remaining \in Nat
  <2> DEFINE g == RemoveAt(f, j)
             b == [k \in DOMAIN g |-> orders[g[k]].remaining]
  <2>1. g \in Seq(Slots) /\ Len(g) = Len(f) - 1 /\ Len(f) - 1 \in Nat
    BY <1>11, Removed
  <2>2. \A k \in 1 .. Len(f) - 1 : g[k] \in Slots
    BY <2>1, Members
  <2>3. b \in [1 .. Len(f) - 1 -> Nat]
    BY <1>5, <2>1, <2>2
  <2>4. Sum(b) \in Nat
    <3> HIDE DEF b
    <3> QED BY <2>1, <2>3, SumNat
  <2>5. IsInjective(f)
    BY <1>4 DEF LevelInv, Linked, Path
  <2>6. Remaining(orders, RemoveAt(f, j)) = Remaining(orders, f) - orders[f[j]].remaining
    BY <1>5, <1>11, <2>5, RemovedSum
  <2> QED BY <1>1, <1>10, <1>11, <2>4, <2>6 DEF Remaining, SumRemaining
<1>13. v \in LevelType
  <2>1. /\ v.head \in Slots \cup {NoSlot} /\ v.tail \in Slots \cup {NoSlot}
        /\ v.quantity \in Nat /\ v.count \in Nat
    BY <1>5, <1>9, <1>10, <1>11, <1>12 DEF AnySlot
  <2> QED BY <1>6, <2>1 DEF LevelType
<1> HIDE DEF LevelType
<1>14. /\ levels'[s0][p0] = v
       /\ \A s \in Sides, p \in Prices : s # s0 \/ p # p0 => levels'[s][p] = levels[s][p]
       /\ levels' \in [Sides -> [Prices -> LevelType]]
  BY <1>4, <1>5, <1>8, <1>13, EntryReplaced
<1> QED BY <1>1, <1>2, <1>3, <1>9, <1>10, <1>14

\* The FIFOs after it.
Shorter(s0, p0, j, fifos) == [fifos EXCEPT ![s0][p0] = RemoveAt(@, j)]

LEMMA RemovedFifos ==
  ASSUME NEW id, NEW slot, NEW s0, NEW p0, NEW j, NEW free, NEW fifos,
         Removing(id, slot, s0, p0, j, free, fifos)
  PROVE  /\ Shorter(s0, p0, j, fifos) \in FifoTable
         /\ Shorter(s0, p0, j, fifos)[s0][p0] = RemoveAt(fifos[s0][p0], j)
         /\ \A s \in Sides, p \in Prices : s # s0 \/ p # p0 =>
              Shorter(s0, p0, j, fifos)[s][p] = fifos[s][p]
<1>1. s0 \in Sides /\ p0 \in Prices /\ fifos[s0][p0] \in Seq(Slots)
  BY RemoveSlots
<1>2. fifos \in [Sides -> [Prices -> Seq(Slots)]] /\ j \in 1 .. Len(fifos[s0][p0])
  BY DEF Removing, FifoTable
<1>3. PICK v : v = RemoveAt(fifos[s0][p0], j)
  OBVIOUS
<1>4. v \in Seq(Slots)
  BY <1>1, <1>2, <1>3, Removed
<1>5. Shorter(s0, p0, j, fifos) = [fifos EXCEPT ![s0][p0] = v]
  BY <1>3 DEF Shorter
<1> QED BY <1>1, <1>2, <1>3, <1>4, <1>5, EntryReplaced DEF FifoTable

LEMMA RemoveLevel ==
  ASSUME NEW id, NEW slot, NEW s0, NEW p0, NEW j, NEW free, NEW fifos,
         Removing(id, slot, s0, p0, j, free, fifos),
         NEW s \in Sides, NEW p \in Prices
  PROVE  LevelInv(Shorter(s0, p0, j, fifos)[s][p], s, p)'
<1>1. /\ slot \in Slots /\ orders[slot].inUse /\ s0 \in Sides /\ p0 \in Prices
      /\ s0 = orders[slot].side /\ p0 = orders[slot].price
      /\ \A x \in {orders[slot].prev, orders[slot].next} :
           x # NoSlot => /\ x \in Slots /\ x # slot /\ orders[x].inUse
                         /\ orders[x].side = s0 /\ orders[x].price = p0
  BY RemoveSlots
<1>2. PICK f \in Seq(Slots) : f = fifos[s][p]
  BY DEF Removing, FifoTable
<1>3. LevelInv(f, s, p)
  BY <1>2 DEF Removing, BookInv
<1>4. /\ Linked(orders, f, levels[s][p].head, levels[s][p].tail)
      /\ levels[s][p].count = Len(f) /\ levels[s][p].quantity = SumRemaining(f)
      /\ \A x \in Slots : x \in ToSet(f) <=> /\ orders[x].inUse
                                             /\ orders[x].side = s /\ orders[x].price = p
  BY <1>3 DEF LevelInv
<1>5. Erased(orders', slot)
  BY RemoveOrders
<1>6. IsInjective(f)
  BY <1>4 DEF Linked, Path
<1>7. CASE s = s0 /\ p = p0
  <2>1. j \in 1 .. Len(f) /\ f[j] = slot
    BY <1>2, <1>7 DEF Removing
  <2>2. PICK g : g = RemoveAt(f, j)
    OBVIOUS
  <2>3. Shorter(s0, p0, j, fifos)[s][p] = g
    BY <1>2, <1>7, <2>2, RemovedFifos
  <2>4. PICK h, t : h = levels[s][p].head /\ t = levels[s][p].tail
    OBVIOUS
  <2>5. /\ levels'[s][p].head = IF orders[slot].prev = NoSlot THEN orders[slot].next ELSE h
        /\ levels'[s][p].tail = IF orders[slot].next = NoSlot THEN orders[slot].prev ELSE t
        /\ levels'[s][p].quantity = levels[s][p].quantity - orders[slot].remaining
        /\ levels'[s][p].count = levels[s][p].count - 1
    BY <1>7, <2>4, RemoveLevels
  <2>6. Linked(orders', g, IF orders[slot].prev = NoSlot THEN orders[slot].next ELSE h,
                           IF orders[slot].next = NoSlot THEN orders[slot].prev ELSE t)
    <3>1. Linked(orders, f, h, t)
      BY <1>4, <2>4
    <3>2. \A x \in Slots \ {f[j]} :
            /\ orders'[x].next = IF x = orders[f[j]].prev THEN orders[f[j]].next
                                 ELSE orders[x].next
            /\ orders'[x].prev = IF x = orders[f[j]].next THEN orders[f[j]].prev
                                 ELSE orders[x].prev
      BY <1>5, <2>1 DEF Erased
    <3>3. Linked(orders', RemoveAt(f, j),
                 IF orders[f[j]].prev = NoSlot THEN orders[f[j]].next ELSE h,
                 IF orders[f[j]].next = NoSlot THEN orders[f[j]].prev ELSE t)
      BY <2>1, <3>1, <3>2, LinkedRemove
    <3> QED BY <2>1, <2>2, <3>3
  <2>7. Linked(orders', g, levels'[s][p].head, levels'[s][p].tail)
    BY <2>5, <2>6
  <2>8. SumRemaining(g)' = SumRemaining(f) - orders[slot].remaining
    <3>1. /\ \A x \in Slots : orders[x].remaining \in Nat
          /\ \A x \in Slots \ {f[j]} : orders'[x].remaining = orders[x].remaining
      BY <1>5, <2>1, TypeFacts DEF Removing, Erased
    <3>2. Remaining(orders', RemoveAt(f, j)) = Remaining(orders, f) - orders[f[j]].remaining
      BY <1>6, <2>1, <3>1, RemovedSum
    <3> QED BY <2>1, <2>2, <3>2 DEF SumRemaining, Remaining
  <2>9. /\ Len(g) = Len(f) - 1
        /\ \A x : x \in ToSet(g) <=> x \in ToSet(f) /\ x # slot
    BY <1>6, <2>1, <2>2, Removed, RemovedMembers
  <2>10. \A x \in Slots : x \in ToSet(g) <=> /\ orders'[x].inUse
                                             /\ orders'[x].side = s /\ orders'[x].price = p
    BY <1>4, <1>5, <2>9 DEF Erased
  <2>11. LevelInv(g, s, p)'
    BY <1>4, <2>5, <2>7, <2>8, <2>9, <2>10 DEF LevelInv
  <2> QED BY <2>3, <2>11
<1>8. CASE s # s0 \/ p # p0
  <2>1. Shorter(s0, p0, j, fifos)[s][p] = f
    BY <1>2, <1>8, RemovedFifos
  <2>2. levels'[s][p] = levels[s][p]
    BY <1>8, RemoveLevels
  <2>3. ASSUME NEW x \in ToSet(f)
        PROVE  x \in Slots /\ x # slot /\ x # orders[slot].prev /\ x # orders[slot].next
    <3>1. x \in Slots /\ x # NoSlot
      BY Members, SlotsFinite
    <3>2. orders[x].side = s /\ orders[x].price = p
      BY <1>4, <3>1
    <3> QED BY <1>1, <1>8, <3>1, <3>2
  <2>4. LevelInv(f, s, p)'
    <3>1. \A x \in ToSet(f) :
            /\ orders'[x].next = orders[x].next /\ orders'[x].prev = orders[x].prev
            /\ orders'[x].remaining = orders[x].remaining
            /\ orders'[x].inUse = orders[x].inUse
            /\ orders'[x].side = orders[x].side /\ orders'[x].price = orders[x].price
      BY <1>5, <2>3 DEF Erased
    <3>2. \A x \in Slots \ ToSet(f) :
            orders'[x].inUse => orders'[x].side # s \/ orders'[x].price # p
      BY <1>4, <1>5 DEF Erased
    <3> QED BY <1>3, <2>2, <3>1, <3>2, LevelKept
  <2> QED BY <2>1, <2>4
<1> QED BY <1>7, <1>8

LEMMA RemoveIndex ==
  ASSUME NEW id, NEW slot, NEW s0, NEW p0, NEW j, NEW free, NEW fifos,
         Removing(id, slot, s0, p0, j, free, fifos)
  PROVE  IndexInv' /\ index' \in [Ids -> AnySlot]
<1>1. /\ slot \in Slots /\ orders[slot].inUse /\ orders[slot].id = id
      /\ s0 \in Sides /\ p0 \in Prices /\ s0 = orders[slot].side
  BY RemoveSlots
<1>2. /\ index \in [Ids -> AnySlot] /\ count \in [Sides -> Nat]
  BY TypeFacts DEF Removing
<1>3. /\ \A x \in Slots : orders[x].inUse =>
           /\ orders[x].id \in Ids /\ index[orders[x].id] = x
           /\ orders[x].price \in Prices /\ orders[x].remaining \in Quantities
      /\ \A i \in Ids : index[i] # NoSlot =>
           orders[index[i]].inUse /\ orders[index[i]].id = i
      /\ IsFiniteSet(Indexed) /\ Cardinality(Indexed) = count["Bid"] + count["Ask"]
  BY DEF Removing, BookInv, IndexInv
<1>4. /\ id \in Ids /\ index[id] = slot /\ slot # NoSlot
      /\ index' = [index EXCEPT ![id] = NoSlot]
  BY DEF Removing
<1>5. index'[id] = NoSlot /\ \A i \in Ids : i # id => index'[i] = index[i]
  BY <1>2, <1>4
<1>6. Erased(orders', slot)
  BY RemoveOrders
<1>7. ASSUME NEW x \in Slots, orders'[x].inUse
      PROVE  /\ orders'[x].id \in Ids /\ index'[orders'[x].id] = x
             /\ orders'[x].price \in Prices /\ orders'[x].remaining \in Quantities
  <2>1. x # slot
    BY <1>6, <1>7 DEF Erased
  <2>2. /\ orders'[x].id = orders[x].id /\ orders'[x].price = orders[x].price
        /\ orders'[x].remaining = orders[x].remaining /\ orders[x].inUse
    BY <1>6, <1>7, <2>1 DEF Erased
  <2>3. /\ orders[x].id \in Ids /\ index[orders[x].id] = x
        /\ orders[x].price \in Prices /\ orders[x].remaining \in Quantities
    BY <1>3, <2>2
  <2>4. orders[x].id # id
    BY <1>4, <2>1, <2>3
  <2> QED BY <1>5, <2>2, <2>3, <2>4
<1>8. ASSUME NEW i \in Ids, index'[i] # NoSlot
      PROVE  orders'[index'[i]].inUse /\ orders'[index'[i]].id = i
  <2>1. i # id /\ index'[i] = index[i]
    BY <1>5, <1>8
  <2>2. index[i] \in Slots /\ index[i] # NoSlot
    BY <1>2, <1>8, <2>1 DEF AnySlot
  <2>3. orders[index[i]].inUse /\ orders[index[i]].id = i
    BY <1>3, <2>2
  <2>4. index[i] # slot
    BY <1>1, <2>1, <2>3
  <2> QED BY <1>6, <2>1, <2>2, <2>3, <2>4 DEF Erased
<1>9. Indexed' = Indexed \ {id} /\ id \in Indexed
  BY <1>4, <1>5 DEF Indexed
<1>10. /\ IsFiniteSet(Indexed') /\ Cardinality(Indexed') = Cardinality(Indexed) - 1
  BY <1>3, <1>9, FS_RemoveElement, FS_Subset
<1>0. PICK n : n = count["Bid"] + count["Ask"] /\ Cardinality(Indexed) = n
  BY <1>3
<1>11. count'["Bid"] + count'["Ask"] = n - 1
  <2>1. count' = [count EXCEPT ![s0] = @ - 1]
    BY <1>1 DEF Removing, RemoveActiveOrder, RemoveFromSide
  <2>2. PICK a, b \in Nat : a = count["Bid"] /\ b = count["Ask"] /\ n = a + b
    BY <1>0, <1>2 DEF Sides
  <2>3. CASE s0 = "Bid"
    <3>1. count'["Bid"] = a - 1 /\ count'["Ask"] = b
      BY <1>2, <2>1, <2>2, <2>3 DEF Sides
    <3> QED BY <2>2, <3>1
  <2>4. CASE s0 = "Ask"
    <3>1. count'["Bid"] = a /\ count'["Ask"] = b - 1
      BY <1>2, <2>1, <2>2, <2>4 DEF Sides
    <3> QED BY <2>2, <3>1
  <2> QED BY <1>1, <2>3, <2>4 DEF Sides
<1>12. index' \in [Ids -> AnySlot]
  BY <1>2, <1>4 DEF AnySlot
<1>13. \A x \in Slots : orders'[x].inUse =>
         /\ orders'[x].id \in Ids /\ index'[orders'[x].id] = x
         /\ orders'[x].price \in Prices /\ orders'[x].remaining \in Quantities
  BY <1>7
<1>14. \A i \in Ids : index'[i] # NoSlot =>
         orders'[index'[i]].inUse /\ orders'[index'[i]].id = i
  BY <1>8
<1>15. Cardinality(Indexed') = count'["Bid"] + count'["Ask"]
  BY <1>0, <1>10, <1>11
<1>16. IndexInv'
  BY <1>10, <1>13, <1>14, <1>15 DEF IndexInv
<1> QED BY <1>12, <1>16

\* recompute_best: a segment that was not the best does not change it.
LEMMA BestAfterRemoval ==
  ASSUME NEW s, NEW n \in Nat, NEW T, T \subseteq 0 .. n, NEW g \in T, Extreme(s, T) # g
  PROVE  Extreme(s, T \ {g}) = Extreme(s, T)
<1>1. PICK m : m = Extreme(s, T)
  OBVIOUS
<1>2. m \in T /\ \A k \in T : AsGood(s, m, k)
  BY <1>1, ExtremeIsBest
<1>3. T \ {g} \subseteq 0 .. n /\ m \in T \ {g} /\ \A k \in T \ {g} : AsGood(s, m, k)
  BY <1>1, <1>2
<1>4. PICK U : U = T \ {g}
  OBVIOUS
<1>5. Extreme(s, U) = m
  BY <1>3, <1>4, ExtremeUnique
<1> QED BY <1>1, <1>4, <1>5

LEMMA RemoveSide ==
  ASSUME NEW id, NEW slot, NEW s0, NEW p0, NEW j, NEW free, NEW fifos,
         Removing(id, slot, s0, p0, j, free, fifos), NEW s \in Sides
  PROVE  SideInv(s)'
<1>1. /\ slot \in Slots /\ orders[slot].inUse /\ s0 \in Sides /\ p0 \in Prices
      /\ s0 = orders[slot].side /\ p0 = orders[slot].price
      /\ orders[slot].remaining \in Nat
  BY RemoveSlots
<1>2. PICK g0 : g0 = SegmentOf(p0)
  OBVIOUS
<1>3. g0 \in Segments /\ Segments = 0 .. SegmentOf(MaxPrice) /\ SegmentOf(MaxPrice) \in Nat
  BY <1>1, <1>2, SegmentsOrdered DEF Segments
<1>4. SideInv(s)
  BY DEF Removing, BookInv
<1>5. /\ active \in [Sides -> [Segments -> SUBSET Prices]]
      /\ occupied \in [Sides -> SUBSET Segments]
      /\ best \in [Sides -> Segments \cup {NoSegment}]
      /\ count \in [Sides -> Nat] /\ total \in [Sides -> Nat]
      /\ levels \in [Sides -> [Prices -> LevelType]]
      /\ \A p \in Prices : levels[s][p].count \in Nat /\ levels[s][p].quantity \in Nat
  BY TypeFacts DEF Removing
<1>8. RemoveFromSide(orders[slot])
  BY DEF Removing, RemoveActiveOrder
<1>9. /\ active' = IF levels[s0][p0].count = 1
                   THEN [active EXCEPT ![s0][g0] = @ \ {p0}] ELSE active
      /\ occupied' = IF levels[s0][p0].count = 1 /\ active[s0][g0] = {p0}
                     THEN [occupied EXCEPT ![s0] = @ \ {g0}] ELSE occupied
      /\ best' = IF levels[s0][p0].count = 1 /\ active[s0][g0] = {p0}
                 THEN [best EXCEPT ![s0] = RecomputeBest(s0, g0)] ELSE best
      /\ count' = [count EXCEPT ![s0] = @ - 1]
      /\ total' = [total EXCEPT ![s0] = @ - orders[slot].remaining]
  BY <1>1, <1>2, <1>8 DEF RemoveFromSide
<1>10. /\ levels' \in [Sides -> [Prices -> LevelType]]
       /\ levels'[s0][p0].quantity = levels[s0][p0].quantity - orders[slot].remaining
       /\ levels'[s0][p0].count = levels[s0][p0].count - 1
       /\ \A r \in Sides, p \in Prices : r # s0 \/ p # p0 => levels'[r][p] = levels[r][p]
  BY RemoveLevels
<1>11. levels[s0][p0].count # 0
  <2>1. levels[s0][p0].count = Len(fifos[s0][p0])
    BY RemoveLevels
  <2>2. j \in 1 .. Len(fifos[s0][p0])
    BY DEF Removing
  <2>3. Len(fifos[s0][p0]) # 0
    BY <2>2
  <2> QED BY <2>1, <2>3
<1>12. Erased(orders', slot)
  BY RemoveOrders
<1>13. CASE s # s0
  <2>1. levels'[s] = levels[s]
    <3>1. levels'[s] \in [Prices -> LevelType] /\ levels[s] \in [Prices -> LevelType]
      BY <1>5, <1>10
    <3>2. \A p \in Prices : levels'[s][p] = levels[s][p]
      BY <1>10, <1>13
    <3> HIDE DEF LevelType
    <3> QED BY <3>1, <3>2
  <2>2. active'[s] = active[s]
    BY <1>1, <1>5, <1>9, <1>13
  <2>3. occupied'[s] = occupied[s] /\ best'[s] = best[s]
    BY <1>1, <1>5, <1>9, <1>13
  <2>4. count'[s] = count[s] /\ total'[s] = total[s]
    BY <1>1, <1>5, <1>9, <1>13
  <2>5. OrdersOf(s)' = OrdersOf(s)
    BY <1>1, <1>12, <1>13 DEF OrdersOf, InUse, Erased
  <2> QED BY <1>4, <2>1, <2>2, <2>3, <2>4, <2>5, SideKept
<1>14. CASE s = s0
  <2>1. /\ \A g \in Segments : active[s][g] = {p \in Prices : /\ levels[s][p].count # 0
                                                             /\ SegmentOf(p) = g}
        /\ occupied[s] = {g \in Segments : active[s][g] # {}}
        /\ best[s] = Extreme(s, occupied[s])
        /\ count[s] = Cardinality(OrdersOf(s))
        /\ count[s] = Sum([k \in LevelNumbers |-> levels[s][MinPrice + k - 1].count])
        /\ total[s] = Sum([k \in LevelNumbers |-> levels[s][MinPrice + k - 1].quantity])
    BY <1>4 DEF SideInv
  <2>2. p0 \in active[s][g0]
    BY <1>1, <1>2, <1>3, <1>11, <1>14, <2>1
  <2>3. /\ active'[s][g0] = IF levels[s][p0].count = 1 THEN active[s][g0] \ {p0}
                            ELSE active[s][g0]
        /\ \A g \in Segments : g # g0 => active'[s][g] = active[s][g]
    <3>1. CASE levels[s][p0].count = 1
      <4>1. PICK v : v = active[s][g0] \ {p0}
        OBVIOUS
      <4>2. active' = [active EXCEPT ![s][g0] = v]
        BY <1>9, <1>14, <3>1, <4>1
      <4>3. /\ active'[s][g0] = v
            /\ \A r \in Sides, g \in Segments : r # s \/ g # g0 => active'[r][g] = active[r][g]
        BY <1>3, <1>5, <4>2, EntryReplaced
      <4> QED BY <3>1, <4>1, <4>3
    <3>2. CASE levels[s][p0].count # 1
      BY <1>9, <1>14, <3>2
    <3> QED BY <3>1, <3>2
  <2>4. ASSUME NEW g \in Segments
        PROVE  active'[s][g] = {p \in Prices : /\ levels'[s][p].count # 0 /\ SegmentOf(p) = g}
    <3>1. levels'[s][p0].count # 0 <=> levels[s][p0].count # 1
      <4>1. PICK c \in Nat : c = levels[s][p0].count
        BY <1>1, <1>5
      <4>2. levels'[s][p0].count = c - 1
        BY <1>10, <1>14, <4>1
      <4> QED BY <4>1, <4>2
    <3>2. \A p \in Prices \ {p0} : levels'[s][p] = levels[s][p]
      BY <1>10, <1>14
    <3>3. levels[s][p0].count # 0
      BY <1>11, <1>14
    <3>4. CASE g = g0
      BY <1>1, <1>2, <1>3, <2>1, <2>3, <3>1, <3>2, <3>3, <3>4
    <3>5. CASE g # g0
      BY <1>1, <1>2, <2>1, <2>3, <3>1, <3>2, <3>5
    <3> QED BY <3>4, <3>5
  <2>5. occupied'[s] = IF levels[s][p0].count = 1 /\ active[s][g0] = {p0}
                       THEN occupied[s] \ {g0} ELSE occupied[s]
    BY <1>5, <1>9, <1>14
  <2>6. occupied'[s] = {g \in Segments : active'[s][g] # {}}
    <3>1. active'[s][g0] = {} <=> levels[s][p0].count = 1 /\ active[s][g0] = {p0}
      BY <2>2, <2>3
    <3>2. active[s][g0] # {}
      BY <2>2
    <3>3. \A g : g \in occupied[s] <=> g \in Segments /\ active[s][g] # {}
      BY <2>1
    <3>4. \A g : g \in occupied'[s] <=> g \in Segments /\ active'[s][g] # {}
      <4> SUFFICES ASSUME NEW g
                   PROVE  g \in occupied'[s] <=> g \in Segments /\ active'[s][g] # {}
        OBVIOUS
      <4>1. CASE g = g0
        BY <1>3, <2>5, <3>1, <3>2, <3>3, <4>1
      <4>2. CASE g # g0
        BY <2>3, <2>5, <3>3, <4>2
      <4> QED BY <4>1, <4>2
    <3> QED BY <3>4
  <2>7. best'[s] = Extreme(s, occupied'[s])
    <3>1. CASE levels[s][p0].count = 1 /\ active[s][g0] = {p0}
      <4>1. PICK T : T = occupied[s]
        OBVIOUS
      <4>2. best'[s] = IF g0 = best[s] THEN Extreme(s, T \ {g0}) ELSE best[s]
        BY <1>5, <1>9, <1>14, <3>1, <4>1 DEF RecomputeBest
      <4>3. occupied'[s] = T \ {g0}
        BY <2>5, <3>1, <4>1
      <4>4. best[s] = Extreme(s, T)
        BY <2>1, <4>1
      <4>5. T \subseteq 0 .. SegmentOf(MaxPrice) /\ g0 \in T
        BY <1>3, <1>5, <2>1, <2>2, <4>1
      <4>6. Extreme(s, T) # g0 => Extreme(s, T \ {g0}) = Extreme(s, T)
        BY <1>3, <4>5, BestAfterRemoval
      <4> QED BY <4>2, <4>3, <4>4, <4>6
    <3>2. CASE ~(levels[s][p0].count = 1 /\ active[s][g0] = {p0})
      <4>1. best'[s] = best[s] /\ occupied'[s] = occupied[s]
        BY <1>9, <1>14, <2>5, <3>2
      <4> QED BY <2>1, <4>1
    <3> QED BY <3>1, <3>2
  <2>8. count'[s] = count[s] - 1 /\ total'[s] = total[s] - orders[slot].remaining
    BY <1>5, <1>9, <1>14
  <2>9. count'[s] = Cardinality(OrdersOf(s)')
    <3>1. OrdersOf(s)' = OrdersOf(s) \ {slot} /\ slot \in OrdersOf(s)
      BY <1>1, <1>12, <1>14 DEF OrdersOf, InUse, Erased
    <3>2. IsFiniteSet(OrdersOf(s))
      BY SlotsFinite, FS_Subset DEF OrdersOf, InUse
    <3>3. Cardinality(OrdersOf(s)') = Cardinality(OrdersOf(s)) - 1
      BY <3>1, <3>2, FS_RemoveElement
    <3> QED BY <2>1, <2>8, <3>3
  <2>10. /\ CountSum(levels', s)
              = CountSum(levels, s) + levels'[s][p0].count - levels[s][p0].count
         /\ QuantitySum(levels', s)
              = QuantitySum(levels, s) + levels'[s][p0].quantity - levels[s][p0].quantity
    <3>1. \A p \in Prices : p # p0 => levels'[s][p] = levels[s][p]
      BY <1>10, <1>14
    <3>2. /\ p0 \in Prices /\ levels' \in [Sides -> [Prices -> LevelType]]
          /\ levels \in [Sides -> [Prices -> LevelType]]
      BY <1>1, <1>5, <1>10
    <3> HIDE DEF LevelType
    <3> QED BY <3>1, <3>2, LevelSums
  <2>11. /\ count'[s] = CountSum(levels', s)
         /\ total'[s] = QuantitySum(levels', s)
    <3>1. PICK a, b, c, d, e : /\ a = count[s] /\ b = total[s]
                               /\ c = levels[s][p0].count /\ d = levels[s][p0].quantity
                               /\ e = orders[slot].remaining
      OBVIOUS
    <3>2. a \in Nat /\ b \in Nat /\ c \in Nat /\ d \in Nat /\ e \in Nat
      BY <1>1, <1>5, <1>14, <3>1
    <3>3. /\ CountSum(levels', s) = a + (c - 1) - c
          /\ QuantitySum(levels', s) = b + (d - e) - d
      BY <1>10, <1>14, <2>1, <2>10, <3>1 DEF CountSum, QuantitySum
    <3>4. a + (c - 1) - c = a - 1 /\ b + (d - e) - d = b - e
      BY <3>2
    <3> QED BY <2>8, <3>1, <3>3, <3>4
  <2> QED BY <2>4, <2>6, <2>7, <2>9, <2>11 DEF SideInv, CountSum, QuantitySum
<1> QED BY <1>13, <1>14

\* A removal that finds the invariant leaves it.
LEMMA RemoveInvariant ==
  ASSUME NEW id, NEW slot, NEW s0, NEW p0, NEW j, NEW free, NEW fifos,
         Removing(id, slot, s0, p0, j, free, fifos), UNCHANGED restoreVars, RestoreInv
  PROVE  IInv'
<1>1. PICK more \in Seq(Slots) : PoolInv(more)'
  <2>1. PICK t : t = <<slot>> \o free
    OBVIOUS
  <2> QED BY <2>1, RemovePool
<1>2. PICK after : after = Shorter(s0, p0, j, fifos)
  OBVIOUS
<1>3. after \in FifoTable
  BY <1>2, RemovedFifos
<1>4. \A s \in Sides : SideInv(s)'
  BY RemoveSide
<1>5. BookInv(more, after)'
  <2>1. \A s \in Sides, p \in Prices : LevelInv(after[s][p], s, p)'
    BY <1>2, RemoveLevel
  <2>2. IndexInv'
    BY RemoveIndex
  <2> QED BY <1>1, <1>4, <2>1, <2>2 DEF BookInv
<1>6. RestoreInv' /\ restored' \in 0 .. MaxOrders /\ own' \in BOOLEAN
  BY DEF RestoreInv, restoreVars, Removing, TypeOK
<1>7. TypeOK'
  <2>1. /\ slot \in Slots /\ s0 \in Sides /\ p0 \in Prices
        /\ s0 = orders[slot].side /\ p0 = orders[slot].price
    BY RemoveSlots
  <2>2. PICK g0 : g0 = SegmentOf(p0)
    OBVIOUS
  <2>3. g0 \in Segments
    BY <2>1, <2>2, SegmentsOrdered
  <2>4. /\ active \in [Sides -> [Segments -> SUBSET Prices]]
        /\ occupied \in [Sides -> SUBSET Segments]
        /\ best \in [Sides -> Segments \cup {NoSegment}]
        /\ count \in [Sides -> Nat] /\ total \in [Sides -> Nat]
    BY TypeFacts DEF Removing
  <2>5. RemoveFromSide(orders[slot])
    BY DEF Removing, RemoveActiveOrder
  <2>6. /\ active' = IF levels[s0][p0].count = 1
                     THEN [active EXCEPT ![s0][g0] = @ \ {p0}] ELSE active
        /\ occupied' = IF levels[s0][p0].count = 1 /\ active[s0][g0] = {p0}
                       THEN [occupied EXCEPT ![s0] = @ \ {g0}] ELSE occupied
        /\ best' = IF levels[s0][p0].count = 1 /\ active[s0][g0] = {p0}
                   THEN [best EXCEPT ![s0] = RecomputeBest(s0, g0)] ELSE best
        /\ count' = [count EXCEPT ![s0] = @ - 1]
        /\ total' = [total EXCEPT ![s0] = @ - orders[slot].remaining]
    BY <2>1, <2>2, <2>5 DEF RemoveFromSide
  <2>7. /\ orders' \in [Slots -> OrderType] /\ levels' \in [Sides -> [Prices -> LevelType]]
        /\ index' \in [Ids -> Slots \cup {NoSlot}] /\ freeHead' \in Slots \cup {NoSlot}
    <3> HIDE DEF OrderType, LevelType
    <3>1. Erased(orders', slot) /\ freeHead' = slot
      BY RemoveOrders
    <3>2. levels' \in [Sides -> [Prices -> LevelType]]
      BY RemoveLevels
    <3>3. index' \in [Ids -> AnySlot]
      BY RemoveIndex
    <3> QED BY <2>1, <3>1, <3>2, <3>3 DEF Erased, AnySlot
  <2>8. freeCount' \in 0 .. MaxOrders
    <3>1. IsFiniteSet(InUse') /\ Cardinality(InUse') \in Nat
      BY SlotsFinite, FS_Subset, FS_CardinalityType DEF InUse
    <3>2. freeCount' = Len(more) /\ Len(more) + Cardinality(InUse') = MaxOrders
      BY <1>1 DEF PoolInv
    <3>3. Len(more) \in Nat /\ MaxOrders \in Nat
      BY Members, BookAssumption
    <3> QED BY <3>1, <3>2, <3>3
  <2>9. active' \in [Sides -> [Segments -> SUBSET Prices]]
    <3>1. PICK v : v = active[s0][g0] \ {p0}
      OBVIOUS
    <3>2. v \in SUBSET Prices
      BY <2>1, <2>3, <2>4, <3>1
    <3>3. active' = active \/ active' = [active EXCEPT ![s0][g0] = v]
      BY <2>6, <3>1
    <3>4. [active EXCEPT ![s0][g0] = v] \in [Sides -> [Segments -> SUBSET Prices]]
      BY <2>1, <2>3, <2>4, <3>2, EntryReplaced
    <3> QED BY <2>4, <3>3, <3>4
  <2>10. occupied' \in [Sides -> SUBSET Segments]
    BY <2>1, <2>4, <2>6
  <2>11. \A s \in Sides : /\ count'[s] \in Nat /\ total'[s] \in Nat
                          /\ best'[s] \in Segments \cup {NoSegment}
    <3> HIDE DEF LevelType
    <3> QED BY <1>4, <2>7, <2>10, SideTypesNext DEF SidesOK, SidesTyped
  <2>12. count' \in [Sides -> Nat]
    <3>1. DOMAIN count' = Sides /\ count' = [s \in Sides |-> count'[s]]
      BY <2>4, <2>6
    <3> QED BY <2>11, <3>1
  <2>13. total' \in [Sides -> Nat]
    <3>1. DOMAIN total' = Sides /\ total' = [s \in Sides |-> total'[s]]
      BY <2>4, <2>6
    <3> QED BY <2>11, <3>1
  <2>14. best' \in [Sides -> Segments \cup {NoSegment}]
    <3>1. DOMAIN best' = Sides /\ best' = [s \in Sides |-> best'[s]]
      BY <2>4, <2>6
    <3> QED BY <2>11, <3>1
  <2> HIDE DEF OrderType, LevelType
  <2> QED BY <1>6, <2>7, <2>8, <2>9, <2>10, <2>12, <2>13, <2>14 DEF TypeOK
<1> QED BY <1>1, <1>3, <1>5, <1>6, <1>7 DEF IInv

LEMMA EraseInvariant ==
  ASSUME IInv, NEW id \in Ids, Erase(id)
  PROVE  IInv'
<1>1. PICK free \in Seq(Slots), fifos \in FifoTable : BookInv(free, fifos)
  BY DEF IInv
<1>2. PICK slot : slot = index[id]
  OBVIOUS
<1>3. PICK s0, p0 : s0 = orders[slot].side /\ p0 = orders[slot].price
  OBVIOUS
<1>4. slot # NoSlot /\ TypeOK /\ RestoreInv
  BY <1>2 DEF Erase, IInv
<1>5. PICK j \in 1 .. Len(fifos[s0][p0]) : fifos[s0][p0][j] = slot
  BY <1>1, <1>2, <1>3, <1>4, Indexing
<1>6. Removing(id, slot, s0, p0, j, free, fifos)
  BY <1>1, <1>2, <1>3, <1>4, <1>5 DEF Erase, Removing
<1>7. UNCHANGED restoreVars
  BY DEF Erase
<1> QED BY <1>4, <1>6, <1>7, RemoveInvariant

-----------------------------------------------------------------------------
(* The other operations keep the invariant.                                  *)

LEMMA InsertArguments ==
  ASSUME NEW o \in Orders
  PROVE  o \in OrderArguments
<1>1. /\ o.id \in Ids /\ o.side \in Sides /\ o.price \in Prices
      /\ o.remaining \in Quantities
      /\ o = [id |-> o.id, side |-> o.side, price |-> o.price, remaining |-> o.remaining]
  BY DEF Orders
<1>2. o.price \in Nat
  BY <1>1, LevelNumbering
<1> QED BY <1>1, <1>2 DEF OrderArguments

LEMMA InsertInvariant ==
  ASSUME IInv, NEW o \in Orders, Insert(o)
  PROVE  IInv'
<1>1. PICK free \in Seq(Slots), fifos \in FifoTable : BookInv(free, fifos)
  BY DEF IInv
<1>2. o \in OrderArguments
  BY InsertArguments
<1>3. Appending(o, free, fifos) /\ UNCHANGED restoreVars
  BY <1>1, <1>2 DEF Insert, Appending, IInv
<1>4. RestoreInv' /\ restored' \in 0 .. MaxOrders /\ own' \in BOOLEAN
  BY <1>3 DEF RestoreInv, restoreVars, IInv, TypeOK
<1> QED BY <1>3, <1>4, AppendInvariant

LEMMA ClearInvariant ==
  ASSUME IInv, Clear
  PROVE  IInv'
<1>1. RestoreInv' /\ restored' \in 0 .. MaxOrders /\ own' \in BOOLEAN
  BY DEF Clear, RestoreInv, restoreVars, IInv, TypeOK
<1> QED BY <1>1, ClearedInvariant DEF Clear

\* The book satisfies what it did if nothing of it changes.
LEMMA BookUnchanged ==
  ASSUME NEW free, NEW fifos, BookInv(free, fifos),
         UNCHANGED <<pool, index, sideVars>>
  PROVE  BookInv(free, fifos)'
<1>1. /\ orders' = orders /\ freeHead' = freeHead /\ freeCount' = freeCount
      /\ index' = index /\ levels' = levels /\ active' = active
      /\ occupied' = occupied /\ best' = best /\ count' = count /\ total' = total
  BY DEF pool, sideVars
<1>2. InUse' = InUse /\ Indexed' = Indexed /\ \A s \in Sides : OrdersOf(s)' = OrdersOf(s)
  BY <1>1 DEF InUse, Indexed, OrdersOf
<1>3. PoolInv(free)'
  BY <1>1, <1>2 DEF BookInv, PoolInv
<1>4. IndexInv'
  BY <1>1, <1>2 DEF BookInv, IndexInv
<1>5. ASSUME NEW s \in Sides PROVE SideInv(s)'
  BY <1>1, <1>2, SideKept DEF BookInv
<1>6. ASSUME NEW s \in Sides, NEW p \in Prices PROVE LevelInv(fifos[s][p], s, p)'
  <2>1. PICK f : f = fifos[s][p]
    OBVIOUS
  <2>2. LevelInv(f, s, p)
    BY <2>1 DEF BookInv
  <2>3. SumRemaining(f)' = SumRemaining(f)
    BY <1>1 DEF SumRemaining
  <2>4. LevelInv(f, s, p)'
    BY <1>1, <2>2, <2>3 DEF LevelInv
  <2> QED BY <2>1, <2>4
<1> QED BY <1>3, <1>4, <1>5, <1>6 DEF BookInv

LEMMA RestoreNextInvariant ==
  ASSUME IInv, RestoreNext
  PROVE  IInv'
<1>1. PICK free \in Seq(Slots), fifos \in FifoTable : BookInv(free, fifos)
  BY DEF IInv
<1>2. /\ TypeOK /\ restored \in 0 .. MaxOrders /\ own \in BOOLEAN
      /\ image \in Seq(OrderArguments) /\ Len(image) <= MaxOrders /\ restored < Len(image)
  BY DEF IInv, TypeOK, RestoreInv, RestoreNext, Idle
<1>3. PICK o : o = image[restored + 1]
  OBVIOUS
<1>4. o \in OrderArguments
  <2>1. restored + 1 \in 1 .. Len(image)
    BY <1>2
  <2> QED BY <1>2, <1>3, <2>1
<1>5. RestoreEnds => RestoreInv' /\ restored' \in 0 .. MaxOrders /\ own' \in BOOLEAN
  <2> SUFFICES ASSUME RestoreEnds
               PROVE  RestoreInv' /\ restored' \in 0 .. MaxOrders /\ own' \in BOOLEAN
    OBVIOUS
  <2>1. image' = <<>> /\ restored' = 0 /\ own' = FALSE
    BY DEF RestoreEnds
  <2>2. <<>> \in Seq(OrderArguments) /\ Len(<<>>) <= MaxOrders /\ 0 \in 0 .. MaxOrders
    BY BookAssumption
  <2>3. RestoreInv'
    BY <2>1, <2>2 DEF RestoreInv
  <2> QED BY <2>1, <2>2, <2>3
<1>6. CASE Accepts(o)
  <2>1. /\ AppendOrder(o)
        /\ \/ RestoreEnds
           \/ restored + 1 # Len(image) /\ restored' = restored + 1
              /\ UNCHANGED <<image, own, before>>
    BY <1>3, <1>6 DEF RestoreNext
  <2>2. Appending(o, free, fifos)
    BY <1>1, <1>2, <1>4, <1>6, <2>1 DEF Appending
  <2>3. RestoreInv' /\ restored' \in 0 .. MaxOrders /\ own' \in BOOLEAN
    <3>1. CASE RestoreEnds
      BY <1>5, <3>1
    <3>2. CASE restored + 1 # Len(image) /\ restored' = restored + 1
               /\ UNCHANGED <<image, own, before>>
      <4>1. Len(image) \in Nat /\ MaxOrders \in Nat
        BY <1>2, BookAssumption
      <4>2. restored + 1 < Len(image) /\ restored + 1 \in 0 .. MaxOrders
        BY <1>2, <3>2, <4>1
      <4> QED BY <1>2, <3>2, <4>2 DEF RestoreInv
    <3> QED BY <2>1, <3>1, <3>2
  <2> QED BY <2>2, <2>3, AppendInvariant
<1>7. CASE ~Accepts(o)
  <2>1. RestoreEnds /\ UNCHANGED <<pool, index, sideVars>>
    BY <1>3, <1>7 DEF RestoreNext
  <2>2. RestoreInv' /\ restored' \in 0 .. MaxOrders /\ own' \in BOOLEAN
    BY <1>5, <2>1
  <2>3. /\ orders' = orders /\ freeHead' = freeHead /\ freeCount' = freeCount
        /\ index' = index /\ levels' = levels /\ active' = active
        /\ occupied' = occupied /\ best' = best /\ count' = count /\ total' = total
    BY <2>1 DEF pool, sideVars
  <2>4. TypeOK'
    BY <1>2, <2>2, <2>3 DEF TypeOK
  <2>5. BookInv(free, fifos)'
    BY <1>1, <2>1, BookUnchanged
  <2> QED BY <2>2, <2>4, <2>5 DEF IInv
<1> QED BY <1>6, <1>7

\* The quantity of a FIFO of which one order changes.
LEMMA UpdatedSum ==
  ASSUME NEW f \in Seq(Slots), NEW j \in 1 .. Len(f), IsInjective(f), NEW o, NEW q,
         \A x \in Slots : o[x].remaining \in Nat /\ q[x].remaining \in Nat,
         \A x \in Slots \ {f[j]} : q[x].remaining = o[x].remaining
  PROVE  /\ Remaining(q, f) = Remaining(o, f) + q[f[j]].remaining - o[f[j]].remaining
         /\ Remaining(q, f) \in Nat /\ Remaining(o, f) \in Nat
<1> DEFINE n == Len(f)
           a == [k \in DOMAIN f |-> o[f[k]].remaining]
           b == [k \in DOMAIN f |-> q[f[k]].remaining]
<1>1. n \in Nat /\ DOMAIN f = 1 .. n /\ \A k \in 1 .. n : f[k] \in Slots
  BY Members
<1>2. a \in [1 .. n -> Nat] /\ b \in [1 .. n -> Nat]
  BY <1>1
<1>3. a[j] = o[f[j]].remaining /\ b[j] = q[f[j]].remaining
  BY <1>1
<1>4. \A k \in (1 .. n) \ {j} : f[k] # f[j]
  BY <1>1 DEF IsInjective
<1>5. \A k \in (1 .. n) \ {j} : b[k] = a[k]
  BY <1>1, <1>4
<1>6. j \in 1 .. n
  OBVIOUS
<1> HIDE DEF a, b, n
<1>7. a \in [1 .. n -> Int] /\ b \in [1 .. n -> Int]
  BY <1>2
<1>8. Sum(b) = Sum(a) + b[j] - a[j]
  BY <1>1, <1>5, <1>6, <1>7, SumUpdate
<1>9. Sum(a) \in Nat /\ Sum(b) \in Nat
  BY <1>1, <1>2, SumNat
<1> QED BY <1>3, <1>8, <1>9 DEF a, b, Remaining

LEMMA SetRemainingEffect ==
  ASSUME TypeOK, RestoreInv, NEW free \in Seq(Slots), NEW fifos \in FifoTable,
         BookInv(free, fifos),
         NEW id \in Ids, NEW quantity \in Quantities, SetRemaining(id, quantity)
  PROVE  /\ TypeOK' /\ RestoreInv' /\ BookInv(free, fifos)'
         /\ \A x \in Slots :
              /\ orders'[x].id = orders[x].id
              /\ x # index[id] => orders'[x].remaining = orders[x].remaining
         /\ orders'[index[id]].remaining = quantity
<1>1. BookInv(free, fifos)
  OBVIOUS
<1>2. PICK slot : slot = index[id]
  OBVIOUS
<1>3. PICK s0, p0 : s0 = orders[slot].side /\ p0 = orders[slot].price
  OBVIOUS
<1>4. TypeOK /\ RestoreInv /\ slot # NoSlot /\ quantity \in Nat /\ quantity # 0
  BY <1>2, BookAssumption DEF SetRemaining
<1>5. /\ slot \in Slots /\ orders[slot].inUse /\ s0 \in Sides /\ p0 \in Prices
      /\ \E j \in 1 .. Len(fifos[s0][p0]) : fifos[s0][p0][j] = slot
  BY <1>1, <1>2, <1>3, <1>4, Indexing
<1>6. PICK f \in Seq(Slots) : f = fifos[s0][p0]
  BY <1>5 DEF FifoTable
<1>7. PICK j \in 1 .. Len(f) : f[j] = slot
  BY <1>5, <1>6
<1>8. /\ \A x \in Slots : orders[x] \in OrderType /\ orders[x].remaining \in Nat
      /\ orders \in [Slots -> OrderType]
      /\ levels \in [Sides -> [Prices -> LevelType]]
      /\ \A s \in Sides, p \in Prices : /\ levels[s][p] \in LevelType
                                        /\ levels[s][p].head \in AnySlot
                                        /\ levels[s][p].tail \in AnySlot
                                        /\ levels[s][p].count \in Nat
                                        /\ levels[s][p].quantity \in Nat
      /\ total \in [Sides -> Nat]
  BY <1>4, TypeFacts
<1>9. /\ orders' = [orders EXCEPT ![slot].remaining = quantity]
      /\ levels' = [levels EXCEPT ![s0][p0].quantity =
                      @ + quantity - orders[slot].remaining]
      /\ total' = [total EXCEPT ![s0] = @ + quantity - orders[slot].remaining]
      /\ UNCHANGED <<freeHead, freeCount, index, active, occupied, best, count,
                     restoreVars>>
  BY <1>2, <1>3 DEF SetRemaining, SetSideRemaining
<1>10. /\ orders' \in [Slots -> OrderType]
       /\ \A x \in Slots :
            /\ orders'[x].next = orders[x].next /\ orders'[x].prev = orders[x].prev
            /\ orders'[x].id = orders[x].id /\ orders'[x].inUse = orders[x].inUse
            /\ orders'[x].side = orders[x].side /\ orders'[x].price = orders[x].price
            /\ x # slot => orders'[x].remaining = orders[x].remaining
       /\ orders'[slot].remaining = quantity
  <2>1. PICK r : r = [orders[slot] EXCEPT !.remaining = quantity]
    OBVIOUS
  <2>2. /\ r \in OrderType /\ r.remaining = quantity
        /\ r.next = orders[slot].next /\ r.prev = orders[slot].prev
        /\ r.id = orders[slot].id /\ r.inUse = orders[slot].inUse
        /\ r.side = orders[slot].side /\ r.price = orders[slot].price
    <3>1. orders[slot] \in OrderType
      BY <1>5, <1>8
    <3> QED BY <1>4, <2>1, <3>1, FieldsReplaced
  <2>3. orders' = [orders EXCEPT ![slot] = r]
    BY <1>9, <2>1
  <2> HIDE DEF OrderType
  <2>4. /\ orders' \in [Slots -> OrderType] /\ orders'[slot] = r
        /\ \A x \in Slots : x # slot => orders'[x] = orders[x]
    BY <1>5, <1>8, <2>2, <2>3
  <2> QED BY <2>2, <2>4
<1>11. LevelInv(f, s0, p0)
  BY <1>1, <1>5, <1>6 DEF BookInv
<1>12. /\ Remaining(orders', f) = Remaining(orders, f) + quantity - orders[slot].remaining
       /\ Remaining(orders', f) \in Nat /\ Remaining(orders, f) \in Nat
       /\ levels[s0][p0].quantity = Remaining(orders, f)
  <2>1. IsInjective(f) /\ levels[s0][p0].quantity = SumRemaining(f)
    BY <1>11 DEF LevelInv, Linked, Path
  <2>2. \A x \in Slots : orders'[x].remaining \in Nat
    BY <1>4, <1>8, <1>10
  <2>3. \A x \in Slots \ {f[j]} : orders'[x].remaining = orders[x].remaining
    BY <1>7, <1>10
  <2>4. /\ Remaining(orders', f)
             = Remaining(orders, f) + orders'[f[j]].remaining - orders[f[j]].remaining
        /\ Remaining(orders', f) \in Nat /\ Remaining(orders, f) \in Nat
    <3>1. PICK o, q : o = orders /\ q = orders'
      OBVIOUS
    <3>2. /\ \A x \in Slots : o[x].remaining \in Nat /\ q[x].remaining \in Nat
          /\ \A x \in Slots \ {f[j]} : q[x].remaining = o[x].remaining
      BY <1>8, <2>2, <2>3, <3>1
    <3>3. /\ Remaining(q, f) = Remaining(o, f) + q[f[j]].remaining - o[f[j]].remaining
          /\ Remaining(q, f) \in Nat /\ Remaining(o, f) \in Nat
      BY <2>1, <3>2, UpdatedSum
    <3> QED BY <3>1, <3>3
  <2> QED BY <1>7, <1>10, <2>1, <2>4 DEF SumRemaining, Remaining
<1>13. /\ levels' \in [Sides -> [Prices -> LevelType]]
       /\ levels'[s0][p0].quantity = Remaining(orders', f)
       /\ levels'[s0][p0].count = levels[s0][p0].count
       /\ levels'[s0][p0].head = levels[s0][p0].head
       /\ levels'[s0][p0].tail = levels[s0][p0].tail
       /\ \A s \in Sides, p \in Prices : s # s0 \/ p # p0 => levels'[s][p] = levels[s][p]
  <2>1. PICK l \in LevelType : l = levels[s0][p0]
    BY <1>5, <1>8
  <2>2. PICK n \in Nat : n = Remaining(orders', f)
    BY <1>12
  <2>3. n = l.quantity + quantity - orders[slot].remaining
    BY <1>12, <2>1, <2>2
  <2>4. PICK v : v = [l EXCEPT !.quantity = n]
    OBVIOUS
  <2>5. /\ v \in LevelType /\ v.quantity = n /\ v.count = l.count
        /\ v.head = l.head /\ v.tail = l.tail
    BY <2>4 DEF LevelType
  <2>6. levels' = [levels EXCEPT ![s0][p0] = v]
    <3>1. levels' = [levels EXCEPT ![s0][p0].quantity = n]
      <4>1. levels[s0][p0].quantity + quantity - orders[slot].remaining = n
        BY <2>1, <2>3
      <4> QED BY <1>9, <4>1
    <3> QED BY <2>1, <2>4, <3>1
  <2> HIDE DEF LevelType
  <2>7. /\ levels'[s0][p0] = v
        /\ \A s \in Sides, p \in Prices : s # s0 \/ p # p0 => levels'[s][p] = levels[s][p]
        /\ levels' \in [Sides -> [Prices -> LevelType]]
    BY <1>5, <1>8, <2>5, <2>6, EntryReplaced
  <2> QED BY <2>1, <2>2, <2>5, <2>7
<1>14. ASSUME NEW s \in Sides, NEW p \in Prices PROVE LevelInv(fifos[s][p], s, p)'
  <2>1. PICK g \in Seq(Slots) : g = fifos[s][p]
    BY DEF FifoTable
  <2>2. LevelInv(g, s, p)
    BY <1>1, <2>1 DEF BookInv
  <2>3. \A x \in ToSet(g) : x \in Slots
    BY Members
  <2>4. \A x \in Slots : x \in ToSet(g) <=> /\ orders[x].inUse
                                            /\ orders[x].side = s /\ orders[x].price = p
    BY <2>2 DEF LevelInv
  <2>5. CASE s = s0 /\ p = p0
    <3>1. g = f
      BY <1>6, <2>1, <2>5
    <3>2. /\ Linked(orders, f, levels[s][p].head, levels[s][p].tail)
          /\ levels[s][p].count = Len(f)
      BY <2>2, <3>1 DEF LevelInv
    <3>3. Linked(orders', f, levels[s][p].head, levels[s][p].tail)
      <4>1. \A k \in 1 .. Len(f) : f[k] \in Slots
        BY Members
      <4> QED BY <1>10, <3>2, <4>1, LinkedSame
    <3>4. LevelInv(f, s, p)'
      <4>1. \A x \in Slots : x \in ToSet(f) <=> /\ orders'[x].inUse
                                                /\ orders'[x].side = s /\ orders'[x].price = p
        BY <1>10, <2>4, <3>1
      <4>2. Linked(orders', f, levels'[s][p].head, levels'[s][p].tail)
        BY <1>13, <2>5, <3>3
      <4>3. levels'[s][p].count = Len(f) /\ levels'[s][p].quantity = SumRemaining(f)'
        BY <1>13, <2>5, <3>2 DEF Remaining, SumRemaining
      <4> QED BY <4>1, <4>2, <4>3 DEF LevelInv
    <3> QED BY <2>1, <3>1, <3>4
  <2>6. CASE s # s0 \/ p # p0
    <3>1. levels'[s][p] = levels[s][p]
      BY <1>13, <2>6
    <3>2. slot \notin ToSet(g)
      BY <1>3, <1>5, <2>4, <2>6
    <3>3. \A x \in ToSet(g) :
            /\ orders'[x].next = orders[x].next /\ orders'[x].prev = orders[x].prev
            /\ orders'[x].remaining = orders[x].remaining
            /\ orders'[x].inUse = orders[x].inUse
            /\ orders'[x].side = orders[x].side /\ orders'[x].price = orders[x].price
      BY <1>10, <2>3, <3>2
    <3>4. \A x \in Slots \ ToSet(g) :
            orders'[x].inUse => orders'[x].side # s \/ orders'[x].price # p
      BY <1>10, <2>4
    <3>5. LevelInv(g, s, p)'
      BY <2>2, <3>1, <3>3, <3>4, LevelKept
    <3> QED BY <2>1, <3>5
  <2> QED BY <2>5, <2>6
<1>15. InUse' = InUse /\ \A s \in Sides : OrdersOf(s)' = OrdersOf(s)
  BY <1>10 DEF OrdersOf, InUse
<1>16. total'[s0] = total[s0] + quantity - orders[slot].remaining
       /\ \A s \in Sides : s # s0 => total'[s] = total[s]
  BY <1>5, <1>8, <1>9
<1>17. ASSUME NEW s \in Sides PROVE SideInv(s)'
  <2>1. SideInv(s)
    BY <1>1 DEF BookInv
  <2>2. \A p \in Prices : levels'[s][p].count = levels[s][p].count
    BY <1>13
  <2>3. \A p \in Prices : p # p0 => levels'[s][p] = levels[s][p]
    BY <1>13
  <2>4. /\ CountSum(levels', s) = CountSum(levels, s) + levels'[s][p0].count
                                  - levels[s][p0].count
        /\ QuantitySum(levels', s) = QuantitySum(levels, s) + levels'[s][p0].quantity
                                     - levels[s][p0].quantity
    <3>1. /\ p0 \in Prices /\ levels' \in [Sides -> [Prices -> LevelType]]
          /\ levels \in [Sides -> [Prices -> LevelType]]
      BY <1>5, <1>8, <1>13
    <3> HIDE DEF LevelType
    <3>2. PICK L, M : L = levels /\ M = levels'
      OBVIOUS
    <3>3. /\ L \in [Sides -> [Prices -> LevelType]] /\ M \in [Sides -> [Prices -> LevelType]]
          /\ \A x \in Prices : x # p0 => M[s][x] = L[s][x]
      BY <2>3, <3>1, <3>2
    <3>4. /\ CountSum(M, s) = CountSum(L, s) + M[s][p0].count - L[s][p0].count
          /\ QuantitySum(M, s) = QuantitySum(L, s) + M[s][p0].quantity - L[s][p0].quantity
      <4>1. p0 \in Prices
        BY <3>1
      <4> HIDE DEF Prices
      <4> QED BY <3>3, <4>1, LevelSums
    <3> QED BY <3>2, <3>4
  <2>5. /\ count[s] = CountSum(levels, s) /\ total[s] = QuantitySum(levels, s)
        /\ count[s] = Cardinality(OrdersOf(s))
        /\ best[s] = Extreme(s, occupied[s])
        /\ occupied[s] = {g \in Segments : active[s][g] # {}}
        /\ \A g \in Segments : active[s][g] = {p \in Prices : /\ levels[s][p].count # 0
                                                              /\ SegmentOf(p) = g}
    BY <2>1 DEF SideInv, CountSum, QuantitySum
  <2>6. count'[s] = CountSum(levels', s)
    <3>1. PICK a, c : a = count[s] /\ c = levels[s][p0].count
      OBVIOUS
    <3>2. a \in Nat /\ c \in Nat
      BY <1>4, <1>5, <1>8, <3>1, TypeFacts
    <3>3. CountSum(levels', s) = a + c - c
      BY <1>5, <2>2, <2>4, <2>5, <3>1
    <3> QED BY <1>9, <3>1, <3>2, <3>3
  <2>7. total'[s] = QuantitySum(levels', s)
    <3>1. PICK a, c, e : /\ a = total[s] /\ c = levels[s][p0].quantity
                         /\ e = orders[slot].remaining
      OBVIOUS
    <3>2. a \in Nat /\ c \in Nat /\ e \in Nat
      BY <1>4, <1>5, <1>8, <3>1
    <3>3. CASE s = s0
      <4>1. levels'[s][p0].quantity = c + quantity - e
        BY <1>12, <1>13, <3>1, <3>3
      <4>2. QuantitySum(levels', s) = a + (c + quantity - e) - c
        BY <2>4, <2>5, <3>1, <4>1
      <4>3. a + (c + quantity - e) - c = a + quantity - e
        BY <1>4, <3>2
      <4> QED BY <1>16, <3>1, <3>3, <4>2, <4>3
    <3>4. CASE s # s0
      <4>1. levels'[s][p0] = levels[s][p0]
        BY <1>5, <1>13, <3>4
      <4>2. QuantitySum(levels', s) = a + c - c
        BY <2>4, <2>5, <3>1, <4>1
      <4> QED BY <1>16, <3>1, <3>2, <3>4, <4>2
    <3> QED BY <3>3, <3>4
  <2>8. \A g \in Segments : active'[s][g] = {p \in Prices : /\ levels'[s][p].count # 0
                                                            /\ SegmentOf(p) = g}
    BY <1>9, <2>2, <2>5
  <2>9. /\ count'[s] = Cardinality(OrdersOf(s)') /\ best'[s] = Extreme(s, occupied'[s])
        /\ occupied'[s] = {g \in Segments : active'[s][g] # {}}
    BY <1>9, <1>15, <2>5
  <2> QED BY <2>6, <2>7, <2>8, <2>9 DEF SideInv, CountSum, QuantitySum
<1>18. PoolInv(free)'
  <2>1. /\ Path(orders, free, freeHead) /\ freeCount = Len(free)
        /\ \A x \in Slots : x \in ToSet(free) <=> ~orders[x].inUse
        /\ Len(free) + Cardinality(InUse) = MaxOrders
    BY <1>1 DEF BookInv, PoolInv
  <2>2. Path(orders', free, freeHead)
    <3>1. \A k \in 1 .. Len(free) : free[k] \in Slots
      BY Members
    <3> QED BY <1>10, <2>1, <3>1, PathSame
  <2>3. freeHead' = freeHead /\ freeCount' = freeCount
    BY <1>9
  <2>4. \A x \in Slots : x \in ToSet(free) <=> ~orders'[x].inUse
    BY <1>10, <2>1
  <2> QED BY <1>15, <2>1, <2>2, <2>3, <2>4 DEF PoolInv
<1>19. IndexInv'
  <2>1. /\ \A x \in Slots : orders[x].inUse =>
             /\ orders[x].id \in Ids /\ index[orders[x].id] = x
             /\ orders[x].price \in Prices /\ orders[x].remaining \in Quantities
        /\ \A i \in Ids : index[i] # NoSlot =>
             orders[index[i]].inUse /\ orders[index[i]].id = i
        /\ IsFiniteSet(Indexed) /\ Cardinality(Indexed) = count["Bid"] + count["Ask"]
    BY <1>1 DEF BookInv, IndexInv
  <2>2. index' = index /\ count' = count /\ Indexed' = Indexed
    BY <1>9 DEF Indexed
  <2>3. \A i \in Ids : index[i] # NoSlot => index[i] \in Slots
    BY <1>4, TypeFacts DEF AnySlot
  <2>4. \A x \in Slots : orders'[x].inUse =>
          /\ orders'[x].id \in Ids /\ index[orders'[x].id] = x
          /\ orders'[x].price \in Prices /\ orders'[x].remaining \in Quantities
    BY <1>4, <1>10, <2>1
  <2>5. \A i \in Ids : index[i] # NoSlot =>
          orders'[index[i]].inUse /\ orders'[index[i]].id = i
    BY <1>10, <2>1, <2>3
  <2> QED BY <2>1, <2>2, <2>4, <2>5 DEF IndexInv
<1>20. BookInv(free, fifos)'
  BY <1>14, <1>17, <1>18, <1>19 DEF BookInv
<1>21. TypeOK' /\ RestoreInv'
  <2>1. /\ freeHead' = freeHead /\ freeCount' = freeCount /\ index' = index
        /\ active' = active /\ occupied' = occupied /\ best' = best /\ count' = count
        /\ image' = image /\ restored' = restored /\ own' = own
    BY <1>9 DEF restoreVars
  <2>2. total' \in [Sides -> Nat]
    <3>1. \A s \in Sides : total'[s] \in Nat
      <4>1. occupied' \in [Sides -> SUBSET Segments]
        BY <1>4, <2>1 DEF TypeOK
      <4> HIDE DEF LevelType
      <4> QED BY <1>13, <1>17, <4>1, SideTypesNext DEF SidesOK, SidesTyped
    <3>2. total' = [s \in Sides |-> total'[s]]
      BY <1>8, <1>9
    <3> QED BY <3>1, <3>2
  <2>3. TypeOK'
    <3> HIDE DEF OrderType, LevelType
    <3> QED BY <1>4, <1>10, <1>13, <2>1, <2>2 DEF TypeOK
  <2>4. RestoreInv'
    BY <1>4, <2>1 DEF RestoreInv
  <2> QED BY <2>3, <2>4
<1> QED BY <1>2, <1>10, <1>20, <1>21

LEMMA SetRemainingInvariant ==
  ASSUME IInv, NEW id \in Ids, NEW quantity \in Quantities, SetRemaining(id, quantity)
  PROVE  IInv'
<1>1. PICK free \in Seq(Slots), fifos \in FifoTable : BookInv(free, fifos)
  BY DEF IInv
<1>2. TypeOK' /\ RestoreInv' /\ BookInv(free, fifos)'
  BY <1>1, SetRemainingEffect DEF IInv
<1> QED BY <1>2 DEF IInv

\* What a loop that joins n sequences has joined after each of them.
Joins(f, n, join) ==
  /\ join[1] = f[1]
  /\ \A k \in 2 .. n : join[k] = join[k - 1] \o f[k]

LEMMA JoinsUnique ==
  ASSUME NEW n \in Nat, NEW f, NEW g, NEW h, Joins(f, n, g), Joins(f, n, h)
  PROVE  \A k \in 1 .. n : g[k] = h[k]
<1> SUFFICES ASSUME NEW j \in 1 .. n, g[j] # h[j] PROVE FALSE
  OBVIOUS
<1> DEFINE T == {k \in 1 .. n : g[k] # h[k]}
<1>1. PICK m \in T : \A k \in T : m <= k
  <2> T \subseteq Nat /\ T # {}
    OBVIOUS
  <2> HIDE DEF T
  <2> QED BY Least
<1>2. m \in 2 .. n /\ m - 1 \in 1 .. n
  <2>1. m # 1
    BY <1>1 DEF Joins
  <2> QED BY <2>1
<1>3. g[m - 1] = h[m - 1]
  <2>1. ~(m <= m - 1)
    BY <1>2
  <2> QED BY <1>1, <1>2, <2>1
<1> QED BY <1>1, <1>2, <1>3 DEF Joins

LEMMA JoinsExist ==
  ASSUME NEW n \in Nat \ {0}, NEW S, NEW f \in [1 .. n -> Seq(S)]
  PROVE  \E join \in [1 .. n -> Seq(S)] : Joins(f, n, join)
<1> DEFINE Has(m) == \E join \in [1 .. m -> Seq(S)] : Joins(f, m, join)
           T == {m \in 1 .. n : ~Has(m)}
<1> SUFFICES ASSUME n \in T PROVE FALSE
  OBVIOUS
<1>1. PICK m \in T : \A k \in T : m <= k
  <2> T \subseteq Nat /\ T # {}
    OBVIOUS
  <2> HIDE DEF T
  <2> QED BY Least
<1>2. m # 1
  <2>1. Has(1)
    <3>1. f[1] \in Seq(S)
      OBVIOUS
    <3>2. PICK join : join = [k \in 1 .. 1 |-> f[1]]
      OBVIOUS
    <3>3. join \in [1 .. 1 -> Seq(S)] /\ join[1] = f[1]
      BY <3>1, <3>2
    <3>4. \A k : k \notin 2 .. 1
      OBVIOUS
    <3>5. Joins(f, 1, join)
      BY <3>3, <3>4 DEF Joins
    <3> QED BY <3>3, <3>5
  <2> QED BY <2>1
<1>3. m - 1 \in 1 .. n /\ m - 1 \notin T
  <2>1. m \in 1 .. n /\ m - 1 \in 1 .. n /\ ~(m <= m - 1)
    BY <1>2
  <2> QED BY <1>1, <2>1
<1>4. PICK join \in [1 .. m - 1 -> Seq(S)] : Joins(f, m - 1, join)
  BY <1>3
<1>5. PICK last : last = join[m - 1] \o f[m]
  OBVIOUS
<1>6. last \in Seq(S)
  <2>1. m \in 1 .. n /\ m - 1 \in 1 .. m - 1
    BY <1>3
  <2>2. join[m - 1] \in Seq(S) /\ f[m] \in Seq(S)
    BY <2>1
  <2> QED BY <1>5, <2>2
<1>7. PICK longer : longer = [k \in 1 .. m |-> IF k = m THEN last ELSE join[k]]
  OBVIOUS
<1>8. longer \in [1 .. m -> Seq(S)]
  <2>1. ASSUME NEW k \in 1 .. m, k # m PROVE join[k] \in Seq(S)
    <3>1. k \in 1 .. m - 1
      BY <1>3, <2>1
    <3> QED BY <3>1
  <2> QED BY <1>6, <1>7, <2>1
<1>9. Joins(f, m, longer)
  <2>1. longer[m] = last /\ \A k \in 1 .. m - 1 : longer[k] = join[k]
    BY <1>3, <1>7
  <2>2. longer[1] = f[1]
    BY <1>2, <1>3, <1>4, <2>1 DEF Joins
  <2>3. ASSUME NEW k \in 2 .. m PROVE longer[k] = longer[k - 1] \o f[k]
    <3>1. k - 1 \in 1 .. m - 1
      BY <1>3
    <3>2. CASE k = m
      BY <1>5, <2>1, <3>1, <3>2
    <3>3. CASE k # m
      <4>1. k \in 2 .. m - 1 /\ k \in 1 .. m - 1
        BY <1>3, <3>3
      <4> QED BY <1>4, <2>1, <3>1, <4>1 DEF Joins
    <3> QED BY <3>2, <3>3
  <2> QED BY <2>2, <2>3 DEF Joins
<1> QED BY <1>8, <1>9

\* FlattenSeq is the last of the joins.
LEMMA FlattenIs ==
  ASSUME NEW n \in Nat \ {0}, NEW S, NEW f \in [1 .. n -> Seq(S)],
         NEW join, Joins(f, n, join)
  PROVE  FlattenSeq(f) = join[n] /\ FlattenSeq(f) \in Seq(S)
<1>1. f \in Seq(Seq(S)) /\ Len(f) = n
  OBVIOUS
<1>2. PICK t \in [1 .. n -> Seq(S)] : Joins(f, n, t)
  BY JoinsExist
<1> DEFINE Rec(g) == g = [i \in 1 .. n |-> IF i = 1 THEN f[i] ELSE g[i - 1] \o f[i]]
           chosen == CHOOSE g : Rec(g)
<1>3. Rec(t)
  <2>1. \A k \in 1 .. n : t[k] = IF k = 1 THEN f[k] ELSE t[k - 1] \o f[k]
    <3> SUFFICES ASSUME NEW k \in 1 .. n
                 PROVE  t[k] = IF k = 1 THEN f[k] ELSE t[k - 1] \o f[k]
      OBVIOUS
    <3>1. k # 1 => k \in 2 .. n
      OBVIOUS
    <3> QED BY <1>2, <3>1 DEF Joins
  <2> QED BY <2>1
<1>4. Rec(chosen)
  BY <1>3
<1>5. Joins(f, n, chosen)
  <2> HIDE DEF chosen
  <2>1. \A k \in 1 .. n : chosen[k] = IF k = 1 THEN f[k] ELSE chosen[k - 1] \o f[k]
    BY <1>4
  <2>2. \A k \in 2 .. n : k \in 1 .. n /\ k # 1
    OBVIOUS
  <2>3. 1 \in 1 .. n
    OBVIOUS
  <2> QED BY <2>1, <2>2, <2>3 DEF Joins
<1>6. FlattenSeq(f) = chosen[n]
  BY <1>1 DEF FlattenSeq
<1> HIDE DEF chosen
<1>7. chosen[n] = join[n] /\ chosen[n] = t[n]
  BY <1>2, <1>5, JoinsUnique
<1> QED BY <1>6, <1>7

LEMMA FlattenType ==
  ASSUME NEW n \in Nat, NEW S, NEW f \in [1 .. n -> Seq(S)]
  PROVE  FlattenSeq(f) \in Seq(S)
<1>1. CASE n = 0
  <2>1. f = <<>> /\ Len(f) = 0
    BY <1>1
  <2>2. FlattenSeq(f) = <<>>
    BY <2>1 DEF FlattenSeq
  <2> QED BY <2>2
<1>2. CASE n # 0
  <2>1. PICK join \in [1 .. n -> Seq(S)] : Joins(f, n, join)
    BY <1>2, JoinsExist
  <2> QED BY <1>2, <2>1, FlattenIs
<1> QED BY <1>1, <1>2

\* In a book that satisfies the invariant each chain is the sequence it stands for.
LEMMA ChainsAre ==
  ASSUME NEW free, NEW fifos, BookInv(free, fifos)
  PROVE  /\ Chain(freeHead) = free
         /\ \A s \in Sides, p \in Prices : Fifo(s, p) = fifos[s][p]
<1>1. \A head : Chain(head) = Walk(orders, head)
  BY DEF Chain, Walk
<1>2. Path(orders, free, freeHead)
  BY DEF BookInv, PoolInv
<1>3. ASSUME NEW s \in Sides, NEW p \in Prices PROVE Fifo(s, p) = fifos[s][p]
  <2>1. PICK f, h : f = fifos[s][p] /\ h = levels[s][p].head
    OBVIOUS
  <2>2. Path(orders, f, h)
    BY <2>1 DEF BookInv, LevelInv, Linked
  <2>3. Walk(orders, h) = f
    BY <2>2, WalkFollows
  <2>4. Chain(h) = f
    BY <1>1, <2>3
  <2> QED BY <2>1, <2>4 DEF Fifo
<1>4. Walk(orders, freeHead) = free
  BY <1>2, WalkFollows
<1> QED BY <1>1, <1>3, <1>4

\* What snapshot_into writes of one level.
LEMMA LevelViewsAre ==
  ASSUME TypeOK, NEW free, NEW fifos \in FifoTable, BookInv(free, fifos),
         NEW s \in Sides, NEW p \in Prices, NEW f, f = fifos[s][p]
  PROVE  /\ LevelViews(s, p) = [j \in 1 .. Len(f) |-> View(f[j])]
         /\ LevelViews(s, p) \in Seq(OrderArguments)
<1>1. f \in Seq(Slots)
  BY DEF FifoTable
<1>2. Fifo(s, p) = f
  BY ChainsAre
<1>3. ASSUME NEW j \in 1 .. Len(f) PROVE View(f[j]) \in OrderArguments
  <2>1. f[j] \in Slots /\ f[j] \in ToSet(f)
    BY <1>1, Members
  <2>2. /\ orders[f[j]].inUse /\ orders[f[j]].id \in Ids
        /\ orders[f[j]].price \in Prices /\ orders[f[j]].remaining \in Quantities
    <3>1. orders[f[j]].inUse
      BY <2>1 DEF BookInv, LevelInv
    <3> QED BY <2>1, <3>1 DEF BookInv, IndexInv
  <2>3. orders[f[j]].side \in Sides
    BY <2>1, TypeFacts
  <2>4. orders[f[j]].price \in Nat
    BY <2>2, LevelNumbering
  <2> QED BY <2>2, <2>3, <2>4 DEF View, OrderArguments
<1>4. DOMAIN f = 1 .. Len(f) /\ Len(f) \in Nat
  BY <1>1, Members
<1>5. LevelViews(s, p) = [j \in 1 .. Len(f) |-> View(f[j])]
  BY <1>2, <1>4 DEF LevelViews
<1>6. [j \in 1 .. Len(f) |-> View(f[j])] \in [1 .. Len(f) -> OrderArguments]
  BY <1>3
<1> QED BY <1>4, <1>5, <1>6

\* A snapshot is a sequence of orders that may be restored.
LEMMA SnapshotType ==
  ASSUME IInv
  PROVE  Snapshot \in Seq(OrderArguments)
<1>1. PICK free \in Seq(Slots), fifos \in FifoTable : BookInv(free, fifos)
  BY DEF IInv
<1>2. ASSUME NEW s \in Sides, NEW p \in Prices PROVE LevelViews(s, p) \in Seq(OrderArguments)
  <2>1. PICK f : f = fifos[s][p]
    OBVIOUS
  <2> QED BY <1>1, <2>1, LevelViewsAre DEF IInv
<1>3. ASSUME NEW s \in Sides PROVE SnapshotSide(s) \in Seq(OrderArguments)
  <2> DEFINE n == MaxPrice - MinPrice + 1
             f == [k \in LevelNumbers |-> LevelViews(s, MinPrice + k - 1)]
  <2>1. n \in Nat /\ LevelNumbers = 1 .. n
    BY LevelNumbering
  <2>2. \A k \in LevelNumbers : LevelViews(s, MinPrice + k - 1) \in Seq(OrderArguments)
    BY <1>2, LevelNumbering
  <2>3. f \in [1 .. n -> Seq(OrderArguments)]
    BY <2>1, <2>2
  <2> HIDE DEF f, n
  <2>4. FlattenSeq(f) \in Seq(OrderArguments)
    BY <2>1, <2>3, FlattenType
  <2> QED BY <2>4 DEF f, SnapshotSide
<1>4. SnapshotSide("Bid") \in Seq(OrderArguments) /\ SnapshotSide("Ask") \in Seq(OrderArguments)
  BY <1>3 DEF Sides
<1> QED BY <1>4 DEF Snapshot

LEMMA RestoreInvariant ==
  ASSUME IInv, NEW orderViews \in Seq(OrderArguments), Restore(orderViews), own' \in BOOLEAN
  PROVE  IInv'
<1>1. /\ image' = orderViews /\ restored' = 0 /\ Cleared
      /\ orderViews # <<>> /\ Len(orderViews) <= MaxOrders
  BY DEF Restore
<1>2. restored' \in 0 .. MaxOrders
  BY <1>1, BookAssumption
<1>3. Len(orderViews) \in Nat /\ Len(orderViews) # 0
  BY <1>1
<1>4. RestoreInv'
  BY <1>1, <1>3 DEF RestoreInv
<1> QED BY <1>1, <1>2, <1>4, ClearedInvariant

\* A step that changes nothing.
LEMMA StutterInvariant ==
  ASSUME IInv, UNCHANGED vars
  PROVE  IInv'
<1>1. PICK free \in Seq(Slots), fifos \in FifoTable : BookInv(free, fifos)
  BY DEF IInv
<1>2. /\ orders' = orders /\ freeHead' = freeHead /\ freeCount' = freeCount
      /\ index' = index /\ levels' = levels /\ active' = active
      /\ occupied' = occupied /\ best' = best /\ count' = count /\ total' = total
      /\ image' = image /\ restored' = restored /\ own' = own
  BY DEF vars, pool, sideVars, restoreVars
<1>3. TypeOK' /\ RestoreInv'
  BY <1>2 DEF IInv, TypeOK, RestoreInv
<1>4. BookInv(free, fifos)'
  BY <1>1, BookUnchanged DEF vars
<1> QED BY <1>3, <1>4 DEF IInv

\* The state of the book stays one that the free list and the FIFOs explain.
THEOREM Invariance == Spec => []IInv
<1>1. IInv /\ [Next]_vars => IInv'
  <2> SUFFICES ASSUME IInv, [Next]_vars PROVE IInv'
    OBVIOUS
  <2>1. ASSUME NEW o \in Orders, Insert(o) PROVE IInv'
    BY <2>1, InsertInvariant
  <2>2. ASSUME NEW id \in Ids, Erase(id) PROVE IInv'
    BY <2>2, EraseInvariant
  <2>3. ASSUME NEW id \in Ids, NEW q \in Quantities, SetRemaining(id, q) PROVE IInv'
    BY <2>3, SetRemainingInvariant
  <2>4. CASE Clear
    BY <2>4, ClearInvariant
  <2>5. CASE RestoreOwn
    <3>1. PICK orderViews \in Seq(OrderArguments) : orderViews = Snapshot
      BY SnapshotType
    <3> QED BY <2>5, <3>1, RestoreInvariant DEF RestoreOwn
  <2>6. CASE RestoreForeign
    <3>1. PICK orderViews \in Images : Restore(orderViews) /\ own' = FALSE
      BY <2>6 DEF RestoreForeign
    <3>2. orderViews \in Seq(OrderArguments)
      BY BookAssumption DEF OrderArguments, Sides
    <3> QED BY <3>1, <3>2, RestoreInvariant
  <2>7. CASE RestoreNext
    BY <2>7, RestoreNextInvariant
  <2>8. CASE UNCHANGED vars
    BY <2>8, StutterInvariant
  <2> QED BY <2>1, <2>2, <2>3, <2>4, <2>5, <2>6, <2>7, <2>8 DEF Next
<1> QED BY <1>1, InitInvariant, PTL DEF Spec

-----------------------------------------------------------------------------
(* What the invariant says about the book.                                   *)

\* The free list visits every slot that is not in use, once: acquire() and
\* release() neither lose a slot nor hand one out twice, over any sequence of
\* inserts, erasures, clears and restores.
THEOREM FreelistIsExact == Spec => []FreelistExact
<1>1. IInv => FreelistExact
  <2> SUFFICES ASSUME IInv PROVE FreelistExact
    OBVIOUS
  <2>1. PICK free \in Seq(Slots), fifos \in FifoTable : BookInv(free, fifos)
    BY DEF IInv
  <2>2. Chain(freeHead) = free
    BY <2>1, ChainsAre
  <2>3. /\ freeCount = Len(free) /\ Len(free) + Cardinality(InUse) = MaxOrders
        /\ \A x \in Slots : x \in ToSet(free) <=> ~orders[x].inUse
    BY <2>1 DEF BookInv, PoolInv
  <2>4. ToSet(free) = Slots \ InUse
    <3>1. ToSet(free) \subseteq Slots
      BY Members
    <3> QED BY <2>3, <3>1 DEF InUse
  <2>5. freeCount = MaxOrders - Cardinality(InUse)
    <3>1. Len(free) \in Nat
      BY Members
    <3>2. Cardinality(InUse) \in Nat
      BY SlotsFinite, FS_Subset, FS_CardinalityType DEF InUse
    <3> QED BY <2>3, <3>1, <3>2
  <2> QED BY <2>2, <2>4, <2>5 DEF FreelistExact, IInv
<1> QED BY <1>1, Invariance, PTL

\* The prices of a side that have orders.
Filled(s) == {p \in Prices : levels[s][p].count # 0}

\* best_segment_, segment_occupancy_ and active_mask lead to the best price.
LEMMA BestFacts ==
  ASSUME TypeOK, NEW free, NEW fifos, fifos \in FifoTable, BookInv(free, fifos),
         NEW s \in Sides
  PROVE  /\ \A p \in Prices : p \in Filled(s) <=> fifos[s][p] # <<>>
         /\ count[s] = 0 <=> Filled(s) = {}
         /\ Filled(s) = {} => best[s] = NoSegment
         /\ Filled(s) # {} => /\ best[s] \in Segments /\ best[s] # NoSegment
                              /\ active[s][best[s]] # {}
                              /\ BestPrice(s) = Extreme(s, Filled(s))
                              /\ Extreme(s, Filled(s)) \in Filled(s)
<1>1. SideInv(s) /\ IndexInv /\ \A p \in Prices : LevelInv(fifos[s][p], s, p)
  BY DEF BookInv
<1>2. ASSUME NEW p \in Prices PROVE p \in Filled(s) <=> fifos[s][p] # <<>>
  <2>1. PICK f \in Seq(Slots) : f = fifos[s][p]
    BY DEF FifoTable
  <2>2. levels[s][p].count = Len(f)
    BY <1>1, <2>1 DEF LevelInv
  <2>3. Len(f) # 0 <=> f # <<>>
    OBVIOUS
  <2> QED BY <2>1, <2>2, <2>3 DEF Filled
<1>3. count[s] = 0 <=> Filled(s) = {}
  <2>1. IsFiniteSet(OrdersOf(s)) /\ count[s] = Cardinality(OrdersOf(s))
    BY <1>1, SlotsFinite, FS_Subset DEF SideInv, OrdersOf, InUse
  <2>2. count[s] = 0 <=> OrdersOf(s) = {}
    BY <2>1, FS_EmptySet
  <2>3. ASSUME NEW x \in OrdersOf(s) PROVE Filled(s) # {}
    <3>1. x \in Slots /\ orders[x].inUse /\ orders[x].side = s
      BY DEF OrdersOf, InUse
    <3>2. PICK p \in Prices : p = orders[x].price
      BY <1>1, <3>1 DEF IndexInv
    <3>3. PICK f \in Seq(Slots) : f = fifos[s][p]
      BY DEF FifoTable
    <3>4. x \in ToSet(f)
      BY <1>1, <3>1, <3>2, <3>3 DEF LevelInv
    <3>5. f # <<>>
      BY <3>4 DEF ToSet
    <3> QED BY <1>2, <3>3, <3>5
  <2>4. ASSUME NEW p \in Filled(s) PROVE OrdersOf(s) # {}
    <3>1. p \in Prices
      BY DEF Filled
    <3>2. PICK f \in Seq(Slots) : f = fifos[s][p]
      BY <3>1 DEF FifoTable
    <3>3. f # <<>>
      BY <1>2, <3>1, <3>2
    <3>4. 1 \in 1 .. Len(f)
      BY <3>3
    <3>5. f[1] \in Slots /\ f[1] \in ToSet(f)
      BY <3>4, Members
    <3>6. orders[f[1]].inUse /\ orders[f[1]].side = s
      BY <1>1, <3>1, <3>2, <3>5 DEF LevelInv
    <3> QED BY <3>5, <3>6 DEF OrdersOf, InUse
  <2> QED BY <2>2, <2>3, <2>4
<1>4. /\ \A g \in Segments : active[s][g] = {p \in Filled(s) : SegmentOf(p) = g}
      /\ occupied[s] = {g \in Segments : active[s][g] # {}}
      /\ best[s] = Extreme(s, occupied[s])
  BY <1>1 DEF SideInv, Filled
<1>5. Filled(s) = {} => best[s] = NoSegment
  <2>1. Filled(s) = {} => occupied[s] = {}
    BY <1>4
  <2> QED BY <1>4, <2>1, ExtremeOfNone
<1>6. ASSUME Filled(s) # {}
      PROVE  /\ best[s] \in Segments /\ best[s] # NoSegment
             /\ active[s][best[s]] # {}
             /\ BestPrice(s) = Extreme(s, Filled(s))
             /\ Extreme(s, Filled(s)) \in Filled(s)
  <2>1. PICK F, O, b : F = Filled(s) /\ O = occupied[s] /\ b = best[s]
    OBVIOUS
  <2>2. PICK n \in Nat : Segments = 0 .. n
    BY SegmentsOrdered DEF Segments
  <2>3. F \subseteq Prices /\ F # {} /\ F \subseteq 0 .. MaxPrice /\ MaxPrice \in Nat
    BY <1>6, <2>1, SegmentsOrdered, BookAssumption DEF Filled
  <2>4. \A p \in F : SegmentOf(p) \in O
    <3> SUFFICES ASSUME NEW p \in F PROVE SegmentOf(p) \in O
      OBVIOUS
    <3>1. SegmentOf(p) \in Segments
      BY <2>3, SegmentsOrdered
    <3>2. p \in active[s][SegmentOf(p)]
      BY <1>4, <2>1, <3>1
    <3> QED BY <1>4, <2>1, <3>1, <3>2
  <2>5. O \subseteq 0 .. n /\ O # {}
    BY <1>4, <2>1, <2>2, <2>3, <2>4
  <2>6. b \in O /\ \A k \in O : AsGood(s, b, k)
    <3>1. b = Extreme(s, O)
      BY <1>4, <2>1
    <3>2. /\ Extreme(s, O) \in O
          /\ \A k \in O : AsGood(s, Extreme(s, O), k)
      BY <2>5, ExtremeIsBest
    <3> QED BY <3>1, <3>2
  <2>7. b \in Segments /\ b # NoSegment /\ active[s][b] # {}
    <3>1. b \in 0 .. n
      BY <2>5, <2>6
    <3>2. b # NoSegment
      BY <3>1 DEF NoSegment
    <3>3. b \in occupied[s]
      BY <2>1, <2>6
    <3>4. b \in Segments /\ active[s][b] # {}
      BY <1>4, <3>3
    <3> QED BY <3>2, <3>4
  <2>8. PICK A : A = active[s][b]
    OBVIOUS
  <2>9. A = {p \in F : SegmentOf(p) = b}
    BY <1>4, <2>1, <2>7, <2>8
  <2>10. A \subseteq 0 .. MaxPrice /\ A # {} /\ A \subseteq F
    BY <2>3, <2>7, <2>8, <2>9
  <2>11. PICK m : m = Extreme(s, A)
    OBVIOUS
  <2>12. m \in A /\ \A k \in A : AsGood(s, m, k)
    BY <2>3, <2>10, <2>11, ExtremeIsBest
  <2>13. ASSUME NEW k \in F PROVE AsGood(s, m, k)
    <3>1. CASE k \in A
      BY <2>12, <3>1
    <3>2. CASE k \notin A
      <4>1. SegmentOf(k) # b /\ SegmentOf(m) = b /\ AsGood(s, b, SegmentOf(k))
        BY <2>4, <2>6, <2>9, <2>12, <3>2
      <4>2. m \in Prices /\ k \in Prices /\ m \in Nat /\ k \in Nat
        BY <2>3, <2>10, <2>12
      <4>3. PICK c \in Nat : c = SegmentOf(k)
        BY <4>2, SegmentsOrdered
      <4>4. b \in Nat
        BY <2>5, <2>6
      <4>5. m <= k => b <= c
        BY <4>1, <4>2, <4>3, SegmentsOrdered
      <4>6. k <= m => c <= b
        BY <4>1, <4>2, <4>3, SegmentsOrdered
      <4>7. CASE s = "Bid"
        BY <4>1, <4>2, <4>3, <4>4, <4>5, <4>7 DEF AsGood
      <4>8. CASE s # "Bid"
        BY <4>1, <4>2, <4>3, <4>4, <4>6, <4>8 DEF AsGood
      <4> QED BY <4>7, <4>8
    <3> QED BY <3>1, <3>2
  <2>14. m \in F
    BY <2>10, <2>12
  <2>15. Extreme(s, F) = m
    BY <2>3, <2>13, <2>14, ExtremeUnique
  <2>16. BestPrice(s) = m
    BY <2>1, <2>8, <2>11 DEF BestPrice
  <2> QED BY <2>1, <2>7, <2>14, <2>15, <2>16
<1> QED BY <1>2, <1>3, <1>5, <1>6

\* The best segment, the bitmaps and the heads of the levels lead to the oldest
\* order of the best price, in whatever order orders came and went.
THEOREM BestIsExact == Spec => []BestExact
<1>1. IInv => BestExact
  <2> SUFFICES ASSUME IInv, NEW s \in Sides
               PROVE  LET prices == {p \in Prices : Fifo(s, p) # <<>>}
                      IN  /\ \A g \in Segments :
                               /\ active[s][g] = {p \in prices : SegmentOf(p) = g}
                               /\ g \in occupied[s] <=> active[s][g] # {}
                          /\ best[s] = Extreme(s, occupied[s])
                          /\ BestOrder(s) = IF prices = {} THEN NoSlot
                                            ELSE Head(Fifo(s, Extreme(s, prices)))
    BY DEF BestExact
  <2> DEFINE prices == {p \in Prices : Fifo(s, p) # <<>>}
  <2>1. PICK free \in Seq(Slots), fifos \in FifoTable : BookInv(free, fifos)
    BY DEF IInv
  <2>2. \A p \in Prices : Fifo(s, p) = fifos[s][p]
    BY <2>1, ChainsAre
  <2>3. /\ \A p \in Prices : p \in Filled(s) <=> fifos[s][p] # <<>>
        /\ Filled(s) = {} => best[s] = NoSegment
        /\ Filled(s) # {} => /\ best[s] # NoSegment
                             /\ BestPrice(s) = Extreme(s, Filled(s))
                             /\ Extreme(s, Filled(s)) \in Filled(s)
    BY <2>1, BestFacts DEF IInv
  <2>4. prices = Filled(s)
    BY <2>2, <2>3 DEF Filled
  <2>5. SideInv(s)
    BY <2>1 DEF BookInv
  <2>6. \A g \in Segments : /\ active[s][g] = {p \in prices : SegmentOf(p) = g}
                            /\ g \in occupied[s] <=> active[s][g] # {}
    <3>1. \A g \in Segments : active[s][g] = {p \in Filled(s) : SegmentOf(p) = g}
      BY <2>5 DEF SideInv, Filled
    <3>2. \A g \in Segments : g \in occupied[s] <=> active[s][g] # {}
      BY <2>5 DEF SideInv
    <3> QED BY <2>4, <3>1, <3>2
  <2>7. best[s] = Extreme(s, occupied[s])
    BY <2>5 DEF SideInv
  <2>8. BestOrder(s) = IF prices = {} THEN NoSlot ELSE Head(Fifo(s, Extreme(s, prices)))
    <3>1. CASE prices = {}
      BY <2>3, <2>4, <3>1 DEF BestOrder
    <3>2. CASE prices # {}
      <4>1. PICK p : p = Extreme(s, Filled(s))
        OBVIOUS
      <4>2. p \in Prices /\ p \in Filled(s) /\ BestPrice(s) = p /\ best[s] # NoSegment
        BY <2>3, <2>4, <3>2, <4>1 DEF Filled
      <4>3. PICK f \in Seq(Slots) : f = fifos[s][p]
        BY <4>2 DEF FifoTable
      <4>4. f # <<>>
        BY <2>3, <4>2, <4>3
      <4>5. Path(orders, f, levels[s][p].head)
        BY <2>1, <4>2, <4>3 DEF BookInv, LevelInv, Linked
      <4>6. levels[s][p].head = Head(f)
        BY <4>4, <4>5 DEF Path
      <4>7. BestOrder(s) = Head(Fifo(s, p))
        BY <2>2, <4>2, <4>3, <4>6 DEF BestOrder
      <4> QED BY <2>4, <3>2, <4>1, <4>7
    <3> QED BY <3>1, <3>2
  <2> QED BY <2>6, <2>7, <2>8
<1> QED BY <1>1, Invariance, PTL

\* validate_freelist accepts the free list.
LEMMA FreelistValid ==
  ASSUME TypeOK, NEW free \in Seq(Slots), NEW fifos \in FifoTable, BookInv(free, fifos)
  PROVE  validate_freelist
<1>1. Chain(freeHead) = free
  BY ChainsAre
<1>2. /\ Path(orders, free, freeHead) /\ freeCount = Len(free)
      /\ \A x \in Slots : x \in ToSet(free) <=> ~orders[x].inUse
  BY DEF BookInv, PoolInv
<1>3. \A k \in DOMAIN free : ~contains(free[k])
  <2> SUFFICES ASSUME NEW k \in DOMAIN free PROVE ~contains(free[k])
    OBVIOUS
  <2>1. free[k] \in Slots /\ free[k] \in ToSet(free)
    BY Members
  <2> QED BY <1>2, <2>1 DEF contains, InUse
<1>4. IsInjective(free)
  BY <1>2 DEF Path
<1>5. \A slot \in Slots : contains(slot) \/ slot \in ToSet(free)
  BY <1>2 DEF contains, InUse
<1> QED BY <1>1, <1>2, <1>3, <1>4, <1>5 DEF validate_freelist

\* validate_level accepts every level.
LEMMA LevelValid ==
  ASSUME TypeOK, NEW free \in Seq(Slots), NEW fifos \in FifoTable, BookInv(free, fifos),
         NEW s \in Sides, NEW p \in Prices
  PROVE  validate_level(levels[s][p], fifos[s][p], s, p)
<1>1. PICK f \in Seq(Slots) : f = fifos[s][p]
  BY DEF FifoTable
<1>2. PICK level \in LevelType : level = levels[s][p]
  BY DEF TypeOK
<1>3. LevelInv(f, s, p) /\ IndexInv
  BY <1>1 DEF BookInv
<1>4. /\ Linked(orders, f, level.head, level.tail)
      /\ level.count = Len(f) /\ level.quantity = SumRemaining(f)
      /\ \A x \in Slots : x \in ToSet(f) <=> /\ orders[x].inUse
                                             /\ orders[x].side = s /\ orders[x].price = p
  BY <1>2, <1>3 DEF LevelInv
<1>5. /\ level.head = IF Len(f) = 0 THEN NoSlot ELSE f[1]
      /\ level.tail = IF Len(f) = 0 THEN NoSlot ELSE f[Len(f)]
      /\ \A k \in 1 .. Len(f) :
           /\ orders[f[k]].next = IF k = Len(f) THEN NoSlot ELSE f[k + 1]
           /\ orders[f[k]].prev = IF k = 1 THEN NoSlot ELSE f[k - 1]
  BY <1>4, LinkedFacts
<1>6. CASE Len(f) = 0
  <2>1. level.head = NoSlot /\ level.tail = NoSlot /\ level.count = 0
    BY <1>4, <1>5, <1>6
  <2>2. level.quantity = 0
    <3>1. PICK g : g = [k \in DOMAIN f |-> orders[f[k]].remaining]
      OBVIOUS
    <3>2. g \in [1 .. 0 -> Int]
      BY <1>6, <3>1
    <3>3. 0 \in Nat /\ \A k \in 1 .. 0 : g[k] = 0
      OBVIOUS
    <3>4. Sum(g) = 0
      BY <3>2, <3>3, SumZero
    <3> QED BY <1>4, <3>1, <3>4 DEF SumRemaining
  <2>3. level = EmptyLevel
    BY <2>1, <2>2 DEF LevelType, EmptyLevel
  <2> QED BY <1>2, <2>1, <2>3 DEF validate_level
<1>7. CASE Len(f) # 0
  <2>1. Len(f) \in Nat /\ 1 \in 1 .. Len(f) /\ Len(f) \in 1 .. Len(f)
    BY <1>7
  <2>2. ASSUME NEW k \in 1 .. Len(f)
        PROVE  /\ contains(f[k]) /\ orders[f[k]].remaining # 0
               /\ orders[f[k]].side = s /\ orders[f[k]].price = p
               /\ orders[f[k]].prev = IF k = 1 THEN NoSlot ELSE f[k - 1]
    <3>1. f[k] \in Slots /\ f[k] \in ToSet(f)
      BY Members
    <3>2. orders[f[k]].inUse /\ orders[f[k]].side = s /\ orders[f[k]].price = p
      BY <1>4, <3>1
    <3>3. orders[f[k]].remaining # 0
      <4>1. orders[f[k]].remaining \in Quantities
        BY <1>3, <3>1, <3>2 DEF IndexInv
      <4> QED BY <4>1, BookAssumption
    <3> QED BY <1>5, <3>1, <3>2, <3>3 DEF contains, InUse
  <2>3. level.head = f[1] /\ level.tail = f[Len(f)]
    BY <1>5, <1>7
  <2>4. contains(level.head) /\ contains(level.tail)
    BY <2>1, <2>2, <2>3
  <2>5. orders[level.head].prev = NoSlot /\ orders[level.tail].next = NoSlot
    BY <1>5, <2>1, <2>3
  <2>6. level.tail = Last(f)
    BY <2>3 DEF Last
  <2>7. DOMAIN f = 1 .. Len(f)
    OBVIOUS
  <2>8. level.count # 0 /\ level.count = Len(f) /\ level.quantity = SumRemaining(f)
    BY <1>4, <1>7
  <2>9. validate_level(level, f, s, p)
    BY <2>2, <2>4, <2>5, <2>6, <2>7, <2>8 DEF validate_level
  <2> QED BY <1>1, <1>2, <2>9
<1> QED BY <1>6, <1>7

\* validate_side accepts each side.
LEMMA SideValid ==
  ASSUME TypeOK, NEW free \in Seq(Slots), NEW fifos \in FifoTable, BookInv(free, fifos),
         NEW s \in Sides
  PROVE  validate_side(fifos, s)
<1>1. \A p \in Prices : validate_level(levels[s][p], fifos[s][p], s, p)
  BY LevelValid
<1>2. SideInv(s)
  BY DEF BookInv
<1>3. \A g \in Segments : /\ active[s][g] = {p \in Filled(s) : SegmentOf(p) = g}
                          /\ g \in occupied[s] <=> active[s][g] # {}
  BY <1>2 DEF SideInv, Filled
<1>4. /\ count[s] = Sum([k \in LevelNumbers |-> levels[s][MinPrice + k - 1].count])
      /\ total[s] = Sum([k \in LevelNumbers |-> levels[s][MinPrice + k - 1].quantity])
  BY <1>2 DEF SideInv
<1>5. IF count[s] = 0 THEN best[s] = NoSegment
      ELSE /\ best[s] \in Segments /\ active[s][best[s]] # {}
           /\ BestPrice(s) = Extreme(s, Filled(s))
  BY BestFacts
<1> QED BY <1>1, <1>3, <1>4, <1>5 DEF validate_side, Filled

\* A walk through all FIFOs meets a slot once if an order is in it, and never
\* if the slot is free.
LEMMA SeenOnce ==
  ASSUME TypeOK, NEW free \in Seq(Slots), NEW fifos \in FifoTable, BookInv(free, fifos),
         NEW slot \in Slots
  PROVE  fifo_seen(fifos, slot) = IF contains(slot) THEN 1 ELSE 0
<1> DEFINE seen == {at \in Sides \X Prices : slot \in Range(fifos[at[1]][at[2]])}
<1>1. ASSUME NEW s \in Sides, NEW p \in Prices
      PROVE  slot \in Range(fifos[s][p]) <=> /\ orders[slot].inUse
                                             /\ orders[slot].side = s
                                             /\ orders[slot].price = p
  <2>1. PICK f \in Seq(Slots) : f = fifos[s][p]
    BY DEF FifoTable
  <2>2. slot \in ToSet(f) <=> /\ orders[slot].inUse
                              /\ orders[slot].side = s /\ orders[slot].price = p
    BY <2>1 DEF BookInv, LevelInv
  <2>3. Range(f) = ToSet(f)
    BY DEF Range, ToSet
  <2> QED BY <2>1, <2>2, <2>3
<1>2. CASE contains(slot)
  <2>1. orders[slot].inUse /\ orders[slot].price \in Prices
    BY <1>2 DEF contains, InUse, BookInv, IndexInv
  <2>2. PICK s \in Sides : s = orders[slot].side
    BY DEF TypeOK, OrderType
  <2>3. PICK p \in Prices : p = orders[slot].price
    BY <2>1
  <2>4. \A c \in Sides, d \in Prices : slot \in Range(fifos[c][d]) <=> c = s /\ d = p
    BY <1>1, <2>1, <2>2, <2>3
  <2>5. seen = {<<s, p>>}
    BY <2>4
  <2>6. Cardinality({<<s, p>>}) = 1
    BY FS_Singleton
  <2> QED BY <1>2, <2>5, <2>6 DEF fifo_seen
<1>3. CASE ~contains(slot)
  <2>1. ~orders[slot].inUse
    BY <1>3 DEF contains, InUse
  <2>2. seen = {}
    BY <1>1, <2>1
  <2>3. Cardinality({}) = 0
    BY FS_EmptySet
  <2> QED BY <1>3, <2>2, <2>3 DEF fifo_seen
<1> QED BY <1>2, <1>3

\* Every FIFO holds exactly the orders of its side and price, and
\* OrderBook::validate_invariants accepts the book after every operation: the
\* check that debug builds run never reports an error that is none.
THEOREM FifosAreExact == Spec => []FifosExact
<1>1. IInv => FifosExact
  <2> SUFFICES ASSUME IInv PROVE FifosExact
    OBVIOUS
  <2>0. TypeOK
    BY DEF IInv
  <2>1. PICK free \in Seq(Slots), fifos \in FifoTable : BookInv(free, fifos)
    BY DEF IInv
  <2>2. \A s \in Sides, p \in Prices : Fifo(s, p) = fifos[s][p]
    BY <2>1, ChainsAre
  <2>3. ASSUME NEW s \in Sides, NEW p \in Prices
        PROVE  ToSet(Fifo(s, p)) = {slot \in InUse : orders[slot].side = s
                                                     /\ orders[slot].price = p}
    <3>1. PICK f \in Seq(Slots) : f = fifos[s][p]
      BY DEF FifoTable
    <3>2. \A x \in Slots : x \in ToSet(f) <=> /\ orders[x].inUse
                                              /\ orders[x].side = s /\ orders[x].price = p
      BY <2>1, <3>1 DEF BookInv, LevelInv
    <3>3. ToSet(f) \subseteq Slots
      BY Members
    <3> QED BY <2>2, <3>1, <3>2, <3>3 DEF InUse
  <2>4. \A s \in Sides : count[s] = Cardinality({slot \in InUse : orders[slot].side = s})
    BY <2>1 DEF BookInv, SideInv, OrdersOf
  <2>5. validate_invariants
    <3>1. [s \in Sides |-> [p \in Prices |-> Fifo(s, p)]] = fifos
      BY <2>2 DEF FifoTable
    <3>2. validate_freelist /\ \A s \in Sides : validate_side(fifos, s)
      BY <2>0, <2>1, FreelistValid, SideValid
    <3>3. IndexInv
      BY <2>1 DEF BookInv
    <3>4. Cardinality({id \in Ids : index[id] # NoSlot}) = count["Bid"] + count["Ask"]
      BY <3>3 DEF IndexInv, Indexed
    <3>5. \A slot \in Slots :
            IF contains(slot)
            THEN fifo_seen(fifos, slot) = 1 /\ index[orders[slot].id] = slot
            ELSE fifo_seen(fifos, slot) = 0
      <4> SUFFICES ASSUME NEW slot \in Slots
                   PROVE  IF contains(slot)
                          THEN fifo_seen(fifos, slot) = 1 /\ index[orders[slot].id] = slot
                          ELSE fifo_seen(fifos, slot) = 0
        OBVIOUS
      <4>1. fifo_seen(fifos, slot) = IF contains(slot) THEN 1 ELSE 0
        BY <2>0, <2>1, SeenOnce
      <4>2. contains(slot) => index[orders[slot].id] = slot
        BY <3>3 DEF contains, InUse, IndexInv
      <4> QED BY <4>1, <4>2
    <3>6. \A id \in {i \in Ids : index[i] # NoSlot} :
            contains(index[id]) /\ orders[index[id]].id = id
      <4> SUFFICES ASSUME NEW id \in Ids, index[id] # NoSlot
                   PROVE  contains(index[id]) /\ orders[index[id]].id = id
        OBVIOUS
      <4>1. index[id] \in Slots
        BY <2>0 DEF TypeOK
      <4> QED BY <3>3, <4>1 DEF contains, InUse, IndexInv
    <3> QED BY <3>1, <3>2, <3>4, <3>5, <3>6 DEF validate_invariants
  <2> QED BY <2>3, <2>4, <2>5 DEF FifosExact
<1> QED BY <1>1, Invariance, PTL

-----------------------------------------------------------------------------
(* Refinement: the book implements PriceTimeBook.                            *)

\* What a client sees of the orders in the slots of f.
Contents(o, f) == [k \in DOMAIN f |-> [id |-> o[f[k]].id, remaining |-> o[f[k]].remaining]]

\* The queues that FIFOs stand for.
QueueOf(o, fifos) == [s \in Sides |-> [p \in Prices |-> Contents(o, fifos[s][p])]]

\* A table of tables, by side and price.
IsTable(L) == L = [s \in Sides |-> [p \in Prices |-> L[s][p]]]

LEMMA QueueAt ==
  ASSUME NEW o, NEW fifos
  PROVE  /\ \A s \in Sides, p \in Prices : QueueOf(o, fifos)[s][p] = Contents(o, fifos[s][p])
         /\ IsTable(QueueOf(o, fifos))
BY DEF QueueOf, IsTable

LEMMA QueueIs ==
  ASSUME NEW free, NEW fifos, BookInv(free, fifos)
  PROVE  Queue = QueueOf(orders, fifos)
<1>1. \A s \in Sides, p \in Prices : Fifo(s, p) = fifos[s][p]
  BY ChainsAre
<1> QED BY <1>1 DEF Queue, QueueOf, Contents

\* After a step that leaves the FIFOs in order.
LEMMA QueueIsNext ==
  ASSUME NEW fifos, \A s \in Sides, p \in Prices : LevelInv(fifos[s][p], s, p)'
  PROVE  Queue' = QueueOf(orders', fifos)
<1>1. ASSUME NEW s \in Sides, NEW p \in Prices PROVE Fifo(s, p)' = fifos[s][p]
  <2>1. Fifo(s, p)' = Walk(orders', levels'[s][p].head)
    BY DEF Fifo, Chain, Walk
  <2>2. PICK f, h : f = fifos[s][p] /\ h = levels'[s][p].head
    OBVIOUS
  <2>3. LevelInv(f, s, p)'
    BY <2>2
  <2>4. Path(orders', f, h)
    BY <2>2, <2>3 DEF LevelInv, Linked
  <2>5. Walk(orders', h) = f
    BY <2>4, WalkFollows
  <2> QED BY <2>1, <2>2, <2>5
<1> QED BY <1>1 DEF Queue, QueueOf, Contents

\* Table M is L with v at a and b.
Replaced(L, M, a, b, v) ==
  /\ IsTable(L) /\ IsTable(M) /\ M[a][b] = v
  /\ \A x \in Sides, y \in Prices : x # a \/ y # b => M[x][y] = L[x][y]

LEMMA TableReplaced ==
  ASSUME NEW L, NEW M, NEW a \in Sides, NEW b \in Prices, NEW v, Replaced(L, M, a, b, v)
  PROVE  M = [L EXCEPT ![a][b] = v]
<1>1. PICK row : row = [L[a] EXCEPT ![b] = v]
  OBVIOUS
<1>0. /\ L = [x \in Sides |-> [y \in Prices |-> L[x][y]]]
      /\ M = [x \in Sides |-> [y \in Prices |-> M[x][y]]]
      /\ M[a][b] = v /\ \A x \in Sides, y \in Prices : x # a \/ y # b => M[x][y] = L[x][y]
  BY DEF IsTable, Replaced
<1>2. L[a] = [y \in Prices |-> L[a][y]] /\ M[a] = [y \in Prices |-> M[a][y]]
  BY <1>0
<1>3. row = M[a]
  BY <1>0, <1>1, <1>2
<1>4. \A x \in Sides : x # a => M[x] = L[x]
  <2> SUFFICES ASSUME NEW x \in Sides, x # a PROVE M[x] = L[x]
    OBVIOUS
  <2>1. L[x] = [y \in Prices |-> L[x][y]] /\ M[x] = [y \in Prices |-> M[x][y]]
    BY <1>0
  <2> QED BY <1>0, <2>1
<1>5. DOMAIN L = Sides /\ DOMAIN M = Sides
  BY <1>0
<1>6. [L EXCEPT ![a] = row] = M
  <2>1. PICK K : K = [L EXCEPT ![a] = row]
    OBVIOUS
  <2>2. K = [x \in Sides |-> IF x = a THEN row ELSE L[x]]
    BY <1>5, <2>1
  <2>3. \A x \in Sides : K[x] = M[x]
    BY <1>3, <1>4, <2>2
  <2>4. M = [x \in Sides |-> M[x]] /\ K = [x \in Sides |-> K[x]]
    BY <1>0, <2>2
  <2> QED BY <2>1, <2>3, <2>4
<1> QED BY <1>1, <1>6

\* Where the orders of a book are.
LEMMA PlacesAre ==
  ASSUME NEW o, NEW fifos \in FifoTable
  PROVE  \A x : x \in Book!Places(QueueOf(o, fifos))
                  <=> \E s \in Sides, p \in Prices : \E j \in 1 .. Len(fifos[s][p]) :
                        x = <<s, p, j>>
<1>1. Book!Sides = Sides
  BY DEF Book!Sides, Sides
<1>2. PICK q : q = QueueOf(o, fifos)
  OBVIOUS
<1>3. ASSUME NEW s \in Sides, NEW p \in Prices PROVE DOMAIN q[s][p] = 1 .. Len(fifos[s][p])
  <2>1. PICK f \in Seq(Slots) : f = fifos[s][p]
    BY DEF FifoTable
  <2>2. q[s][p] = Contents(o, f)
    BY <1>2, <2>1, QueueAt
  <2> QED BY <2>1, <2>2 DEF Contents
<1>4. Book!Places(q) = UNION {{s} \X {p} \X DOMAIN q[s][p] : s \in Sides, p \in Prices}
  BY <1>1 DEF Book!Places
<1>5. ASSUME NEW x
      PROVE  x \in Book!Places(q) <=> \E s \in Sides, p \in Prices :
                                        x \in {s} \X {p} \X DOMAIN q[s][p]
  <2>1. ASSUME x \in Book!Places(q)
        PROVE  \E s \in Sides, p \in Prices : x \in {s} \X {p} \X DOMAIN q[s][p]
    <3>1. PICK S \in {{s} \X {p} \X DOMAIN q[s][p] : s \in Sides, p \in Prices} : x \in S
      BY <1>4, <2>1
    <3> QED BY <3>1
  <2>2. ASSUME NEW s \in Sides, NEW p \in Prices, x \in {s} \X {p} \X DOMAIN q[s][p]
        PROVE  x \in Book!Places(q)
    <3>1. PICK S : S = {s} \X {p} \X DOMAIN q[s][p]
      OBVIOUS
    <3>2. S \in {{a} \X {b} \X DOMAIN q[a][b] : a \in Sides, b \in Prices}
      BY <3>1
    <3> QED BY <1>4, <2>2, <3>1, <3>2
  <2> QED BY <2>1, <2>2
<1>6. ASSUME NEW x, NEW s \in Sides, NEW p \in Prices
      PROVE  x \in {s} \X {p} \X DOMAIN q[s][p]
               <=> \E j \in 1 .. Len(fifos[s][p]) : x = <<s, p, j>>
  BY <1>3
<1> QED BY <1>2, <1>5, <1>6

\* The slot in a place.
SlotIn(fifos, at) == fifos[at[1]][at[2]][at[3]]

\* Places and slots in use correspond to each other.
LEMMA PlacesAndSlots ==
  ASSUME TypeOK, NEW free, NEW fifos \in FifoTable, BookInv(free, fifos),
         NEW P, P = Book!Places(QueueOf(orders, fifos))
  PROVE  /\ \A at \in P : /\ SlotIn(fifos, at) \in InUse
                          /\ at[1] = orders[SlotIn(fifos, at)].side
                          /\ at[2] = orders[SlotIn(fifos, at)].price
                          /\ QueueOf(orders, fifos)[at[1]][at[2]][at[3]]
                               = [id |-> orders[SlotIn(fifos, at)].id,
                                  remaining |-> orders[SlotIn(fifos, at)].remaining]
         /\ \A x, y \in P : SlotIn(fifos, x) = SlotIn(fifos, y) => x = y
         /\ \A slot \in InUse : \E at \in P : SlotIn(fifos, at) = slot
<1>1. \A x : x \in P <=> \E s \in Sides, p \in Prices : \E j \in 1 .. Len(fifos[s][p]) :
                           x = <<s, p, j>>
  BY PlacesAre
<1>2. ASSUME NEW s \in Sides, NEW p \in Prices, NEW j \in 1 .. Len(fifos[s][p])
      PROVE  /\ fifos[s][p][j] \in InUse
             /\ orders[fifos[s][p][j]].side = s /\ orders[fifos[s][p][j]].price = p
             /\ QueueOf(orders, fifos)[s][p][j]
                  = [id |-> orders[fifos[s][p][j]].id,
                     remaining |-> orders[fifos[s][p][j]].remaining]
  <2>1. PICK f \in Seq(Slots) : f = fifos[s][p]
    BY DEF FifoTable
  <2>2. LevelInv(f, s, p) /\ j \in 1 .. Len(f)
    BY <2>1 DEF BookInv
  <2>3. f[j] \in Slots /\ f[j] \in ToSet(f)
    BY <2>2, Members
  <2>4. f[j] \in InUse /\ orders[f[j]].side = s /\ orders[f[j]].price = p
    BY <2>2, <2>3 DEF LevelInv, InUse
  <2>6. QueueOf(orders, fifos)[s][p] = Contents(orders, f)
    BY <2>1, QueueAt
  <2>7. Contents(orders, f)[j] = [id |-> orders[f[j]].id, remaining |-> orders[f[j]].remaining]
    BY <2>2 DEF Contents
  <2> QED BY <2>1, <2>4, <2>6, <2>7
<1>3. ASSUME NEW at \in P
      PROVE  /\ at[1] \in Sides /\ at[2] \in Prices /\ at[3] \in 1 .. Len(fifos[at[1]][at[2]])
             /\ at = <<at[1], at[2], at[3]>>
  <2>1. PICK s \in Sides, p \in Prices : \E j \in 1 .. Len(fifos[s][p]) : at = <<s, p, j>>
    BY <1>1
  <2>2. PICK j \in 1 .. Len(fifos[s][p]) : at = <<s, p, j>>
    BY <2>1
  <2> QED BY <2>2
<1>4. ASSUME NEW at \in P
      PROVE  /\ SlotIn(fifos, at) \in InUse
             /\ at[1] = orders[SlotIn(fifos, at)].side
             /\ at[2] = orders[SlotIn(fifos, at)].price
             /\ QueueOf(orders, fifos)[at[1]][at[2]][at[3]]
                  = [id |-> orders[SlotIn(fifos, at)].id,
                     remaining |-> orders[SlotIn(fifos, at)].remaining]
  <2>0. PICK s \in Sides, p \in Prices : s = at[1] /\ p = at[2]
    BY <1>3
  <2>1. PICK j : s = at[1] /\ p = at[2] /\ j = at[3] /\ j \in 1 .. Len(fifos[s][p])
    BY <1>3, <2>0
  <2>2. SlotIn(fifos, at) = fifos[s][p][j]
    BY <2>1 DEF SlotIn
  <2>3. PICK slot : slot = fifos[s][p][j]
    OBVIOUS
  <2>4. /\ slot \in InUse /\ orders[slot].side = s /\ orders[slot].price = p
        /\ QueueOf(orders, fifos)[s][p][j]
             = [id |-> orders[slot].id, remaining |-> orders[slot].remaining]
    <3>1. j \in 1 .. Len(fifos[s][p])
      BY <2>1
    <3>2. /\ fifos[s][p][j] \in InUse
          /\ orders[fifos[s][p][j]].side = s /\ orders[fifos[s][p][j]].price = p
          /\ QueueOf(orders, fifos)[s][p][j]
               = [id |-> orders[fifos[s][p][j]].id,
                  remaining |-> orders[fifos[s][p][j]].remaining]
      BY <1>2, <3>1
    <3> QED BY <2>3, <3>2
  <2> QED BY <2>1, <2>2, <2>3, <2>4
<1>5. ASSUME NEW x \in P, NEW y \in P, SlotIn(fifos, x) = SlotIn(fifos, y) PROVE x = y
  <2>1. PICK slot : slot = SlotIn(fifos, x) /\ slot = SlotIn(fifos, y)
    BY <1>5
  <2>2. /\ x[1] = orders[slot].side /\ x[2] = orders[slot].price
        /\ y[1] = orders[slot].side /\ y[2] = orders[slot].price
    <3>1. x[1] = orders[slot].side /\ x[2] = orders[slot].price
      BY <1>4, <2>1
    <3>2. y[1] = orders[slot].side /\ y[2] = orders[slot].price
      BY <1>4, <2>1
    <3> QED BY <3>1, <3>2
  <2>3. PICK s \in Sides, p \in Prices : s = x[1] /\ p = x[2]
    BY <1>3
  <2>4. PICK i, j : i = x[3] /\ j = y[3]
    OBVIOUS
  <2>5. i \in 1 .. Len(fifos[s][p]) /\ j \in 1 .. Len(fifos[s][p])
    <3>1. i \in 1 .. Len(fifos[s][p])
      BY <1>3, <2>3, <2>4
    <3>2. y[3] \in 1 .. Len(fifos[y[1]][y[2]])
      BY <1>3
    <3>3. y[1] = s /\ y[2] = p
      BY <2>2, <2>3
    <3> QED BY <2>4, <3>1, <3>2, <3>3
  <2>6. fifos[s][p][i] = slot /\ fifos[s][p][j] = slot
    BY <2>1, <2>2, <2>3, <2>4 DEF SlotIn
  <2>7. i = j
    <3>1. PICK f \in Seq(Slots) : f = fifos[s][p]
      BY DEF FifoTable
    <3>2. \A a, b \in 1 .. Len(f) : f[a] = f[b] => a = b
      BY <3>1, LinkedFacts DEF BookInv, LevelInv
    <3> QED BY <2>5, <2>6, <3>1, <3>2
  <2>8. x = <<x[1], x[2], x[3]>> /\ y = <<y[1], y[2], y[3]>>
    BY <1>3
  <2> QED BY <2>2, <2>4, <2>7, <2>8
<1>6. ASSUME NEW slot \in InUse PROVE \E at \in P : SlotIn(fifos, at) = slot
  <2>1. slot \in Slots /\ orders[slot].inUse /\ orders[slot].price \in Prices
    BY DEF InUse, BookInv, IndexInv
  <2>2. orders[slot].side \in Sides
    BY <2>1, TypeFacts
  <2>3. PICK s \in Sides, p \in Prices : s = orders[slot].side /\ p = orders[slot].price
    BY <2>1, <2>2
  <2>4. PICK f \in Seq(Slots) : f = fifos[s][p]
    BY DEF FifoTable
  <2>5. slot \in ToSet(f)
    BY <2>1, <2>3, <2>4 DEF BookInv, LevelInv
  <2>6. PICK j \in 1 .. Len(f) : f[j] = slot
    BY <2>5, Members
  <2>7. PICK at : at = <<s, p, j>>
    OBVIOUS
  <2>8. at \in P
    BY <1>1, <2>4, <2>7
  <2>9. SlotIn(fifos, at) = slot
    BY <2>4, <2>6, <2>7 DEF SlotIn
  <2> QED BY <2>8, <2>9
<1> QED BY <1>4, <1>5, <1>6

\* find() of the index is the search for an order.
LEMMA RestingIs ==
  ASSUME TypeOK, NEW free, NEW fifos \in FifoTable, BookInv(free, fifos), NEW id \in Ids
  PROVE  Book!Resting(QueueOf(orders, fifos), id) <=> index[id] # NoSlot
<1>1. PICK q, P : q = QueueOf(orders, fifos) /\ P = Book!Places(q)
  OBVIOUS
<1>2. /\ \A at \in P : /\ SlotIn(fifos, at) \in InUse
                       /\ q[at[1]][at[2]][at[3]].id = orders[SlotIn(fifos, at)].id
      /\ \A slot \in InUse : \E at \in P : SlotIn(fifos, at) = slot
  <2>1. P = Book!Places(QueueOf(orders, fifos))
    BY <1>1
  <2>2. /\ \A at \in P : /\ SlotIn(fifos, at) \in InUse
                          /\ QueueOf(orders, fifos)[at[1]][at[2]][at[3]]
                               = [id |-> orders[SlotIn(fifos, at)].id,
                                  remaining |-> orders[SlotIn(fifos, at)].remaining]
        /\ \A slot \in InUse : \E at \in P : SlotIn(fifos, at) = slot
    BY <2>1, PlacesAndSlots
  <2>3. ASSUME NEW at \in P PROVE q[at[1]][at[2]][at[3]].id = orders[SlotIn(fifos, at)].id
    <3>1. PICK r : r = q[at[1]][at[2]][at[3]]
      OBVIOUS
    <3>2. r = [id |-> orders[SlotIn(fifos, at)].id,
               remaining |-> orders[SlotIn(fifos, at)].remaining]
      BY <1>1, <2>2, <3>1
    <3> QED BY <3>1, <3>2
  <2> QED BY <2>2, <2>3
<1>3. Book!Resting(q, id) <=> \E at \in P : q[at[1]][at[2]][at[3]].id = id
  BY <1>1 DEF Book!Resting, Book!IsAt
<1>4. ASSUME NEW at \in P, q[at[1]][at[2]][at[3]].id = id PROVE index[id] # NoSlot
  <2>1. PICK slot \in InUse : slot = SlotIn(fifos, at)
    BY <1>2
  <2>2. index[id] = slot /\ slot \in Slots
    BY <1>2, <1>4, <2>1 DEF BookInv, IndexInv, InUse
  <2> QED BY <2>2, SlotsFinite
<1>5. ASSUME index[id] # NoSlot PROVE \E at \in P : q[at[1]][at[2]][at[3]].id = id
  <2>1. index[id] \in InUse /\ orders[index[id]].id = id
    BY <1>5, Indexing DEF InUse
  <2>2. PICK at \in P : SlotIn(fifos, at) = index[id]
    BY <1>2, <2>1
  <2> QED BY <1>2, <2>1, <2>2
<1> QED BY <1>1, <1>3, <1>4, <1>5

\* acquire() succeeds as long as the book is not full.
LEMMA CapacityIs ==
  ASSUME TypeOK, NEW free \in Seq(Slots), NEW fifos \in FifoTable, BookInv(free, fifos),
         freeHead # NoSlot
  PROVE  Cardinality(Book!Places(QueueOf(orders, fifos))) < MaxOrders
<1>1. PICK P : P = Book!Places(QueueOf(orders, fifos))
  OBVIOUS
<1>2. /\ \A at \in P : SlotIn(fifos, at) \in InUse
      /\ \A x, y \in P : SlotIn(fifos, x) = SlotIn(fifos, y) => x = y
  <2>1. P = Book!Places(QueueOf(orders, fifos))
    BY <1>1
  <2>2. \A at \in P : SlotIn(fifos, at) \in InUse
    BY <2>1, PlacesAndSlots
  <2>3. \A x, y \in P : SlotIn(fifos, x) = SlotIn(fifos, y) => x = y
    BY <2>1, PlacesAndSlots
  <2> QED BY <2>2, <2>3
<1>3. IsFiniteSet(InUse) /\ Cardinality(InUse) \in Nat
  BY SlotsFinite, FS_Subset, FS_CardinalityType DEF InUse
<1>4. Len(free) # 0 /\ Len(free) \in Nat /\ Len(free) + Cardinality(InUse) = MaxOrders
  <2>1. Path(orders, free, freeHead) /\ Len(free) + Cardinality(InUse) = MaxOrders
    BY DEF BookInv, PoolInv
  <2> QED BY <2>1, Members DEF Path
<1>5. IsFiniteSet(P) /\ Cardinality(P) <= Cardinality(InUse)
  <2>1. [at \in P |-> SlotIn(fifos, at)] \in Injection(P, InUse)
    BY <1>2 DEF Injection, IsInjective
  <2> QED BY <1>3, <2>1, FS_Injection
<1>6. Cardinality(P) \in Nat
  BY <1>5, FS_CardinalityType
<1> QED BY <1>1, <1>3, <1>4, <1>5, <1>6, BookAssumption

\* An order is found where the index leads to.
LEMMA PlaceIs ==
  ASSUME TypeOK, NEW free, NEW fifos \in FifoTable, BookInv(free, fifos), NEW id \in Ids,
         index[id] # NoSlot, NEW s \in Sides, NEW p \in Prices, NEW j \in 1 .. Len(fifos[s][p]),
         fifos[s][p][j] = index[id]
  PROVE  Book!Place(QueueOf(orders, fifos), id) = <<s, p, j>>
<1>1. PICK q, P, here : q = QueueOf(orders, fifos) /\ P = Book!Places(q) /\ here = <<s, p, j>>
  OBVIOUS
<1>2. P = Book!Places(QueueOf(orders, fifos))
  BY <1>1
<1>3. here \in P
  <2>1. \A x : x \in P <=> \E a \in Sides, b \in Prices : \E k \in 1 .. Len(fifos[a][b]) :
                             x = <<a, b, k>>
    BY <1>2, PlacesAre
  <2> QED BY <1>1, <2>1
<1>4. SlotIn(fifos, here) = index[id]
  BY <1>1 DEF SlotIn
<1>5. ASSUME NEW at \in P PROVE q[at[1]][at[2]][at[3]].id = orders[SlotIn(fifos, at)].id
  <2>1. PICK r : r = q[at[1]][at[2]][at[3]]
    OBVIOUS
  <2>2. QueueOf(orders, fifos)[at[1]][at[2]][at[3]]
          = [id |-> orders[SlotIn(fifos, at)].id,
             remaining |-> orders[SlotIn(fifos, at)].remaining]
    BY <1>2, PlacesAndSlots
  <2>3. r = [id |-> orders[SlotIn(fifos, at)].id,
             remaining |-> orders[SlotIn(fifos, at)].remaining]
    BY <1>1, <2>1, <2>2
  <2> QED BY <2>1, <2>3
<1>6. orders[index[id]].id = id
  BY Indexing
<1>7. Book!IsAt(q, id, here)
  BY <1>3, <1>4, <1>5, <1>6 DEF Book!IsAt
<1>8. ASSUME NEW at \in P, Book!IsAt(q, id, at) PROVE at = here
  <2>1. orders[SlotIn(fifos, at)].id = id
    BY <1>5, <1>8 DEF Book!IsAt
  <2>2. PICK slot : slot = SlotIn(fifos, at)
    OBVIOUS
  <2>3. slot \in InUse
    BY <1>2, <2>2, PlacesAndSlots
  <2>4. index[id] = slot
    BY <2>1, <2>2, <2>3 DEF BookInv, IndexInv, InUse
  <2>5. \A x, y \in P : SlotIn(fifos, x) = SlotIn(fifos, y) => x = y
    BY <1>2, PlacesAndSlots
  <2> QED BY <1>3, <1>4, <2>2, <2>4, <2>5
<1>9. (CHOOSE at \in P : Book!IsAt(q, id, at)) = here
  BY <1>3, <1>7, <1>8
<1> QED BY <1>1, <1>9 DEF Book!Place

-----------------------------------------------------------------------------
\* What a FIFO stands for, when orders of others change.
LEMMA ContentsKept ==
  ASSUME NEW f \in Seq(Slots), NEW o, NEW q,
         \A x \in ToSet(f) : q[x].id = o[x].id /\ q[x].remaining = o[x].remaining
  PROVE  Contents(q, f) = Contents(o, f)
<1>1. \A k \in DOMAIN f : f[k] \in ToSet(f)
  BY DEF ToSet
<1> QED BY <1>1 DEF Contents

\* When it is one longer.
LEMMA ContentsAppended ==
  ASSUME NEW f \in Seq(Slots), NEW slot \in Slots, NEW q, NEW v,
         v = [id |-> q[slot].id, remaining |-> q[slot].remaining]
  PROVE  Contents(q, Append(f, slot)) = Append(Contents(q, f), v)
<1> DEFINE entry(x) == [id |-> q[x].id, remaining |-> q[x].remaining]
           S == {entry(x) : x \in Slots}
<1>1. PICK g : g = Append(f, slot)
  OBVIOUS
<1>2. /\ g \in Seq(Slots) /\ Len(g) = Len(f) + 1 /\ g[Len(f) + 1] = slot
      /\ \A k \in 1 .. Len(f) : g[k] = f[k]
      /\ Len(f) \in Nat /\ DOMAIN g = 1 .. Len(f) + 1 /\ DOMAIN f = 1 .. Len(f)
  BY <1>1
<1>3. PICK c, d, e : c = Contents(q, f) /\ d = Contents(q, g) /\ e = Append(c, v)
  OBVIOUS
<1>4. /\ c = [k \in 1 .. Len(f) |-> entry(f[k])]
      /\ d = [k \in 1 .. Len(f) + 1 |-> entry(g[k])]
  BY <1>2, <1>3 DEF Contents
<1>5. c \in Seq(S) /\ Len(c) = Len(f) /\ v \in S /\ v = entry(slot)
  <2>1. \A k \in 1 .. Len(f) : entry(f[k]) \in S
    BY Members
  <2>2. v = entry(slot) /\ v \in S
    OBVIOUS
  <2> HIDE DEF S, entry
  <2> QED BY <1>2, <1>4, <2>1, <2>2
<1> HIDE DEF S, entry
<1>6. /\ e \in Seq(S) /\ Len(e) = Len(f) + 1 /\ e[Len(f) + 1] = v
      /\ \A k \in 1 .. Len(f) : e[k] = c[k]
  BY <1>2, <1>3, <1>5
<1>7. ASSUME NEW k \in 1 .. Len(f) + 1 PROVE d[k] = e[k]
  <2>1. CASE k = Len(f) + 1
    BY <1>2, <1>4, <1>5, <1>6, <2>1
  <2>2. CASE k # Len(f) + 1
    <3>1. k \in 1 .. Len(f)
      BY <1>2, <2>2
    <3> QED BY <1>2, <1>4, <1>6, <3>1
  <2> QED BY <2>1, <2>2
<1>8. e = [k \in 1 .. Len(f) + 1 |-> e[k]] /\ d = [k \in 1 .. Len(f) + 1 |-> d[k]]
  BY <1>2, <1>4, <1>6
<1> QED BY <1>1, <1>3, <1>7, <1>8

\* When an order is taken out of it.
LEMMA ContentsRemoved ==
  ASSUME NEW f \in Seq(Slots), NEW j \in 1 .. Len(f), NEW q
  PROVE  Contents(q, RemoveAt(f, j)) = RemoveAt(Contents(q, f), j)
<1> DEFINE entry(x) == [id |-> q[x].id, remaining |-> q[x].remaining]
           S == {entry(x) : x \in Slots}
<1>1. PICK g : g = RemoveAt(f, j)
  OBVIOUS
<1>2. /\ g \in Seq(Slots) /\ Len(g) = Len(f) - 1
      /\ \A k \in 1 .. Len(f) - 1 : g[k] = IF k < j THEN f[k] ELSE f[k + 1]
  BY <1>1, Removed
<1>3. Len(f) \in Nat /\ \A k \in 1 .. Len(f) : f[k] \in Slots
  BY Members
<1>4. PICK c, d, e : c = Contents(q, f) /\ d = Contents(q, g) /\ e = RemoveAt(c, j)
  OBVIOUS
<1>5. c = [k \in 1 .. Len(f) |-> entry(f[k])] /\ d = [k \in 1 .. Len(f) - 1 |-> entry(g[k])]
  <2>1. DOMAIN f = 1 .. Len(f) /\ DOMAIN g = 1 .. Len(f) - 1
    BY <1>2, <1>3
  <2> QED BY <1>4, <2>1 DEF Contents
<1>6. c \in Seq(S) /\ Len(c) = Len(f)
  <2>1. \A k \in 1 .. Len(f) : entry(f[k]) \in S
    BY <1>3
  <2> HIDE DEF S, entry
  <2> QED BY <1>3, <1>5, <2>1
<1>7. /\ e \in Seq(S) /\ Len(e) = Len(f) - 1
      /\ \A k \in 1 .. Len(f) - 1 : e[k] = IF k < j THEN c[k] ELSE c[k + 1]
  <2> HIDE DEF S
  <2>1. j \in 1 .. Len(c)
    BY <1>6
  <2> QED BY <1>4, <1>6, <2>1, Removed
<1> HIDE DEF entry
<1>8. ASSUME NEW k \in 1 .. Len(f) - 1 PROVE d[k] = e[k]
  <2>1. k \in 1 .. Len(f) /\ k + 1 \in 1 .. Len(f)
    BY <1>3
  <2>2. d[k] = entry(g[k]) /\ c[k] = entry(f[k]) /\ c[k + 1] = entry(f[k + 1])
    BY <1>5, <2>1
  <2> QED BY <1>2, <1>7, <2>2
<1>9. e = [k \in 1 .. Len(f) - 1 |-> e[k]] /\ d = [k \in 1 .. Len(f) - 1 |-> d[k]]
  <2> HIDE DEF S
  <2> QED BY <1>5, <1>7
<1> QED BY <1>1, <1>4, <1>8, <1>9

\* insert() appends to the queue.
LEMMA QueueAppended ==
  ASSUME NEW o, NEW free, NEW fifos, Appending(o, free, fifos)
  PROVE  QueueOf(orders', Longer(o, fifos))
           = Book!Rested(QueueOf(orders, fifos), o.id, o.side, o.price, o.remaining)
<1>1. /\ o.side \in Sides /\ o.price \in Prices /\ freeHead \in Slots
      /\ ~orders[freeHead].inUse
  BY AppendSlots
<1>2. /\ orders'[freeHead].id = o.id /\ orders'[freeHead].remaining = o.remaining
      /\ \A x \in Slots \ {freeHead} : /\ orders'[x].id = orders[x].id
                                       /\ orders'[x].remaining = orders[x].remaining
  BY AppendOrders
<1>3. PICK after : after = Longer(o, fifos)
  OBVIOUS
<1>4. /\ after[o.side][o.price] = Append(fifos[o.side][o.price], freeHead)
      /\ \A s \in Sides, p \in Prices : s # o.side \/ p # o.price => after[s][p] = fifos[s][p]
  BY <1>3, AppendedFifos
<1>5. ASSUME NEW s \in Sides, NEW p \in Prices
      PROVE  Contents(orders', fifos[s][p]) = Contents(orders, fifos[s][p])
  <2>1. PICK f \in Seq(Slots) : f = fifos[s][p]
    BY DEF Appending, FifoTable
  <2>2. \A x \in Slots : x \in ToSet(f) => orders[x].inUse
    BY <2>1 DEF Appending, BookInv, LevelInv
  <2>3. \A x \in ToSet(f) : x \in Slots \ {freeHead}
    BY <1>1, <2>2, Members
  <2>4. Contents(orders', f) = Contents(orders, f)
    BY <1>2, <2>3, ContentsKept
  <2> QED BY <2>1, <2>4
<1>6. PICK q, r, entry, v : /\ q = QueueOf(orders, fifos) /\ r = QueueOf(orders', after)
                            /\ entry = [id |-> o.id, remaining |-> o.remaining]
                            /\ v = Append(q[o.side][o.price], entry)
  OBVIOUS
<1>7. /\ IsTable(q) /\ IsTable(r)
      /\ \A s \in Sides, p \in Prices : /\ q[s][p] = Contents(orders, fifos[s][p])
                                        /\ r[s][p] = Contents(orders', after[s][p])
  BY <1>6, QueueAt
<1>8. r[o.side][o.price] = v
  <2>1. PICK f \in Seq(Slots) : f = fifos[o.side][o.price]
    BY <1>1 DEF Appending, FifoTable
  <2>2. Contents(orders', Append(f, freeHead)) = Append(Contents(orders', f), entry)
    BY <1>1, <1>2, <1>6, ContentsAppended
  <2>3. Contents(orders', f) = q[o.side][o.price]
    BY <1>1, <1>5, <1>7, <2>1
  <2>4. r[o.side][o.price] = Contents(orders', Append(f, freeHead))
    <3>1. PICK g : g = Append(f, freeHead)
      OBVIOUS
    <3>2. after[o.side][o.price] = g
      BY <1>4, <2>1, <3>1
    <3>3. r[o.side][o.price] = Contents(orders', after[o.side][o.price])
      BY <1>1, <1>7
    <3> QED BY <3>1, <3>2, <3>3
  <2> QED BY <1>6, <2>2, <2>3, <2>4, Zenon
<1>9. \A s \in Sides, p \in Prices : s # o.side \/ p # o.price => r[s][p] = q[s][p]
  BY <1>4, <1>5, <1>7
<1>10. r = [q EXCEPT ![o.side][o.price] = v]
  <2>1. PICK a \in Sides, b \in Prices : a = o.side /\ b = o.price
    BY <1>1
  <2>2. r[a][b] = v /\ \A s \in Sides, p \in Prices : s # a \/ p # b => r[s][p] = q[s][p]
    BY <1>8, <1>9, <2>1
  <2>3. Replaced(q, r, a, b, v)
    BY <1>7, <2>2 DEF Replaced
  <2>4. r = [q EXCEPT ![a][b] = v]
    BY <2>3, TableReplaced
  <2> QED BY <2>1, <2>4
<1> QED BY <1>3, <1>6, <1>10 DEF Book!Rested

\* erase() takes the order out of its queue.
LEMMA QueueErased ==
  ASSUME NEW id, NEW slot, NEW s0, NEW p0, NEW j, NEW free, NEW fifos,
         Removing(id, slot, s0, p0, j, free, fifos)
  PROVE  QueueOf(orders', Shorter(s0, p0, j, fifos))
           = Book!Cancelled(QueueOf(orders, fifos), id)
<1>1. /\ s0 \in Sides /\ p0 \in Prices /\ slot \in Slots /\ orders[slot].inUse
      /\ s0 = orders[slot].side /\ p0 = orders[slot].price
  BY RemoveSlots
<1>2. \A x \in Slots \ {slot} : /\ orders'[x].id = orders[x].id
                                /\ orders'[x].remaining = orders[x].remaining
  <2>1. Erased(orders', slot)
    BY RemoveOrders
  <2> QED BY <2>1 DEF Erased
<1>3. PICK after : after = Shorter(s0, p0, j, fifos)
  OBVIOUS
<1>4. /\ after[s0][p0] = RemoveAt(fifos[s0][p0], j)
      /\ \A s \in Sides, p \in Prices : s # s0 \/ p # p0 => after[s][p] = fifos[s][p]
  BY <1>3, RemovedFifos
<1>5. ASSUME NEW s \in Sides, NEW p \in Prices, s # s0 \/ p # p0
      PROVE  Contents(orders', fifos[s][p]) = Contents(orders, fifos[s][p])
  <2>1. PICK f \in Seq(Slots) : f = fifos[s][p]
    BY DEF Removing, FifoTable
  <2>2. \A x \in Slots : x \in ToSet(f) => orders[x].side = s /\ orders[x].price = p
    BY <2>1 DEF Removing, BookInv, LevelInv
  <2>3. \A x \in ToSet(f) : x \in Slots \ {slot}
    BY <1>1, <1>5, <2>2, Members
  <2>4. Contents(orders', f) = Contents(orders, f)
    BY <1>2, <2>3, ContentsKept
  <2> QED BY <2>1, <2>4
<1>6. PICK q, r, v : /\ q = QueueOf(orders, fifos) /\ r = QueueOf(orders', after)
                     /\ v = RemoveAt(q[s0][p0], j)
  OBVIOUS
<1>7. /\ IsTable(q) /\ IsTable(r)
      /\ \A s \in Sides, p \in Prices : /\ q[s][p] = Contents(orders, fifos[s][p])
                                        /\ r[s][p] = Contents(orders', after[s][p])
  BY <1>6, QueueAt
<1>8. r[s0][p0] = v
  <2>1. PICK f \in Seq(Slots) : f = fifos[s0][p0]
    BY <1>1 DEF Removing, FifoTable
  <2>2. j \in 1 .. Len(f) /\ f[j] = slot
    BY <2>1 DEF Removing
  <2>3. PICK g : g = RemoveAt(f, j)
    OBVIOUS
  <2>4. g \in Seq(Slots)
    BY <2>2, <2>3, Removed
  <2>5. \A x \in ToSet(g) : x \in Slots \ {slot}
    <3>1. IsInjective(f)
      BY <1>1, <2>1 DEF Removing, BookInv, LevelInv, Linked, Path
    <3>2. \A x : x \in ToSet(g) <=> x \in ToSet(f) /\ x # f[j]
      BY <2>2, <2>3, <3>1, RemovedMembers
    <3> QED BY <2>2, <3>2, Members
  <2>6. Contents(orders', g) = Contents(orders, g)
    BY <1>2, <2>4, <2>5, ContentsKept
  <2>7. Contents(orders, g) = RemoveAt(Contents(orders, f), j)
    BY <2>2, <2>3, ContentsRemoved
  <2>8. Contents(orders, f) = q[s0][p0] /\ r[s0][p0] = Contents(orders', g)
    BY <1>1, <1>4, <1>7, <2>1, <2>3
  <2> QED BY <1>6, <2>6, <2>7, <2>8, Zenon
<1>9. \A s \in Sides, p \in Prices : s # s0 \/ p # p0 => r[s][p] = q[s][p]
  BY <1>4, <1>5, <1>7
<1>10. r = [q EXCEPT ![s0][p0] = v]
  <2>1. PICK a \in Sides, b \in Prices : a = s0 /\ b = p0
    BY <1>1
  <2>2. Replaced(q, r, a, b, v)
    BY <1>7, <1>8, <1>9, <2>1 DEF Replaced
  <2>3. r = [q EXCEPT ![a][b] = v]
    BY <2>2, TableReplaced
  <2> QED BY <2>1, <2>3
<1>11. Book!Place(q, id) = <<s0, p0, j>>
  <2>1. /\ TypeOK /\ fifos \in FifoTable /\ BookInv(free, fifos) /\ id \in Ids
        /\ index[id] # NoSlot /\ j \in 1 .. Len(fifos[s0][p0]) /\ fifos[s0][p0][j] = index[id]
    BY DEF Removing
  <2> QED BY <1>1, <1>6, <2>1, PlaceIs
<1>12. Book!Cancelled(q, id) = [q EXCEPT ![s0][p0] = v]
  <2>1. PICK place : place = <<s0, p0, j>>
    OBVIOUS
  <2>2. place[1] = s0 /\ place[2] = p0 /\ place[3] = j
    BY <2>1
  <2>3. Book!Place(q, id) = place
    BY <1>11, <2>1
  <2>4. Book!Cancelled(q, id) = [q EXCEPT ![place[1]][place[2]] = RemoveAt(@, place[3])]
    <3>1. Book!Cancelled(q, id)
            = [q EXCEPT ![Book!Place(q, id)[1]][Book!Place(q, id)[2]] =
                          RemoveAt(@, Book!Place(q, id)[3])]
      BY Zenon DEF Book!Cancelled, Book!RemoveAt, RemoveAt
    <3> QED BY <2>3, <3>1, Zenon
  <2>5. [q EXCEPT ![place[1]][place[2]] = RemoveAt(@, place[3])]
          = [q EXCEPT ![s0][p0] = RemoveAt(@, j)]
    BY <2>2, Zenon
  <2>6. [q EXCEPT ![s0][p0] = RemoveAt(@, j)] = [q EXCEPT ![s0][p0] = v]
    BY <1>6
  <2> QED BY <2>4, <2>5, <2>6
<1> QED BY <1>3, <1>6, <1>10, <1>12

\* What a FIFO stands for, when the quantity of one order changes.
LEMMA ContentsChanged ==
  ASSUME NEW f \in Seq(Slots), NEW j \in 1 .. Len(f), IsInjective(f), NEW o, NEW q, NEW n,
         \A x \in ToSet(f) : /\ q[x].id = o[x].id
                             /\ x # f[j] => q[x].remaining = o[x].remaining,
         q[f[j]].remaining = n, NEW e, e = [Contents(o, f)[j] EXCEPT !.remaining = n]
  PROVE  Contents(q, f) = [Contents(o, f) EXCEPT ![j] = e]
<1>1. Len(f) \in Nat /\ DOMAIN f = 1 .. Len(f) /\ \A k \in 1 .. Len(f) : f[k] \in ToSet(f)
  BY Members
<1>2. PICK c, d : c = Contents(o, f) /\ d = Contents(q, f)
  OBVIOUS
<1>3. /\ c = [k \in 1 .. Len(f) |-> [id |-> o[f[k]].id, remaining |-> o[f[k]].remaining]]
      /\ d = [k \in 1 .. Len(f) |-> [id |-> q[f[k]].id, remaining |-> q[f[k]].remaining]]
  BY <1>1, <1>2 DEF Contents
<1>4. d[j] = e
  <2>1. PICK i, m : i = o[f[j]].id /\ m = o[f[j]].remaining
    OBVIOUS
  <2>2. PICK r : r = c[j]
    OBVIOUS
  <2>3. r = [id |-> i, remaining |-> m]
    BY <1>3, <2>1, <2>2
  <2>4. r \in [id : {i}, remaining : {m}]
    BY <2>3
  <2>5. e = [r EXCEPT !.remaining = n]
    BY <1>2, <2>2
  <2>6. e \in [id : {i}, remaining : {n}]
    BY <2>4, <2>5
  <2>7. d[j] \in [id : {i}, remaining : {n}]
    <3>1. d[j] = [id |-> q[f[j]].id, remaining |-> q[f[j]].remaining]
      BY <1>3
    <3>2. q[f[j]].id = i
      BY <1>1, <2>1
    <3> QED BY <3>1, <3>2
  <2> QED BY <2>6, <2>7
<1>5. ASSUME NEW k \in 1 .. Len(f), k # j PROVE d[k] = c[k]
  <2>1. f[k] # f[j] /\ f[k] \in ToSet(f)
    BY <1>1, <1>5 DEF IsInjective
  <2> QED BY <1>3, <2>1
<1>6. PICK g : g = [c EXCEPT ![j] = e]
  OBVIOUS
<1>7. /\ g = [k \in 1 .. Len(f) |-> g[k]] /\ g[j] = e
      /\ \A k \in 1 .. Len(f) : k # j => g[k] = c[k]
  BY <1>3, <1>6
<1>8. d = [k \in 1 .. Len(f) |-> d[k]]
  BY <1>3
<1>9. \A k \in 1 .. Len(f) : g[k] = d[k]
  BY <1>4, <1>5, <1>7
<1> QED BY <1>2, <1>6, <1>7, <1>8, <1>9

\* What set_remaining does to what a client sees of the slots.
Updated(o, slot, n) ==
  /\ \A x \in Slots : /\ o[x].id = orders[x].id
                      /\ x # slot => o[x].remaining = orders[x].remaining
  /\ o[slot].remaining = n

\* set_remaining changes the quantity of the order where it stands.
LEMMA QueueChanged ==
  ASSUME TypeOK, NEW free, NEW fifos \in FifoTable, BookInv(free, fifos), NEW id \in Ids,
         index[id] # NoSlot, NEW o, NEW n, Updated(o, index[id], n)
  PROVE  QueueOf(o, fifos) = Book!Changed(QueueOf(orders, fifos), id, n)
<1>1. PICK slot : slot = index[id]
  OBVIOUS
<1>0. /\ \A x \in Slots : /\ o[x].id = orders[x].id
                          /\ x # slot => o[x].remaining = orders[x].remaining
      /\ o[slot].remaining = n
  BY <1>1, Zenon DEF Updated
<1>2. PICK a \in Sides, b \in Prices : /\ a = orders[slot].side /\ b = orders[slot].price
                                       /\ \E j \in 1 .. Len(fifos[a][b]) : fifos[a][b][j] = slot
  BY <1>1, Indexing
<1>3. PICK f \in Seq(Slots) : f = fifos[a][b]
  BY DEF FifoTable
<1>4. PICK j \in 1 .. Len(f) : f[j] = slot
  BY <1>2, <1>3
<1>5. LevelInv(f, a, b) /\ slot \in Slots
  BY <1>3, <1>4, Members DEF BookInv
<1>6. PICK q, r, e, v : /\ q = QueueOf(orders, fifos) /\ r = QueueOf(o, fifos)
                        /\ e = [q[a][b][j] EXCEPT !.remaining = n]
                        /\ v = [q[a][b] EXCEPT ![j] = e]
  OBVIOUS
<1>7. /\ IsTable(q) /\ IsTable(r)
      /\ \A s \in Sides, p \in Prices : /\ q[s][p] = Contents(orders, fifos[s][p])
                                        /\ r[s][p] = Contents(o, fifos[s][p])
  BY <1>6, QueueAt
<1>8. r[a][b] = v
  <2>1. q[a][b] = Contents(orders, f) /\ r[a][b] = Contents(o, f)
    BY <1>3, <1>7
  <2>2. e = [Contents(orders, f)[j] EXCEPT !.remaining = n]
    BY <1>6, <2>1, Zenon
  <2>3. IsInjective(f) /\ \A x \in ToSet(f) : x \in Slots
    BY <1>5, Members DEF LevelInv, Linked, Path
  <2>4. Contents(o, f) = [Contents(orders, f) EXCEPT ![j] = e]
    <3>1. \A x \in ToSet(f) : /\ o[x].id = orders[x].id
                              /\ x # f[j] => o[x].remaining = orders[x].remaining
      BY <1>0, <1>4, <2>3
    <3>2. o[f[j]].remaining = n
      BY <1>0, <1>4
    <3> QED BY <2>2, <2>3, <3>1, <3>2, ContentsChanged
  <2> QED BY <1>6, <2>1, <2>4
<1>9. ASSUME NEW s \in Sides, NEW p \in Prices, s # a \/ p # b PROVE r[s][p] = q[s][p]
  <2>1. PICK g \in Seq(Slots) : g = fifos[s][p]
    BY DEF FifoTable
  <2>2. \A x \in Slots : x \in ToSet(g) => orders[x].side = s /\ orders[x].price = p
    BY <2>1 DEF BookInv, LevelInv
  <2>3. \A x \in ToSet(g) : x \in Slots /\ x # slot
    BY <1>2, <1>9, <2>2, Members
  <2>4. Contents(o, g) = Contents(orders, g)
    BY <1>0, <2>3, ContentsKept
  <2> QED BY <1>7, <2>1, <2>4
<1>10. r = [q EXCEPT ![a][b] = v]
  <2>1. \A s \in Sides, p \in Prices : s # a \/ p # b => r[s][p] = q[s][p]
    BY <1>9
  <2>2. Replaced(q, r, a, b, v)
    BY <1>7, <1>8, <2>1 DEF Replaced
  <2> QED BY <2>2, TableReplaced
<1>11. PICK place : place = <<a, b, j>>
  OBVIOUS
<1>12. place[1] = a /\ place[2] = b /\ place[3] = j
  BY <1>11
<1>13. Book!Place(q, id) = place
  BY <1>1, <1>3, <1>4, <1>6, <1>11, PlaceIs
<1>14. Book!Changed(q, id, n) = [q EXCEPT ![place[1]][place[2]][place[3]].remaining = n]
  <2>1. Book!Changed(q, id, n)
          = [q EXCEPT ![Book!Place(q, id)[1]][Book!Place(q, id)[2]][Book!Place(q, id)[3]]
                        .remaining = n]
    BY Zenon DEF Book!Changed
  <2> QED BY <1>13, <2>1, Zenon
<1>15. [q EXCEPT ![place[1]][place[2]][place[3]].remaining = n]
         = [q EXCEPT ![a][b][j].remaining = n]
  BY <1>12, Zenon
<1>16. [q EXCEPT ![a][b][j].remaining = n] = [q EXCEPT ![a][b] = v]
  BY <1>6
<1> QED BY <1>6, <1>10, <1>14, <1>15, <1>16, Zenon

LEMMA QueueEmpty ==
  ASSUME NEW o
  PROVE  QueueOf(o, NoFifos) = Book!Empty
<1>1. Contents(o, <<>>) = <<>>
  BY DEF Contents
<1> QED BY <1>1 DEF QueueOf, NoFifos, Book!Empty, Book!Sides, Sides

-----------------------------------------------------------------------------
\* Each operation is one of the book of queues.

\* An accepted order goes to the end of its queue.
LEMMA AppendRests ==
  ASSUME NEW o, NEW free, NEW fifos, Appending(o, free, fifos)
  PROVE  Queue' = Book!Rested(Queue, o.id, o.side, o.price, o.remaining)
<1>1. PICK after, q, r : after = Longer(o, fifos) /\ q = Queue /\ r = Queue'
  OBVIOUS
<1>2. TypeOK /\ free \in Seq(Slots) /\ fifos \in FifoTable /\ BookInv(free, fifos)
  BY DEF Appending
<1>3. q = QueueOf(orders, fifos)
  BY <1>1, <1>2, QueueIs
<1>4. r = QueueOf(orders', after)
  <2>1. \A s \in Sides, p \in Prices : LevelInv(after[s][p], s, p)'
    BY <1>1, AppendLevel
  <2> QED BY <1>1, <2>1, QueueIsNext
<1>5. r = Book!Rested(q, o.id, o.side, o.price, o.remaining)
  BY <1>1, <1>3, <1>4, QueueAppended
<1> QED BY <1>1, <1>5

LEMMA AppendStep ==
  ASSUME NEW o, NEW free, NEW fifos, Appending(o, free, fifos)
  PROVE  Book!Step(Queue, Queue')
<1>1. PICK q, r : q = Queue /\ r = Queue'
  OBVIOUS
<1>2. /\ o.side \in Sides /\ o.price \in Prices /\ o.id \in Ids
      /\ o.remaining \in Quantities /\ index[o.id] = NoSlot /\ freeHead \in Slots
  BY AppendSlots
<1>3. TypeOK /\ free \in Seq(Slots) /\ fifos \in FifoTable /\ BookInv(free, fifos)
  BY DEF Appending
<1>4. q = QueueOf(orders, fifos)
  BY <1>1, <1>3, QueueIs
<1>5. r = Book!Rested(q, o.id, o.side, o.price, o.remaining)
  BY <1>1, AppendRests
<1>6. Book!CanRest(q, o.id)
  <2>1. ~Book!Resting(q, o.id)
    BY <1>2, <1>3, <1>4, RestingIs
  <2>2. Cardinality(Book!Places(q)) < MaxOrders
    BY <1>2, <1>3, <1>4, SlotsFinite, CapacityIs
  <2> QED BY <2>1, <2>2, Zenon DEF Book!CanRest, Book!Cardinality, Cardinality
<1>7. o.side \in Book!Sides
  BY <1>2 DEF Sides, Book!Sides
<1>8. Book!Step(q, r)
  BY <1>2, <1>5, <1>6, <1>7 DEF Book!Step
<1> QED BY <1>1, <1>8

LEMMA EraseStep ==
  ASSUME IInv, NEW id \in Ids, Erase(id)
  PROVE  Book!Step(Queue, Queue')
<1>1. PICK free \in Seq(Slots), fifos \in FifoTable : BookInv(free, fifos)
  BY DEF IInv
<1>2. PICK slot : slot = index[id]
  OBVIOUS
<1>3. PICK s0, p0 : s0 = orders[slot].side /\ p0 = orders[slot].price
  OBVIOUS
<1>4. slot # NoSlot /\ TypeOK
  BY <1>2 DEF Erase, IInv
<1>5. PICK j \in 1 .. Len(fifos[s0][p0]) : fifos[s0][p0][j] = slot
  BY <1>1, <1>2, <1>3, <1>4, Indexing
<1>6. Removing(id, slot, s0, p0, j, free, fifos)
  BY <1>1, <1>2, <1>3, <1>4, <1>5 DEF Erase, Removing
<1>7. PICK q, r, after : q = Queue /\ r = Queue' /\ after = Shorter(s0, p0, j, fifos)
  OBVIOUS
<1>8. q = QueueOf(orders, fifos)
  BY <1>1, <1>7, QueueIs
<1>9. r = QueueOf(orders', after)
  <2>1. \A s \in Sides, p \in Prices : LevelInv(after[s][p], s, p)'
    BY <1>6, <1>7, RemoveLevel
  <2> QED BY <1>7, <2>1, QueueIsNext
<1>10. r = Book!Cancelled(q, id)
  BY <1>6, <1>7, <1>8, <1>9, QueueErased
<1>11. Book!Resting(q, id)
  BY <1>1, <1>2, <1>4, <1>8, RestingIs
<1>12. Book!Step(q, r)
  BY <1>10, <1>11 DEF Book!Step
<1> QED BY <1>7, <1>12

LEMMA SetRemainingStep ==
  ASSUME IInv, NEW id \in Ids, NEW quantity \in Quantities, SetRemaining(id, quantity)
  PROVE  Book!Step(Queue, Queue')
<1>1. PICK free \in Seq(Slots), fifos \in FifoTable : BookInv(free, fifos)
  BY DEF IInv
<1>2. TypeOK /\ RestoreInv /\ index[id] # NoSlot
  BY DEF IInv, SetRemaining
<1>3. PICK o : o = orders'
  OBVIOUS
<1>4. /\ BookInv(free, fifos)'
      /\ Updated(o, index[id], quantity)
  BY <1>1, <1>2, <1>3, SetRemainingEffect DEF Updated
<1>5. PICK q, r : q = Queue /\ r = Queue'
  OBVIOUS
<1>6. q = QueueOf(orders, fifos)
  BY <1>1, <1>5, QueueIs
<1>7. r = QueueOf(o, fifos)
  <2>1. \A s \in Sides, p \in Prices : LevelInv(fifos[s][p], s, p)'
    BY <1>4 DEF BookInv
  <2> QED BY <1>3, <1>5, <2>1, QueueIsNext
<1>8. r = Book!Changed(q, id, quantity)
  BY <1>1, <1>2, <1>4, <1>6, <1>7, QueueChanged
<1>9. Book!Resting(q, id)
  BY <1>1, <1>2, <1>6, RestingIs
<1>10. Book!Step(q, r)
  BY <1>8, <1>9 DEF Book!Step
<1> QED BY <1>5, <1>10

\* A book of no orders stands for empty queues.
LEMMA ClearedQueue ==
  ASSUME Cleared, restored' \in 0 .. MaxOrders, own' \in BOOLEAN
  PROVE  Queue' = Book!Empty
<1>1. EmptyBook'
  BY DEF Cleared, InitializeFreelist, ClearSides, EmptyBook
<1>2. BookInv(FullList, NoFifos)'
  BY <1>1, EmptyBookNext
<1>3. PICK none : none = NoFifos
  OBVIOUS
<1>4. \A s \in Sides, p \in Prices : LevelInv(none[s][p], s, p)'
  BY <1>2, <1>3 DEF BookInv
<1> QED BY <1>3, <1>4, QueueIsNext, QueueEmpty

LEMMA ClearedStep ==
  ASSUME Cleared, restored' \in 0 .. MaxOrders, own' \in BOOLEAN
  PROVE  Book!Step(Queue, Queue')
BY ClearedQueue DEF Book!Step

LEMMA RestoreNextStep ==
  ASSUME IInv, RestoreNext
  PROVE  Book!Step(Queue, Queue') \/ Queue' = Queue
<1>1. PICK free \in Seq(Slots), fifos \in FifoTable : BookInv(free, fifos)
  BY DEF IInv
<1>2. /\ TypeOK /\ restored \in 0 .. MaxOrders
      /\ image \in Seq(OrderArguments) /\ restored < Len(image)
  BY DEF IInv, TypeOK, RestoreInv, RestoreNext, Idle
<1>3. PICK o : o = image[restored + 1]
  OBVIOUS
<1>4. o \in OrderArguments
  <2>1. restored + 1 \in 1 .. Len(image)
    BY <1>2
  <2> QED BY <1>2, <1>3, <2>1
<1>5. CASE Accepts(o)
  <2>1. AppendOrder(o)
    BY <1>3, <1>5 DEF RestoreNext
  <2>2. Appending(o, free, fifos)
    BY <1>1, <1>2, <1>4, <1>5, <2>1 DEF Appending
  <2> QED BY <2>2, AppendStep
<1>6. CASE ~Accepts(o)
  <2>1. orders' = orders /\ levels' = levels
    BY <1>3, <1>6 DEF RestoreNext, pool, sideVars
  <2> QED BY <2>1 DEF Queue, Fifo, Chain
<1> QED BY <1>5, <1>6

\* The book implements PriceTimeBook: whatever slots its orders are in, each
\* operation of the book, and each insert of a restore, is one operation of the
\* book of queues or leaves them as they are.
THEOREM Refinement == Spec => ImplementsPriceTimeBook
<1>1. Init => Book!Init
  <2> SUFFICES ASSUME Init PROVE Book!Init
    OBVIOUS
  <2>1. EmptyBook
    <3>1. restored = 0 /\ 0 \in 0 .. MaxOrders /\ own = FALSE
      BY BookAssumption DEF Init
    <3> QED BY <3>1 DEF Init, EmptyBook
  <2>2. BookInv(FullList, NoFifos)
    BY <2>1, EmptyBookInvariant
  <2>3. Queue = QueueOf(orders, NoFifos)
    BY <2>2, QueueIs
  <2> QED BY <2>3, QueueEmpty DEF Book!Init
<1>2. IInv /\ [Next]_vars => [Book!Next]_Queue
  <2> SUFFICES ASSUME IInv, [Next]_vars PROVE Book!Step(Queue, Queue') \/ Queue' = Queue
    BY DEF Book!Next
  <2>1. ASSUME NEW o \in Orders, Insert(o) PROVE Book!Step(Queue, Queue')
    <3>1. PICK free \in Seq(Slots), fifos \in FifoTable : BookInv(free, fifos)
      BY DEF IInv
    <3>2. Accepts(o) /\ AppendOrder(o) /\ o \in OrderArguments
      BY <2>1, InsertArguments DEF Insert
    <3>3. Appending(o, free, fifos)
      BY <3>1, <3>2 DEF Appending, IInv
    <3> QED BY <3>3, AppendStep
  <2>2. ASSUME NEW id \in Ids, Erase(id) PROVE Book!Step(Queue, Queue')
    BY <2>2, EraseStep
  <2>3. ASSUME NEW id \in Ids, NEW q \in Quantities, SetRemaining(id, q)
        PROVE  Book!Step(Queue, Queue')
    BY <2>3, SetRemainingStep
  <2>4. CASE Clear
    <3>1. Cleared /\ restored' \in 0 .. MaxOrders /\ own' \in BOOLEAN
      BY <2>4 DEF Clear, restoreVars, IInv, TypeOK
    <3> QED BY <3>1, ClearedStep
  <2>5. CASE RestoreOwn \/ RestoreForeign
    <3>1. Cleared /\ restored' = 0 /\ own' \in BOOLEAN
      BY <2>5, Zenon DEF RestoreOwn, RestoreForeign, Restore
    <3>2. 0 \in 0 .. MaxOrders
      BY BookAssumption
    <3> QED BY <3>1, <3>2, ClearedStep
  <2>6. CASE RestoreNext
    BY <2>6, RestoreNextStep
  <2>7. CASE UNCHANGED vars
    <3>1. orders' = orders /\ levels' = levels
      BY <2>7 DEF vars, pool, sideVars
    <3> QED BY <3>1 DEF Queue, Fifo, Chain
  <2> QED BY <2>1, <2>2, <2>3, <2>4, <2>5, <2>6, <2>7 DEF Next
<1> QED BY <1>1, <1>2, Invariance, PTL DEF Spec, ImplementsPriceTimeBook, Book!Spec

-----------------------------------------------------------------------------
(* The round trip: a book restored from its snapshot is the book.            *)

Key(s, p) == <<s, p>>

\* View v stands k-th in its queue of q.
StandsAt(v, q, k) ==
  /\ v.side \in Sides /\ v.price \in Prices /\ k \in 1 .. Len(q[v.side][v.price])
  /\ q[v.side][v.price][k] = [id |-> v.id, remaining |-> v.remaining]

IsOf(v, s, p) == v.side = s /\ v.price = p

\* Sequence a lists the queues of q with keys in D, each in its order: the order
\* at i is the rank[i]-th of its queue.
Lists(a, q, D, rank) ==
  /\ rank \in [1 .. Len(a) -> Nat]
  /\ \A i \in 1 .. Len(a) : /\ StandsAt(a[i], q, rank[i])
                            /\ Key(a[i].side, a[i].price) \in D
  /\ \A i, j \in 1 .. Len(a) :
       i < j /\ IsOf(a[i], a[j].side, a[j].price) => rank[i] < rank[j]
  /\ \A s \in Sides, p \in Prices : Key(s, p) \in D =>
       \A k \in 1 .. Len(q[s][p]) : \E i \in 1 .. Len(a) : IsOf(a[i], s, p) /\ rank[i] = k

Listed(a, q, D) == \E rank : Lists(a, q, D, rank)

LEMMA KeysDiffer == \A s, p, t, r : Key(s, p) = Key(t, r) => s = t /\ p = r
BY DEF Key

\* Lists of different queues, one after the other.
LEMMA ListsConcat ==
  ASSUME NEW S, NEW a \in Seq(S), NEW b \in Seq(S), NEW q, NEW D, NEW E, NEW f, NEW g,
         Lists(a, q, D, f), Lists(b, q, E, g), D \cap E = {}
  PROVE  \E rank : Lists(a \o b, q, D \cup E, rank)
<1>1. PICK m \in Nat, n \in Nat : m = Len(a) /\ n = Len(b)
  OBVIOUS
<1>2. PICK c : c = a \o b
  OBVIOUS
<1>3. /\ Len(c) = m + n /\ c \in Seq(S)
      /\ \A i \in 1 .. m : c[i] = a[i]
      /\ \A i \in 1 .. n : c[m + i] = b[i]
  BY <1>1, <1>2
<1>4. PICK rank : rank = [i \in 1 .. m + n |-> IF i <= m THEN f[i] ELSE g[i - m]]
  OBVIOUS
<1>5. /\ f \in [1 .. m -> Nat] /\ g \in [1 .. n -> Nat]
      /\ \A i \in 1 .. m : StandsAt(a[i], q, f[i]) /\ Key(a[i].side, a[i].price) \in D
      /\ \A i \in 1 .. n : StandsAt(b[i], q, g[i]) /\ Key(b[i].side, b[i].price) \in E
      /\ \A i, j \in 1 .. m : i < j /\ IsOf(a[i], a[j].side, a[j].price) => f[i] < f[j]
      /\ \A i, j \in 1 .. n : i < j /\ IsOf(b[i], b[j].side, b[j].price) => g[i] < g[j]
      /\ \A s \in Sides, p \in Prices : Key(s, p) \in D =>
           \A k \in 1 .. Len(q[s][p]) : \E i \in 1 .. m : IsOf(a[i], s, p) /\ f[i] = k
      /\ \A s \in Sides, p \in Prices : Key(s, p) \in E =>
           \A k \in 1 .. Len(q[s][p]) : \E i \in 1 .. n : IsOf(b[i], s, p) /\ g[i] = k
  BY <1>1 DEF Lists
<1>6. \A i \in 1 .. m + n :
        \/ i \in 1 .. m /\ c[i] = a[i] /\ rank[i] = f[i]
        \/ \E k \in 1 .. n : i = m + k /\ c[i] = b[k] /\ rank[i] = g[k]
  <2>1. ASSUME NEW i \in 1 .. m + n, i \in 1 .. m PROVE c[i] = a[i] /\ rank[i] = f[i]
    BY <1>3, <1>4, <2>1
  <2>2. ASSUME NEW i \in 1 .. m + n, i \notin 1 .. m
        PROVE  \E k \in 1 .. n : i = m + k /\ c[i] = b[k] /\ rank[i] = g[k]
    <3>1. i - m \in 1 .. n /\ i = m + (i - m) /\ ~(i <= m)
      BY <2>2
    <3>2. rank[i] = g[i - m]
      BY <1>4, <3>1
    <3>3. c[i] = b[i - m]
      BY <1>3, <3>1
    <3> QED BY <3>1, <3>2, <3>3
  <2> QED BY <2>1, <2>2
<1>7. /\ \A i \in 1 .. m : i \in 1 .. m + n /\ c[i] = a[i] /\ rank[i] = f[i]
      /\ \A i \in 1 .. n : m + i \in 1 .. m + n /\ c[m + i] = b[i] /\ rank[m + i] = g[i]
  BY <1>3, <1>4
<1>8. rank \in [1 .. m + n -> Nat]
  <2>1. \A i \in 1 .. m + n : rank[i] \in Nat
    BY <1>5, <1>6
  <2> QED BY <1>4, <2>1
<1>9. \A i \in 1 .. m + n : StandsAt(c[i], q, rank[i]) /\ Key(c[i].side, c[i].price) \in D \cup E
  BY <1>5, <1>6
<1>10. ASSUME NEW i \in 1 .. m + n, NEW j \in 1 .. m + n,
              i < j, IsOf(c[i], c[j].side, c[j].price)
       PROVE  rank[i] < rank[j]
  <2>1. c[i].side = c[j].side /\ c[i].price = c[j].price
    BY <1>10 DEF IsOf
  <2>2. CASE i \in 1 .. m /\ j \in 1 .. m
    BY <1>5, <1>7, <1>10, <2>2
  <2>3. CASE i \in 1 .. m /\ j \notin 1 .. m
    <3>1. Key(c[i].side, c[i].price) \in D
      BY <1>5, <1>7, <2>3
    <3>2. PICK k \in 1 .. n : c[j] = b[k]
      BY <1>6, <2>3
    <3>3. Key(c[j].side, c[j].price) \in E
      BY <1>5, <3>2
    <3> QED BY <2>1, <3>1, <3>3
  <2>4. CASE i \notin 1 .. m
    <3>1. PICK k \in 1 .. n, l \in 1 .. n : i = m + k /\ j = m + l
      <4>1. j \notin 1 .. m
        BY <1>10, <2>4
      <4> QED BY <1>6, <2>4, <4>1
    <3>2. c[i] = b[k] /\ rank[i] = g[k] /\ c[j] = b[l] /\ rank[j] = g[l] /\ k < l
      BY <1>7, <1>10, <3>1
    <3> QED BY <1>5, <1>10, <3>2
  <2> QED BY <2>2, <2>3, <2>4
<1>11. ASSUME NEW s \in Sides, NEW p \in Prices, Key(s, p) \in D \cup E,
              NEW k \in 1 .. Len(q[s][p])
       PROVE  \E i \in 1 .. m + n : IsOf(c[i], s, p) /\ rank[i] = k
  <2>1. CASE Key(s, p) \in D
    <3>1. PICK i \in 1 .. m : IsOf(a[i], s, p) /\ f[i] = k
      BY <1>5, <2>1
    <3> QED BY <1>7, <3>1
  <2>2. CASE Key(s, p) \in E
    <3>1. PICK i \in 1 .. n : IsOf(b[i], s, p) /\ g[i] = k
      BY <1>5, <2>2
    <3> QED BY <1>7, <3>1
  <2> QED BY <1>11, <2>1, <2>2
<1>12. Lists(c, q, D \cup E, rank)
  BY <1>3, <1>8, <1>9, <1>10, <1>11 DEF Lists
<1> QED BY <1>2, <1>12

\* The k-th of n sequences lists the queue of the k-th key.
EachListed(f, n, q, key) ==
  /\ \A k \in 1 .. n : Listed(f[k], q, {key[k]})
  /\ \A j, k \in 1 .. n : key[j] = key[k] => j = k

\* The queues that the loop of snapshot_into has joined.
LEMMA FlattenLists ==
  ASSUME NEW n \in Nat \ {0}, NEW S, NEW f \in [1 .. n -> Seq(S)], NEW q, NEW key,
         EachListed(f, n, q, key)
  PROVE  Listed(FlattenSeq(f), q, {key[k] : k \in 1 .. n})
<1>1. PICK join \in [1 .. n -> Seq(S)] : Joins(f, n, join)
  BY JoinsExist
<1> DEFINE keys(m) == {key[k] : k \in 1 .. m}
           T == {m \in 1 .. n : ~Listed(join[m], q, keys(m))}
<1> HIDE DEF keys
<1>2. n \notin T => Listed(join[n], q, keys(n))
  OBVIOUS
<1>3. n \in T => FALSE
  <2> SUFFICES ASSUME n \in T PROVE FALSE
    OBVIOUS
  <2>1. PICK m \in T : \A k \in T : m <= k
    <3>1. T \subseteq Nat
      OBVIOUS
    <3> HIDE DEF T
    <3>2. T # {}
      OBVIOUS
    <3> QED BY <3>1, <3>2, Least
  <2>2. m # 1
    <3>1. keys(1) = {key[1]} /\ join[1] = f[1] /\ 1 \in 1 .. n
      BY <1>1 DEF Joins, keys
    <3>2. Listed(join[1], q, keys(1))
      BY <3>1 DEF EachListed
    <3> QED BY <2>1, <3>2
  <2>3. m - 1 \in 1 .. n /\ m \in 2 .. n /\ m - 1 \notin T
    <3>1. m \in 1 .. n /\ m - 1 \in 1 .. n /\ ~(m <= m - 1)
      BY <2>2
    <3> QED BY <2>1, <3>1
  <2>4. PICK g : Lists(join[m - 1], q, keys(m - 1), g)
    BY <2>3 DEF Listed
  <2>5. PICK h : Lists(f[m], q, {key[m]}, h)
    BY <2>3 DEF Listed, EachListed
  <2>6. keys(m - 1) \cup {key[m]} = keys(m)
    <3>1. \A k \in 1 .. m : k \in 1 .. m - 1 \/ k = m
      BY <2>3
    <3>2. \A k \in 1 .. m - 1 : k \in 1 .. m
      BY <2>3
    <3>3. m \in 1 .. m
      BY <2>3
    <3> QED BY <3>1, <3>2, <3>3 DEF keys
  <2>7. keys(m - 1) \cap {key[m]} = {}
    <3>1. \A k \in 1 .. m - 1 : k \in 1 .. n /\ k # m
      BY <2>3
    <3> QED BY <3>1 DEF keys, EachListed
  <2>8. PICK a, b : a = join[m - 1] /\ b = f[m]
    OBVIOUS
  <2>9. a \in Seq(S) /\ b \in Seq(S) /\ join[m] = a \o b
    BY <1>1, <2>3, <2>8 DEF Joins
  <2>10. PICK D, E : D = keys(m - 1) /\ E = {key[m]}
    OBVIOUS
  <2>11. Lists(a, q, D, g) /\ Lists(b, q, E, h) /\ D \cap E = {}
    BY <2>4, <2>5, <2>7, <2>8, <2>10
  <2>12. \E rank : Lists(a \o b, q, D \cup E, rank)
    BY <2>9, <2>11, ListsConcat
  <2>13. Listed(join[m], q, keys(m))
    BY <2>6, <2>9, <2>10, <2>12 DEF Listed
  <2> QED BY <2>1, <2>13
<1>4. FlattenSeq(f) = join[n]
  BY <1>1, FlattenIs
<1> QED BY <1>2, <1>3, <1>4 DEF keys

LEMMA LevelListed ==
  ASSUME TypeOK, NEW free, NEW fifos \in FifoTable, BookInv(free, fifos),
         NEW s \in Sides, NEW p \in Prices
  PROVE  Listed(LevelViews(s, p), QueueOf(orders, fifos), {Key(s, p)})
<1>1. PICK f : f = fifos[s][p]
  OBVIOUS
<1>2. PICK n \in Nat : n = Len(f) /\ f \in Seq(Slots)
  BY <1>1 DEF FifoTable
<1>3. PICK a, q, rank : /\ a = LevelViews(s, p) /\ q = QueueOf(orders, fifos)
                        /\ rank = [k \in 1 .. n |-> k]
  OBVIOUS
<1>4. a = [j \in 1 .. n |-> View(f[j])] /\ Len(a) = n
  <2>1. a = [j \in 1 .. n |-> View(f[j])]
    BY <1>1, <1>2, <1>3, LevelViewsAre
  <2> QED BY <2>1
<1>5. q[s][p] = Contents(orders, f)
  BY <1>1, <1>3, QueueAt
<1>6. q[s][p] = [k \in 1 .. n |-> [id |-> orders[f[k]].id, remaining |-> orders[f[k]].remaining]]
  BY <1>2, <1>5 DEF Contents
<1>7. Len(q[s][p]) = n
  BY <1>6
<1>8. ASSUME NEW i \in 1 .. n
      PROVE  /\ a[i].side = s /\ a[i].price = p
             /\ q[s][p][i] = [id |-> a[i].id, remaining |-> a[i].remaining]
  <2>1. PICK x : x = f[i]
    OBVIOUS
  <2>2. x \in Slots /\ x \in ToSet(f)
    BY <1>2, <2>1, Members
  <2>3. orders[x].side = s /\ orders[x].price = p
    BY <1>1, <2>2 DEF BookInv, LevelInv
  <2>4. a[i] = View(x) /\ q[s][p][i] = [id |-> orders[x].id, remaining |-> orders[x].remaining]
    BY <1>4, <1>6, <2>1
  <2>5. /\ View(x).side = orders[x].side /\ View(x).price = orders[x].price
        /\ View(x).id = orders[x].id /\ View(x).remaining = orders[x].remaining
    BY DEF View
  <2> QED BY <2>3, <2>4, <2>5
<1>9. \A i \in 1 .. n : StandsAt(a[i], q, rank[i])
  <2> SUFFICES ASSUME NEW i \in 1 .. n PROVE StandsAt(a[i], q, rank[i])
    OBVIOUS
  <2>1. PICK v : v = a[i]
    OBVIOUS
  <2>2. /\ v.side = s /\ v.price = p /\ rank[i] = i
        /\ q[s][p][i] = [id |-> v.id, remaining |-> v.remaining]
    BY <1>3, <1>8, <2>1
  <2>3. /\ v.side \in Sides /\ v.price \in Prices /\ i \in 1 .. Len(q[v.side][v.price])
        /\ q[v.side][v.price][i] = [id |-> v.id, remaining |-> v.remaining]
    BY <1>7, <2>2
  <2> QED BY <2>1, <2>2, <2>3 DEF StandsAt
<1>10. Lists(a, q, {Key(s, p)}, rank)
  <2>1. rank \in [1 .. n -> Nat] /\ \A i \in 1 .. n : rank[i] = i
    BY <1>3
  <2>2. \A i \in 1 .. n : Key(a[i].side, a[i].price) \in {Key(s, p)} /\ IsOf(a[i], s, p)
    BY <1>8 DEF IsOf
  <2>3. ASSUME NEW t \in Sides, NEW r \in Prices, Key(t, r) \in {Key(s, p)},
               NEW k \in 1 .. Len(q[t][r])
        PROVE  \E i \in 1 .. n : IsOf(a[i], t, r) /\ rank[i] = k
    <3>1. t = s /\ r = p
      BY <2>3, KeysDiffer
    <3>2. k \in 1 .. n
      BY <1>7, <3>1
    <3> QED BY <2>1, <2>2, <3>1, <3>2
  <2> QED BY <1>4, <1>9, <2>1, <2>2, <2>3 DEF Lists
<1> QED BY <1>3, <1>10 DEF Listed

AllKeys == {Key(s, p) : s \in Sides, p \in Prices}

\* snapshot_into lists all queues.
LEMMA SnapshotListed ==
  ASSUME TypeOK, NEW free, NEW fifos \in FifoTable, BookInv(free, fifos)
  PROVE  Listed(Snapshot, QueueOf(orders, fifos), AllKeys)
<1> DEFINE n == MaxPrice - MinPrice + 1
           f(s) == [k \in LevelNumbers |-> LevelViews(s, MinPrice + k - 1)]
           KeysOf(s) == {Key(s, p) : p \in Prices}
<1>1. n \in Nat \ {0} /\ LevelNumbers = 1 .. n
  BY LevelNumbering, BookAssumption
<1>2. PICK q : q = QueueOf(orders, fifos)
  OBVIOUS
<1>3. ASSUME NEW s \in Sides
      PROVE  SnapshotSide(s) \in Seq(OrderArguments) /\ Listed(SnapshotSide(s), q, KeysOf(s))
  <2>1. PICK g, key : g = f(s) /\ key = [k \in 1 .. n |-> Key(s, MinPrice + k - 1)]
    OBVIOUS
  <2>2. \A k \in 1 .. n : /\ MinPrice + k - 1 \in Prices /\ g[k] = LevelViews(s, MinPrice + k - 1)
                          /\ key[k] = Key(s, MinPrice + k - 1)
    BY <1>1, <2>1, LevelNumbering
  <2>3. ASSUME NEW k \in 1 .. n PROVE g[k] \in Seq(OrderArguments) /\ Listed(g[k], q, {key[k]})
    <3>1. PICK p \in Prices : p = MinPrice + k - 1
      BY <2>2
    <3>2. PICK h : h = fifos[s][p]
      OBVIOUS
    <3>3. LevelViews(s, p) \in Seq(OrderArguments)
      BY <3>2, LevelViewsAre
    <3>4. Listed(LevelViews(s, p), q, {Key(s, p)})
      BY <1>2, LevelListed
    <3> QED BY <2>2, <3>1, <3>3, <3>4
  <2>4. g \in [1 .. n -> Seq(OrderArguments)]
    BY <1>1, <2>1, <2>3
  <2>5. \A j, k \in 1 .. n : key[j] = key[k] => j = k
    <3> SUFFICES ASSUME NEW j \in 1 .. n, NEW k \in 1 .. n, key[j] = key[k] PROVE j = k
      OBVIOUS
    <3>1. MinPrice + j - 1 = MinPrice + k - 1
      BY <2>2, KeysDiffer
    <3> QED BY <1>1, <3>1, BookAssumption
  <2>6. Listed(FlattenSeq(g), q, {key[k] : k \in 1 .. n})
    <3> HIDE DEF n
    <3>1. EachListed(g, n, q, key)
      BY <2>3, <2>5 DEF EachListed
    <3> QED BY <1>1, <2>4, <3>1, FlattenLists
  <2>7. {key[k] : k \in 1 .. n} = KeysOf(s)
    <3>1. \A p \in Prices : p - MinPrice + 1 \in 1 .. n /\ MinPrice + (p - MinPrice + 1) - 1 = p
      BY BookAssumption DEF Prices
    <3> HIDE DEF n
    <3> QED BY <2>2, <3>1
  <2>8. SnapshotSide(s) = FlattenSeq(g)
    BY <2>1 DEF SnapshotSide
  <2>9. FlattenSeq(g) \in Seq(OrderArguments)
    <3> HIDE DEF n
    <3> QED BY <1>1, <2>4, FlattenType
  <2> QED BY <2>6, <2>7, <2>8, <2>9
<1> HIDE DEF n, f, KeysOf
<1>4. PICK a, b, D, E : /\ a = SnapshotSide("Bid") /\ b = SnapshotSide("Ask")
                        /\ D = KeysOf("Bid") /\ E = KeysOf("Ask")
  OBVIOUS
<1>5. "Bid" \in Sides /\ "Ask" \in Sides
  BY DEF Sides
<1>6. a \in Seq(OrderArguments) /\ b \in Seq(OrderArguments) /\ Listed(a, q, D) /\ Listed(b, q, E)
  BY <1>3, <1>4, <1>5
<1>7. D \cap E = {}
  BY <1>4, KeysDiffer DEF KeysOf
<1>8. D \cup E = AllKeys
  BY <1>4 DEF KeysOf, AllKeys, Sides
<1>9. Listed(a \o b, q, D \cup E)
  <2>1. PICK g, h : Lists(a, q, D, g) /\ Lists(b, q, E, h)
    BY <1>6 DEF Listed
  <2> QED BY <1>6, <1>7, <2>1, ListsConcat DEF Listed
<1>10. Snapshot = a \o b
  BY <1>4 DEF Snapshot
<1> QED BY <1>2, <1>8, <1>9, <1>10

\* What a client sees of an order.
Entries == [id : Ids, remaining : Quantities]

QueuesOK(q) == IsTable(q) /\ \A s \in Sides, p \in Prices : q[s][p] \in Seq(Entries)

\* No id is twice in the queues of q.
IdsOnce(q) ==
  \A s, t \in Sides, p, r \in Prices :
    \A j \in 1 .. Len(q[s][p]), k \in 1 .. Len(q[t][r]) :
      q[s][p][j].id = q[t][r][k].id => s = t /\ p = r /\ j = k

LEMMA EntryFields ==
  ASSUME NEW e \in Entries
  PROVE  e.id \in Ids /\ e.remaining \in Quantities
BY DEF Entries

\* A queue of q and the FIFO it stands for.
Stored(f, q, s, p) ==
  /\ f \in Seq(Slots) /\ LevelInv(f, s, p) /\ Len(f) \in Nat
  /\ q[s][p] = [k \in 1 .. Len(f) |-> [id |-> orders[f[k]].id,
                                       remaining |-> orders[f[k]].remaining]]
  /\ \A k \in 1 .. Len(f) : f[k] \in Slots /\ orders[f[k]].inUse
                            /\ orders[f[k]].side = s /\ orders[f[k]].price = p

LEMMA QueuesTyped ==
  ASSUME TypeOK, NEW free, NEW fifos \in FifoTable, BookInv(free, fifos)
  PROVE  QueuesOK(QueueOf(orders, fifos)) /\ IdsOnce(QueueOf(orders, fifos))
<1>1. PICK q : q = QueueOf(orders, fifos)
  OBVIOUS
<1>2. /\ IsTable(q)
      /\ \A s \in Sides, p \in Prices : q[s][p] = Contents(orders, fifos[s][p])
  BY <1>1, QueueAt
<1>3. ASSUME NEW s \in Sides, NEW p \in Prices PROVE Stored(fifos[s][p], q, s, p)
  <2>1. PICK f : f = fifos[s][p]
    OBVIOUS
  <2>2. f \in Seq(Slots) /\ LevelInv(f, s, p)
    BY <2>1 DEF FifoTable, BookInv
  <2>3. DOMAIN f = 1 .. Len(f) /\ Len(f) \in Nat
    BY <2>2, Members
  <2>4. q[s][p] = Contents(orders, f)
    BY <1>2, <2>1
  <2>5. \A k \in 1 .. Len(f) : f[k] \in Slots /\ f[k] \in ToSet(f)
    BY <2>2, Members
  <2>6. \A x \in Slots : x \in ToSet(f) => /\ orders[x].inUse
                                           /\ orders[x].side = s /\ orders[x].price = p
    BY <2>2 DEF LevelInv
  <2>7. Stored(f, q, s, p)
    BY <2>2, <2>3, <2>4, <2>5, <2>6 DEF Contents, Stored
  <2> QED BY <2>1, <2>7
<1>4. \A x \in Slots : orders[x].inUse =>
        /\ orders[x].id \in Ids /\ index[orders[x].id] = x /\ orders[x].remaining \in Quantities
  BY DEF BookInv, IndexInv
<1>5. ASSUME NEW s \in Sides, NEW p \in Prices PROVE q[s][p] \in Seq(Entries)
  <2>1. PICK f : Stored(f, q, s, p)
    BY <1>3
  <2>2. \A k \in 1 .. Len(f) : orders[f[k]].id \in Ids /\ orders[f[k]].remaining \in Quantities
    BY <1>4, <2>1 DEF Stored
  <2>3. \A k \in 1 .. Len(f) :
          [id |-> orders[f[k]].id, remaining |-> orders[f[k]].remaining] \in Entries
    BY <2>2 DEF Entries
  <2>4. /\ Len(f) \in Nat
        /\ q[s][p] = [k \in 1 .. Len(f) |-> [id |-> orders[f[k]].id,
                                             remaining |-> orders[f[k]].remaining]]
    BY <2>1 DEF Stored
  <2> HIDE DEF Entries
  <2> QED BY <2>3, <2>4
<1>6. ASSUME NEW s \in Sides, NEW t \in Sides, NEW p \in Prices, NEW r \in Prices,
             NEW j \in 1 .. Len(q[s][p]), NEW k \in 1 .. Len(q[t][r]),
             q[s][p][j].id = q[t][r][k].id
      PROVE  s = t /\ p = r /\ j = k
  <2>1. PICK f, g : f = fifos[s][p] /\ g = fifos[t][r]
    OBVIOUS
  <2>2. Stored(f, q, s, p) /\ Stored(g, q, t, r)
    BY <1>3, <2>1
  <2>3. PICK c, d : c = q[s][p] /\ d = q[t][r]
    OBVIOUS
  <2>4. j \in 1 .. Len(f) /\ c[j] = [id |-> orders[f[j]].id, remaining |-> orders[f[j]].remaining]
    BY <2>2, <2>3 DEF Stored
  <2>5. k \in 1 .. Len(g) /\ d[k] = [id |-> orders[g[k]].id, remaining |-> orders[g[k]].remaining]
    BY <2>2, <2>3 DEF Stored
  <2>6. PICK x, y : x = f[j] /\ y = g[k]
    OBVIOUS
  <2>7. orders[x].id = orders[y].id
    BY <1>6, <2>3, <2>4, <2>5, <2>6
  <2>8. x \in Slots /\ orders[x].inUse /\ orders[x].side = s /\ orders[x].price = p
    BY <2>2, <2>4, <2>6 DEF Stored
  <2>9. y \in Slots /\ orders[y].inUse /\ orders[y].side = t /\ orders[y].price = r
    BY <2>2, <2>5, <2>6 DEF Stored
  <2>10. x = y
    BY <1>4, <2>7, <2>8, <2>9
  <2>11. s = t /\ p = r
    BY <2>8, <2>9, <2>10
  <2>12. g = f
    BY <2>1, <2>11
  <2>13. \A a, b \in 1 .. Len(f) : f[a] = f[b] => a = b
    BY <2>2, LinkedFacts DEF Stored, LevelInv
  <2>14. j = k
    BY <2>4, <2>5, <2>6, <2>10, <2>12, <2>13
  <2> QED BY <2>11, <2>14
<1> QED BY <1>1, <1>2, <1>5, <1>6 DEF QueuesOK, IdsOnce

\* After n inserts of image a, each queue of q is the part of that of b whose
\* orders are among the first n of a.
Progress(a, b, q, n, rank) ==
  /\ \A s \in Sides, p \in Prices :
       /\ Len(q[s][p]) <= Len(b[s][p])
       /\ \A k \in 1 .. Len(q[s][p]) : q[s][p][k] = b[s][p][k]
  /\ \A i \in 1 .. Len(a) : rank[i] <= Len(q[a[i].side][a[i].price]) <=> i <= n

LEMMA AllKeysAre == \A s \in Sides, p \in Prices : Key(s, p) \in AllKeys
BY DEF AllKeys

\* The facts of Lists for all queues, one by one.
LEMMA ListsFacts ==
  ASSUME NEW a, NEW b, NEW rank, Lists(a, b, AllKeys, rank)
  PROVE  /\ \A i \in 1 .. Len(a) :
              /\ a[i].side \in Sides /\ a[i].price \in Prices /\ rank[i] \in Nat
              /\ rank[i] \in 1 .. Len(b[a[i].side][a[i].price])
              /\ b[a[i].side][a[i].price][rank[i]] = [id |-> a[i].id,
                                                      remaining |-> a[i].remaining]
         /\ \A i, j \in 1 .. Len(a) :
              i < j /\ a[i].side = a[j].side /\ a[i].price = a[j].price => rank[i] < rank[j]
         /\ \A s \in Sides, p \in Prices : \A k \in 1 .. Len(b[s][p]) :
              \E i \in 1 .. Len(a) : a[i].side = s /\ a[i].price = p /\ rank[i] = k
<1>1. \A i \in 1 .. Len(a) :
        /\ a[i].side \in Sides /\ a[i].price \in Prices
        /\ rank[i] \in 1 .. Len(b[a[i].side][a[i].price])
        /\ b[a[i].side][a[i].price][rank[i]] = [id |-> a[i].id, remaining |-> a[i].remaining]
  BY DEF Lists, StandsAt
<1>2. \A i, j \in 1 .. Len(a) :
        i < j /\ a[i].side = a[j].side /\ a[i].price = a[j].price => rank[i] < rank[j]
  BY DEF Lists, IsOf
<1>3. \A s \in Sides, p \in Prices : \A k \in 1 .. Len(b[s][p]) :
        \E i \in 1 .. Len(a) : a[i].side = s /\ a[i].price = p /\ rank[i] = k
  BY AllKeysAre DEF Lists, IsOf
<1>4. \A i \in 1 .. Len(a) : rank[i] \in Nat
  BY DEF Lists
<1> QED BY <1>1, <1>2, <1>3, <1>4

\* No id is twice in the image.
LEMMA ImageIdsOnce ==
  ASSUME NEW a \in Seq(OrderArguments), NEW b, NEW rank,
         Lists(a, b, AllKeys, rank), IdsOnce(b),
         NEW i \in 1 .. Len(a), NEW j \in 1 .. Len(a), a[i].id = a[j].id
  PROVE  i = j
<1>1. PICK s \in Sides, t \in Sides, p \in Prices, r \in Prices :
        s = a[i].side /\ p = a[i].price /\ t = a[j].side /\ r = a[j].price
  BY ListsFacts
<1>2. PICK k, l : k = rank[i] /\ l = rank[j]
  OBVIOUS
<1>3. /\ k \in 1 .. Len(b[s][p]) /\ b[s][p][k] = [id |-> a[i].id, remaining |-> a[i].remaining]
      /\ l \in 1 .. Len(b[t][r]) /\ b[t][r][l] = [id |-> a[j].id, remaining |-> a[j].remaining]
  <2>1. /\ k \in 1 .. Len(b[s][p])
        /\ b[s][p][k] = [id |-> a[i].id, remaining |-> a[i].remaining]
    BY <1>1, <1>2, ListsFacts
  <2>2. /\ l \in 1 .. Len(b[t][r])
        /\ b[t][r][l] = [id |-> a[j].id, remaining |-> a[j].remaining]
    BY <1>1, <1>2, ListsFacts
  <2> QED BY <2>1, <2>2
<1>4. b[s][p][k].id = b[t][r][l].id
  BY <1>3
<1>5. s = t /\ p = r /\ k = l
  <2>1. \A x \in 1 .. Len(b[s][p]), y \in 1 .. Len(b[t][r]) :
          b[s][p][x].id = b[t][r][y].id => s = t /\ p = r /\ x = y
    BY DEF IdsOnce
  <2>2. k \in 1 .. Len(b[s][p]) /\ l \in 1 .. Len(b[t][r])
    BY <1>3
  <2> QED BY <1>4, <2>1, <2>2
<1>6. k \in Nat /\ l \in Nat /\ (i < j => k < l) /\ (j < i => l < k)
  <2>1. /\ \A x, y \in 1 .. Len(a) :
             x < y /\ a[x].side = a[y].side /\ a[x].price = a[y].price => rank[x] < rank[y]
        /\ k \in Nat /\ l \in Nat
    BY <1>2, ListsFacts
  <2> QED BY <1>1, <1>2, <1>5, <2>1
<1> QED BY <1>5, <1>6

LEMMA ProgressStart ==
  ASSUME NEW a \in Seq(OrderArguments), NEW b, NEW rank, QueuesOK(b), Lists(a, b, AllKeys, rank)
  PROVE  Progress(a, b, Book!Empty, 0, rank)
<1>1. PICK q : q = Book!Empty
  OBVIOUS
<1>2. \A s \in Sides, p \in Prices : q[s][p] = <<>>
  BY <1>1 DEF Book!Empty, Book!Sides, Sides
<1>3. ASSUME NEW s \in Sides, NEW p \in Prices
      PROVE  /\ Len(q[s][p]) <= Len(b[s][p])
             /\ \A k \in 1 .. Len(q[s][p]) : q[s][p][k] = b[s][p][k]
  <2>1. PICK f, g : f = q[s][p] /\ g = b[s][p]
    OBVIOUS
  <2>2. Len(f) = 0 /\ Len(g) \in Nat
    BY <1>2, <2>1 DEF QueuesOK
  <2>3. Len(f) <= Len(g) /\ \A k : k \notin 1 .. Len(f)
    BY <2>2
  <2> QED BY <2>1, <2>3
<1>4. ASSUME NEW i \in 1 .. Len(a)
      PROVE  rank[i] <= Len(q[a[i].side][a[i].price]) <=> i <= 0
  <2>1. PICK s \in Sides, p \in Prices : s = a[i].side /\ p = a[i].price
    BY ListsFacts
  <2>2. rank[i] \in 1 .. Len(b[s][p])
    BY <2>1, ListsFacts
  <2>3. Len(b[s][p]) \in Nat
    BY DEF QueuesOK
  <2>4. Len(q[s][p]) = 0
    BY <1>2
  <2>5. ~(rank[i] <= Len(q[s][p])) /\ ~(i <= 0)
    BY <2>2, <2>3, <2>4
  <2> QED BY <2>1, <2>5
<1>5. Progress(a, b, q, 0, rank)
  BY <1>3, <1>4 DEF Progress
<1> QED BY <1>1, <1>5

\* The loop of restore() has inserted n orders of image a, and not all of them.
Inserting(a, b, q, n, rank) ==
  /\ a \in Seq(OrderArguments) /\ n \in Nat /\ n + 1 \in 1 .. Len(a)
  /\ QueuesOK(b) /\ QueuesOK(q) /\ Lists(a, b, AllKeys, rank) /\ Progress(a, b, q, n, rank)

\* The next order of the image belongs at the end of its queue.
LEMMA NextInQueue ==
  ASSUME NEW a, NEW b, NEW q, NEW n, NEW rank, Inserting(a, b, q, n, rank),
         NEW o, o = a[n + 1]
  PROVE  /\ rank[n + 1] = Len(q[o.side][o.price]) + 1
         /\ Len(q[o.side][o.price]) + 1 <= Len(b[o.side][o.price])
<1> USE DEF Inserting
<1>1. PICK s \in Sides, p \in Prices : s = o.side /\ p = o.price
  BY ListsFacts
<1>2. PICK k : k = rank[n + 1]
  OBVIOUS
<1>3. PICK m \in Nat, l \in Nat : m = Len(q[s][p]) /\ l = Len(b[s][p])
  BY DEF QueuesOK
<1>4. k \in 1 .. l /\ k \in Nat
  BY <1>1, <1>2, <1>3, ListsFacts
<1>5. k > m
  <2>1. rank[n + 1] <= Len(q[a[n + 1].side][a[n + 1].price]) <=> n + 1 <= n
    BY DEF Progress
  <2>2. a[n + 1].side = s /\ a[n + 1].price = p
    BY <1>1
  <2>3. k <= m <=> n + 1 <= n
    BY <1>2, <1>3, <2>1, <2>2
  <2> QED BY <1>4, <2>3
<1>6. ASSUME k # m + 1 PROVE FALSE
  <2>1. m + 1 \in 1 .. Len(b[s][p])
    <3> HIDE DEF Inserting
    <3>1. m + 1 \in 1 .. l
      BY <1>3, <1>4, <1>5, <1>6
    <3> QED BY <1>3, <3>1
  <2>2. PICK i \in 1 .. Len(a) : a[i].side = s /\ a[i].price = p /\ rank[i] = m + 1
    BY <2>1, ListsFacts
  <2>3. CASE i <= n
    <3>1. rank[i] <= Len(q[a[i].side][a[i].price])
      BY <2>3 DEF Progress
    <3>2. m + 1 <= m
      BY <1>3, <2>2, <3>1
    <3> QED BY <3>2
  <2>4. CASE i = n + 1
    BY <1>2, <1>6, <2>2, <2>4
  <2>5. CASE i > n + 1
    <3>1. \A x, y \in 1 .. Len(a) :
            x < y /\ a[x].side = a[y].side /\ a[x].price = a[y].price => rank[x] < rank[y]
      BY ListsFacts
    <3>2. a[n + 1].side = a[i].side /\ a[n + 1].price = a[i].price
      BY <1>1, <2>2
    <3>3. rank[n + 1] < rank[i]
      BY <2>5, <3>1, <3>2
    <3> QED BY <1>2, <1>4, <1>5, <1>6, <2>2, <3>3
  <2> QED BY <2>3, <2>4, <2>5
<1> QED BY <1>1, <1>2, <1>3, <1>4, <1>6

LEMMA ProgressStep ==
  ASSUME NEW a, NEW b, NEW q, NEW n, NEW rank, Inserting(a, b, q, n, rank),
         NEW o, o = a[n + 1]
  PROVE  Progress(a, b, Book!Rested(q, o.id, o.side, o.price, o.remaining), n + 1, rank)
<1>0. /\ rank[n + 1] = Len(q[o.side][o.price]) + 1
      /\ Len(q[o.side][o.price]) + 1 <= Len(b[o.side][o.price])
  BY NextInQueue
<1> USE DEF Inserting
<1>1. PICK s \in Sides, p \in Prices : s = o.side /\ p = o.price
  BY ListsFacts
<1>2. PICK k, e : k = rank[n + 1] /\ e = [id |-> o.id, remaining |-> o.remaining]
  OBVIOUS
<1>3. PICK f, g : f = q[s][p] /\ g = b[s][p]
  OBVIOUS
<1>4. f \in Seq(Entries) /\ g \in Seq(Entries)
  BY <1>3 DEF QueuesOK
<1>5. k = Len(f) + 1 /\ Len(f) + 1 <= Len(g)
  BY <1>0, <1>1, <1>2, <1>3
<1>6. g[k] = e /\ k \in 1 .. Len(g)
  BY <1>1, <1>2, <1>3, ListsFacts
<1>7. PICK r, h : /\ r = Book!Rested(q, o.id, o.side, o.price, o.remaining)
                  /\ h = Append(f, e)
  OBVIOUS
<1>8. e \in Entries
  <2> HIDE DEF Entries
  <2> QED BY <1>4, <1>6
<1>9. /\ r[s][p] = h
      /\ \A t \in Sides, u \in Prices : t # s \/ u # p => r[t][u] = q[t][u]
  <2>1. r = [q EXCEPT ![s][p] = h]
    BY <1>1, <1>2, <1>3, <1>7 DEF Book!Rested
  <2>2. q \in [Sides -> [Prices -> Seq(Entries)]]
    <3>1. q = [t \in Sides |-> [u \in Prices |-> q[t][u]]]
      BY DEF QueuesOK, IsTable
    <3>2. \A t \in Sides, u \in Prices : q[t][u] \in Seq(Entries)
      BY DEF QueuesOK
    <3> QED BY <3>1, <3>2
  <2> QED BY <2>1, <2>2, EntryReplaced
<1>10. /\ Len(h) = Len(f) + 1 /\ h[Len(f) + 1] = e
       /\ \A i \in 1 .. Len(f) : h[i] = f[i]
       /\ Len(f) \in Nat /\ Len(g) \in Nat
  <2> HIDE DEF Entries
  <2> QED BY <1>4, <1>7, <1>8
<1>11. ASSUME NEW t \in Sides, NEW u \in Prices
       PROVE  /\ Len(r[t][u]) <= Len(b[t][u])
              /\ \A i \in 1 .. Len(r[t][u]) : r[t][u][i] = b[t][u][i]
  <2>1. CASE t = s /\ u = p
    <3>1. \A i \in 1 .. Len(f) : f[i] = g[i]
      BY <1>3 DEF Progress
    <3>2. Len(h) <= Len(g) /\ \A i \in 1 .. Len(h) : h[i] = g[i]
      BY <1>5, <1>6, <1>10, <3>1
    <3> QED BY <1>3, <1>9, <2>1, <3>2
  <2>2. CASE t # s \/ u # p
    <3>1. r[t][u] = q[t][u]
      BY <1>9, <2>2
    <3> QED BY <3>1 DEF Progress
  <2> QED BY <2>1, <2>2
<1>12. ASSUME NEW i \in 1 .. Len(a)
       PROVE  rank[i] <= Len(r[a[i].side][a[i].price]) <=> i <= n + 1
  <2>1. PICK t \in Sides, u \in Prices : t = a[i].side /\ u = a[i].price
    BY ListsFacts
  <2>2. rank[i] \in Nat /\ (rank[i] <= Len(q[t][u]) <=> i <= n)
    BY <2>1, ListsFacts DEF Progress
  <2>3. CASE t = s /\ u = p
    <3>1. r[t][u] = h /\ q[t][u] = f
      BY <1>3, <1>9, <2>3
    <3>2. rank[i] <= Len(f) <=> i <= n
      BY <2>2, <3>1
    <3>3. i = n + 1 => rank[i] = Len(f) + 1
      BY <1>2, <1>5
    <3>4. rank[i] = Len(f) + 1 => i = n + 1
      <4> SUFFICES ASSUME rank[i] = Len(f) + 1, i # n + 1 PROVE FALSE
        OBVIOUS
      <4>1. \A x, y \in 1 .. Len(a) :
              x < y /\ a[x].side = a[y].side /\ a[x].price = a[y].price => rank[x] < rank[y]
        BY ListsFacts
      <4>2. a[n + 1].side = a[i].side /\ a[n + 1].price = a[i].price
        BY <1>1, <2>1, <2>3
      <4>3. i < n + 1 \/ n + 1 < i
        OBVIOUS
      <4>4. rank[i] < rank[n + 1] \/ rank[n + 1] < rank[i]
        BY <4>1, <4>2, <4>3
      <4> QED BY <1>2, <1>5, <1>10, <4>4
    <3>5. rank[i] <= Len(h) <=> i <= n + 1
      BY <1>10, <2>2, <3>2, <3>3, <3>4
    <3> QED BY <2>1, <3>1, <3>5
  <2>4. CASE t # s \/ u # p
    <3>1. r[t][u] = q[t][u]
      BY <1>9, <2>4
    <3>2. i # n + 1
      BY <1>1, <2>1, <2>4
    <3>3. i <= n + 1 <=> i <= n
      BY <3>2
    <3> QED BY <2>1, <2>2, <3>1, <3>3
  <2> QED BY <2>3, <2>4
<1>13. Progress(a, b, r, n + 1, rank)
  BY <1>11, <1>12 DEF Progress
<1> QED BY <1>7, <1>13

\* When all of the image is inserted, the queues are those it was taken of.
LEMMA ProgressEnd ==
  ASSUME NEW a \in Seq(OrderArguments), NEW b, NEW q, NEW rank,
         QueuesOK(b), QueuesOK(q), Lists(a, b, AllKeys, rank), Progress(a, b, q, Len(a), rank)
  PROVE  q = b
<1>1. ASSUME NEW s \in Sides, NEW p \in Prices PROVE q[s][p] = b[s][p]
  <2>1. PICK f, g : f = q[s][p] /\ g = b[s][p]
    OBVIOUS
  <2>2. f \in Seq(Entries) /\ g \in Seq(Entries)
    BY <2>1 DEF QueuesOK
  <2>3. Len(f) <= Len(g) /\ \A k \in 1 .. Len(f) : f[k] = g[k]
    BY <2>1 DEF Progress
  <2>4. ASSUME Len(f) # Len(g) PROVE FALSE
    <3>1. Len(f) + 1 \in 1 .. Len(g) /\ Len(f) \in Nat
      BY <2>2, <2>3, <2>4
    <3>2. PICK i \in 1 .. Len(a) : a[i].side = s /\ a[i].price = p /\ rank[i] = Len(f) + 1
      <4>1. Len(f) + 1 \in 1 .. Len(b[s][p])
        BY <2>1, <3>1
      <4> QED BY <4>1, ListsFacts
    <3>3. i <= Len(a)
      OBVIOUS
    <3>4. rank[i] <= Len(q[a[i].side][a[i].price])
      BY <3>3 DEF Progress
    <3>5. Len(f) + 1 <= Len(f)
      BY <2>1, <3>2, <3>4
    <3> QED BY <3>1, <3>5
  <2>5. f = g
    <3> HIDE DEF Entries
    <3>1. Len(f) = Len(g)
      BY <2>4
    <3> QED BY <2>2, <2>3, <3>1
  <2> QED BY <2>1, <2>5
<1>2. /\ q = [s \in Sides |-> [p \in Prices |-> q[s][p]]]
      /\ b = [s \in Sides |-> [p \in Prices |-> b[s][p]]]
  BY DEF QueuesOK, IsTable
<1> QED BY <1>1, <1>2

\* The loop of restore() over an image that is a snapshot of this book.
Restoring(rank) ==
  /\ QueuesOK(before) /\ IdsOnce(before)
  /\ Lists(image, before, AllKeys, rank) /\ Progress(image, before, Queue, restored, rank)

OwnInv == own => /\ image # <<>> /\ freeCount = MaxOrders - restored
                 /\ \E rank : Restoring(rank)

LEMMA QueueTyped == IInv => QueuesOK(Queue) /\ IdsOnce(Queue)
<1> SUFFICES ASSUME IInv PROVE QueuesOK(Queue) /\ IdsOnce(Queue)
  OBVIOUS
<1>1. PICK free \in Seq(Slots), fifos \in FifoTable : BookInv(free, fifos)
  BY DEF IInv
<1>2. QueuesOK(QueueOf(orders, fifos)) /\ IdsOnce(QueueOf(orders, fifos))
  BY <1>1, QueuesTyped DEF IInv
<1>3. Queue = QueueOf(orders, fifos)
  BY <1>1, QueueIs
<1> QED BY <1>2, <1>3

LEMMA QueueTypedNext == IInv' => (QueuesOK(Queue) /\ IdsOnce(Queue))'
BY QueueTyped, PTL

\* An order of the image is not in the book before its turn.
LEMMA NotYetIndexed ==
  ASSUME TypeOK, NEW free, NEW fifos \in FifoTable, BookInv(free, fifos),
         NEW rank, NEW o, o = image[restored + 1],
         Inserting(image, before, Queue, restored, rank), IdsOnce(before), o.id \in Ids
  PROVE  index[o.id] = NoSlot
<1> SUFFICES ASSUME index[o.id] # NoSlot PROVE FALSE
  OBVIOUS
<1>1. PICK a, b, q, n, id : a = image /\ b = before /\ q = Queue /\ n = restored /\ id = o.id
  OBVIOUS
<1>2. Inserting(a, b, q, n, rank)
  BY <1>1
<1>3. /\ a \in Seq(OrderArguments) /\ n \in Nat /\ n + 1 \in 1 .. Len(a)
      /\ QueuesOK(b) /\ Lists(a, b, AllKeys, rank) /\ Progress(a, b, q, n, rank)
  BY <1>2 DEF Inserting
<1>4. PICK x, s, p : x = index[id] /\ s = orders[x].side /\ p = orders[x].price
  OBVIOUS
<1>5. /\ x \in Slots /\ orders[x].id = id /\ s \in Sides /\ p \in Prices
      /\ \E j \in 1 .. Len(fifos[s][p]) : fifos[s][p][j] = x
  <2>1. id \in Ids /\ index[id] # NoSlot
    BY <1>1
  <2> QED BY <1>4, <2>1, Indexing
<1>6. PICK f : f = fifos[s][p]
  OBVIOUS
<1>7. PICK j \in 1 .. Len(f) : f[j] = x
  BY <1>5, <1>6
<1>8. f \in Seq(Slots)
  BY <1>5, <1>6 DEF FifoTable
<1>9. PICK c : c = q[s][p]
  OBVIOUS
<1>10. c = [k \in 1 .. Len(f) |-> [id |-> orders[f[k]].id, remaining |-> orders[f[k]].remaining]]
  <2>1. q = QueueOf(orders, fifos)
    BY <1>1, QueueIs
  <2>2. c = Contents(orders, f)
    BY <1>5, <1>6, <1>9, <2>1, QueueAt
  <2>3. DOMAIN f = 1 .. Len(f)
    BY <1>8, Members
  <2> QED BY <2>2, <2>3 DEF Contents
<1>11. Len(f) \in Nat
  BY <1>8, Members
<1>12. Len(c) = Len(f) /\ c[j].id = id
  <2>1. c[j].id = orders[f[j]].id
    BY <1>10
  <2>2. Len(c) = Len(f)
    BY <1>10, <1>11
  <2> QED BY <1>5, <1>7, <2>1, <2>2
<1>13. PICK d : d = b[s][p]
  OBVIOUS
<1>14. d \in Seq(Entries)
  BY <1>3, <1>5, <1>13 DEF QueuesOK
<1>15. Len(c) <= Len(d) /\ c[j] = d[j]
  BY <1>3, <1>5, <1>7, <1>9, <1>12, <1>13 DEF Progress
<1>16. j \in 1 .. Len(b[s][p])
  BY <1>11, <1>12, <1>13, <1>14, <1>15
<1>17. PICK i \in 1 .. Len(a) : a[i].side = s /\ a[i].price = p /\ rank[i] = j
  BY <1>3, <1>5, <1>16, ListsFacts
<1>18. b[s][p][j] = [id |-> a[i].id, remaining |-> a[i].remaining]
  <2>1. b[a[i].side][a[i].price][rank[i]] = [id |-> a[i].id, remaining |-> a[i].remaining]
    BY <1>3, ListsFacts
  <2> QED BY <1>17, <2>1
<1>19. a[i].id = a[n + 1].id
  BY <1>1, <1>12, <1>13, <1>15, <1>18
<1>20. i = n + 1
  BY <1>1, <1>3, <1>19, ImageIdsOnce
<1>21. rank[i] <= Len(q[a[i].side][a[i].price])
  BY <1>9, <1>11, <1>12, <1>17
<1>22. i <= n
  BY <1>3, <1>21 DEF Progress
<1> QED BY <1>3, <1>20, <1>22

\* Each insert of the loop succeeds.
LEMMA OwnAccepted ==
  ASSUME TypeOK, NEW free \in Seq(Slots), NEW fifos \in FifoTable, BookInv(free, fifos),
         NEW rank, NEW o, o = image[restored + 1],
         Inserting(image, before, Queue, restored, rank), IdsOnce(before),
         Len(image) <= MaxOrders, freeCount = MaxOrders - restored
  PROVE  Accepts(o)
<1>1. PICK a, b, n : a = image /\ b = before /\ n = restored
  OBVIOUS
<1>2. /\ a \in Seq(OrderArguments) /\ n \in Nat /\ n + 1 \in 1 .. Len(a)
      /\ QueuesOK(b) /\ Lists(a, b, AllKeys, rank)
  BY <1>1 DEF Inserting
<1>3. o = a[n + 1]
  BY <1>1
<1>4. PICK s \in Sides, p \in Prices : s = o.side /\ p = o.price
  <2>1. \A i \in 1 .. Len(a) : a[i].side \in Sides /\ a[i].price \in Prices
    BY <1>2, ListsFacts
  <2> QED BY <1>2, <1>3, <2>1
<1>5. PICK k : k = rank[n + 1]
  OBVIOUS
<1>6. k \in 1 .. Len(b[s][p]) /\ b[s][p][k] = [id |-> o.id, remaining |-> o.remaining]
  <2>1. \A i \in 1 .. Len(a) :
          /\ rank[i] \in 1 .. Len(b[a[i].side][a[i].price])
          /\ b[a[i].side][a[i].price][rank[i]] = [id |-> a[i].id, remaining |-> a[i].remaining]
    BY <1>2, ListsFacts
  <2> QED BY <1>2, <1>3, <1>4, <1>5, <2>1
<1>7. b[s][p][k] \in Entries
  <2>1. b[s][p] \in Seq(Entries)
    BY <1>2 DEF QueuesOK
  <2> HIDE DEF Entries
  <2> QED BY <1>6, <2>1
<1>8. o.id \in Ids /\ o.remaining \in Quantities
  BY <1>6, <1>7, EntryFields
<1>9. index[o.id] = NoSlot
  BY <1>8, NotYetIndexed
<1>10. freeHead # NoSlot
  <2>1. Len(free) = MaxOrders - n /\ Path(orders, free, freeHead)
    BY <1>1 DEF BookInv, PoolInv
  <2>2. n < MaxOrders
    BY <1>1, <1>2, BookAssumption
  <2>3. Len(free) # 0
    BY <1>2, <2>1, <2>2, BookAssumption
  <2>4. freeHead = free[1] /\ free[1] \in Slots
    BY <2>1, <2>3 DEF Path
  <2> QED BY <2>4 DEF Slots, NoSlot
<1>11. o.remaining # 0
  BY <1>8, QuantitiesPositive
<1> QED BY <1>4, <1>9, <1>10, <1>11 DEF Accepts, InsertStatus

\* One insert of the loop, of an image that is a snapshot of this book.
LEMMA OwnRestoreNext ==
  ASSUME IInv, OwnInv, own, RestoreNext
  PROVE  OwnInv' /\ (image' = <<>> => Queue' = before)
<1>1. PICK free \in Seq(Slots), fifos \in FifoTable : BookInv(free, fifos)
  BY DEF IInv
<1>2. /\ freeCount = MaxOrders - restored
      /\ \E rank : Restoring(rank)
  BY DEF OwnInv
<1>3. PICK rank : Restoring(rank)
  BY <1>2
<1>4. /\ TypeOK /\ restored \in Nat
      /\ image \in Seq(OrderArguments) /\ Len(image) <= MaxOrders /\ restored < Len(image)
  BY DEF IInv, TypeOK, RestoreInv, RestoreNext, Idle
<1>5. PICK a, b, q, n, r : a = image /\ b = before /\ q = Queue /\ n = restored /\ r = Queue'
  OBVIOUS
<1>6. PICK o : o = a[n + 1]
  OBVIOUS
<1>7. /\ QueuesOK(b) /\ IdsOnce(b) /\ Lists(a, b, AllKeys, rank) /\ Progress(a, b, q, n, rank)
  BY <1>3, <1>5 DEF Restoring
<1>8. n + 1 \in 1 .. Len(a) /\ Len(a) \in Nat /\ n \in Nat
  BY <1>4, <1>5
<1>9. Inserting(a, b, q, n, rank)
  <2>1. QueuesOK(q)
    BY <1>5, QueueTyped
  <2>2. a \in Seq(OrderArguments)
    BY <1>4, <1>5
  <2> QED BY <1>7, <1>8, <2>1, <2>2 DEF Inserting
<1>10. Accepts(o)
  <2>1. Inserting(image, before, Queue, restored, rank) /\ IdsOnce(before)
        /\ o = image[restored + 1]
    BY <1>5, <1>6, <1>7, <1>9
  <2> QED BY <1>1, <1>2, <1>4, <2>1, OwnAccepted
<1>11. /\ AppendOrder(o)
       /\ IF n + 1 = Len(a) THEN RestoreEnds
          ELSE restored' = n + 1 /\ UNCHANGED <<image, own, before>>
  BY <1>5, <1>6, <1>10 DEF RestoreNext
<1>12. Appending(o, free, fifos)
  <2>1. o \in OrderArguments
    BY <1>4, <1>5, <1>6, <1>8
  <2> QED BY <1>1, <1>4, <1>10, <1>11, <2>1 DEF Appending
<1>13. r = Book!Rested(q, o.id, o.side, o.price, o.remaining)
  BY <1>5, <1>12, AppendRests
<1>14. Progress(a, b, r, n + 1, rank)
  BY <1>6, <1>9, <1>13, ProgressStep
<1>15. QueuesOK(r)
  <2>1. IInv'
    BY RestoreNextInvariant
  <2>2. QueuesOK(Queue)'
    BY <2>1, QueueTypedNext
  <2>3. QueuesOK(Queue')
    BY <2>2 DEF QueuesOK
  <2> QED BY <1>5, <2>3
<1>16. CASE n + 1 = Len(a)
  <2>1. image' = <<>> /\ own' = FALSE
    BY <1>11, <1>16 DEF RestoreEnds
  <2>2. Progress(a, b, r, Len(a), rank)
    BY <1>14, <1>16
  <2>3. a \in Seq(OrderArguments)
    BY <1>4, <1>5
  <2>4. r = b
    BY <1>7, <1>15, <2>2, <2>3, ProgressEnd
  <2>5. OwnInv'
    BY <2>1 DEF OwnInv
  <2> QED BY <1>5, <2>4, <2>5
<1>17. CASE n + 1 # Len(a)
  <2>1. restored' = n + 1 /\ image' = a /\ own' = own /\ before' = b
    BY <1>5, <1>11, <1>17
  <2>2. a # <<>>
    BY <1>8
  <2>3. freeCount' = MaxOrders - (n + 1)
    <3>1. freeCount' = freeCount - 1
      BY <1>11 DEF AppendOrder, Acquire
    <3> QED BY <1>2, <1>5, <1>8, <3>1, BookAssumption
  <2>5. Restoring(rank)'
    BY <1>5, <1>7, <1>14, <2>1 DEF Restoring
  <2>6. OwnInv'
    BY <2>1, <2>2, <2>3, <2>5 DEF OwnInv
  <2> QED BY <2>1, <2>2, <2>6
<1> QED BY <1>16, <1>17

LEMMA OwnRestore ==
  ASSUME IInv, RestoreOwn
  PROVE  OwnInv'
<1>1. PICK free \in Seq(Slots), fifos \in FifoTable : BookInv(free, fifos)
  BY DEF IInv
<1>2. PICK a, b : a = Snapshot /\ b = Queue
  OBVIOUS
<1>3. /\ a # <<>> /\ Cleared /\ image' = a /\ restored' = 0 /\ before' = b /\ own' = TRUE
  BY <1>2 DEF RestoreOwn, Restore
<1>4. Queue' = Book!Empty
  BY <1>3, BookAssumption, ClearedQueue
<1>5. b = QueueOf(orders, fifos)
  BY <1>1, <1>2, QueueIs
<1>6. Listed(a, b, AllKeys)
  BY <1>1, <1>2, <1>5, SnapshotListed DEF IInv
<1>7. PICK rank : Lists(a, b, AllKeys, rank)
  BY <1>6 DEF Listed
<1>8. QueuesOK(b) /\ IdsOnce(b)
  BY <1>2, QueueTyped
<1>9. a \in Seq(OrderArguments)
  BY <1>2, SnapshotType
<1>10. Progress(a, b, Book!Empty, 0, rank)
  BY <1>7, <1>8, <1>9, ProgressStart
<1>11. Restoring(rank)'
  BY <1>3, <1>4, <1>7, <1>8, <1>10 DEF Restoring
<1>12. freeCount' = MaxOrders - 0
  BY <1>3, BookAssumption DEF Cleared, InitializeFreelist
<1> QED BY <1>3, <1>11, <1>12 DEF OwnInv

LEMMA OwnUnchanged ==
  ASSUME OwnInv, UNCHANGED vars
  PROVE  OwnInv'
<1>1. PICK rank : own => Restoring(rank)
  BY DEF OwnInv
<1>2. Queue' = Queue /\ freeCount' = freeCount
      /\ image' = image /\ restored' = restored /\ own' = own /\ before' = before
  BY DEF vars, pool, sideVars, restoreVars, Queue, Fifo, Chain
<1>3. own => Restoring(rank)'
  BY <1>1, <1>2 DEF Restoring
<1> QED BY <1>2, <1>3 DEF OwnInv

\* Restoring a snapshot of the book itself accepts every order of the image and
\* leaves, when restore() is through, the queues that the book had: whatever the
\* slots, the free list and the index looked like before and after.
THEOREM RoundTrips == Spec => SnapshotRoundTrip
<1>1. Init => OwnInv
  BY DEF Init, OwnInv
<1>2. IInv /\ OwnInv /\ [Next]_vars => OwnInv'
  <2> SUFFICES ASSUME IInv, OwnInv, [Next]_vars PROVE OwnInv'
    OBVIOUS
  <2>1. Idle => ~own
    BY DEF OwnInv, Idle
  <2>2. ASSUME Idle, UNCHANGED restoreVars PROVE OwnInv'
    BY <2>1, <2>2 DEF OwnInv, restoreVars
  <2>3. ASSUME NEW o \in Orders, Insert(o) PROVE OwnInv'
    BY <2>2, <2>3 DEF Insert
  <2>4. ASSUME NEW id \in Ids, Erase(id) PROVE OwnInv'
    BY <2>2, <2>4 DEF Erase
  <2>5. ASSUME NEW id \in Ids, NEW q \in Quantities, SetRemaining(id, q) PROVE OwnInv'
    BY <2>2, <2>5 DEF SetRemaining, restoreVars
  <2>6. CASE Clear
    BY <2>2, <2>6 DEF Clear
  <2>7. CASE RestoreOwn
    BY <2>7, OwnRestore
  <2>8. CASE RestoreForeign
    BY <2>8 DEF RestoreForeign, OwnInv
  <2>9. CASE RestoreNext
    <3>1. CASE own
      BY <2>9, <3>1, OwnRestoreNext
    <3>2. CASE ~own
      <4>1. own' = FALSE
        BY <2>9, <3>2 DEF RestoreNext, RestoreEnds, IInv, TypeOK
      <4> QED BY <4>1 DEF OwnInv
    <3> QED BY <3>1, <3>2
  <2>10. CASE UNCHANGED vars
    BY <2>10, OwnUnchanged
  <2> QED BY <2>3, <2>4, <2>5, <2>6, <2>7, <2>8, <2>9, <2>10 DEF Next
<1>3. IInv /\ OwnInv /\ [Next]_vars => [own /\ image' = <<>> => Queue' = before]_vars
  <2> SUFFICES ASSUME IInv, OwnInv, Next, own, image' = <<>> PROVE Queue' = before
    OBVIOUS
  <2>1. ~Idle
    BY DEF OwnInv, Idle
  <2>2. RestoreNext
    BY <2>1 DEF Next, Insert, Erase, SetRemaining, Clear, RestoreOwn, RestoreForeign, Restore
  <2> QED BY <2>2, OwnRestoreNext
<1> QED BY <1>1, <1>2, <1>3, Invariance, PTL DEF Spec, SnapshotRoundTrip
=============================================================================
