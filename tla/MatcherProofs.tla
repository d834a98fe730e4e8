----------------------------- MODULE MatcherProofs ----------------------------
(* Theorems about the matcher, for every set of order ids and prices, every   *)
(* capacity of the book and every sequence of commands.                      *)
EXTENDS Matcher, FiniteSetTheorems, SequenceTheorems, TLAPS

Sides == {"Bid", "Ask"}
RestingOrder == [id : Nat, remaining : Nat]
Books == [Sides -> [Prices -> Seq(RestingOrder)]]

-----------------------------------------------------------------------------
(* The best price exists.                                                    *)

\* Every set of numbers that is finite and not empty has a greatest element: the
\* one with the smallest set of greater ones.
LEMMA Greatest ==
  ASSUME NEW T, T \subseteq Nat, IsFiniteSet(T), T # {}
  PROVE  \E m \in T : \A n \in T : n <= m
<1> DEFINE Above(n) == {k \in T : k > n}
           U == {Above(n) : n \in T}
           R == StrictSubsetOrdering(T)
           F == FiniteSubsetsOf(T)
<1>1. IsWellFoundedOn(R, F)
  BY FS_StrictSubsetOrderingWellFounded
<1>2. U \subseteq F
  BY FS_Subset DEF FiniteSubsetsOf
<1>3. PICK u \in U : \A v \in U : ~(<<v, u>> \in R)
  <2>1. U # {}
    OBVIOUS
  <2> HIDE DEF U, R, F
  <2> QED BY <1>1, <1>2, <2>1, WFMin
<1>4. PICK m \in T : u = Above(m)
  BY <1>3
<1>5. ASSUME NEW n \in T, n > m PROVE FALSE
  <2>1. n \in Above(m) /\ n \notin Above(n)
    BY <1>5
  <2>2. \A k \in T : k > n => k > m
    BY <1>5
  <2>3. Above(n) \subseteq Above(m) /\ Above(n) # Above(m)
    BY <2>1, <2>2
  <2>4. <<Above(n), Above(m)>> \in R
    BY <2>3 DEF StrictSubsetOrdering
  <2> QED BY <1>3, <1>4, <2>4
<1> QED BY <1>5

\* Every set of numbers that is not empty has a least one.
LEMMA Least ==
  ASSUME NEW T, T \subseteq Nat, T # {}
  PROVE  \E m \in T : \A n \in T : m <= n
<1> DEFINE U == {1 .. n : n \in T}
           R == StrictSubsetOrdering(Nat)
           F == FiniteSubsetsOf(Nat)
<1>1. IsWellFoundedOn(R, F)
  BY FS_StrictSubsetOrderingWellFounded
<1>2. U \subseteq F
  BY FS_Interval DEF FiniteSubsetsOf
<1>3. PICK u \in U : \A v \in U : ~(<<v, u>> \in R)
  <2>1. U # {}
    OBVIOUS
  <2> HIDE DEF U, R, F
  <2> QED BY <1>1, <1>2, <2>1, WFMin
<1>4. PICK m \in T : u = 1 .. m
  BY <1>3
<1>5. ASSUME NEW n \in T, n < m PROVE FALSE
  <2>1. 1 .. n \subseteq 1 .. m /\ 1 .. n # 1 .. m
    <3>1. m \in 1 .. m /\ m \notin 1 .. n
      BY <1>5
    <3> QED BY <1>5, <3>1
  <2>2. <<1 .. n, 1 .. m>> \in R
    BY <2>1 DEF StrictSubsetOrdering
  <2> QED BY <1>3, <1>4, <2>2
<1> QED BY <1>5

\* BestPrice is an active price, and the best one.
LEMMA BestPriceIsBest ==
  ASSUME NEW s \in Sides, Book!ActivePrices(s) # {}
  PROVE  /\ Book!BestPrice(s) \in Book!ActivePrices(s)
         /\ \A p \in Book!ActivePrices(s) : Book!AtLeastAsGood(s, Book!BestPrice(s), p)
<1> DEFINE P == Book!ActivePrices(s)
<1>1. P \subseteq Prices /\ P \subseteq Nat /\ IsFiniteSet(P)
  BY MatcherAssumption, FS_Subset DEF Book!ActivePrices
<1>2. \E p \in P : \A q \in P : Book!AtLeastAsGood(s, p, q)
  <2>1. CASE s = "Bid"
    <3>1. PICK p \in P : \A q \in P : q <= p
      BY <1>1, Greatest
    <3> QED BY <1>1, <2>1, <3>1 DEF Book!AtLeastAsGood
  <2>2. CASE s # "Bid"
    <3>1. PICK p \in P : \A q \in P : p <= q
      BY <1>1, Least
    <3> QED BY <2>2, <3>1 DEF Book!AtLeastAsGood
  <2> QED BY <2>1, <2>2
<1> QED BY <1>2 DEF Book!BestPrice

-----------------------------------------------------------------------------
(* The operations on a book.                                                 *)

LEMMA PlacesUnion ==
  ASSUME NEW q \in Books
  PROVE  \A place : place \in Book!Places(q) <=>
           \E s \in Sides, p \in Prices : place \in {s} \X {p} \X (DOMAIN q[s][p])
<1> DEFINE At(s, p) == {s} \X {p} \X (DOMAIN q[s][p])
<1>1. Book!Places(q) = UNION {At(s, p) : s \in Sides, p \in Prices}
  BY DEF Book!Places, Book!Sides, Sides
<1> HIDE DEF At
<1>2. \A place : place \in Book!Places(q) <=>
        \E s \in Sides, p \in Prices : place \in At(s, p)
  BY <1>1
<1> QED BY <1>2 DEF At

LEMMA PlacesFacts ==
  ASSUME NEW q \in Books
  PROVE  \A s, p, k : <<s, p, k>> \in Book!Places(q) <=>
           s \in Sides /\ p \in Prices /\ k \in 1 .. Len(q[s][p])
<1>1. \A s \in Sides, p \in Prices : DOMAIN q[s][p] = 1 .. Len(q[s][p])
  BY DEF Books
<1>2. \A place : place \in Book!Places(q) <=>
        \E s \in Sides, p \in Prices : place \in {s} \X {p} \X (DOMAIN q[s][p])
  BY PlacesUnion
<1>3. ASSUME NEW s, NEW p, NEW k
      PROVE  <<s, p, k>> \in Book!Places(q) <=>
               s \in Sides /\ p \in Prices /\ k \in 1 .. Len(q[s][p])
  <2>1. \A a, b, S : <<s, p, k>> \in {a} \X {b} \X S <=> s = a /\ p = b /\ k \in S
    OBVIOUS
  <2>2. ASSUME <<s, p, k>> \in Book!Places(q)
        PROVE  s \in Sides /\ p \in Prices /\ k \in DOMAIN q[s][p]
    <3>1. PICK a \in Sides, b \in Prices : <<s, p, k>> \in {a} \X {b} \X (DOMAIN q[a][b])
      BY <1>2, <2>2, Zenon
    <3> QED BY <2>1, <3>1
  <2>3. s \in Sides /\ p \in Prices /\ k \in DOMAIN q[s][p] =>
          <<s, p, k>> \in Book!Places(q)
    BY <1>2, <2>1, Zenon
  <2> QED BY <1>1, <2>2, <2>3, Zenon
<1> QED BY <1>3

\* A place is a side, a price and a position in the queue there.
LEMMA PlaceFacts ==
  ASSUME NEW q \in Books, NEW place \in Book!Places(q)
  PROVE  /\ place = <<place[1], place[2], place[3]>>
         /\ place[1] \in Sides /\ place[2] \in Prices
         /\ place[3] \in 1 .. Len(q[place[1]][place[2]])
<1>1. \E s \in Sides, p \in Prices : place \in {s} \X {p} \X (DOMAIN q[s][p])
  BY PlacesUnion
<1>2. PICK s \in Sides, p \in Prices : place \in {s} \X {p} \X (DOMAIN q[s][p])
  BY <1>1
<1>3. DOMAIN q[s][p] = 1 .. Len(q[s][p])
  BY DEF Books
<1>4. PICK k \in 1 .. Len(q[s][p]) : place = <<s, p, k>>
  BY <1>2, <1>3
<1> QED BY <1>4

\* Book r is book q with fewer orders, or with the same ones in other states: every
\* order of r was in q on the same side at the same price.
Within(r, q) ==
  \A s \in Sides, p \in Prices :
    /\ Len(r[s][p]) <= Len(q[s][p])
    /\ \A k \in 1 .. Len(r[s][p]) :
         \E j \in 1 .. Len(q[s][p]) : r[s][p][k].id = q[s][p][j].id

\* Where order id is.
LEMMA PlaceOfResting ==
  ASSUME NEW q \in Books, NEW id, Book!Resting(q, id)
  PROVE  /\ Book!Place(q, id) \in Book!Places(q)
         /\ Book!IsAt(q, id, Book!Place(q, id))
BY DEF Book!Resting, Book!Place

LEMMA RemoveAtFacts ==
  ASSUME NEW f \in Seq(RestingOrder), NEW k \in 1 .. Len(f)
  PROVE  /\ Book!RemoveAt(f, k) \in Seq(RestingOrder)
         /\ Len(Book!RemoveAt(f, k)) = Len(f) - 1
         /\ \A i \in 1 .. Len(f) - 1 :
              \E j \in 1 .. Len(f) : Book!RemoveAt(f, k)[i] = f[j]
<1> DEFINE a == SubSeq(f, 1, k - 1)
           b == SubSeq(f, k + 1, Len(f))
<1>0. Len(f) \in Nat /\ \A i \in 1 .. Len(f) : f[i] \in RestingOrder
  BY LenProperties, ElementOfSeq
<1>1. /\ a \in Seq(RestingOrder) /\ Len(a) = k - 1
      /\ \A i \in 1 .. k - 1 : a[i] = f[i]
  <2>1. \A i \in 1 .. k - 1 : f[i] \in RestingOrder
    BY <1>0
  <2>2. /\ a \in Seq(RestingOrder) /\ Len(a) = IF 1 <= k - 1 THEN ((k - 1) - 1) + 1 ELSE 0
        /\ \A i \in 1 .. ((k - 1) - 1) + 1 : a[i] = f[(1 + i) - 1]
    BY <1>0, <2>1, SubSeqProperties
  <2> QED BY <1>0, <2>2
<1>2. /\ b \in Seq(RestingOrder) /\ Len(b) = Len(f) - k
      /\ \A i \in 1 .. Len(f) - k : b[i] = f[k + i]
  <2>1. \A i \in k + 1 .. Len(f) : f[i] \in RestingOrder
    BY <1>0
  <2>2. /\ b \in Seq(RestingOrder)
        /\ Len(b) = IF k + 1 <= Len(f) THEN (Len(f) - (k + 1)) + 1 ELSE 0
        /\ \A i \in 1 .. (Len(f) - (k + 1)) + 1 : b[i] = f[((k + 1) + i) - 1]
    BY <1>0, <2>1, SubSeqProperties
  <2> QED BY <1>0, <2>2
<1> HIDE DEF a, b
<1>3. /\ a \o b \in Seq(RestingOrder) /\ Len(a \o b) = Len(a) + Len(b)
      /\ \A i \in 1 .. Len(a) + Len(b) :
           (a \o b)[i] = IF i <= Len(a) THEN a[i] ELSE b[i - Len(a)]
  BY <1>1, <1>2, ConcatProperties
<1>4. \A i \in 1 .. Len(f) - 1 : \E j \in 1 .. Len(f) : (a \o b)[i] = f[j]
  <2> TAKE i \in 1 .. Len(f) - 1
  <2>1. CASE i <= k - 1
    BY <1>0, <1>1, <1>2, <1>3, <2>1
  <2>2. CASE ~(i <= k - 1)
    <3>1. (a \o b)[i] = b[i - (k - 1)]
      BY <1>0, <1>1, <1>2, <1>3, <2>2
    <3>2. b[i - (k - 1)] = f[k + (i - (k - 1))]
      BY <1>0, <1>2, <2>2
    <3>3. k + (i - (k - 1)) \in 1 .. Len(f)
      BY <1>0, <2>2
    <3> QED BY <3>1, <3>2, <3>3
  <2> QED BY <2>1, <2>2
<1>5. Book!RemoveAt(f, k) = a \o b
  BY DEF Book!RemoveAt, a, b
<1>6. Len(a \o b) = Len(f) - 1
  BY <1>0, <1>1, <1>2, <1>3
<1> QED BY <1>3, <1>4, <1>5, <1>6

\* A cancelled order leaves its queue, and nothing else changes.
LEMMA CancelledFacts ==
  ASSUME NEW q \in Books, NEW id, Book!Resting(q, id),
         NEW r, r = Book!Cancelled(q, id)
  PROVE  /\ r \in Books /\ Within(r, q)
         /\ \E place \in Book!Places(q) : place \notin Book!Places(r)
<1>1. Book!Place(q, id) \in Book!Places(q)
  BY PlaceOfResting
<1>2. PICK s \in Sides, p \in Prices, k \in Nat :
        /\ s = Book!Place(q, id)[1] /\ p = Book!Place(q, id)[2]
        /\ k = Book!Place(q, id)[3] /\ k \in 1 .. Len(q[s][p])
  <2>1. Book!Place(q, id)[3] \in Nat
    BY <1>1, PlaceFacts DEF Books
  <2> QED BY <1>1, <2>1, PlaceFacts
<1> DEFINE left == Book!RemoveAt(q[s][p], k)
<1>3. r = [q EXCEPT ![s][p] = left]
  BY <1>2 DEF Book!Cancelled
<1>4. q[s][p] \in Seq(RestingOrder)
  BY <1>2 DEF Books
<1>5. /\ left \in Seq(RestingOrder) /\ Len(left) = Len(q[s][p]) - 1
      /\ \A i \in 1 .. Len(q[s][p]) - 1 :
           \E j \in 1 .. Len(q[s][p]) : left[i] = q[s][p][j]
  <2>1. ASSUME NEW f \in Seq(RestingOrder), NEW j \in 1 .. Len(f)
        PROVE  /\ Book!RemoveAt(f, j) \in Seq(RestingOrder)
               /\ Len(Book!RemoveAt(f, j)) = Len(f) - 1
               /\ \A i \in 1 .. Len(f) - 1 :
                    \E h \in 1 .. Len(f) : Book!RemoveAt(f, j)[i] = f[h]
    BY RemoveAtFacts
  <2> QED BY <1>2, <1>4, <2>1, ZenonT(40)
<1> HIDE DEF left
<1>6. /\ r \in Books
      /\ \A s2 \in Sides, p2 \in Prices :
           r[s2][p2] = IF s2 = s /\ p2 = p THEN left ELSE q[s2][p2]
  <2>1. left \in Seq(RestingOrder)
    BY <1>5
  <2> QED BY <1>2, <1>3, <2>1 DEF Books
<1>7. \A s2 \in Sides, p2 \in Prices : Len(q[s2][p2]) \in Nat
  BY DEF Books
<1>8. Within(r, q)
  <2> SUFFICES ASSUME NEW s2 \in Sides, NEW p2 \in Prices
               PROVE  /\ Len(r[s2][p2]) <= Len(q[s2][p2])
                      /\ \A i \in 1 .. Len(r[s2][p2]) :
                           \E j \in 1 .. Len(q[s2][p2]) :
                             r[s2][p2][i].id = q[s2][p2][j].id
    BY DEF Within
  <2>1. CASE s2 = s /\ p2 = p
    <3>1. r[s2][p2] = left
      BY <1>6, <2>1
    <3>2. Len(left) <= Len(q[s2][p2])
      BY <1>5, <1>7, <2>1
    <3>3. \A i \in 1 .. Len(left) :
            \E j \in 1 .. Len(q[s2][p2]) : left[i].id = q[s2][p2][j].id
      BY <1>5, <2>1, Zenon
    <3> QED BY ONLY <3>1, <3>2, <3>3
  <2>2. CASE ~(s2 = s /\ p2 = p)
    <3>1. r[s2][p2] = q[s2][p2]
      BY <1>6, <2>2
    <3> QED BY <1>7, <3>1
  <2> QED BY <2>1, <2>2
<1>9. \E gone \in Book!Places(q) : gone \notin Book!Places(r)
  <2>1. <<s, p, Len(q[s][p])>> \in Book!Places(q)
    BY <1>2, <1>7, PlacesFacts
  <2>2. Len(r[s][p]) = Len(q[s][p]) - 1
    BY <1>2, <1>5, <1>6
  <2>3. Len(q[s][p]) \notin 1 .. Len(r[s][p])
    BY <1>2, <1>7, <2>2, SMTT(20)
  <2>4. <<s, p, Len(q[s][p])>> \notin Book!Places(r)
    BY <1>6, <2>3, PlacesFacts, Zenon
  <2> QED BY <2>1, <2>4
<1> QED BY <1>6, <1>8, <1>9

\* A changed order stays where it is.
LEMMA ChangedFacts ==
  ASSUME NEW q \in Books, NEW id, Book!Resting(q, id), NEW n \in Nat,
         NEW r, r = Book!Changed(q, id, n)
  PROVE  r \in Books /\ Within(r, q)
<1>1. Book!Place(q, id) \in Book!Places(q)
  BY PlaceOfResting
<1>2. PICK s \in Sides, p \in Prices, k \in Nat :
        /\ s = Book!Place(q, id)[1] /\ p = Book!Place(q, id)[2]
        /\ k = Book!Place(q, id)[3] /\ k \in 1 .. Len(q[s][p])
  <2>1. Book!Place(q, id)[3] \in Nat
    BY <1>1, PlaceFacts DEF Books
  <2> QED BY <1>1, <2>1, PlaceFacts
<1> DEFINE queue == q[s][p]
           changed == [queue[k] EXCEPT !.remaining = n]
           new == [queue EXCEPT ![k] = changed]
<1>3. r = [q EXCEPT ![s][p] = new]
  BY <1>2 DEF Book!Changed
<1>4. queue \in Seq(RestingOrder) /\ queue[k] \in RestingOrder
  BY <1>2 DEF Books
<1>5. changed \in RestingOrder /\ changed.id = queue[k].id
  BY <1>4 DEF RestingOrder
<1> HIDE DEF changed
<1>6. /\ new \in Seq(RestingOrder) /\ Len(new) = Len(queue)
      /\ \A j \in 1 .. Len(queue) : new[j].id = queue[j].id
  <2>1. /\ new \in Seq(RestingOrder) /\ Len(new) = Len(queue)
        /\ \A j \in 1 .. Len(queue) : new[j] = IF j = k THEN changed ELSE queue[j]
    BY <1>2, <1>4, <1>5, ExceptSeq
  <2> QED BY <1>5, <2>1
<1> HIDE DEF new
<1>7. /\ r \in Books
      /\ \A s2 \in Sides, p2 \in Prices :
           r[s2][p2] = IF s2 = s /\ p2 = p THEN new ELSE q[s2][p2]
  <2>1. new \in Seq(RestingOrder)
    BY <1>6
  <2> QED BY <1>2, <1>3, <2>1 DEF Books
<1>8. \A s2 \in Sides, p2 \in Prices : Len(q[s2][p2]) \in Nat
  BY DEF Books
<1>9. Within(r, q)
  <2> SUFFICES ASSUME NEW s2 \in Sides, NEW p2 \in Prices
               PROVE  /\ Len(r[s2][p2]) <= Len(q[s2][p2])
                      /\ \A i \in 1 .. Len(r[s2][p2]) :
                           \E j \in 1 .. Len(q[s2][p2]) :
                             r[s2][p2][i].id = q[s2][p2][j].id
    BY DEF Within
  <2>1. CASE s2 = s /\ p2 = p
    <3>1. r[s2][p2] = new
      BY <1>7, <2>1
    <3> QED BY <1>6, <1>8, <2>1, <3>1
  <2>2. CASE ~(s2 = s /\ p2 = p)
    <3>1. r[s2][p2] = q[s2][p2]
      BY <1>7, <2>2
    <3> QED BY <1>8, <3>1
  <2> QED BY <2>1, <2>2
<1> QED BY <1>7, <1>9

\* An order that comes to rest is the last of its queue.
LEMMA RestedFacts ==
  ASSUME NEW q \in Books, NEW s \in Sides, NEW p \in Prices, NEW id \in Nat, NEW n \in Nat,
         NEW r, r = Book!Rested(q, id, s, p, n)
  PROVE  /\ r \in Books
         /\ Book!Places(r) = Book!Places(q) \cup {<<s, p, Len(q[s][p]) + 1>>}
         /\ \A s2 \in Sides, p2 \in Prices :
              ~(s2 = s /\ p2 = p) => r[s2][p2] = q[s2][p2]
         /\ \A k \in 1 .. Len(r[s][p]) :
              r[s][p][k].id = id \/ \E j \in 1 .. Len(q[s][p]) : r[s][p][k] = q[s][p][j]
<1> DEFINE order == [id |-> id, remaining |-> n]
           new == Append(q[s][p], order)
<1>1. q[s][p] \in Seq(RestingOrder) /\ order \in RestingOrder
  BY DEF Books, RestingOrder
<1>2. /\ new \in Seq(RestingOrder) /\ Len(new) = Len(q[s][p]) + 1
      /\ \A k \in 1 .. Len(q[s][p]) : new[k] = q[s][p][k]
      /\ new[Len(q[s][p]) + 1] = order
  BY <1>1, AppendProperties
<1>3. r = [q EXCEPT ![s][p] = new]
  BY DEF Book!Rested
<1>4. order.id = id
  OBVIOUS
<1> HIDE DEF new, order
<1>5. /\ r \in Books
      /\ \A s2 \in Sides, p2 \in Prices :
           r[s2][p2] = IF s2 = s /\ p2 = p THEN new ELSE q[s2][p2]
  <2>1. new \in Seq(RestingOrder)
    BY <1>2
  <2> QED BY <1>2, <1>3, <2>1 DEF Books
<1>6. Len(q[s][p]) \in Nat
  BY <1>1
<1>7. r[s][p] = new /\ \A s2 \in Sides, p2 \in Prices :
        ~(s2 = s /\ p2 = p) => r[s2][p2] = q[s2][p2]
  BY <1>5
<1>8. \A k \in 1 .. Len(r[s][p]) :
        r[s][p][k].id = id \/ \E j \in 1 .. Len(q[s][p]) : r[s][p][k] = q[s][p][j]
  BY <1>2, <1>4, <1>6, <1>7
<1>9. Book!Places(r) = Book!Places(q) \cup {<<s, p, Len(q[s][p]) + 1>>}
  <2>1. ASSUME NEW place \in Book!Places(r)
        PROVE  place \in Book!Places(q) \cup {<<s, p, Len(q[s][p]) + 1>>}
    <3>1. /\ place = <<place[1], place[2], place[3]>>
          /\ place[1] \in Sides /\ place[2] \in Prices
          /\ place[3] \in 1 .. Len(r[place[1]][place[2]])
      BY <1>5, PlaceFacts
    <3>2. CASE place[1] = s /\ place[2] = p
      <4>1. place[3] \in 1 .. Len(q[s][p]) \/ place[3] = Len(q[s][p]) + 1
        BY <1>2, <1>6, <1>7, <3>1, <3>2
      <4> QED BY <3>1, <3>2, <4>1, PlacesFacts
    <3>3. CASE ~(place[1] = s /\ place[2] = p)
      <4>1. r[place[1]][place[2]] = q[place[1]][place[2]]
        BY <1>7, <3>1, <3>3
      <4> QED BY <3>1, <4>1, PlacesFacts
    <3> QED BY <3>2, <3>3
  <2>2. ASSUME NEW place \in Book!Places(q) PROVE place \in Book!Places(r)
    <3>1. /\ place = <<place[1], place[2], place[3]>>
          /\ place[1] \in Sides /\ place[2] \in Prices
          /\ place[3] \in 1 .. Len(q[place[1]][place[2]])
      BY PlaceFacts
    <3>2. place[3] \in 1 .. Len(r[place[1]][place[2]])
      BY <1>2, <1>6, <1>7, <3>1
    <3> QED BY <1>5, <3>1, <3>2, PlacesFacts
  <2>3. <<s, p, Len(q[s][p]) + 1>> \in Book!Places(r)
    <3>1. Len(q[s][p]) + 1 \in 1 .. Len(r[s][p])
      BY <1>2, <1>6, <1>7
    <3> QED BY <1>5, <3>1, PlacesFacts
  <2> QED BY <2>1, <2>2, <2>3
<1> QED BY <1>5, <1>7, <1>8, <1>9

-----------------------------------------------------------------------------
(* A good book: no order in it is newer than the newest id, it is not crossed,   *)
(* and it has the capacity for what is in it.                                    *)

UpTo(q, newest) ==
  \A s \in Sides, p \in Prices : \A k \in 1 .. Len(q[s][p]) : q[s][p][k].id <= newest

Uncrossed(q) ==
  \A bid \in Prices, ask \in Prices :
    q["Bid"][bid] # <<>> /\ q["Ask"][ask] # <<>> => bid < ask

Fits(q) == IsFiniteSet(Book!Places(q)) /\ Cardinality(Book!Places(q)) <= MaxOrders

GoodBook(q, newest) == q \in Books /\ UpTo(q, newest) /\ Uncrossed(q) /\ Fits(q)

LEMMA QueueFacts ==
  ASSUME NEW q \in Books, NEW s \in Sides, NEW p \in Prices
  PROVE  /\ q[s][p] \in Seq(RestingOrder)
         /\ Len(q[s][p]) \in Nat
         /\ q[s][p] # <<>> <=> Len(q[s][p]) > 0
         /\ \A k \in 1 .. Len(q[s][p]) : q[s][p][k].id \in Nat
<1>1. q[s][p] \in Seq(RestingOrder)
  BY DEF Books
<1>2. \A k \in 1 .. Len(q[s][p]) : q[s][p][k] \in RestingOrder
  BY <1>1
<1>3. q[s][p] # <<>> <=> Len(q[s][p]) > 0
  BY <1>1, EmptySeq
<1> QED BY <1>1, <1>2, <1>3, SMTT(20) DEF RestingOrder

LEMMA EmptyIsGood == GoodBook(NoBook, 0)
<1>1. /\ NoBook \in Books
      /\ \A s \in Sides, p \in Prices : NoBook[s][p] = <<>>
  BY DEF NoBook, Books, Book!Sides, Sides
<1>2. \A s \in Sides, p \in Prices : Len(NoBook[s][p]) = 0
  BY <1>1
<1>3. Book!Places(NoBook) = {}
  <2> SUFFICES ASSUME NEW place \in Book!Places(NoBook) PROVE FALSE
    OBVIOUS
  <2> QED BY <1>1, <1>2, PlaceFacts
<1>4. Fits(NoBook)
  BY <1>3, FS_EmptySet, MatcherAssumption DEF Fits
<1>5. UpTo(NoBook, 0)
  BY <1>2 DEF UpTo
<1>6. Uncrossed(NoBook)
  BY <1>1 DEF Uncrossed, Sides
<1> QED BY <1>1, <1>4, <1>5, <1>6 DEF GoodBook

LEMMA NewerIsGood ==
  ASSUME NEW q, NEW m \in Nat, NEW n \in Nat, m <= n, GoodBook(q, m)
  PROVE  GoodBook(q, n)
<1>1. \A s \in Sides, p \in Prices : \A k \in 1 .. Len(q[s][p]) : q[s][p][k].id \in Nat
  BY QueueFacts DEF GoodBook
<1>2. UpTo(q, n)
  BY <1>1 DEF GoodBook, UpTo
<1> QED BY <1>2 DEF GoodBook

LEMMA WithinIsGood ==
  ASSUME NEW q, NEW r \in Books, NEW n \in Nat, Within(r, q), GoodBook(q, n)
  PROVE  /\ GoodBook(r, n)
         /\ Cardinality(Book!Places(r)) \in Nat /\ Cardinality(Book!Places(q)) \in Nat
         /\ Cardinality(Book!Places(r)) <= Cardinality(Book!Places(q))
         /\ (\E place \in Book!Places(q) : place \notin Book!Places(r)) =>
              Cardinality(Book!Places(r)) < Cardinality(Book!Places(q))
<1>1. q \in Books /\ UpTo(q, n) /\ Uncrossed(q) /\ Fits(q)
  BY DEF GoodBook
<1>2. \A s \in Sides, p \in Prices : Len(r[s][p]) <= Len(q[s][p])
  BY DEF Within
<1>3. Book!Places(r) \subseteq Book!Places(q)
  <2> SUFFICES ASSUME NEW place \in Book!Places(r) PROVE place \in Book!Places(q)
    OBVIOUS
  <2>1. /\ place = <<place[1], place[2], place[3]>>
        /\ place[1] \in Sides /\ place[2] \in Prices
        /\ place[3] \in 1 .. Len(r[place[1]][place[2]])
    BY PlaceFacts
  <2>2. /\ Len(r[place[1]][place[2]]) \in Nat /\ Len(q[place[1]][place[2]]) \in Nat
        /\ Len(r[place[1]][place[2]]) <= Len(q[place[1]][place[2]])
    BY <1>1, <1>2, <2>1, QueueFacts
  <2>3. place[3] \in 1 .. Len(q[place[1]][place[2]])
    BY <2>1, <2>2
  <2> QED BY <1>1, <2>1, <2>3, PlacesFacts
<1>4. /\ IsFiniteSet(Book!Places(r))
      /\ Cardinality(Book!Places(r)) <= Cardinality(Book!Places(q))
      /\ Cardinality(Book!Places(q)) = Cardinality(Book!Places(r)) =>
           Book!Places(q) = Book!Places(r)
  BY <1>1, <1>3, FS_Subset DEF Fits
<1>5. Cardinality(Book!Places(r)) \in Nat /\ Cardinality(Book!Places(q)) \in Nat
  BY <1>1, <1>4, FS_CardinalityType DEF Fits
<1>6. Fits(r)
  BY <1>1, <1>4, <1>5, MatcherAssumption DEF Fits
<1>7. UpTo(r, n)
  BY <1>1 DEF UpTo, Within
<1>8. Uncrossed(r)
  <2> SUFFICES ASSUME NEW bid \in Prices, NEW ask \in Prices,
                      r["Bid"][bid] # <<>>, r["Ask"][ask] # <<>>
               PROVE  bid < ask
    BY DEF Uncrossed
  <2>1. "Bid" \in Sides /\ "Ask" \in Sides
    BY DEF Sides
  <2>2. q["Bid"][bid] # <<>>
    <3>1. Len(r["Bid"][bid]) > 0 /\ Len(r["Bid"][bid]) <= Len(q["Bid"][bid])
      BY <1>2, <2>1, QueueFacts
    <3> QED BY <1>1, <2>1, <3>1, QueueFacts
  <2>3. q["Ask"][ask] # <<>>
    <3>1. Len(r["Ask"][ask]) > 0 /\ Len(r["Ask"][ask]) <= Len(q["Ask"][ask])
      BY <1>2, <2>1, QueueFacts
    <3> QED BY <1>1, <2>1, <3>1, QueueFacts
  <2> QED BY <1>1, <2>2, <2>3 DEF Uncrossed
<1>9. (\E place \in Book!Places(q) : place \notin Book!Places(r)) =>
        Cardinality(Book!Places(r)) < Cardinality(Book!Places(q))
  BY <1>4, <1>5
<1> QED BY <1>4, <1>5, <1>6, <1>7, <1>8, <1>9 DEF GoodBook

\* What a refused restore leaves of a book is the beginning of every queue.
LEMMA RestoredPrefix ==
  ASSUME NEW q \in Books, NEW place \in Book!Places(q), NEW r, r = RestoredBefore(q, place)
  PROVE  /\ r \in Books
         /\ \A s \in Sides, p \in Prices :
              /\ Len(r[s][p]) <= Len(q[s][p])
              /\ \A k \in 1 .. Len(r[s][p]) :
                   k \in 1 .. Len(q[s][p]) /\ r[s][p][k] = q[s][p][k]
<1>1. ASSUME NEW f \in Seq(RestingOrder), NEW n \in 0 .. Len(f), NEW g,
             g = SubSeq(f, 1, n) \/ g = f \/ g = <<>>
      PROVE  /\ g \in Seq(RestingOrder) /\ Len(g) <= Len(f)
             /\ \A k \in 1 .. Len(g) : k \in 1 .. Len(f) /\ g[k] = f[k]
  <2>1. CASE g = SubSeq(f, 1, n)
    BY <2>1
  <2>2. CASE g = f
    BY <2>2
  <2>3. CASE g = <<>>
    BY <2>3
  <2> QED BY <1>1, <2>1, <2>2, <2>3, Zenon
<1>2. ASSUME NEW s \in Sides, NEW p \in Prices
      PROVE  /\ r[s][p] \in Seq(RestingOrder) /\ Len(r[s][p]) <= Len(q[s][p])
             /\ \A k \in 1 .. Len(r[s][p]) :
                  k \in 1 .. Len(q[s][p]) /\ r[s][p][k] = q[s][p][k]
  <2>1. PICK f \in Seq(RestingOrder) : f = q[s][p]
    BY DEF Books
  <2>2. r[s][p] = IF s = place[1] /\ p = place[2] THEN SubSeq(f, 1, place[3] - 1)
                  ELSE IF \/ s = "Bid" /\ place[1] = "Ask"
                          \/ s = place[1] /\ p < place[2] THEN f
                  ELSE <<>>
    BY <2>1, Zenon DEF RestoredBefore, Book!Sides, Sides
  <2>3. s = place[1] /\ p = place[2] => place[3] - 1 \in 0 .. Len(f)
    <3>1. place[3] \in 1 .. Len(q[place[1]][place[2]])
      BY PlaceFacts
    <3>2. Len(f) \in Nat
      OBVIOUS
    <3> QED BY <2>1, <3>1, <3>2
  <2>4. PICK n \in 0 .. Len(f) :
          r[s][p] = SubSeq(f, 1, n) \/ r[s][p] = f \/ r[s][p] = <<>>
    <3>1. CASE s = place[1] /\ p = place[2]
      <4>1. place[3] - 1 \in 0 .. Len(f) /\ r[s][p] = SubSeq(f, 1, place[3] - 1)
        BY <2>2, <2>3, <3>1, Zenon
      <4> QED BY <4>1, Zenon
    <3>2. CASE ~(s = place[1] /\ p = place[2])
      <4>1. r[s][p] = f \/ r[s][p] = <<>>
        BY <2>2, <3>2, Zenon
      <4>2. 0 \in 0 .. Len(f)
        OBVIOUS
      <4> QED BY <4>1, <4>2, Zenon
    <3> QED BY <3>1, <3>2, Zenon
  <2>5. /\ r[s][p] \in Seq(RestingOrder) /\ Len(r[s][p]) <= Len(f)
        /\ \A k \in 1 .. Len(r[s][p]) : k \in 1 .. Len(f) /\ r[s][p][k] = f[k]
    BY <1>1, <2>4, Zenon
  <2> QED BY <2>1, <2>5, Zenon
<1>3. r = [s \in Sides |-> [p \in Prices |-> r[s][p]]]
  <2>1. \A s \in Sides : r[s] = [p \in Prices |-> r[s][p]]
    BY Zenon DEF RestoredBefore, Book!Sides, Sides
  <2>2. r = [s \in Sides |-> r[s]]
    BY Zenon DEF RestoredBefore, Book!Sides, Sides
  <2> QED BY <2>1, <2>2
<1>4. r \in Books
  BY <1>2, <1>3 DEF Books
<1> QED BY <1>2, <1>4

\* The books a refused restore may leave.
LEMMA RefusedRestore ==
  ASSUME NEW of, NEW r \in RefusedRestores(of)
  PROVE  \E image \in store : \E place \in Book!Places(image.book) :
           r = RestoredBefore(image.book, place)
BY DEF RefusedRestores

LEMMA RefusedIsGood ==
  ASSUME NEW q, NEW n \in Nat, GoodBook(q, n), NEW place \in Book!Places(q),
         NEW r, r = RestoredBefore(q, place)
  PROVE  GoodBook(r, n)
<1>1. q \in Books
  BY DEF GoodBook
<1>2. /\ r \in Books
      /\ \A s \in Sides, p \in Prices :
           /\ Len(r[s][p]) <= Len(q[s][p])
           /\ \A k \in 1 .. Len(r[s][p]) :
                k \in 1 .. Len(q[s][p]) /\ r[s][p][k] = q[s][p][k]
  BY <1>1, RestoredPrefix
<1>3. Within(r, q)
  BY <1>2, Zenon DEF Within
<1> QED BY <1>2, <1>3, WithinIsGood

\* An order may rest that crosses no order of the other side, if there is room.
LEMMA RestedIsGood ==
  ASSUME NEW q, NEW n \in Nat, GoodBook(q, n), Cardinality(Book!Places(q)) < MaxOrders,
         NEW s \in Sides, NEW p \in Prices, NEW id \in Nat, id <= n, NEW quantity \in Nat,
         \A p2 \in Prices : q[Opposite(s)][p2] # <<>> => ~Crosses(s, p, p2),
         NEW r, r = Book!Rested(q, id, s, p, quantity)
  PROVE  GoodBook(r, n)
<1>1. q \in Books /\ UpTo(q, n) /\ Uncrossed(q) /\ Fits(q)
  BY DEF GoodBook
<1>2. /\ r \in Books
      /\ Book!Places(r) = Book!Places(q) \cup {<<s, p, Len(q[s][p]) + 1>>}
      /\ \A s2 \in Sides, p2 \in Prices :
           ~(s2 = s /\ p2 = p) => r[s2][p2] = q[s2][p2]
      /\ \A k \in 1 .. Len(r[s][p]) :
           r[s][p][k].id = id \/ \E j \in 1 .. Len(q[s][p]) : r[s][p][k] = q[s][p][j]
  BY <1>1, RestedFacts
<1>3. Fits(r)
  <2>1. Cardinality(Book!Places(q)) \in Nat
    BY <1>1, FS_CardinalityType DEF Fits
  <2>2. \A T, x : IsFiniteSet(T) =>
          /\ IsFiniteSet(T \cup {x})
          /\ Cardinality(T \cup {x}) = IF x \in T THEN Cardinality(T)
                                      ELSE Cardinality(T) + 1
    BY FS_AddElement
  <2>3. /\ IsFiniteSet(Book!Places(r))
        /\ \/ Cardinality(Book!Places(r)) = Cardinality(Book!Places(q))
           \/ Cardinality(Book!Places(r)) = Cardinality(Book!Places(q)) + 1
    BY <1>1, <1>2, <2>2, ZenonT(30) DEF Fits
  <2> QED BY <2>1, <2>3, MatcherAssumption DEF Fits
<1>4. UpTo(r, n)
  <2> SUFFICES ASSUME NEW s2 \in Sides, NEW p2 \in Prices, NEW k \in 1 .. Len(r[s2][p2])
               PROVE  r[s2][p2][k].id <= n
    BY DEF UpTo
  <2>1. CASE s2 = s /\ p2 = p
    BY <1>1, <1>2, <2>1 DEF UpTo
  <2>2. CASE ~(s2 = s /\ p2 = p)
    BY <1>1, <1>2, <2>2 DEF UpTo
  <2> QED BY <2>1, <2>2
<1>5. Uncrossed(r)
  <2> SUFFICES ASSUME NEW bid \in Prices, NEW ask \in Prices,
                      r["Bid"][bid] # <<>>, r["Ask"][ask] # <<>>
               PROVE  bid < ask
    BY DEF Uncrossed
  <2>1. bid \in Nat /\ ask \in Nat
    BY MatcherAssumption
  <2>2. CASE s = "Bid"
    <3>1. r["Ask"][ask] = q["Ask"][ask] /\ (bid # p => r["Bid"][bid] = q["Bid"][bid])
      BY <1>2, <2>2 DEF Sides
    <3>2. CASE bid = p
      BY <2>1, <2>2, <3>1, <3>2 DEF Opposite, Crosses
    <3>3. CASE bid # p
      BY <1>1, <3>1, <3>3 DEF Uncrossed
    <3> QED BY <3>2, <3>3
  <2>3. CASE s = "Ask"
    <3>1. r["Bid"][bid] = q["Bid"][bid] /\ (ask # p => r["Ask"][ask] = q["Ask"][ask])
      BY <1>2, <2>3 DEF Sides
    <3>2. CASE ask = p
      BY <2>1, <2>3, <3>1, <3>2 DEF Opposite, Crosses
    <3>3. CASE ask # p
      BY <1>1, <3>1, <3>3 DEF Uncrossed
    <3> QED BY <3>2, <3>3
  <2> QED BY <2>2, <2>3 DEF Sides
<1> QED BY <1>2, <1>3, <1>4, <1>5 DEF GoodBook

\* The best order of a side rests.
LEMMA BestFacts ==
  ASSUME book \in Books, NEW s \in Sides, Book!ActivePrices(s) # {}
  PROVE  Book!Best(s) \in RestingOrder
<1>1. Book!BestPrice(s) \in Prices /\ book[s][Book!BestPrice(s)] # <<>>
  BY BestPriceIsBest DEF Book!ActivePrices
<1>2. book[s][Book!BestPrice(s)] \in Seq(RestingOrder)
  BY <1>1, QueueFacts
<1> QED BY <1>1, <1>2, HeadTailProperties DEF Book!Best

-----------------------------------------------------------------------------
(* The matcher and the book.                                                 *)

NewOrders == [id : Nat \ {0}, side : Sides, price : Nat, quantity : Nat]
Messages == [type : {"NewLimit"}, order : NewOrders]
              \cup [type : {"LoadSnapshot"}, of : Int]
              \cup [type : {"SaveSnapshot", "Shutdown", "StartReplay", "StopReplay",
                            "None"}]

TypeInv ==
  /\ lastOrderId \in Nat /\ nextEventSequence \in Nat
  /\ liveResumeEventSequence \in Nat /\ deferredEventSequence \in Nat
  /\ replayMode \in {"Live", "Replay", "Restoring"}
  /\ deferredMode \in {"None", "Live", "Restoring"}
  /\ phase \in {"Idle", "Match", "MakerDone", "Finish"}
  /\ remaining \in Nat
  /\ wal \in Seq(Messages) /\ command.message \in Messages
  /\ \A image \in store :
       image.of \in Int /\ image.nextEventSequence \in Nat /\ image.lastOrderId \in Nat

\* The book of the matcher and those in the snapshot store are good.  A load that has
\* failed may leave orders that are newer than the last one.
BooksGood ==
  /\ \E newest \in Nat : GoodBook(book, newest)
  /\ fatalReason = "None" => GoodBook(book, lastOrderId)
  /\ \A image \in store : GoodBook(image.book, image.lastOrderId)

\* The order being matched is newer than those that rest; and once it has traded,
\* having left something of itself, it has emptied a place.
Matching ==
  phase \in {"Match", "MakerDone"} =>
    /\ command.message.type = "NewLimit"
    /\ Order.id = lastOrderId
    /\ remaining <= Order.quantity
    /\ GoodBook(book, lastOrderId - 1)
    /\ remaining # 0 /\ remaining # Order.quantity =>
         Cardinality(Book!Places(book)) < MaxOrders

BookInv == TypeInv /\ BooksGood /\ Matching /\ RestAlwaysFits

LEMMA OrderType ==
  ASSUME NEW message \in Messages, message.type = "NewLimit"
  PROVE  message.order \in NewOrders
BY DEF Messages

\* An order that has nothing left to trade with crosses no order of the other side.
LEMMA NoCross ==
  ASSUME book \in Books, ~CanTrade, remaining # 0, Order \in NewOrders
  PROVE  \A p \in Prices : book[Opposite(Order.side)][p] # <<>> =>
                             ~Crosses(Order.side, Order.price, p)
<1> DEFINE s == Opposite(Order.side)
<1> SUFFICES ASSUME NEW p \in Prices, book[s][p] # <<>>
             PROVE  ~Crosses(Order.side, Order.price, p)
  OBVIOUS
<1>1. s \in Sides /\ Order.side \in Sides /\ Order.price \in Nat
  BY DEF NewOrders, Opposite, Sides
<1>2. p \in Book!ActivePrices(s)
  BY DEF Book!ActivePrices
<1>3. /\ Book!BestPrice(s) \in Prices
      /\ Book!AtLeastAsGood(s, Book!BestPrice(s), p)
  BY <1>1, <1>2, BestPriceIsBest DEF Book!ActivePrices
<1>4. ~Crosses(Order.side, Order.price, Book!BestPrice(s))
  BY <1>2 DEF CanTrade
<1>5. p \in Nat /\ Book!BestPrice(s) \in Nat
  BY <1>3, MatcherAssumption
<1> QED BY <1>1, <1>3, <1>4, <1>5 DEF Crosses, Book!AtLeastAsGood, Opposite, Sides

\* The rest of an order goes into the book.
LEMMA RestKeeps ==
  ASSUME BookInv, phase = "Match", ~CanTrade, remaining # 0, CanRest,
         Book!Rest(book, Order.id, Order.side, Order.price, remaining)
  PROVE  GoodBook(book', lastOrderId)
<1>1. Order \in NewOrders /\ Order.id = lastOrderId
  BY OrderType DEF BookInv, TypeInv, Matching, Order
<1>2. book \in Books /\ GoodBook(book, lastOrderId)
  <2>1. lastOrderId - 1 \in Nat /\ lastOrderId \in Nat /\ lastOrderId - 1 <= lastOrderId
    BY <1>1 DEF NewOrders
  <2>2. GoodBook(book, lastOrderId - 1)
    BY DEF BookInv, Matching
  <2> QED BY <2>1, <2>2, NewerIsGood DEF GoodBook
<1>3. \A p \in Prices : book[Opposite(Order.side)][p] # <<>> =>
                          ~Crosses(Order.side, Order.price, p)
  BY <1>1, <1>2, NoCross
<1>4. /\ lastOrderId \in Nat /\ remaining \in Nat /\ Order.side \in Sides
      /\ Order.price \in Prices /\ Order.id \in Nat /\ Order.id <= lastOrderId
      /\ Cardinality(Book!Places(book)) < MaxOrders
  BY <1>1 DEF BookInv, TypeInv, NewOrders, CanRest
<1>5. book' = Book!Rested(book, Order.id, Order.side, Order.price, remaining)
  BY DEF Book!Rest
<1> QED BY <1>2, <1>3, <1>4, <1>5, RestedIsGood

LEMMA BookInit == Init => BookInv
<1> SUFFICES ASSUME Init PROVE BookInv
  OBVIOUS
<1>1. TypeInv
  BY DEF Init, TypeInv, Messages, None
<1>2. BooksGood
  <2>1. 0 \in Nat /\ GoodBook(book, 0) /\ lastOrderId = 0 /\ store = {}
    BY EmptyIsGood DEF Init
  <2> QED BY <2>1 DEF BooksGood
<1>3. Matching /\ RestAlwaysFits
  BY DEF Init, Matching, RestAlwaysFits
<1> QED BY <1>1, <1>2, <1>3 DEF BookInv

\* The first part of every command, up to its first publication.
LEMMA CommandKeepsBook ==
  ASSUME BookInv, NEW sequence \in Int, NEW replayed, NEW message \in Messages,
         Begin(sequence, replayed, message), Dispatch(sequence, message),
         wal' \in Seq(Messages)
  PROVE  BookInv'
<1>1. /\ phase = "Idle" /\ fatalReason = "None"
      /\ command'.message = message
  BY DEF Begin, Idle, Fatal
<1>2. CASE message.type = "NewLimit" /\ NewLimit(message.order)
  <2> DEFINE o == message.order
  <2>1. o \in NewOrders /\ o.id \in Nat /\ o.id > 0 /\ o.quantity \in Nat
    BY <1>2, OrderType DEF NewOrders
  <2>2. /\ book' = book /\ store' = store
        /\ liveResumeEventSequence' = liveResumeEventSequence
        /\ deferredEventSequence' = deferredEventSequence
        /\ replayMode' = replayMode /\ deferredMode' = deferredMode
        /\ nextEventSequence' = nextEventSequence
    BY <1>2 DEF NewLimit, replayVars, AddFirst
  <2>3. /\ lastOrderId' = lastOrderId \/ (lastOrderId' = o.id /\ o.id > lastOrderId)
        /\ remaining' = remaining \/ remaining' = o.quantity
        /\ phase' \in {"Finish", "Match"}
        /\ phase' = "Match" => /\ remaining' = o.quantity
                               /\ lastOrderId' = o.id /\ o.id > lastOrderId
        /\ fatalReason' \in {"None", "NonMonotonicOrderId"}
    BY <1>1, <1>2, <2>1 DEF NewLimit, Stale, Consume, Healthy, Terminal, BookInv, TypeInv
  <2>4. lastOrderId \in Nat /\ lastOrderId' \in Nat /\ lastOrderId <= lastOrderId'
    BY <2>1, <2>3 DEF BookInv, TypeInv
  <2>5. GoodBook(book, lastOrderId) /\ \A image \in store : GoodBook(image.book, image.lastOrderId)
    BY <1>1 DEF BookInv, BooksGood
  <2>6. TypeInv'
    BY <1>1, <2>1, <2>2, <2>3, <2>4 DEF BookInv, TypeInv
  <2>7. BooksGood'
    <3>1. GoodBook(book, lastOrderId')
      BY <2>4, <2>5, NewerIsGood
    <3> QED BY <2>2, <2>4, <2>5, <3>1 DEF BooksGood
  <2>8. Matching'
    <3> SUFFICES ASSUME phase' = "Match"
                 PROVE  /\ command'.message.type = "NewLimit"
                        /\ Order'.id = lastOrderId'
                        /\ remaining' <= Order'.quantity
                        /\ GoodBook(book', lastOrderId' - 1)
                        /\ remaining' # 0 /\ remaining' # Order'.quantity =>
                             Cardinality(Book!Places(book')) < MaxOrders
      BY <2>3 DEF Matching
    <3>1. Order' = o
      BY <1>1 DEF Order
    <3>2. lastOrderId' - 1 \in Nat /\ lastOrderId <= lastOrderId' - 1
      <4>1. lastOrderId' = o.id /\ o.id > lastOrderId
        BY <2>3
      <4> QED BY ONLY <2>1, <2>4, <4>1
    <3>3. GoodBook(book, lastOrderId' - 1)
      BY <2>4, <2>5, <3>2, NewerIsGood
    <3> QED BY <1>1, <1>2, <2>1, <2>2, <2>3, <3>1, <3>3
  <2>9. RestAlwaysFits'
    BY <2>3 DEF RestAlwaysFits
  <2> QED BY <2>6, <2>7, <2>8, <2>9 DEF BookInv
<1>3. CASE message.type = "SaveSnapshot" /\ SaveSnapshot(sequence)
  <2>1. /\ book' = book /\ lastOrderId' = lastOrderId /\ remaining' = remaining
        /\ liveResumeEventSequence' = liveResumeEventSequence
        /\ deferredEventSequence' = deferredEventSequence
        /\ replayMode' = replayMode /\ deferredMode' = deferredMode
        /\ nextEventSequence' = nextEventSequence
        /\ phase' = "Finish"
        /\ fatalReason' \in {"None", "SnapshotCaptureFailed"}
    BY <1>1, <1>3 DEF SaveSnapshot, replayVars, AddFirst, Healthy, Terminal
  <2>2. \A image \in store' :
          \/ image \in store
          \/ image = [of |-> sequence, lastOrderId |-> lastOrderId,
                      nextEventSequence |-> CaptureSequence, book |-> book]
    BY <1>3 DEF SaveSnapshot
  <2>3. CaptureSequence \in Nat
    BY DEF CaptureSequence, BookInv, TypeInv
  <2>4. \A image \in store' :
          /\ image.of \in Int /\ image.nextEventSequence \in Nat
          /\ image.lastOrderId \in Nat /\ GoodBook(image.book, image.lastOrderId)
    <3> TAKE image \in store'
    <3>1. CASE image \in store
      BY <3>1 DEF BookInv, TypeInv, BooksGood
    <3>2. CASE image = [of |-> sequence, lastOrderId |-> lastOrderId,
                        nextEventSequence |-> CaptureSequence, book |-> book]
      BY <1>1, <2>3, <3>2 DEF BookInv, TypeInv, BooksGood
    <3> QED BY <2>2, <3>1, <3>2
  <2>5. TypeInv'
    BY <1>1, <2>1, <2>4 DEF BookInv, TypeInv
  <2>6. BooksGood'
    <3>1. GoodBook(book', lastOrderId') /\ lastOrderId' \in Nat
      BY <1>1, <2>1 DEF BookInv, BooksGood, TypeInv
    <3> QED BY <2>4, <3>1 DEF BooksGood
  <2>7. Matching' /\ RestAlwaysFits'
    BY <2>1 DEF Matching, RestAlwaysFits
  <2> QED BY <2>5, <2>6, <2>7 DEF BookInv
<1>4. CASE message.type = "LoadSnapshot" /\ LoadSnapshot(message.of)
  <2>1. /\ store' = store /\ remaining' = remaining
        /\ liveResumeEventSequence' = liveResumeEventSequence
        /\ replayMode' = replayMode /\ nextEventSequence' = nextEventSequence
        /\ phase' = "Finish"
    BY <1>4 DEF LoadSnapshot, AddFirst
  <2>2. \/ \E image \in store : LoadState(image) /\ LoadDeferred(image) /\ Healthy
        \/ /\ book' \in {book, NoBook} \cup RefusedRestores(message.of)
           /\ lastOrderId' = lastOrderId
           /\ deferredEventSequence' = deferredEventSequence
           /\ deferredMode' = deferredMode
           /\ fatalReason' \in {"SnapshotLoadUnavailable", "SnapshotLoadInvalid"}
    BY <1>4 DEF LoadSnapshot, Terminal
  <2>3. CASE \E image \in store : LoadState(image) /\ LoadDeferred(image) /\ Healthy
    <3>1. PICK image \in store : LoadState(image) /\ LoadDeferred(image) /\ Healthy
      BY <2>3
    <3>2. GoodBook(book', lastOrderId') /\ lastOrderId' \in Nat /\ fatalReason' = "None"
      BY <1>1, <3>1 DEF LoadState, Healthy, BookInv, TypeInv, BooksGood
    <3>3. deferredEventSequence' \in Nat /\ deferredMode' \in {"None", "Live", "Restoring"}
      BY <3>1 DEF LoadDeferred, BookInv, TypeInv
    <3>4. TypeInv'
      BY <1>1, <2>1, <3>2, <3>3 DEF BookInv, TypeInv
    <3>5. BooksGood'
      BY <2>1, <3>2 DEF BookInv, BooksGood
    <3>6. Matching' /\ RestAlwaysFits'
      BY <2>1, <3>2 DEF Matching, RestAlwaysFits
    <3> QED BY <3>4, <3>5, <3>6 DEF BookInv
  <2>4. CASE /\ book' \in {book, NoBook} \cup RefusedRestores(message.of)
             /\ lastOrderId' = lastOrderId
             /\ deferredEventSequence' = deferredEventSequence
             /\ deferredMode' = deferredMode
             /\ fatalReason' \in {"SnapshotLoadUnavailable", "SnapshotLoadInvalid"}
    <3>1. \E newest \in Nat : GoodBook(book', newest)
      <4>1. CASE book' = book
        BY <4>1 DEF BookInv, BooksGood
      <4>2. CASE book' = NoBook
        BY <4>2, EmptyIsGood
      <4>3. CASE book' \in RefusedRestores(message.of)
        <5>1. PICK image \in store : \E place \in Book!Places(image.book) :
                book' = RestoredBefore(image.book, place)
          BY <4>3, RefusedRestore
        <5>2. GoodBook(image.book, image.lastOrderId) /\ image.lastOrderId \in Nat
          BY DEF BookInv, BooksGood, TypeInv
        <5>3. GoodBook(book', image.lastOrderId)
          BY <5>1, <5>2, RefusedIsGood
        <5> QED BY <5>2, <5>3
      <4> QED BY <2>4, <4>1, <4>2, <4>3
    <3>2. TypeInv'
      BY <1>1, <2>1, <2>4 DEF BookInv, TypeInv
    <3>3. BooksGood'
      BY <2>1, <2>4, <3>1 DEF BookInv, BooksGood
    <3>4. Matching' /\ RestAlwaysFits'
      BY <2>1, <2>4 DEF Matching, RestAlwaysFits
    <3> QED BY <3>2, <3>3, <3>4 DEF BookInv
  <2> QED BY <2>2, <2>3, <2>4
<1>5. CASE message.type \in Signals /\ Signal(message.type)
  <2>1. /\ book' = book /\ store' = store /\ lastOrderId' = lastOrderId
        /\ remaining' = remaining
        /\ liveResumeEventSequence' = liveResumeEventSequence
        /\ deferredEventSequence' = deferredEventSequence
        /\ replayMode' = replayMode /\ nextEventSequence' = nextEventSequence
        /\ deferredMode' \in {deferredMode, "Restoring"}
        /\ phase' = "Finish" /\ fatalReason' = "None"
    BY <1>1, <1>5 DEF Signal, AddFirst
  <2>2. TypeInv'
    BY <1>1, <2>1 DEF BookInv, TypeInv
  <2>3. BooksGood'
    <3>1. GoodBook(book', lastOrderId') /\ lastOrderId' \in Nat
      BY <1>1, <2>1 DEF BookInv, BooksGood, TypeInv
    <3> QED BY <2>1, <3>1 DEF BookInv, BooksGood
  <2>4. Matching' /\ RestAlwaysFits'
    BY <2>1 DEF Matching, RestAlwaysFits
  <2> QED BY <2>2, <2>3, <2>4 DEF BookInv
<1> QED BY <1>2, <1>3, <1>4, <1>5 DEF Dispatch

LEMMA TradeKeepsBook ==
  ASSUME BookInv, MatchOne
  PROVE  BookInv'
<1> DEFINE opposite == Opposite(Order.side)
<1>1. /\ phase = "Match" /\ CanTrade
      /\ remaining' = remaining - Executed
      /\ lastOrderId' = lastOrderId /\ command' = command /\ store' = store /\ wal' = wal
      /\ nextEventSequence' = nextEventSequence + 1
      /\ liveResumeEventSequence' = liveResumeEventSequence
      /\ deferredEventSequence' = deferredEventSequence
      /\ replayMode' = replayMode /\ deferredMode' = deferredMode
      /\ fatalReason' = fatalReason
  BY DEF MatchOne, Add, Publish, Healthy, replayVars, environment
<1>2. /\ Order \in NewOrders /\ Order.quantity \in Nat /\ Order.id = lastOrderId
      /\ lastOrderId \in Nat /\ lastOrderId - 1 \in Nat
      /\ remaining \in Nat /\ remaining <= Order.quantity
      /\ GoodBook(book, lastOrderId - 1) /\ book \in Books
  <2>1. Order \in NewOrders
    BY <1>1, OrderType DEF BookInv, TypeInv, Matching, Order
  <2> QED BY <1>1, <2>1 DEF BookInv, TypeInv, Matching, NewOrders, GoodBook
<1>3. Resting \in RestingOrder /\ Resting.remaining \in Nat
  <2>1. opposite \in Sides
    BY DEF Opposite, Sides
  <2>2. Book!ActivePrices(opposite) # {}
    BY <1>1 DEF CanTrade
  <2> QED BY <1>2, <2>1, <2>2, BestFacts DEF Resting, RestingOrder
<1>4. Executed \in Nat /\ Executed <= remaining /\ Executed <= Resting.remaining
  BY <1>2, <1>3 DEF Executed
<1>5. Executed # Resting.remaining => remaining' = 0
  BY <1>1, <1>2, <1>3 DEF Executed
<1>6. /\ GoodBook(book', lastOrderId - 1)
      /\ phase' \in {"Match", "MakerDone"}
      /\ Executed = Resting.remaining => Cardinality(Book!Places(book')) < MaxOrders
  <2>1. CASE Executed = Resting.remaining
    <3>1. Book!Resting(book, Resting.id) /\ book' = Book!Cancelled(book, Resting.id)
      BY <2>1 DEF MatchOne, Book!Cancel
    <3>2. /\ book' \in Books /\ Within(book', book)
          /\ \E place \in Book!Places(book) : place \notin Book!Places(book')
      BY <1>2, <3>1, CancelledFacts
    <3>3. /\ GoodBook(book', lastOrderId - 1)
          /\ Cardinality(Book!Places(book')) \in Nat
          /\ Cardinality(Book!Places(book)) \in Nat
          /\ Cardinality(Book!Places(book')) < Cardinality(Book!Places(book))
      BY <1>2, <3>2, WithinIsGood
    <3>4. Cardinality(Book!Places(book)) <= MaxOrders
      BY <1>2 DEF GoodBook, Fits
    <3> QED BY <2>1, <3>3, <3>4, MatcherAssumption DEF MatchOne
  <2>2. CASE Executed # Resting.remaining
    <3>1. /\ Book!Resting(book, Resting.id)
          /\ book' = Book!Changed(book, Resting.id, Resting.remaining - Executed)
      BY <2>2 DEF MatchOne, UpdateMaker, Book!Change
    <3>2. Resting.remaining - Executed \in Nat
      BY <1>3, <1>4
    <3>3. book' \in Books /\ Within(book', book)
      BY <1>2, <3>1, <3>2, ChangedFacts
    <3>4. GoodBook(book', lastOrderId - 1)
      BY <1>2, <3>3, WithinIsGood
    <3> QED BY <1>1, <2>2, <3>4 DEF MatchOne
  <2> QED BY <2>1, <2>2
<1>7. TypeInv'
  <2>1. remaining' \in Nat
    BY <1>1, <1>2, <1>4
  <2> QED BY <1>1, <1>6, <2>1 DEF BookInv, TypeInv
<1>8. BooksGood'
  <2>1. GoodBook(book', lastOrderId)
    BY <1>2, <1>6, NewerIsGood
  <2> QED BY <1>1, <1>2, <2>1 DEF BookInv, BooksGood
<1>9. Matching'
  <2>1. Order' = Order /\ command'.message.type = "NewLimit"
    BY <1>1 DEF Order, BookInv, Matching
  <2>2. remaining' <= Order.quantity
    BY <1>1, <1>2, <1>4
  <2>3. remaining' # 0 => Cardinality(Book!Places(book')) < MaxOrders
    BY <1>5, <1>6
  <2> QED BY <1>1, <1>2, <1>6, <2>1, <2>2, <2>3 DEF Matching
<1>10. RestAlwaysFits'
  BY <1>1 DEF BookInv, RestAlwaysFits, Order
<1> QED BY <1>7, <1>8, <1>9, <1>10 DEF BookInv

LEMMA EndKeepsBook ==
  ASSUME BookInv, MatchEnds
  PROVE  BookInv'
<1>1. /\ phase = "Match" /\ ~CanTrade /\ phase' = "Finish"
      /\ remaining' = remaining
      /\ lastOrderId' = lastOrderId /\ command' = command /\ store' = store /\ wal' = wal
      /\ nextEventSequence' = nextEventSequence + 1
      /\ liveResumeEventSequence' = liveResumeEventSequence
      /\ deferredEventSequence' = deferredEventSequence
      /\ replayMode' = replayMode /\ deferredMode' = deferredMode
  BY DEF MatchEnds, Add, Publish, replayVars, environment
<1>2. TypeInv'
  BY <1>1 DEF BookInv, TypeInv
<1>3. GoodBook(book', lastOrderId)
  <2>1. CASE book' = book
    <3>1. Order.id \in Nat \ {0} /\ Order.id = lastOrderId /\ GoodBook(book, lastOrderId - 1)
      BY <1>1, OrderType DEF BookInv, TypeInv, Matching, Order, NewOrders
    <3>2. /\ lastOrderId - 1 \in Nat /\ lastOrderId \in Nat
          /\ lastOrderId - 1 <= lastOrderId
      BY <3>1
    <3> QED BY <2>1, <3>1, <3>2, NewerIsGood
  <2>2. CASE /\ remaining # 0 /\ CanRest
             /\ Book!Rest(book, Order.id, Order.side, Order.price, remaining)
    BY <1>1, <2>2, RestKeeps
  <2> QED BY <2>1, <2>2 DEF MatchEnds
<1>4. BooksGood'
  BY <1>1, <1>3 DEF BookInv, BooksGood, TypeInv
<1>5. Matching'
  BY <1>1 DEF Matching
<1>6. RestAlwaysFits'
  <2>1. CASE fatalReason' = fatalReason
    BY <1>1, <2>1 DEF BookInv, RestAlwaysFits, Order
  <2>2. CASE remaining # 0 /\ ~CanRest /\ remaining # Order.quantity
    <3> SUFFICES ASSUME Order.price \in Prices PROVE FALSE
      BY <1>1 DEF RestAlwaysFits, Order
    <3>1. /\ Order \in NewOrders /\ Order.id = lastOrderId /\ lastOrderId \in Nat
          /\ GoodBook(book, lastOrderId - 1)
          /\ Cardinality(Book!Places(book)) < MaxOrders
      BY <1>1, <2>2, OrderType DEF BookInv, TypeInv, Matching, Order
    <3>2. Book!Resting(book, Order.id)
      BY <2>2, <3>1 DEF CanRest
    <3>3. PICK place \in Book!Places(book) : Book!IsAt(book, Order.id, place)
      BY <3>2 DEF Book!Resting
    <3>4. /\ place[1] \in Sides /\ place[2] \in Prices
          /\ place[3] \in 1 .. Len(book[place[1]][place[2]])
      BY <3>1, PlaceFacts DEF GoodBook
    <3>5. book[place[1]][place[2]][place[3]].id <= lastOrderId - 1
      BY <3>1, <3>4 DEF GoodBook, UpTo
    <3> QED BY <3>1, <3>3, <3>5 DEF Book!IsAt
  <2> QED BY <2>1, <2>2 DEF MatchEnds, Healthy
<1> QED BY <1>2, <1>4, <1>5, <1>6 DEF BookInv

LEMMA OthersKeepBook ==
  ASSUME BookInv, MakerDone \/ AddFails \/ Finish \/ FinishFails \/ ReaderFails
  PROVE  BookInv'
<1>1. CASE MakerDone
  <2>1. /\ phase = "MakerDone" /\ phase' = "Match"
        /\ UNCHANGED <<book, lastOrderId, replayVars, command, remaining, environment,
                       fatalReason>>
        /\ nextEventSequence' = nextEventSequence + 1
    BY <1>1 DEF MakerDone, Add, Publish, Healthy
  <2>2. TypeInv'
    BY <2>1 DEF BookInv, TypeInv, replayVars, environment
  <2>3. BooksGood' /\ RestAlwaysFits'
    BY <2>1 DEF BookInv, BooksGood, RestAlwaysFits, Order, environment
  <2>4. Matching'
    BY <2>1 DEF BookInv, Matching, Order
  <2> QED BY <2>2, <2>3, <2>4 DEF BookInv
<1>2. CASE AddFails
  <2>1. /\ phase' = "Idle" /\ fatalReason' = "EventWriterFatal"
        /\ UNCHANGED <<lastOrderId, nextEventSequence, replayVars, command, remaining,
                       environment>>
    BY <1>2 DEF AddFails, WriterFails
  <2>2. \E newest \in Nat : GoodBook(book', newest)
    <3>1. CASE book' = book
      BY <3>1 DEF BookInv, BooksGood
    <3>2. CASE /\ phase = "Match" /\ ~CanTrade /\ remaining # 0 /\ CanRest
               /\ Book!Rest(book, Order.id, Order.side, Order.price, remaining)
      BY <3>2, RestKeeps DEF BookInv, TypeInv
    <3> QED BY <1>2, <3>1, <3>2 DEF AddFails
  <2>3. TypeInv'
    BY <2>1 DEF BookInv, TypeInv, replayVars, environment
  <2>4. BooksGood'
    BY <2>1, <2>2 DEF BookInv, BooksGood, environment
  <2>5. Matching' /\ RestAlwaysFits'
    BY <2>1 DEF Matching, RestAlwaysFits
  <2> QED BY <2>3, <2>4, <2>5 DEF BookInv
<1>3. CASE Finish
  <2>1. /\ phase' = "Idle"
        /\ UNCHANGED <<book, lastOrderId, command, remaining, environment, fatalReason>>
    BY <1>3 DEF Finish, Healthy
  <2>2. /\ liveResumeEventSequence' \in Nat /\ nextEventSequence' \in Nat
        /\ replayMode' \in {"Live", "Replay", "Restoring"}
        /\ deferredEventSequence' = 0 /\ deferredMode' = "None"
    BY <1>3 DEF Finish, ApplyDeferred, BookInv, TypeInv
  <2>3. TypeInv'
    BY <2>1, <2>2 DEF BookInv, TypeInv, environment
  <2>4. BooksGood' /\ RestAlwaysFits'
    BY <2>1 DEF BookInv, BooksGood, RestAlwaysFits, Order, environment
  <2>5. Matching'
    BY <2>1 DEF Matching
  <2> QED BY <2>3, <2>4, <2>5 DEF BookInv
<1>4. CASE FinishFails
  <2>1. /\ phase' = "Idle" /\ fatalReason' = "EventWriterFatal"
        /\ UNCHANGED <<book, lastOrderId, nextEventSequence, replayVars, command,
                       remaining, environment>>
    BY <1>4 DEF FinishFails, WriterFails
  <2>2. TypeInv'
    BY <2>1 DEF BookInv, TypeInv, replayVars, environment
  <2>3. BooksGood'
    BY <2>1 DEF BookInv, BooksGood, environment
  <2>4. Matching' /\ RestAlwaysFits'
    BY <2>1 DEF Matching, RestAlwaysFits
  <2> QED BY <2>2, <2>3, <2>4 DEF BookInv
<1>5. CASE ReaderFails
  <2>1. /\ fatalReason' = "CommandReaderFatal"
        /\ UNCHANGED <<book, lastOrderId, nextEventSequence, replayVars, frame,
                       environment>>
    BY <1>5 DEF ReaderFails, Terminal
  <2>2. TypeInv'
    BY <2>1 DEF BookInv, TypeInv, replayVars, environment, frame
  <2>3. BooksGood'
    BY <2>1 DEF BookInv, BooksGood, environment
  <2>4. Matching' /\ RestAlwaysFits'
    BY <2>1 DEF BookInv, Matching, Order, RestAlwaysFits, frame
  <2> QED BY <2>2, <2>3, <2>4 DEF BookInv
<1> QED BY <1>1, <1>2, <1>3, <1>4, <1>5

-----------------------------------------------------------------------------
(* The tract.                                                                *)

\* A live command is a message; so is a recorded one.
LEMMA LiveMessageType ==
  ASSUME TypeInv, NEW message \in LiveMessages
  PROVE  message \in Messages
<1>1. Orders \subseteq NewOrders
  BY MatcherAssumption DEF Orders, NewOrders, Sides
<1>2. CASE message \in {[type |-> "NewLimit", order |-> o] : o \in Orders}
  BY <1>1, <1>2 DEF Messages
<1>3. CASE message \in {Message(type) : type \in Controls \ {"LoadSnapshot"}}
  BY <1>3, MatcherAssumption DEF Messages, Message
<1>4. CASE message \in {LoadMessage(image.of) :
                          image \in {i \in store : "LoadSnapshot" \in Controls}}
  BY <1>4 DEF Messages, LoadMessage, TypeInv
<1> QED BY <1>2, <1>3, <1>4 DEF LiveMessages

\* Every step that takes a command: which one, and what becomes of the Command WAL.
Takes(sequence, replayed, message) ==
  /\ sequence \in Int /\ message \in Messages
  /\ Begin(sequence, replayed, message) /\ Dispatch(sequence, message)
  /\ \/ /\ replayMode = "Live" /\ sequence = Len(wal) + 1
        /\ wal' = Append(wal, message)
     \/ replayMode # "Live" /\ wal' = wal

TakesCommand ==
  \/ \E message \in LiveMessages : Live(message)
  \/ \E image \in store : ReplayLoad(image.of)
  \/ ReplayNext \/ ReplayStop \/ Restore

LEMMA CommandTaken ==
  ASSUME TypeInv, TakesCommand
  PROVE  \E sequence, replayed, message : Takes(sequence, replayed, message)
<1>1. Len(wal) + 1 \in Int
  BY DEF TypeInv
<1>2. CASE \E message \in LiveMessages : Live(message)
  <2>1. PICK message \in LiveMessages : Live(message)
    BY <1>2
  <2>2. message \in Messages
    BY LiveMessageType
  <2>3. /\ Begin(Len(wal) + 1, FALSE, message) /\ Dispatch(Len(wal) + 1, message)
        /\ replayMode = "Live" /\ wal' = Append(wal, message)
    BY <2>1, Zenon DEF Live
  <2>4. Takes(Len(wal) + 1, FALSE, message)
    BY <1>1, <2>2, <2>3, Zenon DEF Takes
  <2> QED BY <2>4
<1>3. CASE \E image \in store : ReplayLoad(image.of)
  <2>1. PICK image \in store : ReplayLoad(image.of)
    BY <1>3
  <2> DEFINE message == LoadMessage(image.of)
  <2>2. message \in Messages
    BY DEF LoadMessage, Messages, TypeInv
  <2>3. /\ Begin(Len(wal) + 1, FALSE, message) /\ Dispatch(Len(wal) + 1, message)
        /\ replayMode = "Replay" /\ wal' = wal
    BY <2>1, Zenon DEF ReplayLoad, Control
  <2>4. replayMode # "Live"
    BY <2>3
  <2>5. Takes(Len(wal) + 1, FALSE, message)
    BY <1>1, <2>2, <2>3, <2>4, Zenon DEF Takes
  <2> QED BY <2>5
<1>4. CASE ReplayNext
  <2>1. wal[cursor] \in Messages /\ cursor \in Int
    BY <1>1, <1>4, ElementOfSeq DEF ReplayNext, TypeInv
  <2>2. /\ Begin(cursor, TRUE, wal[cursor]) /\ Dispatch(cursor, wal[cursor])
        /\ replayMode = "Replay" /\ wal' = wal
    BY <1>4, Zenon DEF ReplayNext
  <2>3. replayMode # "Live"
    BY <2>2
  <2>4. Takes(cursor, TRUE, wal[cursor])
    BY <2>1, <2>2, <2>3, Zenon DEF Takes
  <2> QED BY <2>4
<1>5. CASE ReplayStop
  <2> DEFINE message == Message("StopReplay")
  <2>1. message \in Messages
    BY DEF Message, Messages
  <2>2. /\ Begin(Len(wal) + 1, FALSE, message) /\ Dispatch(Len(wal) + 1, message)
        /\ replayMode = "Replay" /\ wal' = wal
    BY <1>5, Zenon DEF ReplayStop, Control
  <2>3. replayMode # "Live"
    BY <2>2
  <2>4. Takes(Len(wal) + 1, FALSE, message)
    BY <1>1, <2>1, <2>2, <2>3, Zenon DEF Takes
  <2> QED BY <2>4
<1>6. CASE Restore
  <2> DEFINE message == LoadMessage(Len(wal) - 1)
  <2>1. message \in Messages
    BY <1>1 DEF LoadMessage, Messages, TypeInv
  <2>2. /\ Begin(Len(wal) + 1, FALSE, message) /\ Dispatch(Len(wal) + 1, message)
        /\ replayMode = "Restoring" /\ wal' = wal
    BY <1>6, Zenon DEF Restore, Control
  <2>3. replayMode # "Live"
    BY <2>2
  <2>4. Takes(Len(wal) + 1, FALSE, message)
    BY <1>1, <2>1, <2>2, <2>3, Zenon DEF Takes
  <2> QED BY <2>4
<1> QED BY <1>2, <1>3, <1>4, <1>5, <1>6 DEF TakesCommand

LEMMA BookStep == BookInv /\ [Next]_vars => BookInv'
<1> SUFFICES ASSUME BookInv, [Next]_vars PROVE BookInv'
  OBVIOUS
<1>1. CASE TakesCommand
  <2>1. PICK sequence, replayed, message : Takes(sequence, replayed, message)
    BY <1>1, CommandTaken DEF BookInv
  <2>2. wal' \in Seq(Messages)
    BY <2>1, AppendProperties DEF Takes, BookInv, TypeInv
  <2> QED BY <2>1, <2>2, CommandKeepsBook DEF Takes
<1>2. CASE MatchOne
  BY <1>2, TradeKeepsBook
<1>3. CASE MatchEnds
  BY <1>3, EndKeepsBook
<1>4. CASE MakerDone \/ AddFails \/ Finish \/ FinishFails \/ ReaderFails
  BY <1>4, OthersKeepBook
<1>5. CASE UNCHANGED vars
  <2>1. TypeInv'
    BY <1>5 DEF vars, replayVars, frame, environment, BookInv, TypeInv
  <2>2. BooksGood'
    BY <1>5 DEF vars, environment, BookInv, BooksGood
  <2>3. Matching' /\ RestAlwaysFits'
    BY <1>5 DEF vars, frame, BookInv, Matching, Order, RestAlwaysFits
  <2> QED BY <2>1, <2>2, <2>3 DEF BookInv
<1> QED BY <1>1, <1>2, <1>3, <1>4, <1>5 DEF Next, TakesCommand

LEMMA BookInvariant == Spec => []BookInv
BY BookInit, BookStep, PTL DEF Spec

\* No command leaves the book crossed, whatever the matcher was stopped in and
\* whatever snapshot it has loaded.
THEOREM UncrossedAlways == Spec => []BookUncrossed
<1>1. BookInv => BookUncrossed
  BY DEF BookInv, BooksGood, GoodBook, Uncrossed, BookUncrossed, Book!ActivePrices
<1> QED BY <1>1, BookInvariant, PTL

\* There is room for what is left of an order that has traded.
THEOREM RestAlwaysFitsAlways == Spec => []RestAlwaysFits
<1>1. BookInv => RestAlwaysFits
  BY DEF BookInv
<1> QED BY <1>1, BookInvariant, PTL

-----------------------------------------------------------------------------
(* The stream of events.                                                     *)

IsStream(events) == \E S : events \in Seq(S)

\* The next live event may be at position d: in the stream of all live events, in
\* its command, and for which command.
Position(sequence, index, cause) ==
  [sequence |-> sequence, index |-> index, cause |-> cause]
NextIs(events, d) ==
  /\ NoLiveBetween(events, 0, Len(events) + 1) => First(d)
  /\ \A k \in 1 .. Len(events) :
       events[k].from = "Live" /\ NoLiveBetween(events, k, Len(events) + 1) =>
         Follows(events[k], d)

LEMMA AppendFacts ==
  ASSUME NEW events, IsStream(events), NEW e, NEW more, more = Append(events, e)
  PROVE  /\ IsStream(more)
         /\ Len(events) \in Nat /\ Len(more) = Len(events) + 1
         /\ DOMAIN events = 1 .. Len(events) /\ DOMAIN more = 1 .. Len(events) + 1
         /\ \A k \in 1 .. Len(events) : more[k] = events[k]
         /\ more[Len(events) + 1] = e
<1>1. PICK S : events \in Seq(S)
  BY DEF IsStream
<1> DEFINE T == S \cup {e}
<1>2. events \in Seq(T) /\ e \in T
  BY <1>1, SeqMonotonic
<1> HIDE DEF T
<1>3. /\ more \in Seq(T) /\ Len(more) = Len(events) + 1
      /\ \A k \in 1 .. Len(events) : more[k] = events[k]
      /\ more[Len(events) + 1] = e
  BY <1>2, AppendProperties
<1>4. /\ Len(events) \in Nat /\ DOMAIN events = 1 .. Len(events)
      /\ DOMAIN more = 1 .. Len(more)
  BY <1>2, <1>3, LenProperties
<1> QED BY <1>3, <1>4 DEF IsStream

\* A live event that is where the next one may be keeps the order, and the one
\* after it may follow it.
LEMMA AppendLive ==
  ASSUME NEW events, IsStream(events), InOrder(events),
         NEW e, e.from = "Live", NextIs(events, e),
         NEW more, more = Append(events, e)
  PROVE  InOrder(more) /\ \A d : Follows(e, d) => NextIs(more, d)
<1> DEFINE n == Len(events)
<1>1. /\ n \in Nat /\ Len(more) = n + 1
      /\ DOMAIN events = 1 .. n /\ DOMAIN more = 1 .. n + 1
      /\ \A k \in 1 .. n : more[k] = events[k]
      /\ more[n + 1] = e
  BY AppendFacts
<1> HIDE DEF n
<1>2. ASSUME NEW j \in 0 .. n, NEW k \in 1 .. n + 1, j < k
      PROVE  NoLiveBetween(more, j, k) <=> NoLiveBetween(events, j, k)
  BY <1>1, <1>2 DEF NoLiveBetween
<1>3. InOrder(more)
  <2> SUFFICES ASSUME NEW k \in 1 .. n + 1, more[k].from = "Live"
               PROVE  /\ NoLiveBetween(more, 0, k) => First(more[k])
                      /\ \A j \in 1 .. k - 1 :
                           more[j].from = "Live" /\ NoLiveBetween(more, j, k) =>
                             Follows(more[j], more[k])
    BY <1>1 DEF InOrder
  <2>1. NoLiveBetween(more, 0, k) <=> NoLiveBetween(events, 0, k)
    BY <1>1, <1>2
  <2>2. \A j \in 1 .. k - 1 : /\ more[j] = events[j] /\ j \in 1 .. n
                              /\ NoLiveBetween(more, j, k) <=> NoLiveBetween(events, j, k)
    BY <1>1, <1>2
  <2>3. CASE k = n + 1
    BY <1>1, <2>1, <2>2, <2>3 DEF NextIs, n
  <2>4. CASE k # n + 1
    <3>1. k \in DOMAIN events /\ more[k] = events[k]
      BY <1>1, <2>4
    <3> QED BY <2>1, <2>2, <3>1 DEF InOrder
  <2> QED BY <2>3, <2>4
<1>4. ASSUME NEW d, Follows(e, d) PROVE NextIs(more, d)
  <2>1. ASSUME NEW k \in 0 .. n PROVE ~NoLiveBetween(more, k, n + 2)
    <3>1. n + 1 \in k + 1 .. (n + 2) - 1
      BY <1>1
    <3> QED BY <1>1, <3>1 DEF NoLiveBetween
  <2>2. Len(more) + 1 = n + 2
    BY <1>1
  <2>3. ~NoLiveBetween(more, 0, n + 2)
    BY <1>1, <2>1
  <2>4. \A k \in 1 .. n + 1 : NoLiveBetween(more, k, n + 2) => more[k] = e
    BY <1>1, <2>1
  <2> QED BY <1>1, <1>4, <2>2, <2>3, <2>4 DEF NextIs
<1> QED BY <1>3, <1>4

\* Another event makes no difference.
LEMMA AppendOther ==
  ASSUME NEW events, IsStream(events), InOrder(events),
         NEW e, e.from # "Live", NEW more, more = Append(events, e)
  PROVE  InOrder(more) /\ \A d : NextIs(events, d) => NextIs(more, d)
<1> DEFINE n == Len(events)
<1>1. /\ n \in Nat /\ Len(more) = n + 1
      /\ DOMAIN events = 1 .. n /\ DOMAIN more = 1 .. n + 1
      /\ \A k \in 1 .. n : more[k] = events[k]
      /\ more[n + 1] = e
  BY AppendFacts
<1>2. ASSUME NEW j \in 0 .. n, NEW k \in 1 .. n + 1, j < k
      PROVE  NoLiveBetween(more, j, k) <=> NoLiveBetween(events, j, k)
  BY <1>1, <1>2 DEF NoLiveBetween
<1> HIDE DEF n
<1>3. InOrder(more)
  <2> SUFFICES ASSUME NEW k \in 1 .. n + 1, more[k].from = "Live"
               PROVE  /\ NoLiveBetween(more, 0, k) => First(more[k])
                      /\ \A j \in 1 .. k - 1 :
                           more[j].from = "Live" /\ NoLiveBetween(more, j, k) =>
                             Follows(more[j], more[k])
    BY <1>1 DEF InOrder
  <2>1. k \in DOMAIN events /\ k \in 1 .. n /\ more[k] = events[k]
    BY <1>1
  <2>2. NoLiveBetween(more, 0, k) <=> NoLiveBetween(events, 0, k)
    BY <1>1, <1>2
  <2>3. \A j \in 1 .. k - 1 : /\ more[j] = events[j]
                              /\ NoLiveBetween(more, j, k) <=> NoLiveBetween(events, j, k)
    BY <1>1, <1>2
  <2> QED BY <2>1, <2>2, <2>3 DEF InOrder
<1>4. ASSUME NEW d, NextIs(events, d) PROVE NextIs(more, d)
  <2>1. ASSUME NEW k \in 0 .. n, NoLiveBetween(more, k, n + 2)
        PROVE  NoLiveBetween(events, k, n + 1)
    BY <1>1, <2>1 DEF NoLiveBetween
  <2>2. Len(more) + 1 = n + 2
    BY <1>1
  <2>3. NoLiveBetween(more, 0, n + 2) => First(d)
    BY <1>1, <1>4, <2>1 DEF NextIs, n
  <2>4. ASSUME NEW k \in 1 .. n + 1, more[k].from = "Live", NoLiveBetween(more, k, n + 2)
        PROVE  Follows(more[k], d)
    <3>1. k \in 1 .. n /\ more[k] = events[k]
      BY <1>1, <2>4
    <3>2. NoLiveBetween(events, k, n + 1)
      BY <1>1, <2>1, <2>4, <3>1
    <3> QED BY <1>4, <2>4, <3>1, <3>2 DEF NextIs, n
  <2> QED BY <1>1, <2>2, <2>3, <2>4 DEF NextIs
<1> QED BY <1>3, <1>4

\* The event sequence with which live mode goes on.
Resume == IF replayMode = "Live" THEN nextEventSequence ELSE liveResumeEventSequence

\* What Finish will do to the mode.  Only a load in Restoring leads back to live
\* mode, and with the sequence at which live mode was left.
DeferredInv ==
  /\ deferredMode # "None" => replayMode # "Live"
  /\ deferredMode = "Live" => deferredEventSequence = liveResumeEventSequence
  /\ deferredStartReplay => replayMode = "Live"
  /\ replayMode = "Live" => deferredEventSequence = 0
  /\ replayMode # "Live" => liveResumeEventSequence # 0

\* Where the next live event may be: in the middle of a live command, or of the
\* next one to be recorded.
CursorInv ==
  /\ fatalReason = "EventWriterFatal" => phase = "Idle"
  /\ phase = "Idle" /\ fatalReason # "EventWriterFatal" =>
       deferredMode = "None" /\ ~deferredStartReplay
  /\ phase # "Idle" /\ replayMode = "Live" =>
       /\ command.sequence = Len(wal)
       /\ NextIs(published, Position(nextEventSequence, nextIndex - 1, Len(wal)))
  /\ fatalReason # "EventWriterFatal" /\ (phase = "Idle" \/ replayMode # "Live") =>
       NextIs(published, Position(Resume, 0, Len(wal) + 1))

EventInv ==
  /\ IsStream(published) /\ EventStreamExact
  /\ nextIndex \in Nat
  /\ DeferredInv /\ CursorInv

LEMMA PositionFields ==
  ASSUME NEW sequence, NEW index, NEW cause
  PROVE  /\ Position(sequence, index, cause).sequence = sequence
         /\ Position(sequence, index, cause).index = index
         /\ Position(sequence, index, cause).cause = cause
BY DEF Position

\* NextIs looks at the position of an event only.
LEMMA NextIsPosition ==
  ASSUME NEW events, NEW e
  PROVE  NextIs(events, e) <=> NextIs(events, Position(e.sequence, e.index, e.cause))
BY PositionFields DEF NextIs, First, Follows

LEMMA EnvelopeFields ==
  ASSUME NEW last \in BOOLEAN
  PROVE  /\ Envelope(last).sequence = nextEventSequence
         /\ Envelope(last).cause = command.sequence
         /\ Envelope(last).index = nextIndex - 1
         /\ Envelope(last).last = last
         /\ replayMode = "Live" => Envelope(last).from = "Live"
         /\ replayMode # "Live" => Envelope(last).from # "Live"
BY DEF Envelope

\* In the middle of a command a publication keeps the stream in order.
LEMMA PublishKeepsOrder ==
  ASSUME TypeInv, EventInv, phase # "Idle", NEW last \in BOOLEAN,
         published' = Append(published, Envelope(last))
  PROVE  /\ IsStream(published') /\ InOrder(published')
         /\ replayMode = "Live" =>
              \A d : Follows(Envelope(last), d) => NextIs(published', d)
         /\ replayMode # "Live" =>
              \A d : NextIs(published, d) => NextIs(published', d)
<1> DEFINE e == Envelope(last)
<1>1. IsStream(published) /\ InOrder(published)
  BY DEF EventInv, EventStreamExact
<1>2. IsStream(published')
  BY <1>1, AppendFacts
<1>3. CASE replayMode = "Live"
  <2>1. /\ command.sequence = Len(wal)
        /\ NextIs(published, Position(nextEventSequence, nextIndex - 1, Len(wal)))
    BY <1>3 DEF EventInv, CursorInv, TypeInv
  <2>2. /\ e.sequence = nextEventSequence /\ e.cause = Len(wal)
        /\ e.index = nextIndex - 1 /\ e.from = "Live"
    BY <1>3, <2>1, EnvelopeFields
  <2>3. NextIs(published, e)
    BY <2>1, <2>2, NextIsPosition
  <2> HIDE DEF e
  <2>4. InOrder(published') /\ \A d : Follows(e, d) => NextIs(published', d)
    BY <1>1, <2>2, <2>3, AppendLive DEF e
  <2> QED BY <1>2, <1>3, <2>4 DEF e
<1>4. CASE replayMode # "Live"
  <2>1. e.from # "Live"
    BY <1>4, EnvelopeFields
  <2> HIDE DEF e
  <2>2. InOrder(published') /\ \A d : NextIs(published, d) => NextIs(published', d)
    BY <1>1, <2>1, AppendOther DEF e
  <2> QED BY <1>2, <1>4, <2>2
<1> QED BY <1>3, <1>4

\* An event in the middle of a command.
LEMMA AddKeepsEvents ==
  ASSUME TypeInv, EventInv, phase # "Idle", phase' # "Idle",
         NEW event, Add(event), UNCHANGED <<replayVars, command, wal>>,
         fatalReason' # "EventWriterFatal"
  PROVE  EventInv'
<1>1. /\ published' = Append(published, Envelope(FALSE))
      /\ nextEventSequence' = nextEventSequence + 1 /\ nextIndex' = nextIndex + 1
      /\ nextIndex \in Nat /\ fatalReason # "EventWriterFatal"
  BY DEF Add, Publish, EventInv, CursorInv
<1>2. /\ IsStream(published') /\ InOrder(published')
      /\ replayMode = "Live" =>
           \A d : Follows(Envelope(FALSE), d) => NextIs(published', d)
      /\ replayMode # "Live" =>
           \A d : NextIs(published, d) => NextIs(published', d)
  BY <1>1, PublishKeepsOrder
<1>3. DeferredInv'
  BY DEF EventInv, DeferredInv, replayVars
<1>4. ASSUME replayMode = "Live"
      PROVE  /\ command.sequence = Len(wal)
             /\ NextIs(published', Position(nextEventSequence', nextIndex' - 1, Len(wal)))
  <2> DEFINE d == Position(nextEventSequence', nextIndex' - 1, Len(wal))
  <2>1. command.sequence = Len(wal) 
    BY <1>4 DEF EventInv, CursorInv, TypeInv
  <2>2. /\ d.sequence = nextEventSequence + 1 /\ d.index = (nextIndex - 1) + 1
        /\ d.cause = Len(wal)
    BY <1>1, PositionFields
  <2> HIDE DEF d
  <2>3. /\ Envelope(FALSE).sequence = nextEventSequence
        /\ Envelope(FALSE).index = nextIndex - 1
        /\ Envelope(FALSE).cause = Len(wal) /\ Envelope(FALSE).last = FALSE
    BY <2>1, EnvelopeFields
  <2>4. Follows(Envelope(FALSE), d)
    BY <2>2, <2>3 DEF Follows
  <2> QED BY <1>2, <1>4, <2>1, <2>4 DEF d
<1>5. ASSUME replayMode # "Live"
      PROVE  NextIs(published', Position(liveResumeEventSequence, 0, Len(wal) + 1))
  BY <1>1, <1>2, <1>5 DEF EventInv, CursorInv, Resume
<1>6. CursorInv'
  BY <1>4, <1>5 DEF CursorInv, Resume, replayVars
<1>7. IsStream(published)' /\ EventStreamExact'
  BY <1>2 DEF EventStreamExact
<1>8. nextIndex' \in Nat
  BY ONLY <1>1
<1> QED BY <1>3, <1>6, <1>7, <1>8 DEF EventInv

\* The writer may have accepted the event it failed with.
LEMMA WriterFailsKeepsEvents ==
  ASSUME TypeInv, EventInv, phase # "Idle", NEW last \in BOOLEAN, WriterFails(last)
  PROVE  EventInv'
<1>1. /\ published' = published \/ published' = Append(published, Envelope(last))
      /\ fatalReason' = "EventWriterFatal" /\ phase' = "Idle"
      /\ UNCHANGED <<replayVars, nextIndex>>
  BY DEF WriterFails
<1>2. IsStream(published') /\ InOrder(published')
  <2>1. CASE published' = published
    BY <2>1 DEF EventInv, EventStreamExact
  <2>2. CASE published' = Append(published, Envelope(last))
    BY <2>2, PublishKeepsOrder
  <2> QED BY <1>1, <2>1, <2>2
<1>3. DeferredInv'
  BY <1>1 DEF EventInv, DeferredInv, replayVars
<1>4. CursorInv'
  BY <1>1 DEF CursorInv
<1>5. IsStream(published)' /\ EventStreamExact' /\ nextIndex' \in Nat
  BY <1>1, <1>2 DEF EventInv, EventStreamExact
<1> QED BY <1>3, <1>4, <1>5 DEF EventInv

\* The last event of a command; then the mode changes.
LEMMA FinishKeepsEvents ==
  ASSUME TypeInv, EventInv, Finish
  PROVE  EventInv'
<1>1. /\ phase = "Finish" /\ phase' = "Idle"
      /\ published' = Append(published, Envelope(TRUE))
      /\ UNCHANGED <<fatalReason, command, nextIndex, wal>>
      /\ fatalReason # "EventWriterFatal"
  BY DEF Finish, Healthy, environment, EventInv, CursorInv
<1>2. /\ IsStream(published') /\ InOrder(published')
      /\ replayMode = "Live" =>
           \A d : Follows(Envelope(TRUE), d) => NextIs(published', d)
      /\ replayMode # "Live" =>
           \A d : NextIs(published, d) => NextIs(published', d)
  BY <1>1, PublishKeepsOrder
<1>3. /\ nextEventSequence \in Nat /\ deferredEventSequence \in Nat
      /\ liveResumeEventSequence \in Nat
      /\ deferredMode \in {"None", "Live", "Restoring"}
  BY DEF TypeInv
<1>4. /\ deferredMode' = "None" /\ ~deferredStartReplay' /\ deferredEventSequence' = 0
      /\ liveResumeEventSequence' = IF deferredStartReplay THEN nextEventSequence + 1
                                    ELSE liveResumeEventSequence
      /\ nextEventSequence' = IF deferredEventSequence # 0 THEN deferredEventSequence
                              ELSE nextEventSequence + 1
      /\ replayMode' = IF deferredMode # "None" THEN deferredMode
                       ELSE IF deferredStartReplay THEN "Replay" ELSE replayMode
  BY DEF Finish, ApplyDeferred
<1>5. DeferredInv
  BY DEF EventInv
<1>6. CASE replayMode = "Live"
  <2>1. deferredMode = "None" /\ deferredEventSequence = 0
    BY <1>3, <1>5, <1>6 DEF DeferredInv
  <2>2. Resume' = nextEventSequence + 1
    BY <1>4, <1>6, <2>1 DEF Resume
  <2>3. replayMode' # "Live" => liveResumeEventSequence' # 0
    BY <1>3, <1>4, <1>6, <2>1
  <2>4. command.sequence = Len(wal)
    BY <1>1, <1>6 DEF EventInv, CursorInv
  <2> DEFINE d == Position(Resume', 0, Len(wal) + 1)
  <2>5. d.sequence = nextEventSequence + 1 /\ d.index = 0 /\ d.cause = Len(wal) + 1
    BY <2>2, PositionFields
  <2> HIDE DEF d
  <2>6. /\ Envelope(TRUE).sequence = nextEventSequence
        /\ Envelope(TRUE).cause = Len(wal) /\ Envelope(TRUE).last = TRUE
    BY <2>4, EnvelopeFields
  <2>7. Follows(Envelope(TRUE), d)
    BY <2>5, <2>6 DEF Follows
  <2>8. NextIs(published', Position(Resume', 0, Len(wal') + 1))
    BY <1>1, <1>2, <1>6, <2>7 DEF d
  <2>9. DeferredInv'
    BY <1>4, <2>3 DEF DeferredInv
  <2>10. CursorInv'
    BY <1>1, <1>4, <2>8 DEF CursorInv
  <2>11. IsStream(published)' /\ EventStreamExact' /\ nextIndex' \in Nat
    BY <1>1, <1>2 DEF EventInv, EventStreamExact
  <2> QED BY <2>9, <2>10, <2>11 DEF EventInv
<1>7. CASE replayMode # "Live"
  <2>1. ~deferredStartReplay /\ liveResumeEventSequence # 0
    BY <1>5, <1>7 DEF DeferredInv
  <2>2. liveResumeEventSequence' = liveResumeEventSequence
    BY <1>4, <2>1
  <2>3. replayMode' = "Live" => deferredMode = "Live"
    BY <1>4, <1>7, <2>1
  <2>4. replayMode' = "Live" => nextEventSequence' = liveResumeEventSequence
    BY <1>4, <1>5, <2>1, <2>3 DEF DeferredInv
  <2>5. Resume' = liveResumeEventSequence /\ Resume = liveResumeEventSequence
    BY <1>7, <2>2, <2>4 DEF Resume
  <2>6. NextIs(published, Position(liveResumeEventSequence, 0, Len(wal) + 1))
    BY <1>1, <1>7, <2>5 DEF EventInv, CursorInv
  <2>7. NextIs(published', Position(Resume', 0, Len(wal') + 1))
    BY <1>1, <1>2, <1>7, <2>5, <2>6
  <2>8. DeferredInv'
    BY <1>4, <2>1, <2>2 DEF DeferredInv
  <2>9. CursorInv'
    BY <1>1, <1>4, <2>7 DEF CursorInv
  <2>10. IsStream(published)' /\ EventStreamExact' /\ nextIndex' \in Nat
    BY <1>1, <1>2 DEF EventInv, EventStreamExact
  <2> QED BY <2>8, <2>9, <2>10 DEF EventInv
<1> QED BY <1>6, <1>7

\* A command begins.
LEMMA CommandKeepsEvents ==
  ASSUME TypeInv, EventInv,
         NEW sequence, NEW replayed, NEW message, Takes(sequence, replayed, message)
  PROVE  EventInv'
<1>1. /\ phase = "Idle" /\ fatalReason = "None"
      /\ command' = [sequence |-> sequence, replayed |-> replayed, message |-> message]
      /\ Dispatch(sequence, message)
  BY DEF Takes, Begin, Idle, Fatal
<1>2. command'.sequence = sequence
  BY <1>1
<1>3. /\ deferredMode = "None" /\ ~deferredStartReplay
      /\ NextIs(published, Position(Resume, 0, Len(wal) + 1))
      /\ DeferredInv
  BY <1>1 DEF EventInv, CursorInv
<1>4. /\ published' = published /\ nextEventSequence' = nextEventSequence
      /\ nextIndex' = 1 /\ phase' # "Idle"
      /\ fatalReason' # "EventWriterFatal"
      /\ replayMode' = replayMode
      /\ liveResumeEventSequence' = liveResumeEventSequence
      /\ DeferredInv'
  <2>1. CASE message.type = "NewLimit" /\ NewLimit(message.order)
    <3>1. /\ published' = published /\ nextEventSequence' = nextEventSequence
          /\ nextIndex' = 1 /\ phase' # "Idle"
          /\ fatalReason' # "EventWriterFatal" /\ UNCHANGED replayVars
      BY <1>1, <2>1 DEF NewLimit, AddFirst, Healthy, Terminal
    <3> QED BY <1>3, <3>1 DEF DeferredInv, replayVars
  <2>2. CASE message.type = "SaveSnapshot" /\ SaveSnapshot(sequence)
    <3>1. /\ published' = published /\ nextEventSequence' = nextEventSequence
          /\ nextIndex' = 1 /\ phase' # "Idle"
          /\ fatalReason' # "EventWriterFatal" /\ UNCHANGED replayVars
      BY <1>1, <2>2 DEF SaveSnapshot, AddFirst, Healthy, Terminal
    <3> QED BY <1>3, <3>1 DEF DeferredInv, replayVars
  <2>3. CASE message.type = "LoadSnapshot" /\ LoadSnapshot(message.of)
    <3>1. /\ published' = published /\ nextEventSequence' = nextEventSequence
          /\ nextIndex' = 1 /\ phase' # "Idle"
          /\ fatalReason' # "EventWriterFatal"
          /\ replayMode' = replayMode /\ deferredStartReplay' = deferredStartReplay
          /\ liveResumeEventSequence' = liveResumeEventSequence
      BY <1>1, <2>3 DEF LoadSnapshot, AddFirst, Healthy, Terminal
    <3>2. \/ /\ deferredMode' = deferredMode
             /\ deferredEventSequence' = deferredEventSequence
          \/ \E image \in store : LoadDeferred(image)
      BY <2>3 DEF LoadSnapshot
    <3>3. DeferredInv'
      <4>1. CASE \E image \in store : LoadDeferred(image)
        BY <1>3, <3>1, <4>1 DEF LoadDeferred, DeferredInv, TypeInv
      <4> QED BY <1>3, <3>1, <3>2, <4>1 DEF DeferredInv
    <3> QED BY <3>1, <3>3
  <2>4. CASE message.type \in Signals /\ Signal(message.type)
    <3>1. /\ published' = published /\ nextEventSequence' = nextEventSequence
          /\ nextIndex' = 1 /\ phase' # "Idle"
          /\ fatalReason' # "EventWriterFatal"
          /\ replayMode' = replayMode
          /\ liveResumeEventSequence' = liveResumeEventSequence
          /\ deferredEventSequence' = deferredEventSequence
          /\ deferredStartReplay' => replayMode = "Live"
          /\ deferredMode' = deferredMode
               \/ (deferredMode' = "Restoring" /\ replayMode = "Replay")
      BY <1>1, <2>4 DEF Signal, AddFirst
    <3> QED BY <1>3, <3>1 DEF DeferredInv
  <2> QED BY <1>1, <2>1, <2>2, <2>3, <2>4 DEF Dispatch
<1>5. CASE replayMode = "Live"
  <2>1. /\ sequence = Len(wal) + 1 /\ wal' = Append(wal, message)
        /\ message \in Messages
    BY <1>5 DEF Takes
  <2>2. Len(wal') = Len(wal) + 1
    BY <2>1, AppendProperties DEF TypeInv
  <2>3. NextIs(published, Position(nextEventSequence, 0, Len(wal) + 1))
    BY <1>3, <1>5 DEF Resume
  <2>4. nextIndex' - 1 = 0
    BY <1>4
  <2>5. NextIs(published', Position(nextEventSequence', nextIndex' - 1, Len(wal')))
    BY <1>4, <2>2, <2>3, <2>4
  <2>6. CursorInv'
    BY <1>2, <1>4, <1>5, <2>1, <2>2, <2>5 DEF CursorInv
  <2>7. IsStream(published)' /\ EventStreamExact' /\ nextIndex' \in Nat
    BY <1>4 DEF EventInv, EventStreamExact
  <2> QED BY <1>4, <2>6, <2>7 DEF EventInv
<1>6. CASE replayMode # "Live"
  <2>1. wal' = wal
    BY <1>6 DEF Takes
  <2>2. NextIs(published', Position(Resume', 0, Len(wal') + 1))
    BY <1>3, <1>4, <1>6, <2>1 DEF Resume
  <2>3. CursorInv'
    BY <1>4, <1>6, <2>2 DEF CursorInv
  <2>4. IsStream(published)' /\ EventStreamExact' /\ nextIndex' \in Nat
    BY <1>4 DEF EventInv, EventStreamExact
  <2> QED BY <1>4, <2>3, <2>4 DEF EventInv
<1> QED BY <1>5, <1>6

LEMMA EventStep == BookInv /\ EventInv /\ [Next]_vars => EventInv'
<1> SUFFICES ASSUME TypeInv, EventInv, [Next]_vars PROVE EventInv'
  BY DEF BookInv
<1>1. CASE TakesCommand
  BY <1>1, CommandTaken, CommandKeepsEvents
<1>2. CASE MatchOne
  <2>1. /\ phase # "Idle" /\ phase' # "Idle" /\ UNCHANGED <<replayVars, command, wal>>
        /\ fatalReason' = fatalReason
        /\ \E event : Add(event)
    BY <1>2 DEF MatchOne, Healthy, environment
  <2>2. fatalReason' # "EventWriterFatal"
    BY <2>1 DEF EventInv, CursorInv
  <2> QED BY <2>1, <2>2, AddKeepsEvents
<1>3. CASE MakerDone
  <2>1. /\ phase # "Idle" /\ phase' # "Idle" /\ UNCHANGED <<replayVars, command, wal>>
        /\ fatalReason' = fatalReason
        /\ \E event : Add(event)
    BY <1>3 DEF MakerDone, Healthy, environment
  <2>2. fatalReason' # "EventWriterFatal"
    BY <2>1 DEF EventInv, CursorInv
  <2> QED BY <2>1, <2>2, AddKeepsEvents
<1>4. CASE MatchEnds
  <2>1. /\ phase # "Idle" /\ phase' # "Idle" /\ UNCHANGED <<replayVars, command, wal>>
        /\ fatalReason' = fatalReason \/ fatalReason' = "BookInsertFailedAfterExecution"
        /\ \E event : Add(event)
    BY <1>4 DEF MatchEnds, Healthy, Terminal, environment
  <2>2. fatalReason' # "EventWriterFatal"
    BY <2>1 DEF EventInv, CursorInv
  <2> QED BY <2>1, <2>2, AddKeepsEvents
<1>5. CASE AddFails \/ FinishFails
  <2>1. phase # "Idle" /\ \E last \in BOOLEAN : WriterFails(last)
    BY <1>5 DEF AddFails, FinishFails
  <2> QED BY <2>1, WriterFailsKeepsEvents
<1>6. CASE Finish
  BY <1>6, FinishKeepsEvents
<1>7. CASE ReaderFails
  <2>1. /\ fatalReason = "None" /\ fatalReason' = "CommandReaderFatal"
        /\ UNCHANGED <<phase, published, nextIndex, replayVars, nextEventSequence,
                       command, wal>>
    BY <1>7 DEF ReaderFails, Idle, Fatal, Terminal, frame, batch, environment
  <2>2. DeferredInv'
    BY <2>1 DEF EventInv, DeferredInv, replayVars
  <2>3. CursorInv'
    BY <2>1 DEF EventInv, CursorInv, Resume, replayVars
  <2>4. IsStream(published)' /\ EventStreamExact' /\ nextIndex' \in Nat
    BY <2>1 DEF EventInv, EventStreamExact
  <2> QED BY <2>2, <2>3, <2>4 DEF EventInv
<1>8. CASE UNCHANGED vars
  <2>1. UNCHANGED <<fatalReason, phase, published, nextIndex, replayVars,
                    nextEventSequence, command, wal>>
    BY <1>8 DEF vars, frame, batch, environment
  <2>2. DeferredInv'
    BY <2>1 DEF EventInv, DeferredInv, replayVars
  <2>3. CursorInv'
    BY <2>1 DEF EventInv, CursorInv, Resume, replayVars
  <2>4. IsStream(published)' /\ EventStreamExact' /\ nextIndex' \in Nat
    BY <2>1 DEF EventInv, EventStreamExact
  <2> QED BY <2>2, <2>3, <2>4 DEF EventInv
<1> QED BY <1>1, <1>2, <1>3, <1>4, <1>5, <1>6, <1>7, <1>8 DEF Next, TakesCommand

LEMMA EventInit == Init => EventInv
<1> SUFFICES ASSUME Init PROVE EventInv
  OBVIOUS
<1>1. /\ published = <<>> /\ phase = "Idle" /\ fatalReason = "None"
      /\ replayMode = "Live" /\ deferredMode = "None" /\ ~deferredStartReplay
      /\ deferredEventSequence = 0 /\ nextIndex = 0 /\ nextEventSequence = 1
      /\ wal = <<>>
  BY DEF Init
<1>2. IsStream(published) /\ Len(published) = 0 /\ DOMAIN published = {}
  <2>1. published \in Seq({})
    BY <1>1
  <2> QED BY <1>1, <2>1 DEF IsStream
<1>3. EventStreamExact
  BY <1>2 DEF EventStreamExact, InOrder
<1>4. NextIs(published, Position(Resume, 0, Len(wal) + 1))
  BY <1>1, <1>2, PositionFields DEF NextIs, Resume, First
<1>5. DeferredInv
  BY <1>1 DEF DeferredInv
<1>6. CursorInv
  BY <1>1, <1>4 DEF CursorInv
<1> QED BY <1>1, <1>2, <1>3, <1>5, <1>6 DEF EventInv

\* The Event WAL has no gap and no repetition, whatever commands, failures and
\* replay sessions the matcher has been through.
THEOREM EventStreamExactAlways == Spec => []EventStreamExact
<1>1. BookInv /\ EventInv /\ [Next]_vars => EventInv'
  BY EventStep
<1>2. Spec => []EventInv
  BY <1>1, EventInit, BookInvariant, PTL DEF Spec
<1>3. EventInv => EventStreamExact
  BY DEF EventInv
<1> QED BY <1>2, <1>3, PTL

-----------------------------------------------------------------------------
(* The live events of a stream, event by event.                              *)

Filtered(events, e) == IF e.from = "Live" THEN Append(events, e) ELSE events
LiveOf(events) ==
  LET live[k \in 0 .. Len(events)] ==
        IF k = 0 THEN <<>>
        ELSE IF events[k].from = "Live" THEN Append(live[k - 1], events[k])
        ELSE live[k - 1]
  IN  live[Len(events)]

\* f[k] is what the first k events leave of live ones.
Filters(events, f, n) ==
  f[0] = <<>> /\ \A k \in 1 .. n : f[k] = Filtered(f[k - 1], events[k])

LEMMA LiveExists ==
  ASSUME NEW events, NEW n \in Nat
  PROVE  \E f : Filters(events, f, n)
<1> DEFINE Has(m) == \E f : Filters(events, f, m)
           T == {m \in Nat : ~Has(m)}
<1> SUFFICES ASSUME n \in T PROVE FALSE
  OBVIOUS
<1>1. PICK m \in T : \A k \in T : m <= k
  <2> T \subseteq Nat /\ T # {}
    OBVIOUS
  <2> HIDE DEF T
  <2> QED BY Least
<1>2. m # 0
  <2>1. PICK f : f = [k \in {0} |-> <<>>]
    OBVIOUS
  <2>2. \A k : k \notin 1 .. 0
    OBVIOUS
  <2>3. Filters(events, f, 0)
    BY <2>1, <2>2 DEF Filters
  <2> QED BY <2>3
<1>3. m - 1 \in Nat /\ m - 1 \notin T
  <2>1. m \in Nat /\ m - 1 \in Nat /\ ~(m <= m - 1)
    BY <1>2
  <2> QED BY <1>1, <2>1
<1>4. PICK f : Filters(events, f, m - 1)
  BY <1>3
<1>5. PICK last : last = Filtered(f[m - 1], events[m])
  OBVIOUS
<1>6. PICK g : g = [k \in 0 .. m |-> IF k = m THEN last ELSE f[k]]
  OBVIOUS
<1>7. g[m] = last /\ \A k \in 0 .. m - 1 : g[k] = f[k]
  BY <1>3, <1>6
<1>8. Filters(events, g, m)
  <2>1. g[0] = <<>>
    BY <1>3, <1>4, <1>7 DEF Filters
  <2>2. ASSUME NEW k \in 1 .. m PROVE g[k] = Filtered(g[k - 1], events[k])
    <3>1. k - 1 \in 0 .. m - 1 /\ g[k - 1] = f[k - 1]
      BY <1>3, <1>7
    <3>2. CASE k = m
      BY <1>5, <1>7, <3>1, <3>2
    <3>3. CASE k # m
      <4>1. k \in 1 .. m - 1 /\ k \in 0 .. m - 1
        BY <1>3, <3>3
      <4> QED BY <1>4, <1>7, <3>1, <4>1 DEF Filters
    <3> QED BY <3>2, <3>3
  <2> QED BY <2>1, <2>2 DEF Filters
<1> QED BY <1>8

LEMMA LiveUnique ==
  ASSUME NEW events, NEW n \in Nat, NEW f, NEW g,
         Filters(events, f, n), Filters(events, g, n)
  PROVE  f[n] = g[n]
<1> DEFINE T == {k \in 0 .. n : f[k] # g[k]}
<1> SUFFICES ASSUME n \in T PROVE FALSE
  OBVIOUS
<1>1. PICK m \in T : \A k \in T : m <= k
  <2>1. T \subseteq Nat
    OBVIOUS
  <2>2. T # {}
    OBVIOUS
  <2> HIDE DEF T
  <2> QED BY <2>1, <2>2, Least
<1>2. m \in 1 .. n
  BY DEF Filters
<1>3. m - 1 \in 0 .. n /\ m - 1 \notin T
  <2>1. m - 1 \in 0 .. n /\ ~(m <= m - 1)
    BY <1>2
  <2> QED BY <1>1, <2>1
<1>4. f[m - 1] = g[m - 1]
  BY <1>3
<1>5. f[m] = g[m]
  BY <1>2, <1>4 DEF Filters
<1> QED BY <1>5

LEMMA LiveIs ==
  ASSUME NEW events, IsStream(events), NEW f, Filters(events, f, Len(events))
  PROVE  LiveOf(events) = f[Len(events)]
<1> DEFINE n == Len(events)
           Rec(g) == g = [k \in 0 .. n |->
                            IF k = 0 THEN <<>> ELSE Filtered(g[k - 1], events[k])]
           chosen == CHOOSE g : Rec(g)
<1>1. n \in Nat
  BY LenProperties DEF IsStream
<1>2. PICK g : g = [k \in 0 .. n |-> f[k]]
  OBVIOUS
<1>3. Rec(g)
  <2> SUFFICES ASSUME NEW k \in 0 .. n
               PROVE  f[k] = IF k = 0 THEN <<>> ELSE Filtered(g[k - 1], events[k])
    BY <1>2
  <2>1. CASE k = 0
    BY <2>1 DEF Filters
  <2>2. CASE k # 0
    <3>1. k \in 1 .. n /\ k - 1 \in 0 .. n
      BY <1>1, <2>2
    <3>2. g[k - 1] = f[k - 1]
      BY <1>2, <3>1
    <3>3. f[k] = Filtered(f[k - 1], events[k])
      BY <3>1 DEF Filters
    <3> QED BY <2>2, <3>2, <3>3
  <2> QED BY <2>1, <2>2
<1>4. Rec(chosen)
  BY <1>3
<1>5. Filters(events, chosen, n)
  <2> HIDE DEF chosen
  <2>1. \A k \in 0 .. n : chosen[k] = IF k = 0 THEN <<>> ELSE Filtered(chosen[k - 1], events[k])
    BY <1>4
  <2>2. 0 \in 0 .. n /\ \A k \in 1 .. n : k \in 0 .. n /\ k # 0
    BY <1>1
  <2> QED BY <2>1, <2>2 DEF Filters
<1>6. LiveOf(events) = chosen[n]
  BY DEF LiveOf, Filtered
<1> HIDE DEF chosen
<1>7. chosen[n] = f[n]
  BY <1>1, <1>5, LiveUnique
<1> QED BY <1>6, <1>7

\* One event more.
LEMMA LiveAppend ==
  ASSUME NEW events, IsStream(events), NEW e, NEW more, more = Append(events, e)
  PROVE  LiveOf(more) = Filtered(LiveOf(events), e)
<1> DEFINE n == Len(events)
<1>1. /\ n \in Nat /\ Len(more) = n + 1
      /\ \A k \in 1 .. n : more[k] = events[k]
      /\ more[n + 1] = e
  BY AppendFacts
<1>0. IsStream(more)
  BY AppendFacts
<1> HIDE DEF n
<1>2. PICK f : Filters(more, f, n + 1)
  <2>1. n + 1 \in Nat
    BY <1>1
  <2> QED BY <2>1, LiveExists
<1>3. Filters(events, f, n)
  <2>1. \A k \in 1 .. n : k \in 1 .. n + 1
    BY <1>1
  <2> QED BY <1>1, <1>2, <2>1 DEF Filters
<1>4. f[n + 1] = Filtered(f[n], e)
  <2>1. n + 1 \in 1 .. n + 1 /\ (n + 1) - 1 = n
    BY <1>1
  <2> QED BY <1>1, <1>2, <2>1 DEF Filters
<1>5. LiveOf(more) = f[n + 1]
  BY <1>0, <1>1, <1>2, LiveIs
<1>6. LiveOf(events) = f[n]
  BY <1>3, LiveIs DEF n
<1> QED BY <1>4, <1>5, <1>6

LEMMA LiveEmpty == LiveOf(<<>>) = <<>>
<1>1. IsStream(<<>>) /\ Len(<<>>) = 0 /\ \A k : k \notin 1 .. 0
  <2>1. <<>> \in Seq({})
    OBVIOUS
  <2> QED BY <2>1 DEF IsStream
<1>2. PICK f : Filters(<<>>, f, 0)
  BY LiveExists
<1>3. f[0] = <<>>
  BY <1>2 DEF Filters
<1>4. LiveOf(<<>>) = f[Len(<<>>)]
  BY <1>1, <1>2, LiveIs
<1> QED BY <1>1, <1>3, <1>4
-----------------------------------------------------------------------------
(* What the matcher does is determined by its state.                          *)

ActiveIn(q, side) == {p \in Prices : q[side][p] # <<>>}
BestPriceIn(q, side) ==
  CHOOSE p \in ActiveIn(q, side) : \A p2 \in ActiveIn(q, side) : Book!AtLeastAsGood(side, p, p2)
BestIn(q, side) == Head(q[side][BestPriceIn(q, side)])

\* What process() has done of a command when it is about to publish an event.
Config(q, last, at, left, gone, event, index, cause, message) ==
  [book |-> q, last |-> last, phase |-> at, remaining |-> left, maker |-> gone,
   event |-> event, index |-> index, cause |-> cause, message |-> message]

Now == Config(book, lastOrderId, phase,
              IF phase = "Finish" THEN 0 ELSE remaining,
              IF phase = "MakerDone" THEN maker ELSE 0,
              pending, nextIndex, command.sequence, command.message)

\* The first event of command number cause.
StartOrder(q, last, cause, message) ==
  LET o == message.order
  IN  IF o.id <= last
      THEN Config(q, last, "Finish", 0, 0, OrderEvent("MatcherFatal", o.id), 1, cause, message)
      ELSE IF o.quantity = 0
      THEN Config(q, o.id, "Finish", 0, 0, OrderEvent("Rejected", o.id), 1, cause, message)
      ELSE Config(q, o.id, "Match", o.quantity, 0, OrderEvent("Accepted", o.id), 1, cause,
                  message)
Start(q, last, cause, message) ==
  IF message.type = "NewLimit" THEN StartOrder(q, last, cause, message)
  ELSE Config(q, last, "Finish", 0, 0,
              IF message.type = "None" THEN OrderEvent("Rejected", 0) ELSE Event(message.type),
              1, cause, message)

\* The event after that of configuration c, in the same command.
OrderOf(c) == c.message.order
Opponent(c) == Opposite(OrderOf(c).side)
MakerOf(c) == BestIn(c.book, Opponent(c))
ExecutedOf(c) ==
  IF c.remaining < MakerOf(c).remaining THEN c.remaining ELSE MakerOf(c).remaining
TradesIn(c) ==
  /\ c.remaining # 0 /\ ActiveIn(c.book, Opponent(c)) # {}
  /\ Crosses(OrderOf(c).side, OrderOf(c).price, BestPriceIn(c.book, Opponent(c)))
FitsIn(c) ==
  /\ OrderOf(c).price \in Prices /\ ~Book!Resting(c.book, OrderOf(c).id)
  /\ Cardinality(Book!Places(c.book)) < MaxOrders

Further(c, q, at, left, gone, event) ==
  Config(q, c.last, at, left, gone, event, c.index + 1, c.cause, c.message)

AfterTrade(c) ==
  LET trade == Trade(OrderOf(c).id, MakerOf(c).id, BestPriceIn(c.book, Opponent(c)),
                     ExecutedOf(c))
      left  == c.remaining - ExecutedOf(c)
  IN  IF ExecutedOf(c) = MakerOf(c).remaining
      THEN Further(c, Book!Cancelled(c.book, MakerOf(c).id), "MakerDone", left, MakerOf(c).id, trade)
      ELSE Further(c, Book!Changed(c.book, MakerOf(c).id, MakerOf(c).remaining - ExecutedOf(c)),
                "Match", left, 0, trade)
AfterLoop(c) ==
  LET o == OrderOf(c)
  IN  IF c.remaining = 0
      THEN Further(c, c.book, "Finish", 0, 0, OrderEvent("Done", o.id))
      ELSE IF FitsIn(c)
      THEN Further(c, Book!Rested(c.book, o.id, o.side, o.price, c.remaining), "Finish", 0, 0,
                Rested(o, c.remaining))
      ELSE Further(c, c.book, "Finish", 0, 0,
                OrderEvent(IF c.remaining = o.quantity THEN "Rejected" ELSE "MatcherFatal", o.id))
After(c) ==
  IF c.phase = "MakerDone" THEN Further(c, c.book, "Match", c.remaining, 0, OrderEvent("Done", c.maker))
  ELSE IF TradesIn(c) THEN AfterTrade(c) ELSE AfterLoop(c)

\* The configuration after c, when w is the Command WAL.
Successor(c, w) ==
  IF c.phase = "Finish" THEN Start(c.book, c.last, c.cause + 1, w[c.cause + 1]) ELSE After(c)

-----------------------------------------------------------------------------
(* The trace.                                                                 *)

IsTrace(T, w) ==
  /\ IsStream(T)
  /\ T # <<>> => T[1] = Start(NoBook, 0, 1, w[1])
  /\ \A k \in 1 .. Len(T) - 1 : T[k + 1] = Successor(T[k], w)
  /\ \A k \in 1 .. Len(T) : T[k].cause \in 1 .. Len(w) /\ T[k].event.type # "MatcherFatal"
  /\ \A k \in 1 .. Len(T) : \A j \in 1 .. k - 1 :
       T[j].cause <= T[k].cause /\ (T[j].phase = "Finish" => T[j].cause < T[k].cause)
  /\ IF T = <<>> THEN w = <<>> ELSE T[Len(T)].cause = Len(w)

\* Before command number cause, the first event of which has number n, the matcher
\* has book q and the last id is last.
Before(T, n, q, last, cause) ==
  IF n = 1 THEN q = NoBook /\ last = 0 /\ cause = 1
  ELSE /\ n - 1 \in 1 .. Len(T) /\ T[n - 1].phase = "Finish"
       /\ T[n - 1].book = q /\ T[n - 1].last = last /\ T[n - 1].cause + 1 = cause

EventAt(c, k) ==
  [sequence |-> k, cause |-> c.cause, index |-> c.index - 1, last |-> c.phase = "Finish",
   event |-> c.event, from |-> "Live"]

\* The live events are those of the trace; in live mode the matcher is where it ends.
LiveInv(T) ==
  /\ IsTrace(T, wal)
  /\ Len(LiveEvents) = Resume - 1
  /\ \A k \in 1 .. Len(LiveEvents) : LiveEvents[k] = EventAt(T[k], k)
  /\ replayMode = "Live" /\ phase # "Idle" => Len(T) = Resume /\ T[Len(T)] = Now
  /\ replayMode # "Live" \/ phase = "Idle" =>
       Len(T) = Resume - 1 /\ (T # <<>> => T[Len(T)].phase = "Finish")
  /\ replayMode = "Live" /\ phase = "Idle" =>
       Before(T, nextEventSequence, book, lastOrderId, Len(wal) + 1)

\* An image is of a SaveSnapshot, and what the book was then.
StoreInv(T) ==
  \A image \in store :
    /\ image.of \in 1 .. Len(wal) /\ image.nextEventSequence > 1
    /\ Before(T, image.nextEventSequence, image.book, image.lastOrderId, image.of + 1)

\* No load is recorded, and the StartReplay of a session follows a SaveSnapshot.
WalInv ==
  /\ \A k \in 1 .. Len(wal) : wal[k].type # "LoadSnapshot"
  /\ replayMode # "Live" \/ deferredStartReplay =>
       Len(wal) > 1 /\ wal[Len(wal)].type = "StartReplay"

\* The matcher is as the snapshot saved before StartReplay has it.
Restored == \E image \in store : /\ image.of = Len(wal) - 1
                                 /\ book = image.book /\ lastOrderId = image.lastOrderId

\* A replay is somewhere in the trace, too.
ReplayInv(T) ==
  /\ phase = "Idle" => deferredEventSequence = 0
  /\ deferredMode = "Live" => replayMode = "Restoring"
  /\ replayMode = "Replay" /\ phase = "Idle" /\ cursor # 0 =>
       /\ nextEventSequence > 1
       /\ Before(T, nextEventSequence, book, lastOrderId, cursor)
  /\ replayMode # "Live" /\ phase # "Idle" /\ command.replayed =>
       /\ replayMode = "Replay" /\ deferredEventSequence = 0
       /\ nextEventSequence \in 1 .. Len(T) /\ T[nextEventSequence] = Now
       /\ command.sequence + 1 = cursor
  /\ replayMode # "Live" /\ phase # "Idle" /\ ~command.replayed =>
       /\ phase = "Finish"
       /\ replayMode = "Replay" =>
            \/ deferredMode = "Restoring"
            \/ /\ deferredEventSequence > 1
               /\ Before(T, deferredEventSequence, book, lastOrderId, cursor)
       /\ replayMode = "Restoring" => deferredMode = "Live" /\ Restored
  /\ replayMode = "Live" /\ cursor # 0 => phase = "Idle" /\ Restored

TraceInv(T) == LiveInv(T) /\ StoreInv(T) /\ WalInv /\ ReplayInv(T)

\* Stopped in a command by itself, the matcher says so; in a replay it stops only
\* for the snapshot store.
FatalInv ==
  Fatal /\ phase # "Idle" =>
    /\ phase = "Finish" /\ pending.type = "MatcherFatal"
    /\ replayMode # "Live" /\ command.replayed => pending = SnapshotFailed

\* The live events have been published.
StreamInv ==
  /\ IsStream(LiveEvents)
  /\ \A k \in 1 .. Len(LiveEvents) : \E j \in 1 .. Len(published) : published[j] = LiveEvents[k]

LEMMA SameBest ==
  ASSUME NEW s
  PROVE  /\ Book!ActivePrices(s) = ActiveIn(book, s)
         /\ Book!BestPrice(s) = BestPriceIn(book, s)
         /\ Book!Best(s) = BestIn(book, s)
<1>1. Book!ActivePrices(s) = ActiveIn(book, s)
  BY DEF Book!ActivePrices, ActiveIn
<1>2. Book!BestPrice(s) = BestPriceIn(book, s)
  BY <1>1 DEF Book!BestPrice, BestPriceIn
<1> QED BY <1>1, <1>2 DEF Book!Best, BestIn

LEMMA ConfigFields ==
  ASSUME NEW q, NEW last, NEW at, NEW left, NEW gone, NEW event, NEW index, NEW cause,
         NEW message, NEW c, c = Config(q, last, at, left, gone, event, index, cause, message)
  PROVE  /\ c.book = q /\ c.last = last /\ c.phase = at /\ c.remaining = left
         /\ c.maker = gone /\ c.event = event /\ c.index = index /\ c.cause = cause
         /\ c.message = message
BY DEF Config

LEMMA NowFields ==
  /\ Now.book = book /\ Now.last = lastOrderId /\ Now.phase = phase
  /\ phase # "Finish" => Now.remaining = remaining
  /\ phase = "MakerDone" => Now.maker = maker
  /\ Now.event = pending /\ Now.index = nextIndex /\ Now.cause = command.sequence
  /\ Now.message = command.message
BY DEF Now, Config

\* The matcher in the middle of an order goes on as After says.
LEMMA GoesOn ==
  ASSUME MatchOne \/ MakerDone \/ MatchEnds
  PROVE  Now' = After(Now)
<1>1. PICK c : c = Now
  OBVIOUS
<1>2. /\ c.book = book /\ c.last = lastOrderId /\ c.phase = phase
      /\ phase # "Finish" => c.remaining = remaining
      /\ phase = "MakerDone" => c.maker = maker
      /\ c.event = pending /\ c.index = nextIndex /\ c.cause = command.sequence
      /\ c.message = command.message
  BY <1>1, NowFields
<1>3. /\ lastOrderId' = lastOrderId /\ command' = command /\ nextIndex' = nextIndex + 1
  BY DEF MatchOne, MakerDone, MatchEnds, Add
<1>4. CASE MakerDone
  <2>1. /\ phase = "MakerDone" /\ phase' = "Match" /\ remaining' = remaining /\ book' = book
        /\ pending' = OrderEvent("Done", maker)
    BY <1>4 DEF MakerDone, Add
  <2>2. After(c) = Config(book, lastOrderId, "Match", remaining, 0, OrderEvent("Done", maker),
                          nextIndex + 1, command.sequence, command.message)
    BY <1>2, <2>1 DEF After, Further
  <2> QED BY <1>1, <1>3, <2>1, <2>2 DEF Now
<1>5. /\ OrderOf(c) = Order /\ Opponent(c) = Opposite(Order.side)
  BY <1>2 DEF OrderOf, Order, Opponent
<1>6. /\ MakerOf(c) = Resting
      /\ Book!BestPrice(Opposite(Order.side)) = BestPriceIn(c.book, Opponent(c))
      /\ Book!ActivePrices(Opposite(Order.side)) = ActiveIn(c.book, Opponent(c))
  BY <1>2, <1>5, SameBest DEF MakerOf, Resting
<1>7. ASSUME phase = "Match" PROVE ExecutedOf(c) = Executed /\ (TradesIn(c) <=> CanTrade)
  BY <1>2, <1>5, <1>6, <1>7 DEF ExecutedOf, Executed, TradesIn, CanTrade
<1>8. CASE MatchOne
  <2>1. /\ phase = "Match" /\ CanTrade /\ c.phase = "Match"
        /\ pending' = Trade(Order.id, Resting.id, Book!BestPrice(Opposite(Order.side)), Executed)
        /\ remaining' = remaining - Executed
    BY <1>2, <1>8 DEF MatchOne, Add
  <2>2. After(c) = AfterTrade(c) /\ ExecutedOf(c) = Executed
    BY <1>7, <2>1 DEF After
  <2>3. CASE Executed = Resting.remaining
    <3>1. /\ book' = Book!Cancelled(book, Resting.id)
          /\ maker' = Resting.id /\ phase' = "MakerDone"
      BY <1>8, <2>3 DEF MatchOne, Book!Cancel
    <3>2. AfterTrade(c) =
            Config(Book!Cancelled(book, Resting.id), lastOrderId, "MakerDone", remaining - Executed,
                   Resting.id, pending', nextIndex + 1, command.sequence, command.message)
      BY <1>2, <1>5, <1>6, <2>1, <2>2, <2>3 DEF AfterTrade, Further
    <3> QED BY <1>1, <1>3, <2>1, <2>2, <3>1, <3>2 DEF Now
  <2>4. CASE Executed # Resting.remaining
    <3>1. /\ book' = Book!Changed(book, Resting.id, Resting.remaining - Executed)
          /\ phase' = "Match"
      BY <1>8, <2>1, <2>4 DEF MatchOne, UpdateMaker, Book!Change
    <3>2. AfterTrade(c) =
            Config(Book!Changed(book, Resting.id, Resting.remaining - Executed), lastOrderId,
                   "Match", remaining - Executed,
                   0, pending', nextIndex + 1, command.sequence, command.message)
      BY <1>2, <1>5, <1>6, <2>1, <2>2, <2>4 DEF AfterTrade, Further
    <3> QED BY <1>1, <1>3, <2>1, <2>2, <3>1, <3>2 DEF Now
  <2> QED BY <2>3, <2>4
<1>9. CASE MatchEnds
  <2>1. phase = "Match" /\ ~CanTrade /\ phase' = "Finish" /\ c.phase = "Match"
    BY <1>2, <1>9 DEF MatchEnds
  <2>2. After(c) = AfterLoop(c)
    BY <1>7, <2>1 DEF After
  <2>3. FitsIn(c) <=> CanRest
    BY <1>2, <1>5 DEF FitsIn, CanRest
  <2>4. c.remaining = remaining
    BY <1>2, <2>1
  <2>5. CASE remaining = 0
    <3>1. pending' = OrderEvent("Done", Order.id) /\ book' = book
      BY <1>9, <2>5 DEF MatchEnds, Add
    <3>2. AfterLoop(c) = Config(book, lastOrderId, "Finish", 0, 0, OrderEvent("Done", Order.id),
                                nextIndex + 1, command.sequence, command.message)
      BY <1>2, <1>5, <2>4, <2>5 DEF AfterLoop, Further
    <3> QED BY <1>1, <1>3, <2>1, <2>2, <3>1, <3>2 DEF Now
  <2>6. CASE remaining # 0 /\ CanRest
    <3>1. /\ pending' = Rested(Order, remaining)
          /\ book' = Book!Rested(book, Order.id, Order.side, Order.price, remaining)
      BY <1>9, <2>6 DEF MatchEnds, Add, Book!Rest
    <3>2. AfterLoop(c) =
            Config(Book!Rested(book, Order.id, Order.side, Order.price, remaining), lastOrderId,
                   "Finish", 0, 0, Rested(Order, remaining),
                   nextIndex + 1, command.sequence, command.message)
      BY <1>2, <1>5, <2>3, <2>4, <2>6 DEF AfterLoop, Further
    <3> QED BY <1>1, <1>3, <2>1, <2>2, <3>1, <3>2 DEF Now
  <2>7. CASE remaining # 0 /\ ~CanRest
    <3>1. /\ pending' = OrderEvent(IF remaining = Order.quantity THEN "Rejected"
                                   ELSE "MatcherFatal", Order.id)
          /\ book' = book
      BY <1>9, <2>7 DEF MatchEnds, Add
    <3>2. AfterLoop(c) =
            Config(book, lastOrderId, "Finish", 0, 0, pending',
                   nextIndex + 1, command.sequence, command.message)
      BY <1>2, <1>5, <2>3, <2>4, <2>7, <3>1 DEF AfterLoop, Further
    <3> QED BY <1>1, <1>3, <2>1, <2>2, <3>1, <3>2 DEF Now
  <2> QED BY <2>5, <2>6, <2>7
<1> QED BY <1>4, <1>8, <1>9

\* A command other than LoadSnapshot starts as Start says, unless the snapshot
\* cannot be captured.
LEMMA StartsAs ==
  ASSUME TypeInv, NEW sequence, NEW replayed, NEW message \in Messages,
         Begin(sequence, replayed, message), Dispatch(sequence, message),
         message.type # "LoadSnapshot"
  PROVE  \/ Now' = Start(book, lastOrderId, sequence, message)
         \/ /\ message.type = "SaveSnapshot" /\ SaveSnapshot(sequence)
            /\ pending' = SnapshotFailed /\ fatalReason' = "SnapshotCaptureFailed"
<1>1. command' = [sequence |-> sequence, replayed |-> replayed, message |-> message]
  BY DEF Begin
<1>2. command'.sequence = sequence /\ command'.message = message
  BY <1>1
<1>3. CASE message.type = "NewLimit" /\ NewLimit(message.order)
  <2> DEFINE o == message.order
  <2>0. Start(book, lastOrderId, sequence, message) =
          StartOrder(book, lastOrderId, sequence, message)
    BY <1>3 DEF Start
  <2>1. book' = book
    BY <1>3 DEF NewLimit
  <2>2. CASE Stale(o)
    <3>1. /\ pending' = OrderEvent("MatcherFatal", o.id) /\ nextIndex' = 1
          /\ phase' = "Finish" /\ lastOrderId' = lastOrderId
      BY <1>3, <2>2 DEF NewLimit, AddFirst
    <3> QED BY <1>2, <2>0, <2>1, <2>2, <3>1 DEF Now, StartOrder, Stale
  <2>3. CASE ~Stale(o) /\ o.quantity = 0
    <3>1. /\ pending' = OrderEvent("Rejected", o.id) /\ nextIndex' = 1
          /\ phase' = "Finish" /\ lastOrderId' = o.id
      BY <1>3, <2>3 DEF NewLimit, AddFirst, Consume
    <3> QED BY <1>2, <2>0, <2>1, <2>3, <3>1 DEF Now, StartOrder, Stale
  <2>4. CASE ~Stale(o) /\ o.quantity # 0
    <3>1. /\ pending' = OrderEvent("Accepted", o.id) /\ nextIndex' = 1
          /\ phase' = "Match" /\ lastOrderId' = o.id /\ remaining' = o.quantity
      BY <1>3, <2>4 DEF NewLimit, AddFirst, Consume
    <3> QED BY <1>2, <2>0, <2>1, <2>4, <3>1 DEF Now, StartOrder, Stale
  <2> QED BY <2>2, <2>3, <2>4
<1>4. CASE message.type = "SaveSnapshot" /\ SaveSnapshot(sequence)
  <2>1. /\ phase' = "Finish" /\ book' = book /\ lastOrderId' = lastOrderId
        /\ nextIndex' = 1
    BY <1>4 DEF SaveSnapshot, AddFirst
  <2>2. CASE pending' = Event("SaveSnapshot")
    BY <1>2, <1>4, <2>1, <2>2 DEF Now, Start
  <2>3. CASE pending' # Event("SaveSnapshot")
    BY <1>4, <2>3 DEF SaveSnapshot, AddFirst, Terminal
  <2> QED BY <2>2, <2>3
<1>5. CASE message.type \in Signals /\ Signal(message.type)
  <2>1. /\ phase' = "Finish" /\ book' = book /\ lastOrderId' = lastOrderId
        /\ nextIndex' = 1
        /\ pending' = IF message.type = "None" THEN OrderEvent("Rejected", 0)
                      ELSE Event(message.type)
    BY <1>5 DEF Signal, AddFirst
  <2> QED BY <1>2, <1>5, <2>1 DEF Now, Start, Signals
<1> QED BY <1>3, <1>4, <1>5 DEF Dispatch

LEMMA StartFields ==
  ASSUME NEW q, NEW last, NEW cause, NEW message, NEW c, c = Start(q, last, cause, message)
  PROVE  /\ c.book = q /\ c.cause = cause /\ c.message = message /\ c.index = 1
         /\ c.phase \in {"Match", "Finish"}
         /\ c.phase = "Match" => message.type = "NewLimit"
         /\ message.type # "NewLimit" => c.last = last /\ c.phase = "Finish"
<1>1. CASE message.type = "NewLimit"
  BY <1>1, ConfigFields DEF Start, StartOrder
<1>2. CASE message.type # "NewLimit"
  BY <1>2, ConfigFields DEF Start
<1> QED BY <1>1, <1>2

LEMMA AfterFields ==
  ASSUME NEW c
  PROVE  After(c).cause = c.cause /\ After(c).message = c.message /\ After(c).last = c.last
<1>1. CASE c.phase = "MakerDone"
  BY <1>1, ConfigFields DEF After, Further
<1>2. CASE c.phase # "MakerDone" /\ TradesIn(c)
  BY <1>2, ConfigFields DEF After, AfterTrade, Further
<1>3. CASE c.phase # "MakerDone" /\ ~TradesIn(c)
  BY <1>3, ConfigFields DEF After, AfterLoop, Further
<1> QED BY <1>1, <1>2, <1>3

LEMMA TraceLength ==
  ASSUME NEW T, IsStream(T)
  PROVE  Len(T) \in Nat /\ (T # <<>> <=> Len(T) > 0)
<1>1. PICK S : T \in Seq(S)
  BY DEF IsStream
<1> QED BY <1>1, LenProperties, EmptySeq

\* The trace goes on in the same command.
LEMMA TraceGoesOn ==
  ASSUME NEW T, NEW w, w \in Seq(Messages), IsTrace(T, w), T # <<>>,
         T[Len(T)].phase # "Finish",
         NEW c, c = After(T[Len(T)]), c.event.type # "MatcherFatal"
  PROVE  IsTrace(Append(T, c), w)
<1>1. PICK n : n = Len(T)
  OBVIOUS
<1>2. PICK U : U = Append(T, c)
  OBVIOUS
<1>3. IsStream(T)
  BY DEF IsTrace
<1>4. n \in Nat \ {0}
  BY <1>1, <1>3, TraceLength
<1>5. /\ Len(U) = n + 1 /\ \A k \in 1 .. n : U[k] = T[k]
      /\ U[n + 1] = c
  BY <1>1, <1>2, <1>3, AppendFacts
<1>6. IsStream(U)
  BY <1>2, <1>3, AppendFacts
<1>7. c.cause = T[n].cause
  BY <1>1, AfterFields
<1>8. /\ T[1] = Start(NoBook, 0, 1, w[1])
      /\ \A k \in 1 .. n - 1 : T[k + 1] = Successor(T[k], w)
      /\ \A k \in 1 .. n : T[k].cause \in 1 .. Len(w) /\ T[k].event.type # "MatcherFatal"
      /\ \A k \in 1 .. n : \A j \in 1 .. k - 1 :
           T[j].cause <= T[k].cause /\ (T[j].phase = "Finish" => T[j].cause < T[k].cause)
      /\ T[n].cause = Len(w)
  BY <1>1 DEF IsTrace
<1>9. U[1] = Start(NoBook, 0, 1, w[1])
  BY <1>4, <1>5, <1>8
<1>10. ASSUME NEW k \in 1 .. n PROVE U[k + 1] = Successor(U[k], w)
  <2>1. CASE k = n
    BY <1>1, <1>4, <1>5, <2>1 DEF Successor
  <2>2. CASE k # n
    <3>1. k \in 1 .. n - 1 /\ k + 1 \in 1 .. n
      BY <1>4, <2>2
    <3> QED BY <1>5, <1>8, <3>1
  <2> QED BY <2>1, <2>2
<1>11. ASSUME NEW k \in 1 .. n + 1
       PROVE  U[k].cause \in 1 .. Len(w) /\ U[k].event.type # "MatcherFatal"
  <2>1. n \in 1 .. n
    BY <1>4
  <2>2. CASE k = n + 1
    BY <1>5, <1>7, <1>8, <2>1, <2>2
  <2>3. CASE k # n + 1
    <3>1. k \in 1 .. n
      BY <1>4, <2>3
    <3> QED BY <1>5, <1>8, <3>1
  <2> QED BY <2>2, <2>3
<1>12. ASSUME NEW k \in 1 .. n + 1, NEW j \in 1 .. k - 1
       PROVE  U[j].cause <= U[k].cause /\ (U[j].phase = "Finish" => U[j].cause < U[k].cause)
  <2>1. j \in 1 .. n /\ U[j] = T[j]
    BY <1>4, <1>5
  <2>2. CASE k = n + 1
    <3>1. U[k].cause = T[n].cause
      BY <1>5, <1>7, <2>2
    <3>2. CASE j = n
      <4>1. T[n].cause \in 1 .. Len(w) /\ U[j].phase # "Finish"
        BY <1>1, <1>8, <2>1, <3>2
      <4> QED BY <2>1, <3>1, <3>2, <4>1
    <3>3. CASE j # n
      <4>1. n \in 1 .. n /\ j \in 1 .. n - 1
        BY <1>4, <2>1, <3>3
      <4> QED BY <1>8, <2>1, <3>1, <4>1
    <3> QED BY <3>2, <3>3
  <2>3. CASE k # n + 1
    <3>1. k \in 1 .. n /\ U[k] = T[k]
      BY <1>4, <1>5, <2>3
    <3> QED BY <1>8, <2>1, <3>1
  <2> QED BY <2>2, <2>3
<1>13. U # <<>> /\ U[Len(U)].cause = Len(w)
  <2>1. Len(U) > 0
    BY <1>4, <1>5
  <2>2. U # <<>>
    BY <1>6, <2>1, TraceLength
  <2> QED BY <1>5, <1>7, <1>8, <2>2
<1>14. Len(U) - 1 = n
  BY <1>4, <1>5
<1> QED BY <1>2, <1>5, <1>6, <1>9, <1>10, <1>11, <1>12, <1>13, <1>14 DEF IsTrace

\* The trace goes on with the next command.
LEMMA TraceStarts ==
  ASSUME NEW T, NEW w, w \in Seq(Messages), IsTrace(T, w),
         T # <<>> => T[Len(T)].phase = "Finish",
         NEW m \in Messages, NEW q, NEW last, Before(T, Len(T) + 1, q, last, Len(w) + 1),
         NEW c, c = Start(q, last, Len(w) + 1, m), c.event.type # "MatcherFatal"
  PROVE  IsTrace(Append(T, c), Append(w, m))
<1>1. PICK n : n = Len(T)
  OBVIOUS
<1>2. PICK U : U = Append(T, c)
  OBVIOUS
<1>3. PICK v : v = Append(w, m)
  OBVIOUS
<1>4. IsStream(T)
  BY DEF IsTrace
<1>5. n \in Nat /\ (T # <<>> <=> n > 0)
  BY <1>1, <1>4, TraceLength
<1>6. /\ Len(U) = n + 1 /\ \A k \in 1 .. n : U[k] = T[k]
      /\ U[n + 1] = c
  BY <1>1, <1>2, <1>4, AppendFacts
<1>7. IsStream(U)
  BY <1>2, <1>4, AppendFacts
<1>8. /\ Len(w) \in Nat /\ Len(v) = Len(w) + 1
      /\ \A k \in 1 .. Len(w) : v[k] = w[k]
      /\ v[Len(w) + 1] = m
  BY <1>3, AppendProperties, LenProperties
<1>9. c.cause = Len(w) + 1
  BY StartFields
<1>10. /\ n > 0 => T[1] = Start(NoBook, 0, 1, w[1])
       /\ \A k \in 1 .. n - 1 : T[k + 1] = Successor(T[k], w)
       /\ \A k \in 1 .. n : T[k].cause \in 1 .. Len(w) /\ T[k].event.type # "MatcherFatal"
       /\ \A k \in 1 .. n : \A j \in 1 .. k - 1 :
            T[j].cause <= T[k].cause /\ (T[j].phase = "Finish" => T[j].cause < T[k].cause)
       /\ n > 0 => T[n].cause = Len(w)
  BY <1>1, <1>5 DEF IsTrace
<1>11. U[1] = Start(NoBook, 0, 1, v[1])
  <2>1. CASE n > 0
    <3>1. 1 \in 1 .. n /\ 1 \in 1 .. Len(w)
      <4>1. 1 \in 1 .. n
        BY <1>5, <2>1
      <4>2. T[1].cause \in 1 .. Len(w)
        BY <1>10, <4>1
      <4> QED BY <1>8, <4>1, <4>2
    <3> QED BY <1>6, <1>8, <1>10, <2>1, <3>1
  <2>2. CASE n = 0
    <3>1. q = NoBook /\ last = 0 /\ Len(w) + 1 = 1
      BY <1>1, <2>2 DEF Before
    <3> QED BY <1>6, <1>8, <2>2, <3>1
  <2> QED BY <1>5, <2>1, <2>2
<1>12. ASSUME NEW k \in 1 .. n PROVE U[k + 1] = Successor(U[k], v)
  <2>1. CASE k = n
    <3>1. /\ T[n].phase = "Finish" /\ T[n].book = q /\ T[n].last = last
          /\ T[n].cause + 1 = Len(w) + 1
      BY <1>1, <1>5, <2>1 DEF Before
    <3> QED BY <1>6, <1>8, <2>1, <3>1 DEF Successor
  <2>2. CASE k # n
    <3>1. k \in 1 .. n - 1 /\ k + 1 \in 1 .. n /\ k \in 1 .. (k + 1) - 1
      BY <1>5, <2>2
    <3>2. U[k + 1] = Successor(U[k], w)
      BY <1>6, <1>10, <3>1
    <3>3. U[k].phase = "Finish" => v[U[k].cause + 1] = w[U[k].cause + 1]
      <4> SUFFICES ASSUME T[k].phase = "Finish" PROVE v[T[k].cause + 1] = w[T[k].cause + 1]
        BY <1>6
      <4>1. /\ T[k].cause \in 1 .. Len(w) /\ T[k + 1].cause \in 1 .. Len(w)
            /\ T[k].cause < T[k + 1].cause
        BY <1>10, <3>1
      <4>2. T[k].cause + 1 \in 1 .. Len(w)
        BY <1>8, <4>1
      <4> QED BY <1>8, <4>2
    <3> QED BY <3>2, <3>3 DEF Successor
  <2> QED BY <2>1, <2>2
<1>13. ASSUME NEW k \in 1 .. n + 1
       PROVE  U[k].cause \in 1 .. Len(v) /\ U[k].event.type # "MatcherFatal"
  <2>1. CASE k = n + 1
    BY <1>6, <1>8, <1>9, <2>1
  <2>2. CASE k # n + 1
    <3>1. k \in 1 .. n
      BY <1>5, <2>2
    <3> QED BY <1>6, <1>8, <1>10, <3>1
  <2> QED BY <2>1, <2>2
<1>14. ASSUME NEW k \in 1 .. n + 1, NEW j \in 1 .. k - 1
       PROVE  U[j].cause <= U[k].cause /\ (U[j].phase = "Finish" => U[j].cause < U[k].cause)
  <2>1. j \in 1 .. n /\ U[j] = T[j]
    BY <1>5, <1>6
  <2>2. CASE k = n + 1
    <3>1. U[k].cause = Len(w) + 1 /\ U[j].cause \in 1 .. Len(w)
      BY <1>6, <1>9, <1>10, <2>1, <2>2
    <3> QED BY <1>8, <3>1
  <2>3. CASE k # n + 1
    <3>1. k \in 1 .. n /\ U[k] = T[k]
      BY <1>5, <1>6, <2>3
    <3> QED BY <1>10, <2>1, <3>1
  <2> QED BY <2>2, <2>3
<1>15. U # <<>> /\ U[Len(U)].cause = Len(v)
  <2>1. Len(U) > 0
    BY <1>5, <1>6
  <2>2. U # <<>>
    BY <1>7, <2>1, TraceLength
  <2> QED BY <1>6, <1>8, <1>9, <2>2
<1>16. Len(U) - 1 = n
  BY <1>5, <1>6
<1> QED BY <1>2, <1>3, <1>6, <1>7, <1>11, <1>12, <1>13, <1>14, <1>15, <1>16 DEF IsTrace

\* Where a command started in a trace it starts in a longer one.
LEMMA BeforeStays ==
  ASSUME NEW T, IsStream(T), NEW c, NEW n, NEW q, NEW last, NEW cause,
         Before(T, n, q, last, cause)
  PROVE  Before(Append(T, c), n, q, last, cause)
<1>1. PICK U : U = Append(T, c)
  OBVIOUS
<1>2. /\ Len(U) = Len(T) + 1 /\ \A k \in 1 .. Len(T) : U[k] = T[k]
      /\ Len(T) \in Nat
  BY <1>1, AppendFacts
<1>3. CASE n = 1
  BY <1>3 DEF Before
<1>4. CASE n # 1
  <2>1. /\ n - 1 \in 1 .. Len(T) /\ T[n - 1].phase = "Finish"
        /\ T[n - 1].book = q /\ T[n - 1].last = last /\ T[n - 1].cause + 1 = cause
    BY <1>4 DEF Before
  <2>2. n - 1 \in 1 .. Len(U) /\ U[n - 1] = T[n - 1]
    BY <1>2, <2>1
  <2> QED BY <1>1, <1>4, <2>1, <2>2 DEF Before
<1> QED BY <1>3, <1>4

\* Every command starts in one place.
LEMMA StartsOnce ==
  ASSUME NEW T, NEW w, w \in Seq(Messages), IsTrace(T, w),
         NEW i \in 1 .. Len(T), NEW j \in 1 .. Len(T),
         T[i].phase = "Finish", T[j].phase = "Finish", T[i].cause = T[j].cause
  PROVE  i = j
<1>1. Len(T) \in Nat
  BY TraceLength DEF IsTrace
<1>2. T[i].cause \in Int
  BY DEF IsTrace
<1>3. \A b \in 1 .. Len(T) : \A a \in 1 .. b - 1 :
        T[a].phase = "Finish" => T[a].cause < T[b].cause
  BY DEF IsTrace
<1>4. i < j => i \in 1 .. j - 1
  BY <1>1
<1>5. j < i => j \in 1 .. i - 1
  BY <1>1
<1>6. ~(i < j)
  BY <1>2, <1>3, <1>4
<1>7. ~(j < i)
  BY <1>2, <1>3, <1>5
<1> QED BY <1>1, <1>6, <1>7

\* The first event of a recorded command, from where it starts.
LEMMA StartInTrace ==
  ASSUME NEW T, NEW w, w \in Seq(Messages), IsTrace(T, w),
         NEW n \in Nat, n > 1, NEW q, NEW last, NEW cause,
         Before(T, n, q, last, cause), cause <= Len(w)
  PROVE  n \in 1 .. Len(T) /\ T[n] = Start(q, last, cause, w[cause])
<1>1. n # 1
  OBVIOUS
<1>2. /\ n - 1 \in 1 .. Len(T) /\ T[n - 1].phase = "Finish"
      /\ T[n - 1].book = q /\ T[n - 1].last = last /\ T[n - 1].cause + 1 = cause
  BY <1>1 DEF Before
<1>3. Len(T) \in Nat /\ T # <<>> /\ Len(w) \in Nat
  <2>1. Len(T) \in Nat /\ (T # <<>> <=> Len(T) > 0)
    BY TraceLength DEF IsTrace
  <2> QED BY <1>2, <2>1, LenProperties
<1>4. T[Len(T)].cause = Len(w) /\ T[n - 1].cause \in 1 .. Len(w)
  BY <1>2, <1>3 DEF IsTrace
<1>5. n - 1 # Len(T)
  BY <1>2, <1>3, <1>4
<1>6. n - 1 \in Int /\ n - 1 \in 1 .. Len(T) - 1
  BY <1>2, <1>3, <1>5
<1>7. n \in Int /\ n > 1 /\ n <= Len(T)
  BY <1>3, <1>6
<1>8. (n - 1) + 1 = n
  BY <1>7
<1>9. T[(n - 1) + 1] = Successor(T[n - 1], w)
  BY <1>6 DEF IsTrace
<1>10. T[n] = Start(q, last, cause, w[cause])
  BY <1>2, <1>8, <1>9 DEF Successor
<1> QED BY <1>3, <1>7, <1>10

\* In the middle of an order the next event is recorded, too.
LEMMA GoesOnInTrace ==
  ASSUME NEW T, NEW w, IsTrace(T, w), T # <<>> => T[Len(T)].phase = "Finish",
         NEW n \in 1 .. Len(T), T[n].phase # "Finish"
  PROVE  n + 1 \in 1 .. Len(T) /\ T[n + 1] = After(T[n])
<1>1. Len(T) \in Nat /\ T # <<>>
  BY TraceLength DEF IsTrace
<1>2. n # Len(T)
  BY <1>1
<1>3. n \in 1 .. Len(T) - 1 /\ n + 1 \in 1 .. Len(T)
  BY <1>1, <1>2
<1>4. T[n + 1] = Successor(T[n], w)
  BY <1>3 DEF IsTrace
<1> QED BY <1>3, <1>4 DEF Successor

LEMMA LiveEventsAre == LiveEvents = LiveOf(published)
BY DEF LiveEvents, LiveOf

\* A publication adds to the live events if it is one.
LEMMA PublishedLive ==
  ASSUME EventInv, StreamInv, NEW e, published' = Append(published, e)
  PROVE  /\ StreamInv'
         /\ e.from # "Live" => LiveEvents' = LiveEvents
         /\ e.from = "Live" =>
              /\ LiveEvents' = Append(LiveEvents, e)
              /\ Len(LiveEvents) \in Nat /\ Len(LiveEvents') = Len(LiveEvents) + 1
              /\ \A k \in 1 .. Len(LiveEvents) : LiveEvents'[k] = LiveEvents[k]
              /\ LiveEvents'[Len(LiveEvents) + 1] = e
<1>1. IsStream(published)
  BY DEF EventInv
<1>2. LiveEvents' = LiveOf(published')
  BY DEF LiveEvents, LiveOf
<1>3. LiveEvents' = Filtered(LiveEvents, e)
  BY <1>1, <1>2, LiveAppend, LiveEventsAre
<1>4. /\ Len(published) \in Nat /\ Len(published') = Len(published) + 1
      /\ \A j \in 1 .. Len(published) : published'[j] = published[j]
      /\ published'[Len(published) + 1] = e
  BY <1>1, AppendFacts
<1>5. CASE e.from # "Live"
  <2>1. LiveEvents' = LiveEvents
    BY <1>3, <1>5 DEF Filtered
  <2>2. StreamInv'
    <3>1. \A j \in 1 .. Len(published) : j \in 1 .. Len(published')
      BY <1>4
    <3>2. \A k \in 1 .. Len(LiveEvents) :
            \E j \in 1 .. Len(published') : published'[j] = LiveEvents[k]
      BY <1>4, <3>1 DEF StreamInv
    <3> QED BY <2>1, <3>2 DEF StreamInv
  <2> QED BY <1>5, <2>1, <2>2
<1>6. CASE e.from = "Live"
  <2>1. LiveEvents' = Append(LiveEvents, e)
    BY <1>3, <1>6 DEF Filtered
  <2>2. /\ Len(LiveEvents) \in Nat /\ Len(LiveEvents') = Len(LiveEvents) + 1
        /\ \A k \in 1 .. Len(LiveEvents) : LiveEvents'[k] = LiveEvents[k]
        /\ LiveEvents'[Len(LiveEvents) + 1] = e
    BY <2>1, AppendFacts DEF StreamInv
  <2>3. IsStream(LiveEvents')
    BY <2>1, AppendFacts DEF StreamInv
  <2>4. ASSUME NEW k \in 1 .. Len(LiveEvents')
        PROVE  \E j \in 1 .. Len(published') : published'[j] = LiveEvents'[k]
    <3>1. CASE k = Len(LiveEvents) + 1
      <4>1. Len(published) + 1 \in 1 .. Len(published')
        BY <1>4
      <4> QED BY <1>4, <2>2, <3>1, <4>1
    <3>2. CASE k # Len(LiveEvents) + 1
      <4>1. k \in 1 .. Len(LiveEvents) /\ LiveEvents'[k] = LiveEvents[k]
        BY <2>2, <3>2
      <4>2. PICK j \in 1 .. Len(published) : published[j] = LiveEvents[k]
        BY <4>1 DEF StreamInv
      <4>3. j \in 1 .. Len(published') /\ published'[j] = published[j]
        BY <1>4
      <4> QED BY <4>1, <4>2, <4>3
    <3> QED BY <3>1, <3>2
  <2> QED BY <1>6, <2>1, <2>2, <2>3, <2>4 DEF StreamInv
<1> QED BY <1>5, <1>6

LEMMA EnvelopeIs ==
  ASSUME NEW last \in BOOLEAN, last <=> phase = "Finish"
  PROVE  /\ replayMode = "Live" => Envelope(last) = EventAt(Now, nextEventSequence)
         /\ replayMode # "Live" /\ command.replayed =>
              [Envelope(last) EXCEPT !.from = "Live"] = EventAt(Now, nextEventSequence)
<1>1. PICK c : c = Now
  OBVIOUS
<1>2. /\ c.phase = phase /\ c.event = pending /\ c.index = nextIndex
      /\ c.cause = command.sequence
  BY <1>1, NowFields
<1>3. last = (c.phase = "Finish")
  BY <1>2
<1>4. EventAt(c, nextEventSequence) =
        [sequence |-> nextEventSequence, cause |-> command.sequence, index |-> nextIndex - 1,
         last |-> last, event |-> pending, from |-> "Live"]
  BY <1>2, <1>3 DEF EventAt
<1> QED BY <1>1, <1>4 DEF Envelope

\* Every publication.
LEMMA StreamStep ==
  ASSUME EventInv, StreamInv, [Next]_vars
  PROVE  StreamInv'
<1>1. CASE published' = published
  <2>1. LiveEvents' = LiveEvents
    BY <1>1 DEF LiveEvents
  <2> QED BY <1>1, <2>1 DEF StreamInv
<1>2. CASE \E last \in BOOLEAN : published' = Append(published, Envelope(last))
  BY <1>2, PublishedLive
<1>3. \/ published' = published
      \/ \E last \in BOOLEAN : published' = Append(published, Envelope(last))
  <2>1. CASE TakesCommand
    <3>1. \E sequence, message : Dispatch(sequence, message)
      BY <2>1 DEF TakesCommand, Live, ReplayLoad, ReplayNext, ReplayStop, Restore, Control
    <3> QED BY <3>1 DEF Dispatch, NewLimit, SaveSnapshot, LoadSnapshot, Signal, AddFirst
  <2>2. CASE MatchOne \/ MakerDone \/ MatchEnds
    BY <2>2 DEF MatchOne, MakerDone, MatchEnds, Add, Publish
  <2>3. CASE AddFails \/ FinishFails
    BY <2>3 DEF AddFails, FinishFails, WriterFails
  <2>4. CASE Finish
    BY <2>4 DEF Finish
  <2>5. CASE ReaderFails \/ UNCHANGED vars
    BY <2>5 DEF ReaderFails, vars
  <2> QED BY <2>1, <2>2, <2>3, <2>4, <2>5 DEF Next, TakesCommand
<1> QED BY <1>1, <1>2, <1>3

LEMMA StreamInit == Init => StreamInv
<1> SUFFICES ASSUME Init PROVE StreamInv
  OBVIOUS
<1>1. LiveEvents = <<>>
  BY LiveEventsAre, LiveEmpty DEF Init
<1>2. <<>> \in Seq({}) /\ Len(<<>>) = 0
  OBVIOUS
<1> QED BY <1>1, <1>2 DEF StreamInv, IsStream

\* A replayed event is the one the live matcher published.
LEMMA ReplayedIsReproduced ==
  ASSUME EventInv, StreamInv, ReplayReproduces, FatalInv, phase # "Idle",
         ~Fatal => \E T : TraceInv(T),
         NEW last \in BOOLEAN, last <=> phase = "Finish",
         published' = Append(published, Envelope(last))
  PROVE  ReplayReproduces'
<1>1. /\ Len(published) \in Nat
      /\ DOMAIN published' = 1 .. Len(published) + 1
      /\ DOMAIN published = 1 .. Len(published)
      /\ \A j \in 1 .. Len(published) : published'[j] = published[j]
      /\ published'[Len(published) + 1] = Envelope(last)
  BY AppendFacts DEF EventInv
<1> SUFFICES ASSUME NEW k \in DOMAIN published', published'[k].from = "Replayed",
                    published'[k].event # SnapshotFailed
             PROVE  \E j \in 1 .. k - 1 : published'[j] = [published'[k] EXCEPT !.from = "Live"]
  BY DEF ReplayReproduces
<1>2. CASE k # Len(published) + 1
  <2>1. k \in DOMAIN published /\ published'[k] = published[k]
    BY <1>1, <1>2
  <2>2. PICK j \in 1 .. k - 1 : published[j] = [published[k] EXCEPT !.from = "Live"]
    BY <2>1 DEF ReplayReproduces
  <2>3. published'[j] = published[j]
    BY <1>1, <2>1
  <2> QED BY <2>1, <2>2, <2>3
<1>3. CASE k = Len(published) + 1
  <2>1. published'[k] = Envelope(last)
    BY <1>1, <1>3
  <2>2. replayMode # "Live" /\ command.replayed /\ pending # SnapshotFailed
    BY <2>1 DEF Envelope
  <2>3. ~Fatal
    BY <2>2 DEF FatalInv
  <2>4. PICK T : TraceInv(T)
    BY <2>3
  <2>5. nextEventSequence \in 1 .. Len(T) /\ T[nextEventSequence] = Now
    BY <2>2, <2>4 DEF TraceInv, ReplayInv
  <2>6. /\ Len(T) = Len(LiveEvents)
        /\ \A i \in 1 .. Len(LiveEvents) : LiveEvents[i] = EventAt(T[i], i)
    <3>1. Len(T) = Resume - 1 /\ Len(LiveEvents) = Resume - 1
      BY <2>2, <2>4 DEF TraceInv, LiveInv
    <3> QED BY <2>4, <3>1 DEF TraceInv, LiveInv
  <2>7. LiveEvents[nextEventSequence] = EventAt(Now, nextEventSequence)
    BY <2>5, <2>6
  <2>8. PICK j \in 1 .. Len(published) : published[j] = LiveEvents[nextEventSequence]
    BY <2>5, <2>6 DEF StreamInv
  <2>9. EventAt(Now, nextEventSequence) = [Envelope(last) EXCEPT !.from = "Live"]
    BY <2>2, EnvelopeIs
  <2>10. published'[j] = published[j] /\ j \in 1 .. k - 1
    BY <1>1, <1>3
  <2> QED BY <2>1, <2>7, <2>8, <2>9, <2>10
<1> QED BY <1>2, <1>3

-----------------------------------------------------------------------------
(* The steps of the matcher along the trace.                                  *)

AllInv == BookInv /\ EventInv /\ StreamInv

LEMMA OrderSteps ==
  ASSUME MatchOne \/ MakerDone \/ MatchEnds
  PROVE  /\ phase \in {"Match", "MakerDone"} /\ phase' # "Idle"
         /\ published' = Append(published, Envelope(FALSE))
         /\ nextEventSequence' = nextEventSequence + 1
         /\ UNCHANGED <<liveResumeEventSequence, deferredEventSequence, replayMode,
                        deferredMode, deferredStartReplay, command, wal, store, cursor>>
         /\ fatalReason' = "None" => pending'.type # "MatcherFatal"
<1>1. CASE MatchOne
  BY <1>1 DEF MatchOne, Add, Publish, replayVars, environment, Trade
<1>2. CASE MakerDone
  BY <1>2 DEF MakerDone, Add, Publish, replayVars, environment, OrderEvent
<1>3. CASE MatchEnds
  <2>1. fatalReason' = "None" => pending'.type # "MatcherFatal"
    <3> SUFFICES ASSUME fatalReason' = "None" PROVE pending'.type # "MatcherFatal"
      OBVIOUS
    <3>1. CASE remaining = 0
      BY <1>3, <3>1 DEF MatchEnds, Add, OrderEvent
    <3>2. CASE remaining # 0 /\ CanRest
      <4>1. pending' = Rested(Order, remaining)
        BY <1>3, <3>2 DEF MatchEnds, Add
      <4> QED BY <4>1 DEF Rested
    <3>3. CASE remaining # 0 /\ ~CanRest
      <4>1. remaining = Order.quantity
        BY <1>3, <3>3 DEF MatchEnds, Terminal
      <4>2. pending' = OrderEvent("Rejected", Order.id)
        BY <1>3, <3>3, <4>1 DEF MatchEnds, Add
      <4> QED BY <4>2 DEF OrderEvent
    <3> QED BY <3>1, <3>2, <3>3
  <2> QED BY <1>3, <2>1 DEF MatchEnds, Add, Publish, replayVars, environment
<1> QED BY <1>1, <1>2, <1>3

\* A command is taken and does not stop the matcher.
LEMMA CommandSteps ==
  ASSUME TypeInv, NEW sequence, NEW replayed, NEW message \in Messages,
         Begin(sequence, replayed, message), Dispatch(sequence, message),
         message.type # "LoadSnapshot", fatalReason' = "None"
  PROVE  /\ phase = "Idle" /\ fatalReason = "None" /\ phase' # "Idle"
         /\ Now' = Start(book, lastOrderId, sequence, message)
         /\ book' = book
         /\ pending'.type # "MatcherFatal"
         /\ command'.sequence = sequence /\ command'.replayed = replayed
         /\ command'.message = message
         /\ UNCHANGED <<published, nextEventSequence, liveResumeEventSequence,
                        deferredEventSequence, replayMode>>
         /\ message.type # "StopReplay" \/ replayMode # "Replay" => deferredMode' = deferredMode
         /\ message.type = "StopReplay" /\ replayMode = "Replay" => deferredMode' = "Restoring"
         /\ message.type # "StartReplay" \/ replayMode # "Live" =>
              deferredStartReplay' = deferredStartReplay \/ deferredStartReplay' = FALSE
         /\ message.type # "SaveSnapshot" => store' = store
         /\ message.type = "SaveSnapshot" =>
              /\ lastOrderId' = lastOrderId
              /\ store' = {image \in store : image.of # sequence} \cup
                            {[of |-> sequence, lastOrderId |-> lastOrderId,
                              nextEventSequence |-> nextEventSequence + 1, book |-> book]}
<1>1. phase = "Idle" /\ fatalReason = "None"
  BY DEF Begin, Idle, Fatal
<1>2. command' = [sequence |-> sequence, replayed |-> replayed, message |-> message]
  BY DEF Begin
<1>3. Now' = Start(book, lastOrderId, sequence, message)
  BY StartsAs
<1>4. CASE message.type = "NewLimit" /\ NewLimit(message.order)
  <2>1. /\ phase' # "Idle" /\ book' = book /\ UNCHANGED <<replayVars, store>>
        /\ UNCHANGED <<published, nextEventSequence>>
    BY <1>4 DEF NewLimit, AddFirst
  <2>2. pending'.type # "MatcherFatal"
    BY <1>4 DEF NewLimit, AddFirst, Terminal, OrderEvent
  <2> QED BY <1>1, <1>2, <1>3, <1>4, <2>1, <2>2 DEF replayVars
<1>5. CASE message.type = "SaveSnapshot" /\ SaveSnapshot(sequence)
  <2>1. /\ phase' # "Idle" /\ book' = book /\ lastOrderId' = lastOrderId
        /\ UNCHANGED replayVars /\ UNCHANGED <<published, nextEventSequence>>
        /\ pending' = Event("SaveSnapshot")
        /\ store' = {image \in store : image.of # sequence} \cup
                      {[of |-> sequence, lastOrderId |-> lastOrderId,
                        nextEventSequence |-> nextEventSequence + 1, book |-> book]}
    BY <1>5 DEF SaveSnapshot, AddFirst, Terminal, CaptureSequence
  <2>2. pending'.type # "MatcherFatal"
    BY <2>1 DEF Event
  <2> QED BY <1>1, <1>2, <1>3, <1>5, <2>1, <2>2 DEF replayVars
<1>6. CASE message.type \in Signals /\ Signal(message.type)
  <2>1. /\ phase' # "Idle" /\ book' = book /\ store' = store
        /\ UNCHANGED <<published, nextEventSequence, liveResumeEventSequence,
                       deferredEventSequence, replayMode>>
        /\ deferredStartReplay' = (message.type = "StartReplay" /\ replayMode = "Live")
        /\ deferredMode' = IF message.type = "StopReplay" /\ replayMode = "Replay"
                           THEN "Restoring" ELSE deferredMode
        /\ pending' = IF message.type = "None" THEN OrderEvent("Rejected", 0)
                      ELSE Event(message.type)
    BY <1>6 DEF Signal, AddFirst
  <2>2. pending'.type # "MatcherFatal"
    BY <1>6, <2>1 DEF Event, OrderEvent, Signals
  <2>3. message.type # "SaveSnapshot"
    BY <1>6 DEF Signals
  <2>4. message.type # "StartReplay" \/ replayMode # "Live" => deferredStartReplay' = FALSE
    BY <2>1
  <2> QED BY <1>1, <1>2, <1>3, <2>1, <2>2, <2>3, <2>4
<1> QED BY <1>4, <1>5, <1>6 DEF Dispatch

\* In live mode an order goes on.
LEMMA LiveOrderStep ==
  ASSUME AllInv, NEW T, TraceInv(T), MatchOne \/ MakerDone \/ MatchEnds,
         replayMode = "Live", fatalReason' = "None"
  PROVE  \E U : TraceInv(U)'
<1>1. PICK c : c = After(Now)
  OBVIOUS
<1>2. PICK U : U = Append(T, c)
  OBVIOUS
<1>3. Now' = c
  BY <1>1, GoesOn
<1>4. /\ phase \in {"Match", "MakerDone"} /\ phase' # "Idle"
      /\ published' = Append(published, Envelope(FALSE))
      /\ nextEventSequence' = nextEventSequence + 1
      /\ UNCHANGED <<liveResumeEventSequence, deferredEventSequence, replayMode,
                     deferredMode, deferredStartReplay, command, wal, store, cursor>>
      /\ pending'.type # "MatcherFatal"
  BY OrderSteps
<1>5. nextEventSequence \in Nat
  BY DEF AllInv, BookInv, TypeInv
<1>6. /\ IsTrace(T, wal) /\ IsStream(T)
      /\ Len(LiveEvents) = nextEventSequence - 1
      /\ \A k \in 1 .. Len(LiveEvents) : LiveEvents[k] = EventAt(T[k], k)
      /\ Len(T) = nextEventSequence /\ T[Len(T)] = Now
  BY <1>4 DEF TraceInv, LiveInv, Resume, IsTrace
<1>7. /\ LiveEvents' = Append(LiveEvents, Envelope(FALSE))
      /\ Len(LiveEvents) \in Nat /\ Len(LiveEvents') = Len(LiveEvents) + 1
      /\ \A k \in 1 .. Len(LiveEvents) : LiveEvents'[k] = LiveEvents[k]
      /\ LiveEvents'[Len(LiveEvents) + 1] = Envelope(FALSE)
  <2>1. Envelope(FALSE).from = "Live"
    BY EnvelopeFields
  <2> QED BY <1>4, <2>1, PublishedLive DEF AllInv
<1>8. Envelope(FALSE) = EventAt(Now, nextEventSequence)
  BY <1>4, EnvelopeIs
<1>9. T # <<>>
  BY <1>5, <1>6, <1>7, TraceLength
<1>10. /\ Len(U) = Len(T) + 1 /\ \A k \in 1 .. Len(T) : U[k] = T[k]
       /\ U[Len(T) + 1] = c
  BY <1>2, <1>6, AppendFacts
<1>11. IsTrace(U, wal)
  <2>1. T[Len(T)].phase # "Finish"
    BY <1>4, <1>6, NowFields
  <2>2. c.event.type # "MatcherFatal"
    <3>1. Now'.event = pending'
      BY DEF Now, Config
    <3> QED BY <1>3, <1>4, <3>1
  <2> QED BY <1>1, <1>2, <1>6, <1>9, <2>1, <2>2, TraceGoesOn DEF AllInv, BookInv, TypeInv
<1>12. ASSUME NEW k \in 1 .. Len(LiveEvents') PROVE LiveEvents'[k] = EventAt(U[k], k)
  <2>1. CASE k = nextEventSequence
    <3>1. LiveEvents'[k] = Envelope(FALSE)
      <4>1. k = Len(LiveEvents) + 1
        BY <1>5, <1>6, <2>1
      <4> QED BY <1>7, <4>1, Zenon
    <3>2. k \in 1 .. Len(T) /\ T[k] = Now
      <4>1. k >= 1 /\ k = Len(T)
        BY <1>6, <2>1
      <4> QED BY <1>5, <1>6, <4>1
    <3> QED BY <1>8, <1>10, <2>1, <3>1, <3>2
  <2>2. CASE k # nextEventSequence
    <3>1. k \in 1 .. Len(LiveEvents) /\ k \in 1 .. Len(T)
      BY <1>5, <1>6, <1>7, <2>2
    <3> QED BY <1>6, <1>7, <1>10, <3>1
  <2> QED BY <2>1, <2>2
<1>13. LiveInv(U)'
  <2>1. Resume' = nextEventSequence + 1
    BY <1>4 DEF Resume
  <2>2. Len(LiveEvents') = Resume' - 1 /\ Len(U) = Resume'
    BY <1>5, <1>6, <1>7, <1>10, <2>1
  <2>3. U[Len(U)] = Now'
    BY <1>3, <1>10
  <2> QED BY <1>4, <1>11, <1>12, <2>2, <2>3 DEF LiveInv
<1>14. StoreInv(U)'
  BY <1>2, <1>4, <1>6, BeforeStays DEF TraceInv, StoreInv
<1>15. WalInv'
  BY <1>4 DEF TraceInv, WalInv
<1>16. ReplayInv(U)'
  BY <1>4 DEF TraceInv, ReplayInv
<1> QED BY <1>13, <1>14, <1>15, <1>16 DEF TraceInv

\* In a replay an order goes on, as it did before.
LEMMA ReplayedOrderStep ==
  ASSUME AllInv, NEW T, TraceInv(T), MatchOne \/ MakerDone \/ MatchEnds,
         replayMode # "Live"
  PROVE  /\ nextEventSequence + 1 \in 1 .. Len(T) /\ T[nextEventSequence + 1] = Now'
         /\ pending'.type # "MatcherFatal"
         /\ fatalReason' = "None" => TraceInv(T)'
<1>1. /\ phase \in {"Match", "MakerDone"} /\ phase' # "Idle"
      /\ published' = Append(published, Envelope(FALSE))
      /\ nextEventSequence' = nextEventSequence + 1
      /\ UNCHANGED <<liveResumeEventSequence, deferredEventSequence, replayMode,
                     deferredMode, deferredStartReplay, command, wal, store, cursor>>
  BY OrderSteps
<1>2. Now' = After(Now)
  BY GoesOn
<1>3. /\ command.replayed /\ replayMode = "Replay"
      /\ nextEventSequence \in 1 .. Len(T) /\ T[nextEventSequence] = Now
      /\ deferredEventSequence = 0 /\ command.sequence + 1 = cursor
      /\ deferredMode = "Live" => replayMode = "Restoring"
  BY <1>1 DEF TraceInv, ReplayInv
<1>4. /\ IsTrace(T, wal) /\ Len(T) = Resume - 1 /\ (T # <<>> => T[Len(T)].phase = "Finish")
      /\ Len(LiveEvents) = Resume - 1
      /\ \A k \in 1 .. Len(LiveEvents) : LiveEvents[k] = EventAt(T[k], k)
  BY <1>3 DEF TraceInv, LiveInv
<1>5. T[nextEventSequence].phase # "Finish"
  BY <1>1, <1>3, NowFields
<1>6. nextEventSequence + 1 \in 1 .. Len(T) /\ T[nextEventSequence + 1] = Now'
  BY <1>2, <1>3, <1>4, <1>5, GoesOnInTrace
<1>7. pending'.type # "MatcherFatal"
  <2>1. Now'.event = pending'
    BY DEF Now, Config
  <2> QED BY <1>4, <1>6, <2>1 DEF IsTrace
<1>8. LiveEvents' = LiveEvents
  <2>1. Envelope(FALSE).from # "Live"
    BY <1>3, EnvelopeFields
  <2> QED BY <1>1, <2>1, PublishedLive DEF AllInv
<1>9. LiveInv(T)'
  BY <1>1, <1>3, <1>4, <1>8 DEF LiveInv, Resume
<1>10. StoreInv(T)' /\ WalInv'
  BY <1>1 DEF TraceInv, StoreInv, WalInv
<1>11. ReplayInv(T)'
  BY <1>1, <1>3, <1>6 DEF ReplayInv
<1> QED BY <1>6, <1>7, <1>9, <1>10, <1>11 DEF TraceInv

\* A live command begins.
LEMMA LiveCommandStep ==
  ASSUME AllInv, NEW T, TraceInv(T), "LoadSnapshot" \notin Controls,
         NEW message \in LiveMessages, Live(message), fatalReason' = "None"
  PROVE  \E U : TraceInv(U)'
<1> DEFINE n == nextEventSequence
<1>1. /\ replayMode = "Live" /\ message \in Messages
      /\ message.type = "StartReplay" => wal # <<>>
      /\ Begin(Len(wal) + 1, FALSE, message) /\ Dispatch(Len(wal) + 1, message)
      /\ wal' = Append(wal, message) /\ cursor' = 0
  BY LiveMessageType DEF Live, AllInv, BookInv
<1>2. message.type # "LoadSnapshot"
  <2>1. CASE message \in {[type |-> "NewLimit", order |-> o] : o \in Orders}
    BY <2>1
  <2>2. CASE message \in {Message(type) : type \in Controls \ {"LoadSnapshot"}}
    BY <2>2 DEF Message
  <2> QED BY <2>1, <2>2 DEF LiveMessages
<1>3. TypeInv /\ wal \in Seq(Messages)
  BY DEF AllInv, BookInv, TypeInv
<1>4. /\ phase = "Idle" /\ fatalReason = "None" /\ phase' # "Idle"
      /\ Now' = Start(book, lastOrderId, Len(wal) + 1, message)
      /\ book' = book
      /\ pending'.type # "MatcherFatal"
      /\ command'.sequence = Len(wal) + 1
      /\ UNCHANGED <<published, nextEventSequence, liveResumeEventSequence,
                     deferredEventSequence, replayMode>>
      /\ deferredMode' = deferredMode
      /\ message.type # "StartReplay" =>
           deferredStartReplay' = deferredStartReplay \/ deferredStartReplay' = FALSE
      /\ message.type # "SaveSnapshot" => store' = store
      /\ message.type = "SaveSnapshot" =>
           /\ lastOrderId' = lastOrderId
           /\ store' = {image \in store : image.of # Len(wal) + 1} \cup
                         {[of |-> Len(wal) + 1, lastOrderId |-> lastOrderId,
                           nextEventSequence |-> nextEventSequence + 1, book |-> book]}
  <2> HIDE DEF n
  <2> QED BY <1>1, <1>2, <1>3, CommandSteps
<1>5. PICK c : c = Start(book, lastOrderId, Len(wal) + 1, message)
  OBVIOUS
<1>6. PICK U : U = Append(T, c)
  OBVIOUS
<1>7. n \in Nat
  BY <1>3 DEF TypeInv
<1>8. /\ IsTrace(T, wal) /\ IsStream(T) /\ Len(T) \in Nat
      /\ Len(LiveEvents) = n - 1 /\ Len(T) = n - 1
      /\ \A k \in 1 .. Len(LiveEvents) : LiveEvents[k] = EventAt(T[k], k)
      /\ T # <<>> => T[Len(T)].phase = "Finish"
      /\ Before(T, n, book, lastOrderId, Len(wal) + 1)
  <2>1. IsTrace(T, wal) /\ IsStream(T) /\ Len(T) \in Nat
    BY TraceLength DEF TraceInv, LiveInv, IsTrace
  <2> QED BY <1>1, <1>4, <2>1 DEF TraceInv, LiveInv, Resume
<1>9. c.event.type # "MatcherFatal"
  <2>1. Now'.event = pending'
    BY DEF Now, Config
  <2> QED BY <1>4, <1>5, <2>1
<1>10. IsTrace(U, wal')
  <2>1. Before(T, Len(T) + 1, book, lastOrderId, Len(wal) + 1)
    <3>1. Len(T) + 1 = n
      BY <1>7, <1>8
    <3> QED BY <1>8, <3>1
  <2> QED BY <1>1, <1>3, <1>5, <1>6, <1>8, <1>9, <2>1, TraceStarts
<1>11. /\ Len(U) = Len(T) + 1 /\ \A k \in 1 .. Len(T) : U[k] = T[k]
       /\ U[Len(T) + 1] = c
  BY <1>6, <1>8, AppendFacts
<1>12. Len(U) = n /\ U[n] = Now' /\ U[n] = c
  <2>1. Len(T) + 1 = n
    BY <1>7, <1>8
  <2> QED BY <1>4, <1>5, <1>11, <2>1
<1>13. LiveEvents' = LiveEvents
  BY <1>4 DEF LiveEvents
<1>14. LiveInv(U)'
  <2>1. Resume' = n
    BY <1>1, <1>4 DEF Resume
  <2>2. \A k \in 1 .. Len(LiveEvents') : LiveEvents'[k] = EventAt(U[k], k)
    <3>1. \A k \in 1 .. Len(LiveEvents) : k \in 1 .. Len(T)
      BY <1>8
    <3> QED BY <1>8, <1>11, <1>13, <3>1
  <2> QED BY <1>1, <1>4, <1>8, <1>10, <1>12, <1>13, <2>1, <2>2 DEF LiveInv
<1>15. /\ Len(wal) \in Nat /\ Len(wal') = Len(wal) + 1
       /\ \A k \in 1 .. Len(wal) : wal'[k] = wal[k]
       /\ wal'[Len(wal) + 1] = message
  BY <1>1, <1>3, AppendProperties, LenProperties
<1>16. StoreInv(U)'
  <2>1. ASSUME NEW image \in store
        PROVE  /\ image.of \in 1 .. Len(wal') /\ image.nextEventSequence > 1
               /\ Before(U, image.nextEventSequence, image.book, image.lastOrderId, image.of + 1)
    <3>1. /\ image.of \in 1 .. Len(wal) /\ image.nextEventSequence > 1
          /\ Before(T, image.nextEventSequence, image.book, image.lastOrderId, image.of + 1)
      BY DEF TraceInv, StoreInv
    <3> QED BY <1>6, <1>8, <1>15, <3>1, BeforeStays
  <2>2. CASE message.type # "SaveSnapshot"
    BY <1>4, <2>1, <2>2 DEF StoreInv
  <2>3. CASE message.type = "SaveSnapshot"
    <3>1. PICK new : new = [of |-> Len(wal) + 1, lastOrderId |-> lastOrderId,
                            nextEventSequence |-> n + 1, book |-> book]
      OBVIOUS
    <3>2. \A image \in store' : image \in store \/ image = new
      BY <1>4, <2>3, <3>1
    <3>3. /\ new.of \in 1 .. Len(wal') /\ new.nextEventSequence > 1
          /\ new.nextEventSequence = n + 1 /\ new.of = Len(wal) + 1
          /\ new.book = book /\ new.lastOrderId = lastOrderId
      <4>1. n >= 1
        BY <1>7, <1>8
      <4> QED BY <1>7, <1>15, <3>1, <4>1
    <3>4. Before(U, n + 1, book, lastOrderId, (Len(wal) + 1) + 1)
      <4>1. /\ c.book = book /\ c.cause = Len(wal) + 1 /\ c.last = lastOrderId
            /\ c.phase = "Finish"
        BY <1>5, <2>3, StartFields
      <4>2. n + 1 # 1 /\ (n + 1) - 1 = n /\ n \in 1 .. Len(U)
        BY <1>7, <1>8, <1>12
      <4> QED BY <1>12, <4>1, <4>2 DEF Before
    <3>5. Before(U, new.nextEventSequence, new.book, new.lastOrderId, new.of + 1)
      BY <3>3, <3>4
    <3> QED BY <2>1, <3>2, <3>3, <3>5 DEF StoreInv
  <2> QED BY <2>2, <2>3
<1>17. WalInv'
  <2>1. ~deferredStartReplay
    BY <1>4 DEF AllInv, EventInv, CursorInv
  <2>2. deferredStartReplay' => message.type = "StartReplay"
    BY <1>4, <2>1
  <2>3. message.type = "StartReplay" => Len(wal) > 0
    BY <1>1, <1>3, EmptySeq, LenProperties
  <2>4. \A k \in 1 .. Len(wal') : wal'[k].type # "LoadSnapshot"
    <3> SUFFICES ASSUME NEW k \in 1 .. Len(wal') PROVE wal'[k].type # "LoadSnapshot"
      OBVIOUS
    <3>1. CASE k = Len(wal) + 1
      BY <1>2, <1>15, <3>1
    <3>2. CASE k # Len(wal) + 1
      <4>1. k \in 1 .. Len(wal)
        BY <1>15, <3>2
      <4> QED BY <1>15, <4>1 DEF TraceInv, WalInv
    <3> QED BY <3>1, <3>2
  <2>5. deferredStartReplay' => Len(wal') > 1 /\ wal'[Len(wal')].type = "StartReplay"
    BY <1>15, <2>2, <2>3
  <2> QED BY <1>1, <1>4, <2>4, <2>5 DEF WalInv
<1>18. ReplayInv(U)'
  <2>1. deferredMode = "None"
    BY <1>4 DEF AllInv, EventInv, CursorInv
  <2> QED BY <1>1, <1>4, <2>1 DEF ReplayInv
<1> QED BY <1>14, <1>16, <1>17, <1>18 DEF TraceInv

\* A load outside of live mode.
LEMMA SessionLoad ==
  ASSUME AllInv, NEW of, replayMode # "Live", Control(LoadMessage(of)), fatalReason' = "None"
  PROVE  /\ phase = "Idle" /\ phase' = "Finish" /\ command'.replayed = FALSE
         /\ UNCHANGED <<published, nextEventSequence, liveResumeEventSequence, replayMode,
                        deferredStartReplay, store, wal>>
         /\ \E image \in store :
              /\ image.of = of /\ book' = image.book /\ lastOrderId' = image.lastOrderId
              /\ LoadDeferred(image)
<1>1. /\ Begin(Len(wal) + 1, FALSE, LoadMessage(of)) /\ Dispatch(Len(wal) + 1, LoadMessage(of))
      /\ wal' = wal
  BY DEF Control
<1>2. LoadMessage(of).type = "LoadSnapshot" /\ LoadMessage(of).of = of
  BY DEF LoadMessage
<1>3. LoadSnapshot(of)
  BY <1>1, <1>2 DEF Dispatch, Signals
<1>4. /\ phase = "Idle" /\ phase' = "Finish" /\ command'.replayed = FALSE
  BY <1>1, <1>3 DEF Begin, Idle, LoadSnapshot
<1>5. UNCHANGED <<published, nextEventSequence, liveResumeEventSequence, replayMode,
                  deferredStartReplay, store>>
  BY <1>3 DEF LoadSnapshot, AddFirst
<1>6. \E image \in store : /\ image.of = of /\ LoadState(image) /\ LoadDeferred(image)
  BY <1>3 DEF LoadSnapshot, Terminal
<1> QED BY <1>1, <1>4, <1>5, <1>6 DEF LoadState

\* What a step of a session that publishes nothing leaves.
LEMMA SessionKeeps ==
  ASSUME NEW T, TraceInv(T), replayMode # "Live", phase' # "Idle",
         UNCHANGED <<published, liveResumeEventSequence, replayMode, wal>>
  PROVE  LiveInv(T)' /\ WalInv'
<1>1. LiveEvents' = LiveEvents
  BY DEF LiveEvents
<1>2. LiveInv(T)'
  BY <1>1 DEF TraceInv, LiveInv, Resume
<1>3. WalInv'
  BY DEF TraceInv, WalInv
<1> QED BY <1>2, <1>3

LEMMA ReplayLoadStep ==
  ASSUME AllInv, NEW T, TraceInv(T), NEW of, ReplayLoad(of), fatalReason' = "None"
  PROVE  TraceInv(T)'
<1>1. replayMode = "Replay" /\ Control(LoadMessage(of)) /\ cursor' = of + 1
  BY DEF ReplayLoad
<1>2. /\ phase = "Idle" /\ phase' = "Finish" /\ command'.replayed = FALSE
      /\ UNCHANGED <<published, nextEventSequence, liveResumeEventSequence, replayMode,
                     deferredStartReplay, store, wal>>
  BY <1>1, SessionLoad
<1>3. PICK image \in store :
        /\ image.of = of /\ book' = image.book /\ lastOrderId' = image.lastOrderId
        /\ LoadDeferred(image)
  BY <1>1, SessionLoad
<1>4. /\ image.nextEventSequence > 1
      /\ Before(T, image.nextEventSequence, image.book, image.lastOrderId, image.of + 1)
  BY DEF TraceInv, StoreInv
<1>5. deferredEventSequence' = image.nextEventSequence /\ deferredMode' = deferredMode
  BY <1>1, <1>3 DEF LoadDeferred
<1>6. LiveInv(T)' /\ WalInv'
  BY <1>1, <1>2, SessionKeeps
<1>7. StoreInv(T)'
  BY <1>2 DEF TraceInv, StoreInv
<1>8. ReplayInv(T)'
  <2>1. Before(T, deferredEventSequence', book', lastOrderId', cursor')
    BY <1>1, <1>3, <1>4, <1>5
  <2>2. deferredEventSequence' > 1
    BY <1>4, <1>5
  <2>3. deferredMode' # "Live"
    BY <1>1, <1>5 DEF TraceInv, ReplayInv
  <2> QED BY <1>1, <1>2, <2>1, <2>2, <2>3 DEF ReplayInv
<1> QED BY <1>6, <1>7, <1>8 DEF TraceInv

LEMMA RestoreStep ==
  ASSUME AllInv, NEW T, TraceInv(T), Restore, fatalReason' = "None"
  PROVE  TraceInv(T)'
<1>1. replayMode = "Restoring" /\ Control(LoadMessage(Len(wal) - 1)) /\ cursor' = cursor
  BY DEF Restore
<1>2. /\ phase = "Idle" /\ phase' = "Finish" /\ command'.replayed = FALSE
      /\ UNCHANGED <<published, nextEventSequence, liveResumeEventSequence, replayMode,
                     deferredStartReplay, store, wal>>
  BY <1>1, SessionLoad
<1>3. PICK image \in store :
        /\ image.of = Len(wal) - 1 /\ book' = image.book /\ lastOrderId' = image.lastOrderId
        /\ LoadDeferred(image)
  BY <1>1, SessionLoad
<1>4. deferredMode' = "Live"
  BY <1>1, <1>3 DEF LoadDeferred
<1>5. LiveInv(T)' /\ WalInv'
  BY <1>1, <1>2, SessionKeeps
<1>6. StoreInv(T)'
  BY <1>2 DEF TraceInv, StoreInv
<1>7. Restored'
  BY <1>2, <1>3 DEF Restored
<1>8. ReplayInv(T)'
  BY <1>1, <1>2, <1>4, <1>7 DEF ReplayInv
<1> QED BY <1>5, <1>6, <1>8 DEF TraceInv

LEMMA ReplayStopStep ==
  ASSUME AllInv, NEW T, TraceInv(T), ReplayStop, fatalReason' = "None"
  PROVE  TraceInv(T)'
<1>1. /\ replayMode = "Replay" /\ cursor' = cursor /\ wal' = wal
      /\ Begin(Len(wal) + 1, FALSE, Message("StopReplay"))
      /\ Dispatch(Len(wal) + 1, Message("StopReplay"))
  BY DEF ReplayStop, Control
<1>2. Message("StopReplay").type = "StopReplay"
  BY DEF Message
<1>3. Signal("StopReplay")
  BY <1>1, <1>2 DEF Dispatch
<1>4. /\ phase' = "Finish" /\ command'.replayed = FALSE
      /\ UNCHANGED <<published, liveResumeEventSequence, replayMode, store>>
      /\ deferredStartReplay' = FALSE /\ deferredMode' = "Restoring"
  BY <1>1, <1>3 DEF Signal, Begin, AddFirst
<1>5. ~deferredStartReplay
  BY <1>1 DEF AllInv, EventInv, DeferredInv
<1>6. LiveEvents' = LiveEvents
  BY <1>4 DEF LiveEvents
<1>7. LiveInv(T)'
  BY <1>1, <1>4, <1>6 DEF TraceInv, LiveInv, Resume
<1>8. WalInv' /\ StoreInv(T)'
  BY <1>1, <1>4 DEF TraceInv, WalInv, StoreInv
<1>9. ReplayInv(T)'
  BY <1>1, <1>4 DEF ReplayInv
<1> QED BY <1>7, <1>8, <1>9 DEF TraceInv

\* A recorded command begins again, as it did before.
LEMMA ReplayedCommandStep ==
  ASSUME AllInv, NEW T, TraceInv(T), ReplayNext
  PROVE  /\ phase' # "Idle" /\ replayMode' # "Live" /\ command'.replayed
         /\ fatalReason' # "None" => pending' = SnapshotFailed /\ phase' = "Finish"
         /\ fatalReason' = "None" => TraceInv(T)'
<1> DEFINE n == nextEventSequence
           m == wal[cursor]
<1>1. /\ replayMode = "Replay" /\ cursor \in 1 .. Len(wal) - 1 /\ cursor' = cursor + 1
      /\ wal' = wal
      /\ Begin(cursor, TRUE, m) /\ Dispatch(cursor, m)
  BY DEF ReplayNext
<1>2. TypeInv /\ wal \in Seq(Messages) /\ Len(wal) \in Nat /\ n \in Nat
  BY LenProperties DEF AllInv, BookInv, TypeInv
<1>3. /\ cursor \in 1 .. Len(wal) /\ m \in Messages /\ m.type # "LoadSnapshot"
  <2>1. cursor \in 1 .. Len(wal)
    BY <1>1, <1>2
  <2> QED BY <1>2, <2>1, ElementOfSeq DEF TraceInv, WalInv
<1>4. phase = "Idle" /\ fatalReason = "None" /\ command'.replayed
  BY <1>1 DEF Begin, Idle, Fatal
<1>5. /\ IsTrace(T, wal) /\ n > 1 /\ Before(T, n, book, lastOrderId, cursor)
      /\ deferredEventSequence = 0
  BY <1>1, <1>3, <1>4 DEF TraceInv, LiveInv, ReplayInv
<1>6. n \in 1 .. Len(T) /\ T[n] = Start(book, lastOrderId, cursor, m)
  <2>1. cursor <= Len(wal)
    BY <1>3
  <2> QED BY <1>2, <1>5, <2>1, StartInTrace
<1>7. \/ Now' = T[n]
      \/ pending' = SnapshotFailed /\ fatalReason' = "SnapshotCaptureFailed" /\ phase' = "Finish"
  <2>1. \/ Now' = Start(book, lastOrderId, cursor, m)
        \/ /\ SaveSnapshot(cursor) /\ pending' = SnapshotFailed
           /\ fatalReason' = "SnapshotCaptureFailed"
    <3> HIDE DEF m
    <3> QED BY <1>1, <1>2, <1>3, StartsAs
  <2> QED BY <1>6, <2>1 DEF SaveSnapshot
<1>8. phase' # "Idle" /\ replayMode' = replayMode
  <2>1. CASE m.type = "NewLimit" /\ NewLimit(m.order)
    BY <2>1 DEF NewLimit, replayVars
  <2>2. CASE m.type = "SaveSnapshot" /\ SaveSnapshot(cursor)
    BY <2>2 DEF SaveSnapshot, replayVars
  <2>3. CASE m.type \in Signals /\ Signal(m.type)
    BY <2>3 DEF Signal
  <2> QED BY <1>1, <1>3, <2>1, <2>2, <2>3 DEF Dispatch
<1>9. ASSUME fatalReason' # "None"
      PROVE  pending' = SnapshotFailed /\ phase' = "Finish"
  <2> SUFFICES ASSUME Now' = T[n] PROVE FALSE
    BY <1>7
  <2>1. pending'.type # "MatcherFatal"
    <3>1. Now'.event = pending'
      BY DEF Now, Config
    <3> QED BY <1>5, <1>6, <3>1 DEF IsTrace
  <2>2. CASE m.type = "NewLimit" /\ NewLimit(m.order)
    <3>1. pending' = OrderEvent("MatcherFatal", m.order.id)
      BY <1>4, <1>9, <2>2 DEF NewLimit, AddFirst, Healthy
    <3> QED BY <2>1, <3>1 DEF OrderEvent
  <2>3. CASE m.type = "SaveSnapshot" /\ SaveSnapshot(cursor)
    <3>1. pending' = SnapshotFailed
      BY <1>4, <1>9, <2>3 DEF SaveSnapshot, AddFirst, Healthy
    <3> QED BY <2>1, <3>1 DEF SnapshotFailed, OrderEvent
  <2>4. CASE m.type \in Signals /\ Signal(m.type)
    BY <1>4, <1>9, <2>4 DEF Signal
  <2> QED BY <1>1, <1>3, <2>2, <2>3, <2>4 DEF Dispatch
<1>10. ASSUME fatalReason' = "None" PROVE TraceInv(T)'
  <2>1. /\ Now' = Start(book, lastOrderId, cursor, m) /\ book' = book
        /\ command'.sequence = cursor
        /\ UNCHANGED <<published, nextEventSequence, liveResumeEventSequence,
                       deferredEventSequence, replayMode>>
        /\ deferredMode' = deferredMode \/ deferredMode' = "Restoring"
        /\ deferredStartReplay' = deferredStartReplay \/ deferredStartReplay' = FALSE
        /\ m.type # "SaveSnapshot" => store' = store
        /\ m.type = "SaveSnapshot" =>
             /\ lastOrderId' = lastOrderId
             /\ store' = {image \in store : image.of # cursor} \cup
                           {[of |-> cursor, lastOrderId |-> lastOrderId,
                             nextEventSequence |-> nextEventSequence + 1, book |-> book]}
    <3>1. replayMode # "Live"
      BY <1>1
    <3> HIDE DEF m, n
    <3> QED BY <1>1, <1>2, <1>3, <1>10, <3>1, CommandSteps
  <2>3. LiveInv(T)' /\ WalInv'
    BY <1>1, <1>8, <2>1, SessionKeeps
  <2>4. StoreInv(T)'
    <3>1. CASE m.type # "SaveSnapshot"
      BY <1>1, <2>1, <3>1 DEF TraceInv, StoreInv
    <3>2. CASE m.type = "SaveSnapshot"
      <4>1. PICK new : new = [of |-> cursor, lastOrderId |-> lastOrderId,
                              nextEventSequence |-> n + 1, book |-> book]
        OBVIOUS
      <4>2. \A image \in store' : image \in store \/ image = new
        BY <2>1, <3>2, <4>1
      <4>3. /\ new.of = cursor /\ new.nextEventSequence = n + 1
            /\ new.book = book /\ new.lastOrderId = lastOrderId
        BY <4>1
      <4>4. Before(T, n + 1, book, lastOrderId, cursor + 1)
        <5>1. PICK c : c = T[n]
          OBVIOUS
        <5>2. /\ c.book = book /\ c.cause = cursor /\ c.last = lastOrderId
              /\ c.phase = "Finish"
          BY <1>6, <3>2, <5>1, StartFields
        <5>3. n + 1 # 1 /\ (n + 1) - 1 = n
          BY <1>2, <1>5
        <5> QED BY <1>6, <5>1, <5>2, <5>3 DEF Before
      <4>5. /\ new.of \in 1 .. Len(wal') /\ new.nextEventSequence > 1
            /\ Before(T, new.nextEventSequence, new.book, new.lastOrderId, new.of + 1)
        BY <1>1, <1>2, <1>3, <1>5, <4>3, <4>4
      <4> QED BY <1>1, <4>2, <4>5 DEF TraceInv, StoreInv
    <3> QED BY <3>1, <3>2
  <2>5. ReplayInv(T)'
    <3>1. deferredMode' # "Live"
      BY <1>1, <2>1 DEF TraceInv, ReplayInv
    <3>2. T[n] = Now'
      BY <1>6, <2>1
    <3> QED BY <1>1, <1>4, <1>5, <1>6, <1>8, <2>1, <3>1, <3>2 DEF ReplayInv
  <2> QED BY <2>3, <2>4, <2>5 DEF TraceInv
<1> QED BY <1>1, <1>4, <1>8, <1>9, <1>10

\* The end of a live command.
LEMMA LiveFinishStep ==
  ASSUME AllInv, NEW T, TraceInv(T), Finish, replayMode = "Live", fatalReason' = "None"
  PROVE  TraceInv(T)'
<1> DEFINE n == nextEventSequence
<1>1. /\ phase = "Finish" /\ phase' = "Idle"
      /\ published' = Append(published, Envelope(TRUE))
      /\ UNCHANGED <<book, lastOrderId, command, wal, store, cursor>>
  BY DEF Finish, environment
<1>2. /\ liveResumeEventSequence' = IF deferredStartReplay THEN n + 1
                                    ELSE liveResumeEventSequence
      /\ nextEventSequence' = IF deferredEventSequence # 0 THEN deferredEventSequence
                              ELSE n + 1
      /\ replayMode' = IF deferredMode # "None" THEN deferredMode
                       ELSE IF deferredStartReplay THEN "Replay" ELSE replayMode
      /\ deferredStartReplay' = FALSE /\ deferredEventSequence' = 0
      /\ deferredMode' = "None"
  BY DEF Finish, ApplyDeferred
<1>3. deferredEventSequence = 0 /\ deferredMode = "None" /\ n \in Nat
  BY DEF AllInv, EventInv, DeferredInv, BookInv, TypeInv
<1>4. nextEventSequence' = n + 1 /\ Resume' = n + 1
      /\ replayMode' = IF deferredStartReplay THEN "Replay" ELSE "Live"
  BY <1>2, <1>3 DEF Resume
<1>5. command.sequence = Len(wal)
  BY <1>1 DEF AllInv, EventInv, CursorInv
<1>6. /\ IsTrace(T, wal)
      /\ Len(LiveEvents) = n - 1
      /\ \A k \in 1 .. Len(LiveEvents) : LiveEvents[k] = EventAt(T[k], k)
      /\ Len(T) = n /\ T[n] = Now
  BY <1>1 DEF TraceInv, LiveInv, Resume
<1>7. /\ Len(LiveEvents) \in Nat /\ Len(LiveEvents') = Len(LiveEvents) + 1
      /\ \A k \in 1 .. Len(LiveEvents) : LiveEvents'[k] = LiveEvents[k]
      /\ LiveEvents'[Len(LiveEvents) + 1] = Envelope(TRUE)
  <2>1. Envelope(TRUE).from = "Live"
    BY EnvelopeFields
  <2> QED BY <1>1, <2>1, PublishedLive DEF AllInv
<1>8. Envelope(TRUE) = EventAt(Now, n)
  BY <1>1, EnvelopeIs
<1>9. \A k \in 1 .. Len(LiveEvents') : LiveEvents'[k] = EventAt(T[k], k)
  <2> SUFFICES ASSUME NEW k \in 1 .. Len(LiveEvents')
               PROVE  LiveEvents'[k] = EventAt(T[k], k)
    OBVIOUS
  <2>1. CASE k = n
    <3>1. k = Len(LiveEvents) + 1
      BY <1>3, <1>6, <2>1
    <3>2. LiveEvents'[k] = Envelope(TRUE)
      BY <1>7, <3>1, Zenon
    <3> QED BY <1>6, <1>8, <2>1, <3>2
  <2>2. CASE k # n
    <3>1. k \in 1 .. Len(LiveEvents)
      BY <1>3, <1>6, <1>7, <2>2
    <3> QED BY <1>6, <1>7, <3>1
  <2> QED BY <2>1, <2>2
<1>10. /\ n >= 1 /\ T[n].phase = "Finish" /\ T[n].book = book /\ T[n].last = lastOrderId
       /\ T[n].cause = Len(wal)
  BY <1>1, <1>3, <1>5, <1>6, <1>7, NowFields
<1>11. Before(T, n + 1, book, lastOrderId, Len(wal) + 1)
  <2>1. n + 1 # 1 /\ (n + 1) - 1 = n /\ n \in 1 .. Len(T)
    BY <1>3, <1>6, <1>10
  <2> QED BY <1>10, <2>1 DEF Before
<1>12. LiveInv(T)'
  <2>1. Len(LiveEvents') = Resume' - 1 /\ Len(T) = Resume' - 1
    BY <1>3, <1>4, <1>6, <1>7
  <2> QED BY <1>1, <1>4, <1>6, <1>9, <1>10, <1>11, <2>1 DEF LiveInv
<1>13. StoreInv(T)'
  BY <1>1 DEF TraceInv, StoreInv
<1>14. WalInv'
  <2>1. replayMode' # "Live" => deferredStartReplay
    BY <1>4
  <2> QED BY <1>1, <1>2, <2>1 DEF TraceInv, WalInv
<1>15. ReplayInv(T)'
  <2>1. cursor = 0
    BY <1>1 DEF TraceInv, ReplayInv
  <2> QED BY <1>1, <1>2, <2>1 DEF ReplayInv
<1> QED BY <1>12, <1>13, <1>14, <1>15 DEF TraceInv

\* The end of a command in a session.
LEMMA SessionFinishStep ==
  ASSUME AllInv, NEW T, TraceInv(T), Finish, replayMode # "Live", fatalReason' = "None"
  PROVE  TraceInv(T)'
<1> DEFINE n == nextEventSequence
<1>1. /\ phase = "Finish" /\ phase' = "Idle"
      /\ published' = Append(published, Envelope(TRUE))
      /\ UNCHANGED <<book, lastOrderId, command, wal, store, cursor>>
  BY DEF Finish, environment
<1>2. /\ liveResumeEventSequence' = IF deferredStartReplay THEN n + 1
                                    ELSE liveResumeEventSequence
      /\ nextEventSequence' = IF deferredEventSequence # 0 THEN deferredEventSequence
                              ELSE n + 1
      /\ replayMode' = IF deferredMode # "None" THEN deferredMode
                       ELSE IF deferredStartReplay THEN "Replay" ELSE replayMode
      /\ deferredStartReplay' = FALSE /\ deferredEventSequence' = 0
      /\ deferredMode' = "None"
  BY DEF Finish, ApplyDeferred
<1>3. /\ ~deferredStartReplay /\ liveResumeEventSequence # 0
      /\ deferredMode = "Live" => /\ deferredEventSequence = liveResumeEventSequence
                                  /\ replayMode = "Restoring"
      /\ n \in Nat /\ deferredEventSequence \in Nat
      /\ replayMode \in {"Replay", "Restoring"}
      /\ deferredMode \in {"None", "Live", "Restoring"}
  BY DEF AllInv, EventInv, DeferredInv, BookInv, TypeInv, TraceInv, ReplayInv
<1>4. LiveEvents' = LiveEvents
  <2>1. Envelope(TRUE).from # "Live"
    BY EnvelopeFields
  <2> QED BY <1>1, <2>1, PublishedLive DEF AllInv
<1>5. /\ liveResumeEventSequence' = liveResumeEventSequence
      /\ replayMode' = IF deferredMode # "None" THEN deferredMode ELSE replayMode
      /\ replayMode' = "Live" => deferredMode = "Live" /\ n' = liveResumeEventSequence
  BY <1>2, <1>3
<1>6. Resume' = Resume /\ Resume = liveResumeEventSequence
  BY <1>5 DEF Resume
<1>7. /\ IsTrace(T, wal) /\ Len(T) = Resume - 1 /\ (T # <<>> => T[Len(T)].phase = "Finish")
      /\ Len(LiveEvents) = Resume - 1
      /\ \A k \in 1 .. Len(LiveEvents) : LiveEvents[k] = EventAt(T[k], k)
  BY DEF TraceInv, LiveInv
<1>8. WalInv' /\ StoreInv(T)'
  BY <1>1, <1>2 DEF TraceInv, StoreInv, WalInv
<1>9. /\ deferredMode = "Live" => Restored
      /\ command.replayed => replayMode = "Replay" /\ n \in 1 .. Len(T) /\ T[n] = Now
                              /\ deferredEventSequence = 0 /\ command.sequence + 1 = cursor
      /\ ~command.replayed /\ replayMode = "Replay" =>
           \/ deferredMode = "Restoring"
           \/ /\ deferredEventSequence > 1
              /\ Before(T, deferredEventSequence, book, lastOrderId, cursor)
  BY <1>1, <1>3 DEF TraceInv, ReplayInv
<1>10. CASE deferredMode = "Live"
  <2>1. replayMode' = "Live" /\ n' = liveResumeEventSequence
    BY <1>5, <1>10
  <2>2. PICK image \in store : /\ image.of = Len(wal) - 1
                               /\ book = image.book /\ lastOrderId = image.lastOrderId
    BY <1>9, <1>10 DEF Restored
  <2>3. /\ Len(wal) > 1 /\ wal[Len(wal)].type = "StartReplay"
        /\ wal \in Seq(Messages) /\ Len(wal) \in Nat /\ image.nextEventSequence \in Nat
    BY LenProperties DEF TraceInv, WalInv, AllInv, BookInv, TypeInv
  <2>4. PICK i \in Nat : i = image.nextEventSequence
    BY <2>3
  <2>5. i > 1 /\ Before(T, i, book, lastOrderId, Len(wal))
    <3>1. (Len(wal) - 1) + 1 = Len(wal)
      BY <2>3
    <3>2. /\ image.nextEventSequence > 1
          /\ Before(T, image.nextEventSequence, image.book, image.lastOrderId, image.of + 1)
      BY DEF TraceInv, StoreInv
    <3> QED BY <2>2, <2>4, <3>1, <3>2
  <2>6. i \in 1 .. Len(T) /\ T[i] = Start(book, lastOrderId, Len(wal), wal[Len(wal)])
    BY <1>7, <2>3, <2>5, StartInTrace
  <2>7. /\ T[i].book = book /\ T[i].last = lastOrderId /\ T[i].phase = "Finish"
        /\ T[i].cause = Len(wal)
    BY <2>3, <2>6, StartFields
  <2>8. /\ Len(T) \in Nat /\ T # <<>> /\ Len(T) \in 1 .. Len(T)
    <3>1. Len(T) \in Nat /\ (T # <<>> <=> Len(T) > 0)
      BY <1>7, TraceLength DEF IsTrace
    <3> QED BY <2>6, <3>1
  <2>9. T[Len(T)].phase = "Finish" /\ T[Len(T)].cause = Len(wal)
    BY <1>7, <2>8 DEF IsTrace
  <2>10. i = Len(T)
    BY <1>7, <2>3, <2>6, <2>7, <2>8, <2>9, StartsOnce
  <2>11. Before(T, liveResumeEventSequence, book, lastOrderId, Len(wal) + 1)
    <3>1. liveResumeEventSequence # 1 /\ liveResumeEventSequence - 1 = i
      BY <1>6, <1>7, <2>5, <2>8, <2>10
    <3> QED BY <2>6, <2>7, <3>1 DEF Before
  <2>12. LiveInv(T)'
    BY <1>1, <1>4, <1>6, <1>7, <2>1, <2>11 DEF LiveInv
  <2>13. Restored'
    BY <1>1, <1>9, <1>10 DEF Restored
  <2>14. ReplayInv(T)'
    BY <1>1, <1>2, <2>1, <2>13 DEF ReplayInv
  <2> QED BY <1>8, <2>12, <2>14 DEF TraceInv
<1>11. CASE deferredMode # "Live"
  <2>1. replayMode' # "Live"
    BY <1>5, <1>11
  <2>2. LiveInv(T)'
    BY <1>1, <1>4, <1>6, <1>7, <2>1 DEF LiveInv
  <2>3. ASSUME replayMode' = "Replay"
        PROVE  n' > 1 /\ Before(T, n', book, lastOrderId, cursor)
    <3>1. replayMode = "Replay" /\ deferredMode # "Restoring"
      BY <1>3, <1>5, <1>11, <2>3
    <3>2. CASE command.replayed
      <4>1. /\ n \in 1 .. Len(T) /\ T[n].phase = "Finish" /\ T[n].book = book
            /\ T[n].last = lastOrderId /\ T[n].cause + 1 = cursor
        BY <1>1, <1>9, <3>2, NowFields
      <4>2. n' = n + 1 /\ n + 1 # 1 /\ (n + 1) - 1 = n /\ n + 1 > 1
        BY <1>2, <1>3, <1>9, <3>2, <4>1
      <4> QED BY <4>1, <4>2 DEF Before
    <3>3. CASE ~command.replayed
      <4>1. /\ deferredEventSequence > 1
            /\ Before(T, deferredEventSequence, book, lastOrderId, cursor)
        BY <1>9, <3>1, <3>3
      <4>2. n' = deferredEventSequence
        BY <1>2, <1>3, <4>1
      <4> QED BY <4>1, <4>2
    <3> QED BY <3>2, <3>3
  <2>4. ReplayInv(T)'
    BY <1>1, <1>2, <2>1, <2>3 DEF ReplayInv
  <2> QED BY <1>8, <2>2, <2>4 DEF TraceInv
<1> QED BY <1>10, <1>11

\* Once stopped for good the matcher stays so.
LEMMA FatalStays ==
  ASSUME [Next]_vars, fatalReason' = "None"
  PROVE  fatalReason = "None"
<1>1. CASE TakesCommand
  <2>1. \E sequence, replayed, message : Begin(sequence, replayed, message)
    BY <1>1 DEF TakesCommand, Live, ReplayLoad, ReplayNext, ReplayStop, Restore, Control
  <2> QED BY <2>1 DEF Begin, Idle, Fatal
<1>2. CASE MatchOne \/ MakerDone \/ Finish
  BY <1>2 DEF MatchOne, MakerDone, Finish, Healthy
<1>3. CASE MatchEnds
  BY <1>3 DEF MatchEnds, Healthy, Terminal
<1>4. CASE AddFails \/ FinishFails
  BY <1>4 DEF AddFails, FinishFails, WriterFails
<1>5. CASE ReaderFails \/ UNCHANGED vars
  BY <1>5 DEF ReaderFails, Terminal, vars
<1> QED BY <1>1, <1>2, <1>3, <1>4, <1>5 DEF Next, TakesCommand

LEMMA TraceStep ==
  ASSUME "LoadSnapshot" \notin Controls, AllInv, NEW T, TraceInv(T), [Next]_vars,
         fatalReason' = "None"
  PROVE  \E U : TraceInv(U)'
<1>1. CASE \E message \in LiveMessages : Live(message)
  BY <1>1, LiveCommandStep
<1>2. CASE \E image \in store : ReplayLoad(image.of)
  <2>1. PICK of : ReplayLoad(of)
    BY <1>2
  <2>2. TraceInv(T)'
    BY <2>1, ReplayLoadStep
  <2> QED BY <2>2
<1>3. CASE ReplayNext
  <2>1. TraceInv(T)'
    BY <1>3, ReplayedCommandStep
  <2> QED BY <2>1
<1>4. CASE ReplayStop
  <2>1. TraceInv(T)'
    BY <1>4, ReplayStopStep
  <2> QED BY <2>1
<1>5. CASE Restore
  <2>1. TraceInv(T)'
    BY <1>5, RestoreStep
  <2> QED BY <2>1
<1>6. CASE MatchOne \/ MakerDone \/ MatchEnds
  <2>1. CASE replayMode = "Live"
    BY <1>6, <2>1, LiveOrderStep
  <2>2. CASE replayMode # "Live"
    <3>1. TraceInv(T)'
      BY <1>6, <2>2, ReplayedOrderStep
    <3> QED BY <3>1
  <2> QED BY <2>1, <2>2
<1>7. CASE AddFails \/ FinishFails
  BY <1>7 DEF AddFails, FinishFails, WriterFails
<1>8. CASE Finish
  <2>1. TraceInv(T)'
    BY <1>8, LiveFinishStep, SessionFinishStep
  <2> QED BY <2>1
<1>9. CASE ReaderFails
  BY <1>9 DEF ReaderFails, Terminal
<1>10. CASE UNCHANGED vars
  <2>1. /\ UNCHANGED <<book, lastOrderId, nextEventSequence, published, wal, store, cursor,
                       phase, remaining, maker, command, pending, nextIndex>>
        /\ UNCHANGED <<liveResumeEventSequence, deferredEventSequence, replayMode,
                       deferredMode, deferredStartReplay>>
    BY <1>10 DEF vars, replayVars, frame, batch, environment
  <2>2. LiveEvents' = LiveEvents
    BY <2>1 DEF LiveEvents
  <2>3. Now' = Now
    BY <2>1 DEF Now
  <2>4. LiveInv(T)'
    BY <2>1, <2>2, <2>3 DEF TraceInv, LiveInv, Resume
  <2>5. StoreInv(T)' /\ WalInv'
    BY <2>1 DEF TraceInv, StoreInv, WalInv
  <2>6. ReplayInv(T)'
    BY <2>1, <2>3 DEF TraceInv, ReplayInv, Restored
  <2>7. TraceInv(T)'
    BY <2>4, <2>5, <2>6 DEF TraceInv
  <2> QED BY <2>7
<1> QED BY <1>1, <1>2, <1>3, <1>4, <1>5, <1>6, <1>7, <1>8, <1>9, <1>10 DEF Next

\* Where a command may stop the matcher.
LEMMA FatalStep ==
  ASSUME "LoadSnapshot" \notin Controls, AllInv, FatalInv,
         fatalReason = "None" => \E T : TraceInv(T), [Next]_vars
  PROVE  FatalInv'
<1> SUFFICES ASSUME fatalReason' # "None", phase' # "Idle"
             PROVE  /\ phase' = "Finish" /\ pending'.type = "MatcherFatal"
                    /\ replayMode' # "Live" /\ command'.replayed => pending' = SnapshotFailed
  BY DEF FatalInv, Fatal
<1>1. CASE MatchOne \/ MakerDone
  <2>1. fatalReason # "None" /\ phase # "Idle" /\ phase # "Finish"
    BY <1>1 DEF MatchOne, MakerDone, Healthy
  <2> QED BY <2>1 DEF FatalInv, Fatal
<1>2. CASE MatchEnds
  <2>1. phase = "Match" /\ phase' = "Finish"
    BY <1>2 DEF MatchEnds
  <2>2. fatalReason = "None"
    BY <2>1 DEF FatalInv, Fatal
  <2>3. PICK T : TraceInv(T)
    BY <2>2
  <2>4. pending' = OrderEvent("MatcherFatal", Order.id)
    BY <1>2, <2>2 DEF MatchEnds, Add, Healthy, Terminal
  <2>5. pending'.type = "MatcherFatal"
    BY <2>4 DEF OrderEvent
  <2>6. replayMode = "Live"
    BY <1>2, <2>3, <2>5, ReplayedOrderStep
  <2>7. replayMode' = replayMode
    BY <1>2 DEF MatchEnds, replayVars
  <2> QED BY <2>1, <2>5, <2>6, <2>7
<1>3. CASE AddFails \/ FinishFails \/ Finish
  BY <1>3 DEF AddFails, FinishFails, WriterFails, Finish
<1>4. CASE ReaderFails
  BY <1>4 DEF ReaderFails, Idle, frame
<1>5. CASE UNCHANGED vars
  BY <1>5 DEF vars, frame, batch, replayVars, FatalInv, Fatal
<1>6. CASE TakesCommand
  <2>1. PICK sequence, replayed, message : Takes(sequence, replayed, message)
    BY <1>6, CommandTaken DEF AllInv, BookInv
  <2>2. /\ fatalReason = "None"
        /\ command' = [sequence |-> sequence, replayed |-> replayed, message |-> message]
        /\ Dispatch(sequence, message)
    BY <2>1 DEF Takes, Begin, Idle, Fatal
  <2>3. phase' = "Finish" /\ pending'.type = "MatcherFatal"
    <3>1. CASE NewLimit(message.order)
      BY <2>2, <3>1 DEF NewLimit, AddFirst, Healthy, OrderEvent
    <3>2. CASE SaveSnapshot(sequence)
      BY <2>2, <3>2 DEF SaveSnapshot, AddFirst, Healthy, SnapshotFailed, OrderEvent
    <3>3. CASE LoadSnapshot(message.of)
      BY <2>2, <3>3 DEF LoadSnapshot, AddFirst, Healthy, SnapshotFailed, OrderEvent
    <3>4. CASE Signal(message.type)
      BY <2>2, <3>4 DEF Signal
    <3> QED BY <2>2, <3>1, <3>2, <3>3, <3>4 DEF Dispatch
  <2>4. CASE ReplayNext
    <3>1. PICK T : TraceInv(T)
      BY <2>2
    <3>2. pending' = SnapshotFailed
      BY <2>4, <3>1, ReplayedCommandStep
    <3> QED BY <2>3, <3>2
  <2>5. CASE ~ReplayNext
    <3>1. \/ replayMode = "Live"
          \/ \E sequence2, message2 : Begin(sequence2, FALSE, message2)
      BY <1>6, <2>5 DEF TakesCommand, Live, ReplayLoad, ReplayStop, Restore, Control
    <3>2. replayMode' = replayMode
      BY <2>2 DEF Dispatch, NewLimit, SaveSnapshot, LoadSnapshot, Signal, replayVars
    <3>3. (\E sequence2, message2 : Begin(sequence2, FALSE, message2)) => ~command'.replayed
      BY DEF Begin
    <3> QED BY <2>3, <3>1, <3>2, <3>3
  <2> QED BY <2>4, <2>5
<1> QED BY <1>1, <1>2, <1>3, <1>4, <1>5, <1>6 DEF Next, TakesCommand

LEMMA ReproducesStep ==
  ASSUME AllInv, FatalInv, ReplayReproduces,
         ~Fatal => \E T : TraceInv(T), [Next]_vars
  PROVE  ReplayReproduces'
<1>1. CASE published' = published
  BY <1>1 DEF ReplayReproduces
<1>2. CASE \E last \in BOOLEAN : /\ last <=> phase = "Finish"
                                 /\ phase # "Idle" /\ published' = Append(published, Envelope(last))
  BY <1>2, ReplayedIsReproduced DEF AllInv
<1>3. CASE TakesCommand
  <2>1. \E sequence, message : Dispatch(sequence, message)
    BY <1>3 DEF TakesCommand, Live, ReplayLoad, ReplayNext, ReplayStop, Restore, Control
  <2>2. published' = published
    BY <2>1 DEF Dispatch, NewLimit, SaveSnapshot, LoadSnapshot, Signal, AddFirst
  <2> QED BY <1>1, <2>2
<1>4. CASE MatchOne \/ MakerDone \/ MatchEnds
  <2>1. phase \in {"Match", "MakerDone"} /\ published' = Append(published, Envelope(FALSE))
    BY <1>4, OrderSteps
  <2>2. FALSE \in BOOLEAN /\ ~(phase = "Finish") /\ phase # "Idle"
    BY <2>1
  <2> QED BY <1>2, <2>1, <2>2
<1>5. CASE AddFails
  <2>1. /\ phase \in {"Match", "MakerDone"}
        /\ published' = published \/ published' = Append(published, Envelope(FALSE))
    BY <1>5 DEF AddFails, WriterFails
  <2>2. FALSE \in BOOLEAN /\ ~(phase = "Finish") /\ phase # "Idle"
    BY <2>1
  <2> QED BY <1>1, <1>2, <2>1, <2>2
<1>6. CASE FinishFails \/ Finish
  <2>1. /\ phase = "Finish"
        /\ published' = published \/ published' = Append(published, Envelope(TRUE))
    BY <1>6 DEF FinishFails, WriterFails, Finish
  <2>2. TRUE \in BOOLEAN /\ phase # "Idle"
    BY <2>1
  <2> QED BY <1>1, <1>2, <2>1, <2>2
<1>7. CASE ReaderFails \/ UNCHANGED vars
  <2>1. published' = published
    BY <1>7 DEF ReaderFails, vars
  <2> QED BY <1>1, <2>1
<1> QED BY <1>3, <1>4, <1>5, <1>6, <1>7 DEF Next, TakesCommand

LEMMA TraceInit == Init => TraceInv(<<>>)
<1> SUFFICES ASSUME Init PROVE TraceInv(<<>>)
  OBVIOUS
<1>1. <<>> \in Seq({}) /\ Len(<<>>) = 0 /\ \A k : k \notin 1 .. 0 /\ k \notin 1 .. 0 - 1
  OBVIOUS
<1>2. /\ wal = <<>> /\ nextEventSequence = 1 /\ book = NoBook /\ lastOrderId = 0
      /\ replayMode = "Live" /\ phase = "Idle" /\ store = {} /\ cursor = 0
      /\ deferredMode = "None" /\ deferredStartReplay = FALSE /\ deferredEventSequence = 0
  BY DEF Init
<1>3. LiveEvents = <<>>
  BY LiveEventsAre, LiveEmpty DEF Init
<1>4. IsTrace(<<>>, wal)
  BY <1>1, <1>2 DEF IsTrace, IsStream
<1>5. Before(<<>>, 1, book, lastOrderId, Len(wal) + 1)
  BY <1>1, <1>2 DEF Before
<1>6. LiveInv(<<>>)
  BY <1>1, <1>2, <1>3, <1>4, <1>5 DEF LiveInv, Resume
<1>7. StoreInv(<<>>) /\ WalInv
  BY <1>1, <1>2 DEF StoreInv, WalInv
<1>8. ReplayInv(<<>>)
  BY <1>2 DEF ReplayInv
<1> QED BY <1>6, <1>7, <1>8 DEF TraceInv

\* What holds of the matcher when no load has been recorded.
ReplayedInv ==
  /\ AllInv /\ FatalInv /\ ReplayReproduces
  /\ fatalReason = "None" => \E T : TraceInv(T)

LEMMA ReplayedInvariant ==
  ASSUME "LoadSnapshot" \notin Controls
  PROVE  Spec => []ReplayedInv
<1>1. Init => ReplayedInv
  <2> SUFFICES ASSUME Init PROVE ReplayedInv
    OBVIOUS
  <2>1. AllInv
    BY BookInit, EventInit, StreamInit DEF AllInv
  <2>2. \E T : TraceInv(T)
    BY TraceInit
  <2>3. FatalInv
    BY DEF Init, FatalInv
  <2>4. published = <<>> /\ DOMAIN <<>> = {}
    BY DEF Init
  <2>5. ReplayReproduces
    BY <2>4 DEF ReplayReproduces
  <2> QED BY <2>1, <2>2, <2>3, <2>5 DEF ReplayedInv
<1>2. ReplayedInv /\ [Next]_vars => ReplayedInv'
  <2> SUFFICES ASSUME ReplayedInv, [Next]_vars PROVE ReplayedInv'
    OBVIOUS
  <2>1. AllInv /\ FatalInv /\ ReplayReproduces /\ (fatalReason = "None" => \E T : TraceInv(T))
    BY DEF ReplayedInv
  <2>2. AllInv'
    BY <2>1, BookStep, EventStep, StreamStep DEF AllInv
  <2>3. FatalInv'
    BY <2>1, FatalStep
  <2>4. ReplayReproduces'
    BY <2>1, ReproducesStep DEF Fatal
  <2>5. ASSUME fatalReason' = "None" PROVE \E U : TraceInv(U)'
    <3>1. fatalReason = "None"
      BY <2>5, FatalStays
    <3>2. PICK T : TraceInv(T)
      BY <2>1, <3>1
    <3> QED BY <2>1, <2>5, <3>2, TraceStep
  <2> QED BY <2>2, <2>3, <2>4, <2>5 DEF ReplayedInv
<1> QED BY <1>1, <1>2, PTL DEF Spec

\* A replayed command publishes what it published when it was live, with the same
\* sequences, whatever snapshot the replay began with and wherever it is: unless a
\* LoadSnapshot has been recorded.
THEOREM ReplayReproducesAlways ==
  ASSUME "LoadSnapshot" \notin Controls
  PROVE  Spec => []ReplayReproduces
<1>1. ReplayedInv => ReplayReproduces
  BY DEF ReplayedInv
<1> QED BY <1>1, ReplayedInvariant, PTL

\* A replay session leaves no trace: back in live mode the matcher has the book, the
\* last order id and the event sequence it had when the session began.
THEOREM ReplayLeavesNoTraceAlways ==
  ASSUME "LoadSnapshot" \notin Controls
  PROVE  Spec => []ReplayLeavesNoTrace
<1>1. ReplayedInv => ReplayLeavesNoTrace
  <2> SUFFICES ASSUME ReplayedInv, phase = "Idle", replayMode = "Live", cursor # 0, ~Fatal
               PROVE  /\ nextEventSequence = Len(LiveEvents) + 1
                      /\ \E image \in store : /\ image.of = Len(wal) - 1
                                              /\ book = image.book /\ lastOrderId = image.lastOrderId
    BY DEF ReplayLeavesNoTrace
  <2>1. PICK T : TraceInv(T)
    BY DEF ReplayedInv, Fatal
  <2>2. Len(LiveEvents) = nextEventSequence - 1 /\ nextEventSequence \in Nat
    BY <2>1 DEF TraceInv, LiveInv, Resume, ReplayedInv, AllInv, BookInv, TypeInv
  <2>3. Restored
    BY <2>1 DEF TraceInv, ReplayInv
  <2> QED BY <2>2, <2>3 DEF Restored
<1> QED BY <1>1, ReplayedInvariant, PTL

-----------------------------------------------------------------------------
(* What a reader of events knows, event by event.                            *)

\* f[k] is what the first k events say rests.
Learns(events, f, n) ==
  f[0] = {} /\ \A k \in 1 .. n : f[k] = Learned(f[k - 1], events[k])

LEMMA KnownExists ==
  ASSUME NEW events, NEW n \in Nat
  PROVE  \E f : Learns(events, f, n)
<1> DEFINE Has(m) == \E f : Learns(events, f, m)
           T == {m \in Nat : ~Has(m)}
<1> SUFFICES ASSUME n \in T PROVE FALSE
  OBVIOUS
<1>1. PICK m \in T : \A k \in T : m <= k
  <2> T \subseteq Nat /\ T # {}
    OBVIOUS
  <2> HIDE DEF T
  <2> QED BY Least
<1>2. m # 0
  <2>1. PICK f : f = [k \in {0} |-> {}]
    OBVIOUS
  <2>2. \A k : k \notin 1 .. 0
    OBVIOUS
  <2>3. Learns(events, f, 0)
    BY <2>1, <2>2 DEF Learns
  <2> QED BY <2>3
<1>3. m - 1 \in Nat /\ m - 1 \notin T
  <2>1. m \in Nat /\ m - 1 \in Nat /\ ~(m <= m - 1)
    BY <1>2
  <2> QED BY <1>1, <2>1
<1>4. PICK f : Learns(events, f, m - 1)
  BY <1>3
<1>5. PICK last : last = Learned(f[m - 1], events[m])
  OBVIOUS
<1>6. PICK g : g = [k \in 0 .. m |-> IF k = m THEN last ELSE f[k]]
  OBVIOUS
<1>7. g[m] = last /\ \A k \in 0 .. m - 1 : g[k] = f[k]
  BY <1>3, <1>6
<1>8. Learns(events, g, m)
  <2>1. g[0] = {}
    BY <1>3, <1>4, <1>7 DEF Learns
  <2>2. ASSUME NEW k \in 1 .. m PROVE g[k] = Learned(g[k - 1], events[k])
    <3>1. k - 1 \in 0 .. m - 1 /\ g[k - 1] = f[k - 1]
      BY <1>3, <1>7
    <3>2. CASE k = m
      BY <1>5, <1>7, <3>1, <3>2
    <3>3. CASE k # m
      <4>1. k \in 1 .. m - 1 /\ k \in 0 .. m - 1
        BY <1>3, <3>3
      <4> QED BY <1>4, <1>7, <3>1, <4>1 DEF Learns
    <3> QED BY <3>2, <3>3
  <2> QED BY <2>1, <2>2 DEF Learns
<1> QED BY <1>8

LEMMA KnownUnique ==
  ASSUME NEW events, NEW n \in Nat, NEW f, NEW g,
         Learns(events, f, n), Learns(events, g, n)
  PROVE  f[n] = g[n]
<1> DEFINE T == {k \in 0 .. n : f[k] # g[k]}
<1> SUFFICES ASSUME n \in T PROVE FALSE
  OBVIOUS
<1>1. PICK m \in T : \A k \in T : m <= k
  <2>1. T \subseteq Nat
    OBVIOUS
  <2>2. T # {}
    OBVIOUS
  <2> HIDE DEF T
  <2> QED BY <2>1, <2>2, Least
<1>2. m \in 1 .. n
  BY DEF Learns
<1>3. m - 1 \in 0 .. n /\ m - 1 \notin T
  <2>1. m - 1 \in 0 .. n /\ ~(m <= m - 1)
    BY <1>2
  <2> QED BY <1>1, <2>1
<1>4. f[m - 1] = g[m - 1]
  BY <1>3
<1>5. f[m] = g[m]
  BY <1>2, <1>4 DEF Learns
<1> QED BY <1>5

LEMMA KnownIs ==
  ASSUME NEW events, IsStream(events), NEW f, Learns(events, f, Len(events))
  PROVE  RestsIn(events) = f[Len(events)]
<1> DEFINE n == Len(events)
           Rec(g) == g = [k \in 0 .. n |->
                            IF k = 0 THEN {} ELSE Learned(g[k - 1], events[k])]
           chosen == CHOOSE g : Rec(g)
<1>1. n \in Nat
  BY LenProperties DEF IsStream
<1>2. PICK g : g = [k \in 0 .. n |-> f[k]]
  OBVIOUS
<1>3. Rec(g)
  <2> SUFFICES ASSUME NEW k \in 0 .. n
               PROVE  f[k] = IF k = 0 THEN {} ELSE Learned(g[k - 1], events[k])
    BY <1>2
  <2>1. CASE k = 0
    BY <2>1 DEF Learns
  <2>2. CASE k # 0
    <3>1. k \in 1 .. n /\ k - 1 \in 0 .. n
      BY <1>1, <2>2
    <3>2. g[k - 1] = f[k - 1]
      BY <1>2, <3>1
    <3>3. f[k] = Learned(f[k - 1], events[k])
      BY <3>1 DEF Learns
    <3> QED BY <2>2, <3>2, <3>3
  <2> QED BY <2>1, <2>2
<1>4. Rec(chosen)
  BY <1>3
<1>5. Learns(events, chosen, n)
  <2> HIDE DEF chosen
  <2>1. \A k \in 0 .. n : chosen[k] = IF k = 0 THEN {} ELSE Learned(chosen[k - 1], events[k])
    BY <1>4
  <2>2. 0 \in 0 .. n /\ \A k \in 1 .. n : k \in 0 .. n /\ k # 0
    BY <1>1
  <2> QED BY <2>1, <2>2 DEF Learns
<1>6. RestsIn(events) = chosen[n]
  BY DEF RestsIn
<1> HIDE DEF chosen
<1>7. chosen[n] = f[n]
  BY <1>1, <1>5, KnownUnique
<1> QED BY <1>6, <1>7

\* One event more.
LEMMA KnownAppend ==
  ASSUME NEW events, IsStream(events), NEW e, NEW more, more = Append(events, e)
  PROVE  RestsIn(more) = Learned(RestsIn(events), e)
<1> DEFINE n == Len(events)
<1>1. /\ n \in Nat /\ Len(more) = n + 1
      /\ \A k \in 1 .. n : more[k] = events[k]
      /\ more[n + 1] = e
  BY AppendFacts
<1>0. IsStream(more)
  BY AppendFacts
<1> HIDE DEF n
<1>2. PICK f : Learns(more, f, n + 1)
  <2>1. n + 1 \in Nat
    BY <1>1
  <2> QED BY <2>1, KnownExists
<1>3. Learns(events, f, n)
  <2>1. \A k \in 1 .. n : k \in 1 .. n + 1
    BY <1>1
  <2> QED BY <1>1, <1>2, <2>1 DEF Learns
<1>4. f[n + 1] = Learned(f[n], e)
  <2>1. n + 1 \in 1 .. n + 1 /\ (n + 1) - 1 = n
    BY <1>1
  <2> QED BY <1>1, <1>2, <2>1 DEF Learns
<1>5. RestsIn(more) = f[n + 1]
  BY <1>0, <1>1, <1>2, KnownIs
<1>6. RestsIn(events) = f[n]
  BY <1>3, KnownIs DEF n
<1> QED BY <1>4, <1>5, <1>6

LEMMA KnownEmpty == RestsIn(<<>>) = {}
<1>1. IsStream(<<>>) /\ Len(<<>>) = 0 /\ \A k : k \notin 1 .. 0
  <2>1. <<>> \in Seq({})
    OBVIOUS
  <2> QED BY <2>1 DEF IsStream
<1>2. PICK f : Learns(<<>>, f, 0)
  BY KnownExists
<1>3. f[0] = {}
  BY <1>2 DEF Learns
<1>4. RestsIn(<<>>) = f[Len(<<>>)]
  BY <1>1, <1>2, KnownIs
<1> QED BY <1>1, <1>3, <1>4

-----------------------------------------------------------------------------
(* The orders in a book.                                                     *)

Entry(side, price, o) ==
  [id |-> o.id, side |-> side, price |-> price, remaining |-> o.remaining]

\* RestsInBook for book q.
OrdersOf(q) ==
  {[id |-> q[place[1]][place[2]][place[3]].id, side |-> place[1], price |-> place[2],
    remaining |-> q[place[1]][place[2]][place[3]].remaining] : place \in Book!Places(q)}

LEMMA OrdersOfFacts ==
  ASSUME NEW q \in Books, NEW x
  PROVE  x \in OrdersOf(q) <=>
           \E s \in Sides, p \in Prices : \E k \in 1 .. Len(q[s][p]) : x = Entry(s, p, q[s][p][k])
<1>1. ASSUME x \in OrdersOf(q)
      PROVE  \E s \in Sides, p \in Prices : \E k \in 1 .. Len(q[s][p]) :
               x = Entry(s, p, q[s][p][k])
  <2>1. PICK place \in Book!Places(q) :
          x = [id |-> q[place[1]][place[2]][place[3]].id, side |-> place[1],
               price |-> place[2], remaining |-> q[place[1]][place[2]][place[3]].remaining]
    BY <1>1 DEF OrdersOf
  <2>2. /\ place[1] \in Sides /\ place[2] \in Prices
        /\ place[3] \in 1 .. Len(q[place[1]][place[2]])
    BY PlaceFacts
  <2>3. x = Entry(place[1], place[2], q[place[1]][place[2]][place[3]])
    BY <2>1 DEF Entry
  <2> QED BY <2>2, <2>3
<1>2. ASSUME NEW s \in Sides, NEW p \in Prices, NEW k \in 1 .. Len(q[s][p]),
             x = Entry(s, p, q[s][p][k])
      PROVE  x \in OrdersOf(q)
  <2>1. PICK place : place = <<s, p, k>>
    OBVIOUS
  <2>2. place \in Book!Places(q) /\ place[1] = s /\ place[2] = p /\ place[3] = k
    BY <2>1, PlacesFacts
  <2>3. x = [id |-> q[place[1]][place[2]][place[3]].id, side |-> place[1],
             price |-> place[2], remaining |-> q[place[1]][place[2]][place[3]].remaining]
    BY <1>2, <2>2 DEF Entry
  <2> QED BY <2>2, <2>3 DEF OrdersOf
<1> QED BY <1>1, <1>2

\* Every order is in one place, has something left, and is newer than those before
\* it in its queue.
Distinct(q) ==
  \A s \in Sides, p \in Prices : \A k \in 1 .. Len(q[s][p]) :
    \A s2 \in Sides, p2 \in Prices : \A k2 \in 1 .. Len(q[s2][p2]) :
      q[s][p][k].id = q[s2][p2][k2].id => s = s2 /\ p = p2 /\ k = k2
Queued(f) == /\ \A k \in 1 .. Len(f) : f[k].remaining # 0
             /\ \A k \in 1 .. Len(f) : \A j \in 1 .. k - 1 : f[j].id < f[k].id
Neat(q) == /\ q \in Books /\ Distinct(q)
           /\ \A s \in Sides, p \in Prices : Queued(q[s][p])

LEMMA PlaceIs ==
  ASSUME NEW q, Neat(q), NEW s \in Sides, NEW p \in Prices, NEW k \in 1 .. Len(q[s][p])
  PROVE  /\ Book!Resting(q, q[s][p][k].id)
         /\ Book!Place(q, q[s][p][k].id) = <<s, p, k>>
<1>1. q \in Books /\ Distinct(q)
  BY DEF Neat
<1>2. PICK id : id = q[s][p][k].id
  OBVIOUS
<1>3. PICK place : place = <<s, p, k>>
  OBVIOUS
<1>4. place \in Book!Places(q) /\ Book!IsAt(q, id, place)
  BY <1>1, <1>2, <1>3, PlacesFacts DEF Book!IsAt
<1>5. ASSUME NEW other \in Book!Places(q), Book!IsAt(q, id, other)
      PROVE  other = place
  <2>1. /\ other = <<other[1], other[2], other[3]>>
        /\ other[1] \in Sides /\ other[2] \in Prices
        /\ other[3] \in 1 .. Len(q[other[1]][other[2]])
    BY <1>1, PlaceFacts
  <2>2. q[other[1]][other[2]][other[3]].id = q[s][p][k].id
    BY <1>2, <1>5 DEF Book!IsAt
  <2>3. other[1] = s /\ other[2] = p /\ other[3] = k
    BY <1>1, <2>1, <2>2, SMTT(20) DEF Distinct
  <2> QED BY <1>3, <2>1, <2>3
<1>6. Book!Resting(q, id)
  BY <1>4 DEF Book!Resting
<1>7. Book!Place(q, id) = place
  BY <1>4, <1>5 DEF Book!Place
<1> QED BY <1>2, <1>3, <1>6, <1>7

\* What RemoveAt leaves, place by place.
LEMMA RemoveAtIs ==
  ASSUME NEW f \in Seq(RestingOrder), NEW k \in 1 .. Len(f)
  PROVE  /\ Book!RemoveAt(f, k) \in Seq(RestingOrder)
         /\ Len(Book!RemoveAt(f, k)) = Len(f) - 1
         /\ \A i \in 1 .. Len(f) - 1 :
              Book!RemoveAt(f, k)[i] = IF i < k THEN f[i] ELSE f[i + 1]
<1> DEFINE a == SubSeq(f, 1, k - 1)
           b == SubSeq(f, k + 1, Len(f))
<1>0. Len(f) \in Nat /\ \A i \in 1 .. Len(f) : f[i] \in RestingOrder
  BY LenProperties, ElementOfSeq
<1>1. /\ a \in Seq(RestingOrder) /\ Len(a) = k - 1
      /\ \A i \in 1 .. k - 1 : a[i] = f[i]
  <2>1. \A i \in 1 .. k - 1 : f[i] \in RestingOrder
    BY <1>0
  <2>2. /\ a \in Seq(RestingOrder) /\ Len(a) = IF 1 <= k - 1 THEN ((k - 1) - 1) + 1 ELSE 0
        /\ \A i \in 1 .. ((k - 1) - 1) + 1 : a[i] = f[(1 + i) - 1]
    BY <1>0, <2>1, SubSeqProperties
  <2> QED BY <1>0, <2>2
<1>2. /\ b \in Seq(RestingOrder) /\ Len(b) = Len(f) - k
      /\ \A i \in 1 .. Len(f) - k : b[i] = f[k + i]
  <2>1. \A i \in k + 1 .. Len(f) : f[i] \in RestingOrder
    BY <1>0
  <2>2. /\ b \in Seq(RestingOrder)
        /\ Len(b) = IF k + 1 <= Len(f) THEN (Len(f) - (k + 1)) + 1 ELSE 0
        /\ \A i \in 1 .. (Len(f) - (k + 1)) + 1 : b[i] = f[((k + 1) + i) - 1]
    BY <1>0, <2>1, SubSeqProperties
  <2> QED BY <1>0, <2>2
<1> HIDE DEF a, b
<1>3. /\ a \o b \in Seq(RestingOrder) /\ Len(a \o b) = Len(a) + Len(b)
      /\ \A i \in 1 .. Len(a) + Len(b) :
           (a \o b)[i] = IF i <= Len(a) THEN a[i] ELSE b[i - Len(a)]
  BY <1>1, <1>2, ConcatProperties
<1>4. ASSUME NEW i \in 1 .. Len(f) - 1
      PROVE  (a \o b)[i] = IF i < k THEN f[i] ELSE f[i + 1]
  <2>0. (a \o b)[i] = IF i <= k - 1 THEN a[i] ELSE b[i - (k - 1)]
    BY <1>0, <1>1, <1>2, <1>3
  <2>1. CASE i < k
    BY <1>0, <1>1, <2>0, <2>1
  <2>2. CASE ~(i < k)
    <3>1. (a \o b)[i] = b[i - (k - 1)]
      BY <1>0, <2>0, <2>2
    <3>2. i - (k - 1) \in 1 .. Len(f) - k /\ k + (i - (k - 1)) = i + 1
      BY <1>0, <2>2
    <3> QED BY <1>2, <2>2, <3>1, <3>2
  <2> QED BY <2>1, <2>2
<1>5. Book!RemoveAt(f, k) = a \o b
  BY DEF Book!RemoveAt, a, b
<1>6. Len(a \o b) = Len(f) - 1
  BY <1>0, <1>1, <1>2, <1>3
<1> QED BY <1>3, <1>4, <1>5, <1>6

\* Book r is book q but for the queue new at price p of side s.
Instead(q, s, p, new, r) ==
  /\ r \in Books
  /\ r[s][p] = new
  /\ \A s2 \in Sides, p2 \in Prices : ~(s2 = s /\ p2 = p) => r[s2][p2] = q[s2][p2]

LEMMA InsteadIs ==
  ASSUME NEW q \in Books, NEW s \in Sides, NEW p \in Prices, NEW new \in Seq(RestingOrder),
         NEW r, r = [q EXCEPT ![s][p] = new]
  PROVE  Instead(q, s, p, new, r)
BY DEF Instead, Books

\* An order is cancelled: it leaves the book, and nothing else does.
LEMMA CancelledNeat ==
  ASSUME NEW q, Neat(q), NEW s \in Sides, NEW p \in Prices, NEW k \in 1 .. Len(q[s][p]),
         NEW id, id = q[s][p][k].id
  PROVE  /\ Neat(Book!Cancelled(q, id))
         /\ OrdersOf(Book!Cancelled(q, id)) = {x \in OrdersOf(q) : x.id # id}
<1>1. q \in Books /\ Distinct(q) /\ \A s2 \in Sides, p2 \in Prices : Queued(q[s2][p2])
  BY DEF Neat
<1>2. PICK f : f = q[s][p]
  OBVIOUS
<1>3. f \in Seq(RestingOrder) /\ k \in 1 .. Len(f) /\ Len(f) \in Nat
  BY <1>1, <1>2, QueueFacts
<1>4. PICK new : new = Book!RemoveAt(f, k)
  OBVIOUS
<1>5. /\ new \in Seq(RestingOrder) /\ Len(new) = Len(f) - 1
      /\ \A i \in 1 .. Len(f) - 1 : new[i] = IF i < k THEN f[i] ELSE f[i + 1]
  BY <1>3, <1>4, RemoveAtIs
<1>6. PICK r : r = Book!Cancelled(q, id)
  OBVIOUS
<1>7. r = [q EXCEPT ![s][p] = new]
  <2>1. Book!Place(q, id) = <<s, p, k>>
    BY PlaceIs
  <2> QED BY <1>2, <1>4, <1>6, <2>1 DEF Book!Cancelled
<1>8. Instead(q, s, p, new, r)
  BY <1>1, <1>5, <1>7, InsteadIs
<1>9. PICK from : from = [i \in 1 .. Len(f) - 1 |-> IF i < k THEN i ELSE i + 1]
  OBVIOUS
<1>10. \A i \in 1 .. Len(new) :
         /\ from[i] \in 1 .. Len(f) /\ from[i] # k /\ new[i] = f[from[i]]
         /\ \A j \in 1 .. i - 1 : from[j] < from[i]
  <2> SUFFICES ASSUME NEW i \in 1 .. Len(new)
               PROVE  /\ from[i] \in 1 .. Len(f) /\ from[i] # k /\ new[i] = f[from[i]]
                      /\ \A j \in 1 .. i - 1 : from[j] < from[i]
    OBVIOUS
  <2>1. i \in 1 .. Len(f) - 1 /\ from[i] = IF i < k THEN i ELSE i + 1
    BY <1>5, <1>9
  <2>2. from[i] \in 1 .. Len(f) /\ from[i] # k
    BY <1>3, <2>1
  <2>3. new[i] = f[from[i]]
    BY <1>5, <2>1
  <2>4. ASSUME NEW j \in 1 .. i - 1 PROVE from[j] < from[i]
    <3>1. j \in 1 .. Len(f) - 1 /\ j < i
      BY <1>3, <2>1
    <3>2. from[j] = IF j < k THEN j ELSE j + 1
      BY <1>9, <3>1
    <3> QED BY <1>3, <2>1, <3>1, <3>2
  <2> QED BY <2>2, <2>3, <2>4
<1>11. \A i \in 1 .. Len(f) : i # k => \E j \in 1 .. Len(new) : new[j] = f[i]
  <2> SUFFICES ASSUME NEW i \in 1 .. Len(f), i # k
               PROVE  \E j \in 1 .. Len(new) : new[j] = f[i]
    OBVIOUS
  <2>1. CASE i < k
    <3>1. i \in 1 .. Len(f) - 1
      BY <1>3, <2>1
    <3> QED BY <1>5, <2>1, <3>1
  <2>2. CASE i > k
    <3>1. i - 1 \in 1 .. Len(f) - 1 /\ ~(i - 1 < k) /\ (i - 1) + 1 = i
      BY <1>3, <2>2
    <3>2. new[i - 1] = f[(i - 1) + 1]
      BY <1>5, <3>1
    <3> QED BY <1>5, <3>1, <3>2
  <2> QED BY <1>3, <2>1, <2>2
<1>12. \A i \in 1 .. Len(f) : f[i].id = id => i = k
  BY <1>1, <1>2 DEF Distinct
<1>13. Queued(new)
  <2>1. Queued(f)
    BY <1>1, <1>2
  <2>2. \A i \in 1 .. Len(new) : new[i].remaining # 0
    BY <1>10, <2>1 DEF Queued
  <2>3. ASSUME NEW i \in 1 .. Len(new), NEW j \in 1 .. i - 1 PROVE new[j].id < new[i].id
    <3>1. j \in 1 .. Len(new)
      BY <1>3, <1>5
    <3>2. from[j] \in 1 .. from[i] - 1 /\ from[i] \in 1 .. Len(f)
      BY <1>10, <3>1
    <3>3. f[from[j]].id < f[from[i]].id
      BY <2>1, <3>2 DEF Queued
    <3> QED BY <1>10, <3>1, <3>3
  <2> QED BY <2>2, <2>3 DEF Queued
<1>14. \A s2 \in Sides, p2 \in Prices : \A i \in 1 .. Len(r[s2][p2]) :
         \E j \in 1 .. Len(q[s2][p2]) : /\ r[s2][p2][i] = q[s2][p2][j]
                                        /\ ~(s2 = s /\ p2 = p /\ j = k)
                                        /\ s2 = s /\ p2 = p => j = from[i]
                                        /\ ~(s2 = s /\ p2 = p) => j = i
  <2> SUFFICES ASSUME NEW s2 \in Sides, NEW p2 \in Prices, NEW i \in 1 .. Len(r[s2][p2])
               PROVE  \E j \in 1 .. Len(q[s2][p2]) :
                        /\ r[s2][p2][i] = q[s2][p2][j]
                        /\ ~(s2 = s /\ p2 = p /\ j = k)
                        /\ s2 = s /\ p2 = p => j = from[i]
                        /\ ~(s2 = s /\ p2 = p) => j = i
    OBVIOUS
  <2>1. CASE s2 = s /\ p2 = p
    <3>1. i \in 1 .. Len(new) /\ r[s2][p2] = new
      BY <1>8, <2>1 DEF Instead
    <3> QED BY <1>2, <1>10, <2>1, <3>1
  <2>2. CASE ~(s2 = s /\ p2 = p)
    BY <1>8, <2>2 DEF Instead
  <2> QED BY <2>1, <2>2
<1>15. r \in Books
  BY <1>8 DEF Instead
<1>16. Distinct(r)
  <2> SUFFICES ASSUME NEW s1 \in Sides, NEW p1 \in Prices, NEW i1 \in 1 .. Len(r[s1][p1]),
                      NEW s2 \in Sides, NEW p2 \in Prices, NEW i2 \in 1 .. Len(r[s2][p2]),
                      r[s1][p1][i1].id = r[s2][p2][i2].id
               PROVE  s1 = s2 /\ p1 = p2 /\ i1 = i2
    BY DEF Distinct
  <2>1. PICK j1 \in 1 .. Len(q[s1][p1]) : /\ r[s1][p1][i1] = q[s1][p1][j1]
                                          /\ ~(s1 = s /\ p1 = p /\ j1 = k)
                                          /\ s1 = s /\ p1 = p => j1 = from[i1]
                                          /\ ~(s1 = s /\ p1 = p) => j1 = i1
    BY <1>14, Zenon
  <2>2. PICK j2 \in 1 .. Len(q[s2][p2]) : /\ r[s2][p2][i2] = q[s2][p2][j2]
                                          /\ ~(s2 = s /\ p2 = p /\ j2 = k)
                                          /\ s2 = s /\ p2 = p => j2 = from[i2]
                                          /\ ~(s2 = s /\ p2 = p) => j2 = i2
    BY <1>14, Zenon
  <2>3. s1 = s2 /\ p1 = p2 /\ j1 = j2
    <3>1. q[s1][p1][j1].id = q[s2][p2][j2].id
      BY <2>1, <2>2
    <3>2. Distinct(q)
      BY <1>1
    <3> QED BY <3>1, <3>2 DEF Distinct
  <2>4. CASE s1 = s /\ p1 = p
    <3>1. from[i1] = from[i2] /\ i1 \in 1 .. Len(new) /\ i2 \in 1 .. Len(new)
      BY <1>8, <2>1, <2>2, <2>3, <2>4 DEF Instead
    <3>2. ~(i1 < i2)
      <4>1. i1 < i2 => i1 \in 1 .. i2 - 1
        BY <1>3, <1>5, <3>1
      <4>2. from[i2] \in 1 .. Len(f)
        BY <1>10, <3>1
      <4> QED BY <1>10, <3>1, <4>1, <4>2
    <3>3. ~(i2 < i1)
      <4>1. i2 < i1 => i2 \in 1 .. i1 - 1
        BY <1>3, <1>5, <3>1
      <4>2. from[i1] \in 1 .. Len(f)
        BY <1>10, <3>1
      <4> QED BY <1>10, <3>1, <4>1, <4>2
    <3> QED BY <1>3, <1>5, <2>3, <3>1, <3>2, <3>3
  <2>5. CASE ~(s1 = s /\ p1 = p)
    BY <2>1, <2>2, <2>3, <2>5
  <2> QED BY <2>4, <2>5
<1>17. Neat(r)
  <2>1. ASSUME NEW s2 \in Sides, NEW p2 \in Prices PROVE Queued(r[s2][p2])
    <3>1. CASE s2 = s /\ p2 = p
      BY <1>8, <1>13, <3>1 DEF Instead
    <3>2. CASE ~(s2 = s /\ p2 = p)
      BY <1>1, <1>8, <3>2 DEF Instead
    <3> QED BY <3>1, <3>2
  <2> QED BY <1>15, <1>16, <2>1 DEF Neat
<1>18. ASSUME NEW x PROVE x \in OrdersOf(r) <=> x \in OrdersOf(q) /\ x.id # id
  <2>1. ASSUME x \in OrdersOf(r) PROVE x \in OrdersOf(q) /\ x.id # id
    <3>1. PICK s2 \in Sides, p2 \in Prices :
            \E i \in 1 .. Len(r[s2][p2]) : x = Entry(s2, p2, r[s2][p2][i])
      BY <1>15, <2>1, OrdersOfFacts
    <3>2. PICK i \in 1 .. Len(r[s2][p2]) : x = Entry(s2, p2, r[s2][p2][i])
      BY <3>1
    <3>3. PICK j \in 1 .. Len(q[s2][p2]) : /\ r[s2][p2][i] = q[s2][p2][j]
                                           /\ ~(s2 = s /\ p2 = p /\ j = k)
      BY <1>14
    <3>4. x \in OrdersOf(q)
      BY <1>1, <3>2, <3>3, OrdersOfFacts
    <3>5. q[s2][p2][j].id # id
      BY <1>1, <3>3, SMTT(20) DEF Distinct
    <3> QED BY <3>2, <3>3, <3>4, <3>5 DEF Entry
  <2>2. ASSUME x \in OrdersOf(q), x.id # id PROVE x \in OrdersOf(r)
    <3>1. PICK s2 \in Sides, p2 \in Prices :
            \E i \in 1 .. Len(q[s2][p2]) : x = Entry(s2, p2, q[s2][p2][i])
      BY <1>1, <2>2, OrdersOfFacts
    <3>2. PICK i \in 1 .. Len(q[s2][p2]) : x = Entry(s2, p2, q[s2][p2][i])
      BY <3>1
    <3>3. q[s2][p2][i].id # id
      BY <2>2, <3>2 DEF Entry
    <3>4. \E j \in 1 .. Len(r[s2][p2]) : r[s2][p2][j] = q[s2][p2][i]
      <4>1. CASE s2 = s /\ p2 = p
        <5>1. i # k /\ i \in 1 .. Len(f) /\ f[i] = q[s2][p2][i]
          BY <1>2, <3>3, <4>1
        <5>2. PICK j \in 1 .. Len(new) : new[j] = f[i]
          BY <1>11, <5>1
        <5>3. r[s2][p2] = new
          BY <1>8, <4>1 DEF Instead
        <5> QED BY <5>1, <5>2, <5>3
      <4>2. CASE ~(s2 = s /\ p2 = p)
        BY <1>8, <4>2 DEF Instead
      <4> QED BY <4>1, <4>2
    <3> QED BY <1>15, <3>2, <3>4, OrdersOfFacts
  <2> QED BY <2>1, <2>2
<1> QED BY <1>6, <1>17, <1>18

Reduced(x, id, n) == IF x.id = id THEN [x EXCEPT !.remaining = n] ELSE x

\* The orders of book r are those of book q but for what is left of order id.
IsReduced(r, q, id, n) ==
  Neat(r) /\ \A y : y \in OrdersOf(r) <=> \E x \in OrdersOf(q) : y = Reduced(x, id, n)

\* What is left of an order changes.
LEMMA ChangedNeat ==
  ASSUME NEW q, Neat(q), NEW s \in Sides, NEW p \in Prices, NEW k \in 1 .. Len(q[s][p]),
         NEW n, n \in Nat \ {0}, NEW id, id = q[s][p][k].id
  PROVE  IsReduced(Book!Changed(q, id, n), q, id, n)
<1>1. q \in Books /\ Distinct(q) /\ \A s2 \in Sides, p2 \in Prices : Queued(q[s2][p2])
  BY DEF Neat
<1>2. PICK f : f = q[s][p]
  OBVIOUS
<1>3. f \in Seq(RestingOrder) /\ k \in 1 .. Len(f) /\ Len(f) \in Nat /\ f[k] \in RestingOrder
  BY <1>1, <1>2, QueueFacts
<1>4. PICK changed : changed = [f[k] EXCEPT !.remaining = n]
  OBVIOUS
<1>5. changed \in RestingOrder /\ changed.id = id /\ changed.remaining = n
  BY <1>2, <1>3, <1>4 DEF RestingOrder
<1>6. PICK new : new = [f EXCEPT ![k] = changed]
  OBVIOUS
<1>7. /\ new \in Seq(RestingOrder) /\ Len(new) = Len(f)
      /\ \A i \in 1 .. Len(f) : new[i] = IF i = k THEN changed ELSE f[i]
  BY <1>3, <1>5, <1>6, ExceptSeq
<1>8. \A i \in 1 .. Len(f) : new[i].id = f[i].id
  BY <1>2, <1>5, <1>7
<1>9. PICK r : r = Book!Changed(q, id, n)
  OBVIOUS
<1>10. r = [q EXCEPT ![s][p] = new]
  <2>1. Book!Place(q, id) = <<s, p, k>>
    BY PlaceIs
  <2>2. r = [q EXCEPT ![s][p][k].remaining = n]
    BY <1>9, <2>1 DEF Book!Changed
  <2> QED BY <1>2, <1>4, <1>6, <2>2
<1>11. Instead(q, s, p, new, r)
  BY <1>1, <1>7, <1>10, InsteadIs
<1>12. r \in Books /\ r[s][p] = new
  BY <1>11 DEF Instead
<1>13. \A s2 \in Sides, p2 \in Prices :
         /\ Len(r[s2][p2]) = Len(q[s2][p2])
         /\ \A i \in 1 .. Len(q[s2][p2]) : r[s2][p2][i].id = q[s2][p2][i].id
  <2> SUFFICES ASSUME NEW s2 \in Sides, NEW p2 \in Prices
               PROVE  /\ Len(r[s2][p2]) = Len(q[s2][p2])
                      /\ \A i \in 1 .. Len(q[s2][p2]) : r[s2][p2][i].id = q[s2][p2][i].id
    OBVIOUS
  <2>1. CASE s2 = s /\ p2 = p
    BY <1>2, <1>7, <1>8, <1>12, <2>1
  <2>2. CASE ~(s2 = s /\ p2 = p)
    BY <1>11, <2>2 DEF Instead
  <2> QED BY <2>1, <2>2
<1>14. Distinct(r)
  <2> SUFFICES ASSUME NEW s1 \in Sides, NEW p1 \in Prices, NEW i1 \in 1 .. Len(r[s1][p1]),
                      NEW s2 \in Sides, NEW p2 \in Prices, NEW i2 \in 1 .. Len(r[s2][p2]),
                      r[s1][p1][i1].id = r[s2][p2][i2].id
               PROVE  s1 = s2 /\ p1 = p2 /\ i1 = i2
    BY DEF Distinct
  <2>1. i1 \in 1 .. Len(q[s1][p1]) /\ i2 \in 1 .. Len(q[s2][p2])
    BY <1>13
  <2>2. q[s1][p1][i1].id = q[s2][p2][i2].id
    BY <1>13, <2>1
  <2> QED BY <1>1, <2>1, <2>2 DEF Distinct
<1>15. Queued(new)
  <2>1. Queued(f)
    BY <1>1, <1>2
  <2>2. \A i \in 1 .. Len(f) : new[i].remaining # 0
    BY <1>5, <1>7, <2>1 DEF Queued
  <2>3. ASSUME NEW i \in 1 .. Len(f), NEW j \in 1 .. i - 1 PROVE new[j].id < new[i].id
    <3>1. j \in 1 .. Len(f)
      BY <1>3
    <3>2. f[j].id < f[i].id
      BY <2>1 DEF Queued
    <3> QED BY <1>8, <3>1, <3>2
  <2> QED BY <1>7, <2>2, <2>3 DEF Queued
<1>16. Neat(r)
  <2>1. ASSUME NEW s2 \in Sides, NEW p2 \in Prices PROVE Queued(r[s2][p2])
    <3>1. CASE s2 = s /\ p2 = p
      BY <1>12, <1>15, <3>1
    <3>2. CASE ~(s2 = s /\ p2 = p)
      BY <1>1, <1>11, <3>2 DEF Instead
    <3> QED BY <3>1, <3>2
  <2> QED BY <1>12, <1>14, <2>1 DEF Neat
<1>17. ASSUME NEW s2 \in Sides, NEW p2 \in Prices, NEW i \in 1 .. Len(q[s2][p2])
       PROVE  Entry(s2, p2, r[s2][p2][i]) = Reduced(Entry(s2, p2, q[s2][p2][i]), id, n)
  <2>1. CASE s2 = s /\ p2 = p /\ i = k
    <3>1. r[s2][p2][i] = changed
      BY <1>7, <1>12, <1>2, <2>1
    <3>2. PICK x : x = Entry(s2, p2, q[s2][p2][i])
      OBVIOUS
    <3>3. x = [id |-> id, side |-> s2, price |-> p2, remaining |-> q[s2][p2][i].remaining]
      BY <2>1, <3>2 DEF Entry
    <3>4. Reduced(x, id, n) = [id |-> id, side |-> s2, price |-> p2, remaining |-> n]
      BY <3>3 DEF Reduced
    <3>5. Entry(s2, p2, changed) = [id |-> id, side |-> s2, price |-> p2, remaining |-> n]
      BY <1>5 DEF Entry
    <3> QED BY <3>1, <3>2, <3>4, <3>5
  <2>2. CASE ~(s2 = s /\ p2 = p /\ i = k)
    <3>1. r[s2][p2][i] = q[s2][p2][i]
      <4>1. CASE s2 = s /\ p2 = p
        BY <1>2, <1>7, <1>12, <2>2, <4>1
      <4>2. CASE ~(s2 = s /\ p2 = p)
        BY <1>11, <4>2 DEF Instead
      <4> QED BY <4>1, <4>2
    <3>2. q[s2][p2][i].id # id
      BY <1>1, <2>2 DEF Distinct
    <3>3. Entry(s2, p2, q[s2][p2][i]).id # id
      BY <3>2 DEF Entry
    <3> QED BY <3>1, <3>3 DEF Reduced
  <2> QED BY <2>1, <2>2
<1>18. ASSUME NEW y PROVE y \in OrdersOf(r) <=> \E x \in OrdersOf(q) : y = Reduced(x, id, n)
  <2>1. ASSUME y \in OrdersOf(r) PROVE \E x \in OrdersOf(q) : y = Reduced(x, id, n)
    <3>1. PICK s2 \in Sides, p2 \in Prices :
            \E i \in 1 .. Len(r[s2][p2]) : y = Entry(s2, p2, r[s2][p2][i])
      BY <1>12, <2>1, OrdersOfFacts
    <3>2. PICK i \in 1 .. Len(r[s2][p2]) : y = Entry(s2, p2, r[s2][p2][i])
      BY <3>1
    <3>3. i \in 1 .. Len(q[s2][p2])
      BY <1>13
    <3>4. PICK x : x = Entry(s2, p2, q[s2][p2][i])
      OBVIOUS
    <3>5. x \in OrdersOf(q)
      BY <1>1, <3>3, <3>4, OrdersOfFacts
    <3> QED BY <1>17, <3>2, <3>3, <3>4, <3>5
  <2>2. ASSUME NEW x \in OrdersOf(q), y = Reduced(x, id, n) PROVE y \in OrdersOf(r)
    <3>1. PICK s2 \in Sides, p2 \in Prices :
            \E i \in 1 .. Len(q[s2][p2]) : x = Entry(s2, p2, q[s2][p2][i])
      BY <1>1, OrdersOfFacts
    <3>2. PICK i \in 1 .. Len(q[s2][p2]) : x = Entry(s2, p2, q[s2][p2][i])
      BY <3>1
    <3>3. i \in 1 .. Len(r[s2][p2]) /\ y = Entry(s2, p2, r[s2][p2][i])
      BY <1>13, <1>17, <2>2, <3>2
    <3> QED BY <1>12, <3>3, OrdersOfFacts
  <2> QED BY <2>1, <2>2
<1>19. IsReduced(r, q, id, n)
  BY <1>16, <1>18 DEF IsReduced
<1> QED BY <1>9, <1>19

\* A newer order comes to rest.
LEMMA RestedNeat ==
  ASSUME NEW q, Neat(q), NEW s \in Sides, NEW p \in Prices, NEW id \in Nat, NEW n \in Nat \ {0},
         \A s2 \in Sides, p2 \in Prices : \A k \in 1 .. Len(q[s2][p2]) : q[s2][p2][k].id < id
  PROVE  /\ Neat(Book!Rested(q, id, s, p, n))
         /\ OrdersOf(Book!Rested(q, id, s, p, n)) =
              OrdersOf(q) \cup {[id |-> id, side |-> s, price |-> p, remaining |-> n]}
<1>1. q \in Books /\ Distinct(q) /\ \A s2 \in Sides, p2 \in Prices : Queued(q[s2][p2])
  BY DEF Neat
<1>2. PICK f : f = q[s][p]
  OBVIOUS
<1>3. f \in Seq(RestingOrder) /\ Len(f) \in Nat
  BY <1>1, <1>2, QueueFacts
<1>4. PICK o : o = [id |-> id, remaining |-> n]
  OBVIOUS
<1>5. o \in RestingOrder /\ o.id = id /\ o.remaining = n
  BY <1>4 DEF RestingOrder
<1>6. PICK new : new = Append(f, o)
  OBVIOUS
<1>7. /\ new \in Seq(RestingOrder) /\ Len(new) = Len(f) + 1
      /\ \A i \in 1 .. Len(f) : new[i] = f[i]
      /\ new[Len(f) + 1] = o
  BY <1>3, <1>5, <1>6, AppendProperties
<1>8. PICK r : r = Book!Rested(q, id, s, p, n)
  OBVIOUS
<1>9. r = [q EXCEPT ![s][p] = new]
  BY <1>2, <1>4, <1>6, <1>8 DEF Book!Rested
<1>10. Instead(q, s, p, new, r)
  BY <1>1, <1>7, <1>9, InsteadIs
<1>11. r \in Books /\ r[s][p] = new
  BY <1>10 DEF Instead
<1>12. \A s2 \in Sides, p2 \in Prices : \A i \in 1 .. Len(r[s2][p2]) :
         \/ i \in 1 .. Len(q[s2][p2]) /\ r[s2][p2][i] = q[s2][p2][i]
         \/ s2 = s /\ p2 = p /\ i = Len(f) + 1 /\ r[s2][p2][i] = o
  <2> SUFFICES ASSUME NEW s2 \in Sides, NEW p2 \in Prices, NEW i \in 1 .. Len(r[s2][p2])
               PROVE  \/ i \in 1 .. Len(q[s2][p2]) /\ r[s2][p2][i] = q[s2][p2][i]
                      \/ s2 = s /\ p2 = p /\ i = Len(f) + 1 /\ r[s2][p2][i] = o
    OBVIOUS
  <2>1. CASE s2 = s /\ p2 = p
    <3>1. i \in 1 .. Len(f) + 1
      BY <1>7, <1>11, <2>1
    <3>2. CASE i = Len(f) + 1
      BY <1>7, <1>11, <2>1, <3>2
    <3>3. CASE i # Len(f) + 1
      <4>1. i \in 1 .. Len(f)
        BY <1>3, <3>1, <3>3
      <4> QED BY <1>2, <1>7, <1>11, <2>1, <4>1
    <3> QED BY <3>2, <3>3
  <2>2. CASE ~(s2 = s /\ p2 = p)
    BY <1>10, <2>2 DEF Instead
  <2> QED BY <2>1, <2>2
<1>13. Distinct(r)
  <2> SUFFICES ASSUME NEW s1 \in Sides, NEW p1 \in Prices, NEW i1 \in 1 .. Len(r[s1][p1]),
                      NEW s2 \in Sides, NEW p2 \in Prices, NEW i2 \in 1 .. Len(r[s2][p2]),
                      r[s1][p1][i1].id = r[s2][p2][i2].id
               PROVE  s1 = s2 /\ p1 = p2 /\ i1 = i2
    BY DEF Distinct
  <2>1. \/ i1 \in 1 .. Len(q[s1][p1]) /\ r[s1][p1][i1] = q[s1][p1][i1]
        \/ s1 = s /\ p1 = p /\ i1 = Len(f) + 1 /\ r[s1][p1][i1] = o
    BY <1>12
  <2>2. \/ i2 \in 1 .. Len(q[s2][p2]) /\ r[s2][p2][i2] = q[s2][p2][i2]
        \/ s2 = s /\ p2 = p /\ i2 = Len(f) + 1 /\ r[s2][p2][i2] = o
    BY <1>12
  <2>3. \A s3 \in Sides, p3 \in Prices : \A k \in 1 .. Len(q[s3][p3]) : q[s3][p3][k].id # id
    <3> SUFFICES ASSUME NEW s3 \in Sides, NEW p3 \in Prices, NEW k \in 1 .. Len(q[s3][p3])
                 PROVE  q[s3][p3][k].id # id
      OBVIOUS
    <3>1. q[s3][p3][k].id < id /\ q[s3][p3][k].id \in Nat
      BY <1>1, QueueFacts
    <3> QED BY <3>1
  <2>4. CASE /\ i1 \in 1 .. Len(q[s1][p1]) /\ r[s1][p1][i1] = q[s1][p1][i1]
             /\ i2 \in 1 .. Len(q[s2][p2]) /\ r[s2][p2][i2] = q[s2][p2][i2]
    <3>1. q[s1][p1][i1].id = q[s2][p2][i2].id
      BY <2>4
    <3> QED BY <1>1, <2>4, <3>1 DEF Distinct
  <2>5. CASE /\ i1 \in 1 .. Len(q[s1][p1]) /\ r[s1][p1][i1] = q[s1][p1][i1]
             /\ r[s2][p2][i2] = o
    BY <1>5, <2>3, <2>5
  <2>6. CASE /\ i2 \in 1 .. Len(q[s2][p2]) /\ r[s2][p2][i2] = q[s2][p2][i2]
             /\ r[s1][p1][i1] = o
    BY <1>5, <2>3, <2>6
  <2> QED BY <2>1, <2>2, <2>4, <2>5, <2>6
<1>14. Queued(new)
  <2>1. Queued(f)
    BY <1>1, <1>2
  <2>2. ASSUME NEW i \in 1 .. Len(new) PROVE new[i].remaining # 0
    <3>1. CASE i = Len(f) + 1
      BY <1>5, <1>7, <3>1
    <3>2. CASE i # Len(f) + 1
      <4>1. i \in 1 .. Len(f)
        BY <1>3, <1>7, <3>2
      <4> QED BY <1>7, <2>1, <4>1 DEF Queued
    <3> QED BY <3>1, <3>2
  <2>3. ASSUME NEW i \in 1 .. Len(new), NEW j \in 1 .. i - 1 PROVE new[j].id < new[i].id
    <3>1. j \in 1 .. Len(f) /\ new[j] = f[j]
      BY <1>3, <1>7
    <3>2. CASE i = Len(f) + 1
      BY <1>2, <1>5, <1>7, <3>1, <3>2
    <3>3. CASE i # Len(f) + 1
      <4>1. i \in 1 .. Len(f) /\ new[i] = f[i]
        BY <1>3, <1>7, <3>3
      <4> QED BY <2>1, <3>1, <4>1 DEF Queued
    <3> QED BY <3>2, <3>3
  <2> QED BY <2>2, <2>3 DEF Queued
<1>15. Neat(r)
  <2>1. ASSUME NEW s2 \in Sides, NEW p2 \in Prices PROVE Queued(r[s2][p2])
    <3>1. CASE s2 = s /\ p2 = p
      BY <1>11, <1>14, <3>1
    <3>2. CASE ~(s2 = s /\ p2 = p)
      BY <1>1, <1>10, <3>2 DEF Instead
    <3> QED BY <3>1, <3>2
  <2> QED BY <1>11, <1>13, <2>1 DEF Neat
<1>16. PICK e : e = [id |-> id, side |-> s, price |-> p, remaining |-> n]
  OBVIOUS
<1>17. e = Entry(s, p, o)
  BY <1>5, <1>16 DEF Entry
<1>18. ASSUME NEW x PROVE x \in OrdersOf(r) <=> x \in OrdersOf(q) \/ x = e
  <2>1. ASSUME x \in OrdersOf(r) PROVE x \in OrdersOf(q) \/ x = e
    <3>1. PICK s2 \in Sides, p2 \in Prices :
            \E i \in 1 .. Len(r[s2][p2]) : x = Entry(s2, p2, r[s2][p2][i])
      BY <1>11, <2>1, OrdersOfFacts
    <3>2. PICK i \in 1 .. Len(r[s2][p2]) : x = Entry(s2, p2, r[s2][p2][i])
      BY <3>1
    <3>3. CASE i \in 1 .. Len(q[s2][p2]) /\ r[s2][p2][i] = q[s2][p2][i]
      <4>1. x \in OrdersOf(q)
        BY <1>1, <3>2, <3>3, OrdersOfFacts
      <4> QED BY <4>1
    <3>4. CASE s2 = s /\ p2 = p /\ r[s2][p2][i] = o
      BY <1>17, <3>2, <3>4
    <3> QED BY <1>12, <3>3, <3>4
  <2>2. ASSUME x \in OrdersOf(q) PROVE x \in OrdersOf(r)
    <3>1. PICK s2 \in Sides, p2 \in Prices :
            \E i \in 1 .. Len(q[s2][p2]) : x = Entry(s2, p2, q[s2][p2][i])
      BY <1>1, <2>2, OrdersOfFacts
    <3>2. PICK i \in 1 .. Len(q[s2][p2]) : x = Entry(s2, p2, q[s2][p2][i])
      BY <3>1
    <3>3. i \in 1 .. Len(r[s2][p2]) /\ r[s2][p2][i] = q[s2][p2][i]
      <4>1. CASE s2 = s /\ p2 = p
        <5>1. i \in 1 .. Len(f) /\ i \in 1 .. Len(new)
          BY <1>2, <1>3, <1>7, <4>1
        <5> QED BY <1>2, <1>7, <1>11, <4>1, <5>1
      <4>2. CASE ~(s2 = s /\ p2 = p)
        BY <1>10, <4>2 DEF Instead
      <4> QED BY <4>1, <4>2
    <3> QED BY <1>11, <3>2, <3>3, OrdersOfFacts
  <2>3. ASSUME x = e PROVE x \in OrdersOf(r)
    <3>1. Len(f) + 1 \in 1 .. Len(r[s][p]) /\ r[s][p][Len(f) + 1] = o
      BY <1>3, <1>7, <1>11
    <3> QED BY <1>11, <1>17, <2>3, <3>1, OrdersOfFacts
  <2> QED BY <2>1, <2>2, <2>3
<1> QED BY <1>8, <1>15, <1>16, <1>18

\* The best order of a side is the first of its best price.
LEMMA BestInFacts ==
  ASSUME NEW q, Neat(q), NEW s \in Sides, ActiveIn(q, s) # {},
         NEW p, p = BestPriceIn(q, s), NEW o, o = BestIn(q, s)
  PROVE  /\ p \in Prices /\ p \in ActiveIn(q, s)
         /\ \A p2 \in ActiveIn(q, s) : Book!AtLeastAsGood(s, p, p2)
         /\ 1 \in 1 .. Len(q[s][p]) /\ o = q[s][p][1]
         /\ o.id \in Nat /\ o.remaining \in Nat \ {0}
<1> DEFINE P == ActiveIn(q, s)
<1>1. P \subseteq Prices /\ P \subseteq Nat /\ IsFiniteSet(P)
  BY MatcherAssumption, FS_Subset DEF ActiveIn
<1>2. \E p1 \in P : \A p2 \in P : Book!AtLeastAsGood(s, p1, p2)
  <2>1. CASE s = "Bid"
    <3>1. PICK p1 \in P : \A p2 \in P : p2 <= p1
      BY <1>1, Greatest
    <3> QED BY <1>1, <2>1, <3>1 DEF Book!AtLeastAsGood
  <2>2. CASE s # "Bid"
    <3>1. PICK p1 \in P : \A p2 \in P : p1 <= p2
      BY <1>1, Least
    <3> QED BY <2>2, <3>1 DEF Book!AtLeastAsGood
  <2> QED BY <2>1, <2>2
<1>3. p \in P /\ \A p2 \in P : Book!AtLeastAsGood(s, p, p2)
  BY <1>2 DEF BestPriceIn
<1> HIDE DEF P
<1>4. p \in Prices
  BY <1>1, <1>3
<1>5. PICK f : f = q[s][p]
  OBVIOUS
<1>6. f \in Seq(RestingOrder) /\ f # <<>> /\ Queued(f) /\ Len(f) \in Nat
  <2>1. f # <<>>
    BY <1>3, <1>5 DEF P, ActiveIn
  <2> QED BY <1>4, <1>5, <2>1, QueueFacts DEF Neat
<1>7. 1 \in 1 .. Len(f) /\ o = f[1]
  <2>1. Len(f) > 0
    BY <1>6, EmptySeq
  <2>2. o = Head(f)
    BY <1>5 DEF BestIn
  <2> QED BY <1>6, <2>1, <2>2, HeadTailProperties
<1>8. f[1] \in RestingOrder
  BY <1>6, <1>7, ElementOfSeq
<1>9. o.id \in Nat /\ o.remaining \in Nat \ {0}
  BY <1>6, <1>7, <1>8 DEF RestingOrder, Queued
<1> QED BY <1>3, <1>4, <1>5, <1>7, <1>9 DEF P

-----------------------------------------------------------------------------
(* A reader of the live events knows the book along the trace.               *)

\* Every order of book q is older than order id.
Older(q, id) ==
  \A s \in Sides, p \in Prices : \A k \in 1 .. Len(q[s][p]) : q[s][p][k].id < id

\* What a configuration of the trace is like, when w is the Command WAL.
Sound(c, w) ==
  /\ Neat(c.book) /\ UpTo(c.book, c.last) /\ c.last \in Nat
  /\ c.phase \in {"Match", "MakerDone", "Finish"}
  /\ c.cause \in 1 .. Len(w) /\ c.message = w[c.cause]
  /\ c.phase # "Finish" =>
       /\ c.message.type = "NewLimit" /\ OrderOf(c) \in NewOrders
       /\ OrderOf(c).id = c.last /\ Older(c.book, c.last) /\ c.remaining \in Nat
  /\ c.phase = "MakerDone" =>
       /\ c.maker \in Nat /\ c.maker < c.last
       /\ \A x \in OrdersOf(c.book) : x.id # c.maker

\* A maker filled in full stays in the mind of the reader until its Done.
RestsOf(c) ==
  OrdersOf(c.book) \cup
    IF c.phase = "MakerDone"
    THEN {[id |-> c.maker, side |-> Opponent(c), price |-> c.event.price, remaining |-> 0]}
    ELSE {}

EventsIn(T, n) == [k \in 1 .. n |-> T[k].event]

LEMMA EventsInFacts ==
  ASSUME NEW T, NEW n \in Nat
  PROVE  /\ EventsIn(T, 0) = <<>>
         /\ IsStream(EventsIn(T, n)) /\ Len(EventsIn(T, n)) = n
         /\ EventsIn(T, n + 1) = Append(EventsIn(T, n), T[n + 1].event)
<1>1. PICK S : S = {T[k].event : k \in 1 .. n + 1}
  OBVIOUS
<1>2. PICK f : f = EventsIn(T, n)
  OBVIOUS
<1>3. PICK g : g = EventsIn(T, n + 1)
  OBVIOUS
<1>4. /\ f \in Seq(S) /\ Len(f) = n /\ \A k \in 1 .. n : f[k] = T[k].event
      /\ g \in Seq(S) /\ Len(g) = n + 1 /\ \A k \in 1 .. n + 1 : g[k] = T[k].event
  BY <1>1, <1>2, <1>3 DEF EventsIn
<1>5. T[n + 1].event \in S
  BY <1>1
<1>6. PICK h : h = Append(f, T[n + 1].event)
  OBVIOUS
<1>7. /\ h \in Seq(S) /\ Len(h) = n + 1 /\ \A k \in 1 .. n : h[k] = f[k]
      /\ h[n + 1] = T[n + 1].event
  BY <1>4, <1>5, <1>6, AppendProperties
<1>8. \A k \in 1 .. n + 1 : h[k] = g[k]
  BY <1>4, <1>7
<1>9. g = h
  BY <1>4, <1>7, <1>8, SeqEqual
<1>10. EventsIn(T, 0) = <<>>
  BY DEF EventsIn
<1> QED BY <1>2, <1>3, <1>4, <1>6, <1>9, <1>10 DEF IsStream

\* Events that say nothing about the orders that rest.
LEMMA NothingLearned ==
  ASSUME NEW r, NEW e, e.type \notin {"Rested", "Trade", "Done"}
  PROVE  Learned(r, e) = r
BY DEF Learned

\* A command begins.
LEMMA StartSound ==
  ASSUME NEW w, w \in Seq(Messages), NEW cause \in 1 .. Len(w),
         NEW q, Neat(q), NEW last \in Nat, UpTo(q, last),
         NEW c, c = Start(q, last, cause, w[cause]), c.event.type # "MatcherFatal"
  PROVE  /\ Sound(c, w)
         /\ RestsOf(c) = Learned(OrdersOf(q), c.event)
         /\ c.event.type \in {"Accepted", "Rejected", "SaveSnapshot", "LoadSnapshot", "Shutdown",
                              "StartReplay", "StopReplay"}
<1>1. PICK m : m = w[cause]
  OBVIOUS
<1>2. m \in Messages
  BY <1>1, ElementOfSeq
<1>3. /\ c.book = q /\ c.cause = cause /\ c.message = m
      /\ c.phase \in {"Match", "Finish"}
  BY <1>1, StartFields
<1>4. /\ c.last \in Nat /\ UpTo(q, c.last)
      /\ c.phase # "Finish" =>
           /\ m.type = "NewLimit" /\ m.order \in NewOrders
           /\ m.order.id = c.last /\ Older(q, c.last) /\ c.remaining \in Nat
      /\ c.event.type \in {"Accepted", "Rejected", "SaveSnapshot", "LoadSnapshot", "Shutdown",
                           "StartReplay", "StopReplay"}
  <2>1. CASE m.type # "NewLimit"
    <3>1. c.last = last /\ c.phase = "Finish"
      BY <1>1, <2>1, StartFields
    <3>2. c.event = IF m.type = "None" THEN OrderEvent("Rejected", 0) ELSE Event(m.type)
      BY <1>1, <2>1, ConfigFields DEF Start
    <3>3. m.type \in {"SaveSnapshot", "LoadSnapshot", "Shutdown", "StartReplay", "StopReplay",
                      "None"}
      BY <1>2, <2>1 DEF Messages
    <3>4. c.event.type = IF m.type = "None" THEN "Rejected" ELSE m.type
      BY <3>2 DEF OrderEvent, Event
    <3> QED BY <3>1, <3>3, <3>4
  <2>2. CASE m.type = "NewLimit"
    <3>1. PICK o : o = m.order
      OBVIOUS
    <3>2. o \in NewOrders /\ o.id \in Nat /\ o.quantity \in Nat
      BY <1>2, <2>2, <3>1, OrderType DEF NewOrders
    <3>3. c = StartOrder(q, last, cause, m)
      BY <1>1, <2>2 DEF Start
    <3>4. ~(o.id <= last)
      <4> SUFFICES ASSUME o.id <= last PROVE FALSE
        OBVIOUS
      <4>1. c = Config(q, last, "Finish", 0, 0, OrderEvent("MatcherFatal", o.id), 1, cause, m)
        BY <3>1, <3>3 DEF StartOrder
      <4>2. c.event = OrderEvent("MatcherFatal", o.id)
        BY <4>1, ConfigFields
      <4> QED BY <4>2 DEF OrderEvent
    <3>5. last < o.id /\ last <= o.id
      BY <3>2, <3>4
    <3>6. UpTo(q, o.id) /\ Older(q, o.id)
      <4> SUFFICES ASSUME NEW s \in Sides, NEW p \in Prices, NEW k \in 1 .. Len(q[s][p])
                   PROVE  q[s][p][k].id <= o.id /\ q[s][p][k].id < o.id
        BY DEF UpTo, Older
      <4>1. q[s][p][k].id \in Nat /\ q[s][p][k].id <= last
        BY QueueFacts DEF Neat, UpTo
      <4> QED BY <3>2, <3>5, <4>1
    <3>7. CASE o.quantity = 0
      <4>1. c = Config(q, o.id, "Finish", 0, 0, OrderEvent("Rejected", o.id), 1, cause, m)
        BY <3>1, <3>3, <3>4, <3>7 DEF StartOrder
      <4>2. c.last = o.id /\ c.phase = "Finish" /\ c.event = OrderEvent("Rejected", o.id)
        BY <4>1, ConfigFields
      <4> QED BY <3>2, <3>6, <4>2 DEF OrderEvent
    <3>8. CASE o.quantity # 0
      <4>1. c = Config(q, o.id, "Match", o.quantity, 0, OrderEvent("Accepted", o.id), 1, cause, m)
        BY <3>1, <3>3, <3>4, <3>8 DEF StartOrder
      <4>2. c.last = o.id /\ c.remaining = o.quantity /\ c.event = OrderEvent("Accepted", o.id)
        BY <4>1, ConfigFields
      <4> QED BY <2>2, <3>1, <3>2, <3>6, <4>2 DEF OrderEvent
    <3> QED BY <3>7, <3>8
  <2> QED BY <2>1, <2>2
<1>5. Sound(c, w)
  BY <1>1, <1>3, <1>4 DEF Sound, OrderOf
<1>6. RestsOf(c) = OrdersOf(q)
  BY <1>3 DEF RestsOf
<1>7. Learned(OrdersOf(q), c.event) = OrdersOf(q)
  BY <1>4, NothingLearned
<1> QED BY <1>4, <1>5, <1>6, <1>7

LEMMA OrderFacts ==
  ASSUME NEW q \in Books, NEW x \in OrdersOf(q)
  PROVE  /\ x.id \in Nat /\ x.side \in Sides /\ x.price \in Prices
         /\ \E k \in 1 .. Len(q[x.side][x.price]) : x = Entry(x.side, x.price, q[x.side][x.price][k])
<1>1. PICK s \in Sides, p \in Prices : \E k \in 1 .. Len(q[s][p]) : x = Entry(s, p, q[s][p][k])
  BY OrdersOfFacts
<1>2. PICK k \in 1 .. Len(q[s][p]) : x = Entry(s, p, q[s][p][k])
  BY <1>1
<1>3. x.side = s /\ x.price = p /\ x.id = q[s][p][k].id
  BY <1>2 DEF Entry
<1>4. x.id \in Nat
  BY <1>3, QueueFacts
<1> QED BY <1>2, <1>3, <1>4

\* Older and UpTo speak of the orders that rest.
LEMMA AgeFacts ==
  ASSUME NEW q \in Books, NEW id
  PROVE  /\ Older(q, id) <=> \A x \in OrdersOf(q) : x.id < id
         /\ UpTo(q, id) <=> \A x \in OrdersOf(q) : x.id <= id
<1>1. ASSUME NEW s \in Sides, NEW p \in Prices, NEW k \in 1 .. Len(q[s][p])
      PROVE  \E x \in OrdersOf(q) : x.id = q[s][p][k].id
  <2>1. Entry(s, p, q[s][p][k]) \in OrdersOf(q)
    BY OrdersOfFacts
  <2>2. Entry(s, p, q[s][p][k]).id = q[s][p][k].id
    BY DEF Entry
  <2> QED BY <2>1, <2>2
<1>2. ASSUME NEW x \in OrdersOf(q)
      PROVE  \E s \in Sides, p \in Prices : \E k \in 1 .. Len(q[s][p]) : x.id = q[s][p][k].id
  <2>1. PICK k \in 1 .. Len(q[x.side][x.price]) : x = Entry(x.side, x.price, q[x.side][x.price][k])
    BY OrderFacts
  <2>2. x.id = q[x.side][x.price][k].id
    BY <2>1 DEF Entry
  <2> QED BY <2>2, OrderFacts
<1>3. ASSUME Older(q, id) PROVE \A x \in OrdersOf(q) : x.id < id
  BY <1>2, <1>3 DEF Older
<1>4. ASSUME \A x \in OrdersOf(q) : x.id < id PROVE Older(q, id)
  BY <1>1, <1>4 DEF Older
<1>5. ASSUME UpTo(q, id) PROVE \A x \in OrdersOf(q) : x.id <= id
  BY <1>2, <1>5 DEF UpTo
<1>6. ASSUME \A x \in OrdersOf(q) : x.id <= id PROVE UpTo(q, id)
  BY <1>1, <1>6 DEF UpTo
<1> QED BY <1>3, <1>4, <1>5, <1>6

\* There is one order of each id.
LEMMA OneOfId ==
  ASSUME NEW q, Neat(q), NEW s \in Sides, NEW p \in Prices, NEW k \in 1 .. Len(q[s][p]),
         NEW x \in OrdersOf(q), x.id = q[s][p][k].id
  PROVE  x = Entry(s, p, q[s][p][k])
<1>1. q \in Books /\ Distinct(q)
  BY DEF Neat
<1>2. PICK j \in 1 .. Len(q[x.side][x.price]) : x = Entry(x.side, x.price, q[x.side][x.price][j])
  BY <1>1, OrderFacts
<1>3. x.side \in Sides /\ x.price \in Prices
  BY <1>1, OrderFacts
<1>4. q[x.side][x.price][j].id = q[s][p][k].id
  BY <1>2 DEF Entry
<1>5. x.side = s /\ x.price = p /\ j = k
  BY <1>1, <1>3, <1>4 DEF Distinct
<1> QED BY <1>2, <1>5

\* What a trade is about.
LEMMA TradeFacts ==
  ASSUME NEW w, NEW c, Sound(c, w), c.phase = "Match", TradesIn(c),
         NEW q, q = c.book, NEW s, s = Opponent(c), NEW p, p = BestPriceIn(q, s),
         NEW o, o = MakerOf(c), NEW n, n = ExecutedOf(c)
  PROVE  /\ s \in Sides /\ p \in Prices /\ 1 \in 1 .. Len(q[s][p]) /\ o = q[s][p][1]
         /\ o.id \in Nat /\ o.id < c.last /\ o.remaining \in Nat \ {0}
         /\ n \in Nat \ {0} /\ n <= o.remaining /\ n <= c.remaining
         /\ \A p2 \in ActiveIn(q, s) : Book!AtLeastAsGood(s, p, p2)
         /\ Crosses(OrderOf(c).side, OrderOf(c).price, p)
<1>1. /\ Neat(q) /\ q \in Books /\ Older(q, c.last)
      /\ OrderOf(c) \in NewOrders /\ c.remaining \in Nat
  BY DEF Sound, Neat
<1>2. s \in Sides
  BY <1>1 DEF Opponent, Opposite, Sides
<1>3. ActiveIn(q, s) # {} /\ c.remaining # 0 /\ Crosses(OrderOf(c).side, OrderOf(c).price, p)
  BY DEF TradesIn
<1>4. o = BestIn(q, s)
  BY DEF MakerOf
<1>5. /\ p \in Prices /\ 1 \in 1 .. Len(q[s][p]) /\ o = q[s][p][1]
      /\ \A p2 \in ActiveIn(q, s) : Book!AtLeastAsGood(s, p, p2)
      /\ o.id \in Nat /\ o.remaining \in Nat \ {0}
  BY <1>1, <1>2, <1>3, <1>4, BestInFacts
<1>6. o.id < c.last
  BY <1>1, <1>2, <1>5 DEF Older
<1>7. n = IF c.remaining < o.remaining THEN c.remaining ELSE o.remaining
  BY DEF ExecutedOf
<1> QED BY <1>1, <1>2, <1>3, <1>5, <1>6, <1>7

Filled(x, id, n) == IF x.id = id THEN [x EXCEPT !.remaining = @ - n] ELSE x

LEMMA TradeLearned ==
  ASSUME NEW r, NEW id, NEW with, NEW price, NEW n, NEW e, e = Trade(id, with, price, n)
  PROVE  Learned(r, e) = {Filled(x, with, n) : x \in r}
BY DEF Learned, Trade, Filled

\* A maker is filled in full.
LEMMA FullTradeSound ==
  ASSUME NEW w, NEW c, Sound(c, w), c.phase = "Match", TradesIn(c),
         ExecutedOf(c) = MakerOf(c).remaining,
         NEW d, d = AfterTrade(c)
  PROVE  Sound(d, w) /\ RestsOf(d) = Learned(RestsOf(c), d.event)
<1>1. PICK q : q = c.book
  OBVIOUS
<1>2. PICK s : s = Opponent(c)
  OBVIOUS
<1>3. PICK p : p = BestPriceIn(q, s)
  OBVIOUS
<1>4. PICK o : o = MakerOf(c)
  OBVIOUS
<1>5. PICK n : n = ExecutedOf(c)
  OBVIOUS
<1>6. /\ s \in Sides /\ p \in Prices /\ 1 \in 1 .. Len(q[s][p]) /\ o = q[s][p][1]
      /\ o.id \in Nat /\ o.id < c.last /\ o.remaining \in Nat \ {0}
      /\ n \in Nat \ {0} /\ n <= c.remaining
  BY <1>1, <1>2, <1>3, <1>4, <1>5, TradeFacts
<1>7. /\ Neat(q) /\ UpTo(q, c.last) /\ c.last \in Nat /\ q \in Books
      /\ c.cause \in 1 .. Len(w) /\ c.message = w[c.cause]
      /\ c.message.type = "NewLimit" /\ OrderOf(c) \in NewOrders
      /\ OrderOf(c).id = c.last /\ Older(q, c.last) /\ c.remaining \in Nat
  BY <1>1 DEF Sound, Neat
<1>8. PICK trade : trade = Trade(OrderOf(c).id, o.id, p, n)
  OBVIOUS
<1>9. PICK r : r = Book!Cancelled(q, o.id)
  OBVIOUS
<1>10. Neat(r) /\ r \in Books /\ OrdersOf(r) = {x \in OrdersOf(q) : x.id # o.id}
  <2>1. Neat(r) /\ OrdersOf(r) = {x \in OrdersOf(q) : x.id # o.id}
    BY <1>6, <1>7, <1>9, CancelledNeat
  <2> QED BY <2>1 DEF Neat
<1>11. d = Further(c, r, "MakerDone", c.remaining - n, o.id, trade)
  BY <1>1, <1>2, <1>3, <1>4, <1>5, <1>8, <1>9 DEF AfterTrade
<1>12. /\ d.book = r /\ d.last = c.last /\ d.phase = "MakerDone"
       /\ d.remaining = c.remaining - n /\ d.maker = o.id /\ d.event = trade
       /\ d.cause = c.cause /\ d.message = c.message
  BY <1>11, ConfigFields DEF Further
<1>13. OrderOf(d) = OrderOf(c) /\ Opponent(d) = s /\ trade.price = p
  BY <1>2, <1>8, <1>12 DEF OrderOf, Opponent, Trade
<1>14. Sound(d, w)
  <2>1. \A x \in OrdersOf(r) : x \in OrdersOf(q) /\ x.id # o.id
    BY <1>10
  <2>2. UpTo(r, c.last) /\ Older(r, c.last)
    BY <1>7, <1>10, <2>1, AgeFacts
  <2>3. c.remaining - n \in Nat
    BY <1>6, <1>7
  <2> QED BY <1>6, <1>7, <1>10, <1>12, <1>13, <2>1, <2>2, <2>3 DEF Sound
<1>15. PICK z : z = [id |-> o.id, side |-> s, price |-> p, remaining |-> 0]
  OBVIOUS
<1>16. RestsOf(d) = OrdersOf(r) \cup {z}
  BY <1>12, <1>13, <1>15 DEF RestsOf
<1>17. RestsOf(c) = OrdersOf(q)
  BY <1>1 DEF RestsOf
<1>18. Learned(OrdersOf(q), trade) = {Filled(x, o.id, n) : x \in OrdersOf(q)}
  BY <1>8, TradeLearned
<1>19. ASSUME NEW x \in OrdersOf(q)
       PROVE  /\ x.id = o.id => Filled(x, o.id, n) = z
              /\ x.id # o.id => Filled(x, o.id, n) = x
  <2>1. n = o.remaining
    BY <1>4, <1>5
  <2>2. o.remaining - n = 0
    BY <1>6, <2>1
  <2>3. CASE x.id = o.id
    <3>1. x = Entry(s, p, o)
      BY <1>6, <1>7, <2>3, OneOfId
    <3>2. x = [id |-> o.id, side |-> s, price |-> p, remaining |-> o.remaining]
      BY <3>1 DEF Entry
    <3>3. [x EXCEPT !.remaining = @ - n] = [id |-> o.id, side |-> s, price |-> p,
                                            remaining |-> o.remaining - n]
      BY <3>2
    <3> QED BY <1>15, <2>2, <2>3, <3>3 DEF Filled
  <2>4. CASE x.id # o.id
    BY <2>4 DEF Filled
  <2> QED BY <2>3, <2>4
<1>20. Entry(s, p, o) \in OrdersOf(q)
  BY <1>6, <1>7, OrdersOfFacts
<1>21. z \in {Filled(x, o.id, n) : x \in OrdersOf(q)}
  <2>1. Entry(s, p, o).id = o.id
    BY DEF Entry
  <2>2. Filled(Entry(s, p, o), o.id, n) = z
    BY <1>19, <1>20, <2>1
  <2> QED BY <1>20, <2>2
<1>22. OrdersOf(r) \cup {z} = {Filled(x, o.id, n) : x \in OrdersOf(q)}
  BY <1>10, <1>19, <1>21
<1> QED BY <1>12, <1>14, <1>16, <1>17, <1>18, <1>22

\* A maker is filled in part.
LEMMA PartTradeSound ==
  ASSUME NEW w, NEW c, Sound(c, w), c.phase = "Match", TradesIn(c),
         ExecutedOf(c) # MakerOf(c).remaining,
         NEW d, d = AfterTrade(c)
  PROVE  Sound(d, w) /\ RestsOf(d) = Learned(RestsOf(c), d.event)
<1>1. PICK q : q = c.book
  OBVIOUS
<1>2. PICK s : s = Opponent(c)
  OBVIOUS
<1>3. PICK p : p = BestPriceIn(q, s)
  OBVIOUS
<1>4. PICK o : o = MakerOf(c)
  OBVIOUS
<1>5. PICK n : n = ExecutedOf(c)
  OBVIOUS
<1>6. /\ s \in Sides /\ p \in Prices /\ 1 \in 1 .. Len(q[s][p]) /\ o = q[s][p][1]
      /\ o.id \in Nat /\ o.id < c.last /\ o.remaining \in Nat \ {0}
      /\ n \in Nat \ {0} /\ n <= c.remaining /\ n <= o.remaining
  BY <1>1, <1>2, <1>3, <1>4, <1>5, TradeFacts
<1>7. /\ Neat(q) /\ UpTo(q, c.last) /\ c.last \in Nat /\ q \in Books
      /\ c.cause \in 1 .. Len(w) /\ c.message = w[c.cause]
      /\ c.message.type = "NewLimit" /\ OrderOf(c) \in NewOrders
      /\ OrderOf(c).id = c.last /\ Older(q, c.last) /\ c.remaining \in Nat
  BY <1>1 DEF Sound, Neat
<1>8. PICK trade : trade = Trade(OrderOf(c).id, o.id, p, n)
  OBVIOUS
<1>9. PICK left : left = o.remaining - n
  OBVIOUS
<1>10. left \in Nat \ {0}
  <2>1. n # o.remaining
    BY <1>4, <1>5
  <2> QED BY <1>6, <1>9, <2>1
<1>11. PICK r : r = Book!Changed(q, o.id, left)
  OBVIOUS
<1>12. /\ Neat(r) /\ r \in Books
       /\ OrdersOf(r) = {Reduced(x, o.id, left) : x \in OrdersOf(q)}
  <2>1. PICK k \in 1 .. Len(q[s][p]) : o = q[s][p][k]
    BY <1>6
  <2>2. PICK id : id = q[s][p][k].id
    OBVIOUS
  <2>3. o.id = id
    BY <2>1, <2>2
  <2>4. r = Book!Changed(q, id, left)
    BY <1>11, <2>3
  <2>5. IsReduced(r, q, id, left)
    BY <1>6, <1>7, <1>10, <2>2, <2>4, ChangedNeat
  <2>6. Neat(r) /\ OrdersOf(r) = {Reduced(x, id, left) : x \in OrdersOf(q)}
    BY <2>5 DEF IsReduced
  <2> QED BY <2>3, <2>6 DEF Neat
<1>13. d = Further(c, r, "Match", c.remaining - n, 0, trade)
  BY <1>1, <1>2, <1>3, <1>4, <1>5, <1>8, <1>9, <1>11 DEF AfterTrade
<1>14. /\ d.book = r /\ d.last = c.last /\ d.phase = "Match"
       /\ d.remaining = c.remaining - n /\ d.event = trade
       /\ d.cause = c.cause /\ d.message = c.message
  BY <1>13, ConfigFields DEF Further
<1>15. OrderOf(d) = OrderOf(c)
  BY <1>14 DEF OrderOf
<1>16. ASSUME NEW x \in OrdersOf(q)
       PROVE  Reduced(x, o.id, left) = Filled(x, o.id, n)
  <2>1. CASE x.id = o.id
    <3>1. x = Entry(s, p, o)
      BY <1>6, <1>7, <2>1, OneOfId
    <3>2. x = [id |-> o.id, side |-> s, price |-> p, remaining |-> o.remaining]
      BY <3>1 DEF Entry
    <3>3. [x EXCEPT !.remaining = left] = [id |-> o.id, side |-> s, price |-> p,
                                           remaining |-> left]
      BY <3>2
    <3>4. [x EXCEPT !.remaining = @ - n] = [id |-> o.id, side |-> s, price |-> p,
                                            remaining |-> o.remaining - n]
      BY <3>2
    <3> QED BY <1>9, <2>1, <3>3, <3>4 DEF Reduced, Filled
  <2>2. CASE x.id # o.id
    BY <2>2 DEF Filled, Reduced
  <2> QED BY <2>1, <2>2
<1>17. OrdersOf(r) = {Filled(x, o.id, n) : x \in OrdersOf(q)}
  BY <1>12, <1>16
<1>18. ASSUME NEW y \in OrdersOf(r) PROVE \E x \in OrdersOf(q) : y.id = x.id
  <2>1. PICK x \in OrdersOf(q) : y = Filled(x, o.id, n)
    BY <1>17
  <2>2. Filled(x, o.id, n).id = x.id
    <3>1. CASE x.id = o.id
      <4>1. x = Entry(s, p, o)
        BY <1>6, <1>7, <3>1, OneOfId
      <4>2. x = [id |-> o.id, side |-> s, price |-> p, remaining |-> o.remaining]
        BY <4>1 DEF Entry
      <4>3. [x EXCEPT !.remaining = @ - n].id = o.id
        BY <4>2
      <4> QED BY <3>1, <4>3 DEF Filled
    <3>2. CASE x.id # o.id
      BY <3>2 DEF Filled
    <3> QED BY <3>1, <3>2
  <2> QED BY <2>1, <2>2
<1>19. Sound(d, w)
  <2>1. UpTo(r, c.last) /\ Older(r, c.last)
    BY <1>7, <1>12, <1>18, AgeFacts
  <2>2. c.remaining - n \in Nat
    BY <1>6, <1>7
  <2> QED BY <1>7, <1>12, <1>14, <1>15, <2>1, <2>2 DEF Sound
<1>20. RestsOf(d) = OrdersOf(r) /\ RestsOf(c) = OrdersOf(q)
  BY <1>1, <1>14 DEF RestsOf
<1>21. Learned(OrdersOf(q), trade) = {Filled(x, o.id, n) : x \in OrdersOf(q)}
  BY <1>8, TradeLearned
<1> QED BY <1>14, <1>17, <1>19, <1>20, <1>21

\* The Done of a maker.
LEMMA MakerDoneSound ==
  ASSUME NEW w, NEW c, Sound(c, w), c.phase = "MakerDone", NEW d, d = After(c)
  PROVE  Sound(d, w) /\ RestsOf(d) = Learned(RestsOf(c), d.event)
<1>1. d = Further(c, c.book, "Match", c.remaining, 0, OrderEvent("Done", c.maker))
  BY DEF After
<1>2. /\ d.book = c.book /\ d.last = c.last /\ d.phase = "Match"
      /\ d.remaining = c.remaining /\ d.event = OrderEvent("Done", c.maker)
      /\ d.cause = c.cause /\ d.message = c.message
  BY <1>1, ConfigFields DEF Further
<1>3. Sound(d, w)
  BY <1>2 DEF Sound, OrderOf
<1>4. PICK z : z = [id |-> c.maker, side |-> Opponent(c), price |-> c.event.price,
                    remaining |-> 0]
  OBVIOUS
<1>5. z.id = c.maker /\ RestsOf(c) = OrdersOf(c.book) \cup {z} /\ RestsOf(d) = OrdersOf(c.book)
  BY <1>2, <1>4 DEF RestsOf
<1>6. d.event.type = "Done" /\ d.event.id = c.maker
  BY <1>2 DEF OrderEvent
<1>7. Learned(RestsOf(c), d.event) = {x \in RestsOf(c) : x.id # c.maker}
  BY <1>6 DEF Learned
<1>8. \A x \in OrdersOf(c.book) : x.id # c.maker
  BY DEF Sound
<1>9. {x \in OrdersOf(c.book) \cup {z} : x.id # c.maker} = OrdersOf(c.book)
  BY <1>5, <1>8
<1> QED BY <1>3, <1>5, <1>7, <1>9

\* What remains of an order rests.
LEMMA RestSound ==
  ASSUME NEW w, NEW c, Sound(c, w), c.phase = "Match", c.remaining # 0, FitsIn(c),
         NEW d, d = AfterLoop(c)
  PROVE  Sound(d, w) /\ RestsOf(d) = Learned(RestsOf(c), d.event)
<1>1. PICK q : q = c.book
  OBVIOUS
<1>2. PICK o : o = OrderOf(c)
  OBVIOUS
<1>3. /\ Neat(q) /\ UpTo(q, c.last) /\ c.last \in Nat /\ q \in Books
      /\ c.cause \in 1 .. Len(w) /\ c.message = w[c.cause]
      /\ o \in NewOrders /\ o.id = c.last /\ Older(q, c.last) /\ c.remaining \in Nat \ {0}
  BY <1>1, <1>2 DEF Sound, Neat
<1>4. o.side \in Sides /\ o.price \in Prices
  BY <1>2, <1>3 DEF FitsIn, NewOrders
<1>5. PICK r : r = Book!Rested(q, o.id, o.side, o.price, c.remaining)
  OBVIOUS
<1>6. PICK z : z = [id |-> o.id, side |-> o.side, price |-> o.price, remaining |-> c.remaining]
  OBVIOUS
<1>7. Neat(r) /\ r \in Books /\ OrdersOf(r) = OrdersOf(q) \cup {z}
  <2>1. \A s \in Sides, p \in Prices : \A k \in 1 .. Len(q[s][p]) : q[s][p][k].id < o.id
    BY <1>3 DEF Older
  <2>2. Neat(r) /\ OrdersOf(r) = OrdersOf(q) \cup {z}
    BY <1>3, <1>4, <1>5, <1>6, <2>1, RestedNeat, SMTT(20)
  <2> QED BY <2>2 DEF Neat
<1>8. PICK e : e = Rested(o, c.remaining)
  OBVIOUS
<1>9. d = Further(c, r, "Finish", 0, 0, e)
  BY <1>1, <1>2, <1>5, <1>8 DEF AfterLoop
<1>10. /\ d.book = r /\ d.last = c.last /\ d.phase = "Finish" /\ d.event = e
       /\ d.cause = c.cause /\ d.message = c.message
  BY <1>9, ConfigFields DEF Further
<1>11. Sound(d, w)
  <2>1. z.id = c.last /\ \A x \in OrdersOf(q) : x.id <= c.last
    BY <1>3, <1>6, AgeFacts
  <2>2. \A x \in OrdersOf(r) : x.id <= c.last
    BY <1>3, <1>7, <2>1
  <2>3. UpTo(r, c.last)
    BY <1>7, <2>2, AgeFacts
  <2> QED BY <1>3, <1>7, <1>10, <2>3 DEF Sound
<1>12. RestsOf(d) = OrdersOf(r) /\ RestsOf(c) = OrdersOf(q)
  BY <1>1, <1>10 DEF RestsOf
<1>13. /\ e.type = "Rested" /\ e.id = o.id /\ e.side = o.side /\ e.price = o.price
       /\ e.quantity = c.remaining
  BY <1>8 DEF Rested
<1>14. Learned(OrdersOf(q), e) = OrdersOf(q) \cup {z}
  BY <1>6, <1>13 DEF Learned
<1> QED BY <1>7, <1>10, <1>11, <1>12, <1>14

\* An order ends without resting.
LEMMA EndSound ==
  ASSUME NEW w, NEW c, Sound(c, w), c.phase = "Match", c.remaining = 0 \/ ~FitsIn(c),
         NEW d, d = AfterLoop(c)
  PROVE  Sound(d, w) /\ RestsOf(d) = Learned(RestsOf(c), d.event)
<1>1. PICK q : q = c.book
  OBVIOUS
<1>2. PICK o : o = OrderOf(c)
  OBVIOUS
<1>3. PICK e : e = IF c.remaining = 0 THEN OrderEvent("Done", o.id)
                   ELSE OrderEvent(IF c.remaining = o.quantity THEN "Rejected"
                                   ELSE "MatcherFatal", o.id)
  OBVIOUS
<1>4. d = Further(c, q, "Finish", 0, 0, e)
  BY <1>1, <1>2, <1>3 DEF AfterLoop
<1>5. /\ d.book = q /\ d.last = c.last /\ d.phase = "Finish" /\ d.event = e
      /\ d.cause = c.cause /\ d.message = c.message
  BY <1>4, ConfigFields DEF Further
<1>6. Sound(d, w)
  BY <1>1, <1>5 DEF Sound
<1>7. RestsOf(d) = OrdersOf(q) /\ RestsOf(c) = OrdersOf(q)
  BY <1>1, <1>5 DEF RestsOf
<1>8. CASE c.remaining = 0
  <2>1. e.type = "Done" /\ e.id = o.id
    BY <1>3, <1>8 DEF OrderEvent
  <2>2. \A x \in OrdersOf(q) : x.id \in Nat /\ x.id < o.id
    <3>1. q \in Books /\ Older(q, o.id)
      BY <1>1, <1>2 DEF Sound, Neat
    <3> QED BY <3>1, AgeFacts, OrderFacts
  <2>3. \A x \in OrdersOf(q) : x.id # o.id
    BY <2>2
  <2>4. Learned(OrdersOf(q), e) = {x \in OrdersOf(q) : x.id # o.id}
    BY <2>1 DEF Learned
  <2> QED BY <1>5, <1>6, <1>7, <2>3, <2>4
<1>9. CASE c.remaining # 0
  <2>1. e.type \in {"Rejected", "MatcherFatal"}
    BY <1>3, <1>9 DEF OrderEvent
  <2>2. Learned(OrdersOf(q), e) = OrdersOf(q)
    BY <2>1, NothingLearned
  <2> QED BY <1>5, <1>6, <1>7, <2>2
<1> QED BY <1>8, <1>9

LEMMA AfterSound ==
  ASSUME NEW w, NEW c, Sound(c, w), c.phase # "Finish", NEW d, d = After(c)
  PROVE  Sound(d, w) /\ RestsOf(d) = Learned(RestsOf(c), d.event)
<1>1. CASE c.phase = "MakerDone"
  BY <1>1, MakerDoneSound
<1>2. CASE c.phase # "MakerDone"
  <2>1. c.phase = "Match"
    BY <1>2 DEF Sound
  <2>2. CASE TradesIn(c)
    <3>1. d = AfterTrade(c)
      BY <1>2, <2>2 DEF After
    <3> QED BY <2>1, <2>2, <3>1, FullTradeSound, PartTradeSound
  <2>3. CASE ~TradesIn(c)
    <3>1. d = AfterLoop(c)
      BY <1>2, <2>3 DEF After
    <3> QED BY <2>1, <3>1, RestSound, EndSound
  <2> QED BY <2>2, <2>3
<1> QED BY <1>1, <1>2

LEMMA EmptyNeat == Neat(NoBook) /\ UpTo(NoBook, 0) /\ OrdersOf(NoBook) = {}
<1>1. NoBook \in Books /\ UpTo(NoBook, 0)
  BY EmptyIsGood DEF GoodBook
<1>2. \A s \in Sides, p \in Prices : NoBook[s][p] = <<>>
  BY DEF NoBook, Book!Sides, Sides
<1>3. \A s \in Sides, p \in Prices : Len(NoBook[s][p]) = 0
  BY <1>2
<1>4. \A s \in Sides, p \in Prices : Queued(NoBook[s][p])
  BY <1>3 DEF Queued
<1>5. Distinct(NoBook)
  BY <1>3 DEF Distinct
<1>6. OrdersOf(NoBook) = {}
  BY <1>1, <1>3, OrdersOfFacts
<1> QED BY <1>1, <1>4, <1>5, <1>6 DEF Neat

\* The first k events of the trace tell what rests at its configuration k.
Knows(T, w, k) == Sound(T[k], w) /\ RestsIn(EventsIn(T, k)) = RestsOf(T[k])

LEMMA TraceKnows ==
  ASSUME NEW T, NEW w, w \in Seq(Messages), IsTrace(T, w), NEW n \in 1 .. Len(T)
  PROVE  Knows(T, w, n)
<1>0. Len(T) \in Nat
  BY TraceLength DEF IsTrace
<1> DEFINE Bad == {k \in 1 .. Len(T) : ~Knows(T, w, k)}
<1> SUFFICES ASSUME n \in Bad PROVE FALSE
  OBVIOUS
<1>1. PICK m \in Bad : \A k \in Bad : m <= k
  <2>1. Bad \subseteq Nat /\ Bad # {}
    BY <1>0
  <2> HIDE DEF Bad
  <2> QED BY <2>1, Least
<1>2. m \in 1 .. Len(T) /\ ~Knows(T, w, m) /\ m \in Nat
  BY <1>0, <1>1
<1>3. T[m].cause \in 1 .. Len(w) /\ T[m].event.type # "MatcherFatal"
  BY <1>2 DEF IsTrace
<1>4. CASE m = 1
  <2>1. T # <<>>
    BY <1>0, <1>2, TraceLength DEF IsTrace
  <2>2. T[1] = Start(NoBook, 0, 1, w[1])
    BY <2>1 DEF IsTrace
  <2>3. PICK c : c = T[1]
    OBVIOUS
  <2>4. c.cause = 1 /\ 1 \in 1 .. Len(w)
    BY <1>3, <1>4, <2>2, <2>3, StartFields
  <2>5. Sound(c, w) /\ RestsOf(c) = Learned({}, c.event)
    <3>1. PICK last, cause : last = 0 /\ cause = 1
      OBVIOUS
    <3>2. c = Start(NoBook, last, cause, w[cause])
      BY <2>2, <2>3, <3>1
    <3>3. c.event.type # "MatcherFatal" /\ last \in Nat /\ cause \in 1 .. Len(w)
      BY <1>3, <1>4, <2>3, <2>4, <3>1
    <3>4. Neat(NoBook) /\ UpTo(NoBook, last)
      BY <3>1, EmptyNeat
    <3>5. Sound(c, w) /\ RestsOf(c) = Learned(OrdersOf(NoBook), c.event)
      BY <3>2, <3>3, <3>4, StartSound
    <3> QED BY <3>5, EmptyNeat
  <2>6. RestsIn(EventsIn(T, 1)) = Learned({}, c.event)
    <3>1. EventsIn(T, 0) = <<>> /\ EventsIn(T, 0 + 1) = Append(EventsIn(T, 0), T[0 + 1].event)
      BY EventsInFacts
    <3>2. EventsIn(T, 1) = Append(<<>>, c.event)
      <4>1. 0 + 1 = 1
        OBVIOUS
      <4> QED BY <2>3, <3>1, <4>1
    <3>3. IsStream(<<>>)
      BY <3>1, EventsInFacts
    <3> QED BY <3>2, <3>3, KnownAppend, KnownEmpty
  <2> QED BY <1>2, <1>4, <2>3, <2>5, <2>6 DEF Knows
<1>5. CASE m # 1
  <2>1. PICK j : j = m - 1
    OBVIOUS
  <2>2. j \in 1 .. Len(T) /\ j \in Nat /\ m = j + 1 /\ j \in 1 .. Len(T) - 1 /\ ~(m <= j)
    BY <1>0, <1>2, <1>5, <2>1
  <2>3. Knows(T, w, j)
    BY <1>1, <2>2
  <2>4. PICK b : b = T[j]
    OBVIOUS
  <2>5. PICK c : c = T[m]
    OBVIOUS
  <2>6. Sound(b, w) /\ RestsIn(EventsIn(T, j)) = RestsOf(b)
    BY <2>3, <2>4 DEF Knows
  <2>7. c = Successor(b, w)
    BY <2>2, <2>4, <2>5 DEF IsTrace
  <2>8. Sound(c, w) /\ RestsOf(c) = Learned(RestsOf(b), c.event)
    <3>1. CASE b.phase = "Finish"
      <4>1. c = Start(b.book, b.last, b.cause + 1, w[b.cause + 1])
        BY <2>7, <3>1 DEF Successor
      <4>2. c.cause = b.cause + 1
        BY <4>1, StartFields
      <4>3. RestsOf(b) = OrdersOf(b.book)
        BY <3>1 DEF RestsOf
      <4>4. Neat(b.book) /\ b.last \in Nat /\ UpTo(b.book, b.last)
        BY <2>6 DEF Sound
      <4>5. b.cause + 1 \in 1 .. Len(w) /\ c.event.type # "MatcherFatal"
        BY <1>3, <2>5, <4>2
      <4> QED BY <4>1, <4>3, <4>4, <4>5, StartSound
    <3>2. CASE b.phase # "Finish"
      <4>1. c = After(b)
        BY <2>7, <3>2 DEF Successor
      <4> QED BY <2>6, <3>2, <4>1, AfterSound
    <3> QED BY <3>1, <3>2
  <2>9. RestsIn(EventsIn(T, m)) = Learned(RestsOf(b), c.event)
    <3>1. IsStream(EventsIn(T, j)) /\ EventsIn(T, j + 1) = Append(EventsIn(T, j), T[j + 1].event)
      BY <2>2, EventsInFacts
    <3>2. EventsIn(T, m) = Append(EventsIn(T, j), c.event)
      BY <2>2, <2>5, <3>1
    <3> QED BY <2>6, <3>1, <3>2, KnownAppend
  <2> QED BY <1>2, <2>5, <2>8, <2>9 DEF Knows
<1> QED BY <1>4, <1>5

LEMMA OrdersOfBook == RestsInBook = OrdersOf(book)
BY DEF RestsInBook, OrdersOf

\* The live events are the first ones of the trace.
LEMMA EventsAre ==
  ASSUME StreamInv, NEW T, NEW n \in Nat, Len(LiveEvents) = n,
         \A k \in 1 .. n : LiveEvents[k] = EventAt(T[k], k)
  PROVE  EventsOf(LiveEvents) = EventsIn(T, n)
<1>1. PICK S : LiveEvents \in Seq(S)
  BY DEF StreamInv, IsStream
<1>2. DOMAIN LiveEvents = 1 .. n
  BY <1>1
<1>3. \A k \in 1 .. n : LiveEvents[k].event = T[k].event
  BY DEF EventAt
<1> QED BY <1>2, <1>3 DEF EventsOf, EventsIn

\* A reader of the live events knows, between two commands, the whole book.
THEOREM BookMatchesEventsAlways ==
  ASSUME "LoadSnapshot" \notin Controls
  PROVE  Spec => []BookMatchesEvents
<1>1. ReplayedInv => BookMatchesEvents
  <2> SUFFICES ASSUME ReplayedInv, phase = "Idle", replayMode = "Live", fatalReason = "None"
               PROVE  RestsInBook = RestsIn(EventsOf(LiveEvents))
    BY DEF BookMatchesEvents
  <2>1. PICK T : TraceInv(T)
    BY DEF ReplayedInv
  <2>2. StreamInv /\ wal \in Seq(Messages) /\ nextEventSequence \in Nat
    BY DEF ReplayedInv, AllInv, BookInv, TypeInv
  <2>3. PICK n : n = Len(T)
    OBVIOUS
  <2>4. /\ IsTrace(T, wal) /\ n \in Nat /\ Len(LiveEvents) = n
        /\ \A k \in 1 .. n : LiveEvents[k] = EventAt(T[k], k)
        /\ Before(T, n + 1, book, lastOrderId, Len(wal) + 1)
    <3>1. IsTrace(T, wal)
      BY <2>1 DEF TraceInv, LiveInv
    <3>2. n \in Nat
      BY <2>3, <3>1, TraceLength DEF IsTrace
    <3>3. Len(LiveEvents) = nextEventSequence - 1 /\ n = nextEventSequence - 1
      BY <2>1, <2>3 DEF TraceInv, LiveInv, Resume
    <3>4. n + 1 = nextEventSequence
      BY <2>2, <3>3
    <3>5. Before(T, nextEventSequence, book, lastOrderId, Len(wal) + 1)
      BY <2>1 DEF TraceInv, LiveInv
    <3> QED BY <2>1, <3>1, <3>2, <3>3, <3>4, <3>5 DEF TraceInv, LiveInv
  <2>5. EventsOf(LiveEvents) = EventsIn(T, n)
    BY <2>2, <2>4, EventsAre
  <2>6. RestsIn(EventsIn(T, n)) = OrdersOf(book)
    <3>1. CASE n = 0
      <4>1. book = NoBook
        BY <2>4, <3>1 DEF Before
      <4>2. EventsIn(T, n) = <<>>
        BY <3>1, EventsInFacts
      <4> QED BY <4>1, <4>2, EmptyNeat, KnownEmpty
    <3>2. CASE n # 0
      <4>1. n \in 1 .. Len(T) /\ n + 1 # 1 /\ (n + 1) - 1 = n
        BY <2>3, <2>4, <3>2
      <4>2. T[n].phase = "Finish" /\ T[n].book = book
        BY <2>4, <4>1 DEF Before
      <4>3. RestsIn(EventsIn(T, n)) = RestsOf(T[n])
        BY <2>2, <2>4, <4>1, TraceKnows DEF Knows
      <4> QED BY <4>2, <4>3 DEF RestsOf
    <3> QED BY <3>1, <3>2
  <2> QED BY <2>5, <2>6, OrdersOfBook
<1> QED BY <1>1, ReplayedInvariant, PTL

-----------------------------------------------------------------------------
(* The live events tell the trace, also when the matcher has been stopped.   *)

\* A step publishes nothing or the event held back.
Publishes ==
  /\ phase # "Idle"
  /\ \E last \in BOOLEAN : /\ last <=> phase = "Finish"
                           /\ published' = Append(published, Envelope(last))

LEMMA PublishedHow ==
  ASSUME [Next]_vars
  PROVE  published' = published \/ Publishes
<1>1. CASE TakesCommand
  <2>1. \E sequence, message : Dispatch(sequence, message)
    BY <1>1 DEF TakesCommand, Live, ReplayLoad, ReplayNext, ReplayStop, Restore, Control
  <2> QED BY <2>1 DEF Dispatch, NewLimit, SaveSnapshot, LoadSnapshot, Signal, AddFirst
<1>2. CASE MatchOne \/ MakerDone \/ MatchEnds
  <2>1. phase \in {"Match", "MakerDone"} /\ published' = Append(published, Envelope(FALSE))
    BY <1>2, OrderSteps
  <2>2. FALSE \in BOOLEAN /\ ~(phase = "Finish") /\ phase # "Idle"
    BY <2>1
  <2> QED BY <2>1, <2>2 DEF Publishes
<1>3. CASE AddFails
  <2>1. /\ phase \in {"Match", "MakerDone"}
        /\ published' = published \/ published' = Append(published, Envelope(FALSE))
    BY <1>3 DEF AddFails, WriterFails
  <2>2. FALSE \in BOOLEAN /\ ~(phase = "Finish") /\ phase # "Idle"
    BY <2>1
  <2> QED BY <2>1, <2>2 DEF Publishes
<1>4. CASE FinishFails \/ Finish
  <2>1. /\ phase = "Finish"
        /\ published' = published \/ published' = Append(published, Envelope(TRUE))
    BY <1>4 DEF FinishFails, WriterFails, Finish
  <2>2. TRUE \in BOOLEAN /\ phase # "Idle"
    BY <2>1
  <2> QED BY <2>1, <2>2 DEF Publishes
<1>5. CASE ReaderFails \/ UNCHANGED vars
  BY <1>5 DEF ReaderFails, vars
<1> QED BY <1>1, <1>2, <1>3, <1>4, <1>5 DEF Next, TakesCommand

\* Nothing is taken from the Command WAL, and a stopped matcher takes no command.
LEMMA WalGrows ==
  ASSUME TypeInv, [Next]_vars
  PROVE  /\ wal' = wal \/ \E message \in Messages : wal' = Append(wal, message)
         /\ Fatal => wal' = wal
<1>1. CASE TakesCommand
  <2>1. PICK sequence, replayed, message : Takes(sequence, replayed, message)
    BY <1>1, CommandTaken
  <2>2. ~Fatal
    BY <2>1 DEF Takes, Begin, Idle
  <2> QED BY <2>1, <2>2 DEF Takes
<1>2. CASE ~TakesCommand
  <2>1. \/ MatchOne \/ MakerDone \/ MatchEnds \/ AddFails \/ Finish \/ FinishFails
        \/ ReaderFails \/ UNCHANGED vars
    BY <1>2 DEF Next, TakesCommand
  <2>2. wal' = wal
    BY <2>1 DEF MatchOne, MakerDone, MatchEnds, AddFails, Finish, FinishFails, WriterFails,
                ReaderFails, vars, environment
  <2> QED BY <2>2
<1> QED BY <1>1, <1>2

\* Stopped, the matcher at most publishes that it is.
LEMMA FatalSteps ==
  ASSUME FatalInv, IsStream(published), fatalReason # "None", [Next]_vars
  PROVE  /\ fatalReason' # "None"
         /\ Publishes => /\ phase' = "Idle" /\ pending.type = "MatcherFatal"
         /\ published' = published => phase' = phase \/ phase' = "Idle"
<1>1. phase # "Idle" => phase = "Finish" /\ pending.type = "MatcherFatal"
  BY DEF FatalInv, Fatal
<1>2. fatalReason' # "None"
  BY FatalStays
<1>3. ~TakesCommand
  BY DEF TakesCommand, Live, ReplayLoad, ReplayNext, ReplayStop, Restore, Control, Begin, Idle,
         Fatal
<1>4. ~(MatchOne \/ MakerDone \/ MatchEnds \/ AddFails)
  BY <1>1 DEF MatchOne, MakerDone, MatchEnds, AddFails
<1>5. CASE Finish \/ FinishFails
  BY <1>1, <1>2, <1>5 DEF Finish, FinishFails, WriterFails, Publishes
<1>6. CASE ReaderFails
  BY <1>6 DEF ReaderFails, Idle, Fatal
<1>7. CASE UNCHANGED vars
  <2>1. published' = published /\ phase' = phase
    BY <1>7 DEF vars, frame
  <2>2. Publishes => phase' = "Idle" /\ pending.type = "MatcherFatal"
    <3> SUFFICES ASSUME Publishes PROVE FALSE
      OBVIOUS
    <3>1. PICK e : published' = Append(published, e)
      BY DEF Publishes
    <3>2. Len(published) \in Nat /\ Len(published') = Len(published) + 1
      BY <3>1, AppendFacts
    <3> QED BY <2>1, <3>2
  <2> QED BY <1>2, <2>1, <2>2
<1> QED BY <1>3, <1>4, <1>5, <1>6, <1>7 DEF Next, TakesCommand

\* w is the part of the Command WAL that trace T is about; the live events are
\* the first events of T, and if the matcher was stopped in a command one that says so.
SaysSo(k) == /\ Fatal /\ phase = "Idle" /\ k = Len(LiveEvents)
             /\ LiveEvents[k].event.type = "MatcherFatal"
Told(T, w) ==
  /\ w \in Seq(Messages) /\ IsTrace(T, w)
  /\ Len(w) <= Len(wal) /\ \A k \in 1 .. Len(w) : w[k] = wal[k]
  /\ \A k \in 1 .. Len(LiveEvents) :
       (k \in 1 .. Len(T) /\ LiveEvents[k] = EventAt(T[k], k)) \/ SaysSo(k)

\* As long as it runs, that is what TraceInv says.
LEMMA TraceTells ==
  ASSUME AllInv, NEW T, TraceInv(T)
  PROVE  /\ Told(T, wal)
         /\ Len(LiveEvents) \in Nat /\ Len(LiveEvents) = Resume - 1
         /\ Len(T) \in {Len(LiveEvents), Len(LiveEvents) + 1}
         /\ \A k \in 1 .. Len(LiveEvents) : k \in 1 .. Len(T) /\ LiveEvents[k] = EventAt(T[k], k)
<1>1. /\ IsTrace(T, wal) /\ Len(LiveEvents) = Resume - 1
      /\ \A k \in 1 .. Len(LiveEvents) : LiveEvents[k] = EventAt(T[k], k)
      /\ Len(T) = Resume \/ Len(T) = Resume - 1
  BY DEF TraceInv, LiveInv
<1>2. wal \in Seq(Messages) /\ Len(wal) \in Nat /\ Resume \in Nat
  BY LenProperties DEF AllInv, BookInv, TypeInv, Resume
<1>3. Len(LiveEvents) \in Nat
  <2>1. PICK S : LiveEvents \in Seq(S)
    BY DEF AllInv, StreamInv, IsStream
  <2> QED BY <2>1, LenProperties
<1>4. Len(T) \in {Len(LiveEvents), Len(LiveEvents) + 1}
  BY <1>1, <1>2
<1>5. \A k \in 1 .. Len(LiveEvents) : k \in 1 .. Len(T)
  BY <1>3, <1>4
<1> QED BY <1>1, <1>2, <1>3, <1>4, <1>5 DEF Told

\* Nothing is published: what was told remains.
LEMMA ToldStays ==
  ASSUME NEW T, NEW w, Told(T, w), wal \in Seq(Messages), published' = published,
         wal' = wal \/ \E message \in Messages : wal' = Append(wal, message),
         fatalReason' # "None",
         phase # "Idle" \/ phase' = "Idle" \/ fatalReason = "None"
  PROVE  Told(T, w)'
<1>1. LiveEvents' = LiveEvents
  BY DEF LiveEvents
<1>2. Len(w) <= Len(wal') /\ \A k \in 1 .. Len(w) : w[k] = wal'[k]
  <2>1. CASE wal' = wal
    BY <2>1 DEF Told
  <2>2. CASE \E message \in Messages : wal' = Append(wal, message)
    <3>1. PICK message \in Messages : wal' = Append(wal, message)
      BY <2>2
    <3>2. /\ Len(wal) \in Nat /\ Len(wal') = Len(wal) + 1
          /\ \A k \in 1 .. Len(wal) : wal'[k] = wal[k]
      BY <3>1, AppendProperties, LenProperties
    <3>3. Len(w) \in Nat /\ Len(w) <= Len(wal) /\ \A k \in 1 .. Len(w) : w[k] = wal[k]
      BY LenProperties DEF Told
    <3> QED BY <3>2, <3>3
  <2> QED BY <2>1, <2>2
<1>3. ASSUME NEW k \in 1 .. Len(LiveEvents), SaysSo(k) PROVE SaysSo(k)'
  <2>1. phase' = "Idle"
    BY <1>3 DEF SaysSo, Fatal
  <2> QED BY <1>1, <1>3, <2>1 DEF SaysSo, Fatal
<1> QED BY <1>1, <1>2, <1>3 DEF Told

LEMMA ToldStep ==
  ASSUME AllInv, FatalInv, [Next]_vars,
         fatalReason = "None" => \E T : TraceInv(T),
         fatalReason' # "None", \E T, w : Told(T, w)
  PROVE  \E T, w : Told(T, w)'
<1>1. /\ EventInv /\ StreamInv /\ TypeInv /\ IsStream(published) /\ wal \in Seq(Messages)
      /\ nextEventSequence \in Nat
  BY DEF AllInv, EventInv, BookInv, TypeInv
<1>2. wal' = wal \/ \E message \in Messages : wal' = Append(wal, message)
  BY <1>1, WalGrows
<1>3. PICK T, w : Told(T, w) /\ (fatalReason = "None" => w = wal /\ TraceInv(T))
  <2>1. CASE fatalReason = "None"
    <3>1. PICK T : TraceInv(T)
      BY <2>1
    <3>2. Told(T, wal)
      BY <3>1, TraceTells
    <3> QED BY <3>1, <3>2
  <2>2. CASE fatalReason # "None"
    BY <2>2
  <2> QED BY <2>1, <2>2
<1>4. CASE published' = published
  <2>1. phase # "Idle" \/ phase' = "Idle" \/ fatalReason = "None"
    BY <1>1, <1>4, FatalSteps
  <2>2. Told(T, w)'
    BY <1>1, <1>2, <1>3, <1>4, <2>1, ToldStays
  <2> QED BY <2>2
<1>5. CASE Publishes
  <2>1. PICK last \in BOOLEAN : /\ last <=> phase = "Finish"
                                /\ published' = Append(published, Envelope(last))
    BY <1>5 DEF Publishes
  <2>2. phase # "Idle" /\ ~TakesCommand
    BY <1>5 DEF Publishes, TakesCommand, Live, ReplayLoad, ReplayNext, ReplayStop, Restore,
                Control, Begin, Idle
  <2>3. wal' = wal
    <3>1. CASE fatalReason # "None"
      BY <1>1, <3>1, WalGrows DEF Fatal
    <3>2. CASE fatalReason = "None"
      <4>1. \/ MatchOne \/ MakerDone \/ MatchEnds \/ AddFails \/ Finish \/ FinishFails
            \/ ReaderFails \/ UNCHANGED vars
        BY <2>2 DEF Next, TakesCommand
      <4> QED BY <4>1 DEF MatchOne, MakerDone, MatchEnds, AddFails, Finish, FinishFails,
                          WriterFails, ReaderFails, vars, environment
    <3> QED BY <3>1, <3>2
  <2>4. PICK e : e = Envelope(last)
    OBVIOUS
  <2>5. CASE replayMode # "Live"
    <3>1. LiveEvents' = LiveEvents
      <4>1. e.from # "Live"
        BY <2>4, <2>5, EnvelopeFields
      <4> QED BY <1>1, <2>1, <2>4, <4>1, PublishedLive
    <3>2. \A k : ~SaysSo(k)
      BY <2>2 DEF SaysSo
    <3>3. Told(T, w)'
      BY <1>3, <2>3, <3>1, <3>2 DEF Told
    <3> QED BY <3>3
  <2>6. CASE replayMode = "Live"
    <3>1. PICK n : n = Len(LiveEvents)
      OBVIOUS
    <3>2. /\ n \in Nat /\ Len(LiveEvents') = n + 1
          /\ \A k \in 1 .. n : LiveEvents'[k] = LiveEvents[k]
          /\ LiveEvents'[n + 1] = e
      <4>1. e.from = "Live"
        BY <2>4, <2>6, EnvelopeFields
      <4> QED BY <1>1, <2>1, <2>4, <3>1, <4>1, PublishedLive
    <3>3. \A k \in 1 .. n : k \in 1 .. Len(T) /\ LiveEvents'[k] = EventAt(T[k], k)
      <4>1. \A k : ~SaysSo(k)
        BY <2>2 DEF SaysSo
      <4> QED BY <1>3, <3>1, <3>2, <4>1 DEF Told
    <3>4. (n + 1 \in 1 .. Len(T) /\ LiveEvents'[n + 1] = EventAt(T[n + 1], n + 1)) \/ SaysSo(n + 1)'
      <4>1. CASE fatalReason = "None"
        <5>1. TraceInv(T)
          BY <1>3, <4>1
        <5>2. n = Resume - 1 /\ Resume = nextEventSequence
          BY <2>6, <3>1, <5>1, TraceTells DEF Resume
        <5>3. Len(T) = Resume /\ T[Len(T)] = Now
          BY <2>2, <2>6, <5>1 DEF TraceInv, LiveInv
        <5>4. e = EventAt(Now, nextEventSequence)
          BY <2>1, <2>4, <2>6, EnvelopeIs
        <5>5. n + 1 = nextEventSequence /\ n + 1 = Len(T) /\ n + 1 \in 1 .. Len(T)
          BY <1>1, <3>2, <5>2, <5>3
        <5> QED BY <3>2, <5>3, <5>4, <5>5
      <4>2. CASE fatalReason # "None"
        <5>1. phase' = "Idle" /\ pending.type = "MatcherFatal"
          BY <1>1, <1>5, <4>2, FatalSteps
        <5>2. e.event = pending
          BY <2>4 DEF Envelope
        <5> QED BY <3>2, <5>1, <5>2 DEF SaysSo, Fatal
      <4> QED BY <4>1, <4>2
    <3>5. ASSUME NEW k \in 1 .. Len(LiveEvents')
          PROVE  (k \in 1 .. Len(T) /\ LiveEvents'[k] = EventAt(T[k], k)) \/ SaysSo(k)'
      <4>1. k \in 1 .. n \/ k = n + 1
        BY <3>2
      <4> QED BY <3>3, <3>4, <4>1
    <3>6. Told(T, w)'
      BY <1>3, <2>3, <3>5 DEF Told
    <3> QED BY <3>6
  <2> QED BY <2>5, <2>6
<1> QED BY <1>4, <1>5, PublishedHow

\* How a trade came about.
LEMMA TradeInTrace ==
  ASSUME NEW T, NEW w, w \in Seq(Messages), IsTrace(T, w), NEW n \in 1 .. Len(T),
         T[n].event.type = "Trade"
  PROVE  /\ n - 1 \in 1 .. Len(T)
         /\ \E c : /\ c = T[n - 1] /\ Sound(c, w) /\ c.phase = "Match" /\ TradesIn(c)
                   /\ RestsIn(EventsIn(T, n - 1)) = OrdersOf(c.book)
                   /\ T[n].event = Trade(OrderOf(c).id, MakerOf(c).id,
                                         BestPriceIn(c.book, Opponent(c)), ExecutedOf(c))
                   /\ T[n].cause = c.cause
<1>0. Len(T) \in Nat
  BY TraceLength DEF IsTrace
<1>1. ASSUME NEW q, NEW last, NEW cause, NEW m, T[n] = Start(q, last, cause, m),
             m \in Messages
      PROVE  FALSE
  <2>1. PICK c : c = T[n]
    OBVIOUS
  <2>2. CASE m.type = "NewLimit"
    <3>1. c = StartOrder(q, last, cause, m)
      BY <1>1, <2>1, <2>2 DEF Start
    <3>2. c.event.type \in {"MatcherFatal", "Rejected", "Accepted"}
      BY <3>1, ConfigFields DEF StartOrder, OrderEvent
    <3> QED BY <2>1, <3>2
  <2>3. CASE m.type # "NewLimit"
    <3>1. c.event = IF m.type = "None" THEN OrderEvent("Rejected", 0) ELSE Event(m.type)
      BY <1>1, <2>1, <2>3, ConfigFields DEF Start
    <3>2. m.type # "Trade"
      BY <1>1 DEF Messages
    <3>3. c.event.type = IF m.type = "None" THEN "Rejected" ELSE m.type
      BY <3>1 DEF OrderEvent, Event
    <3> QED BY <2>1, <3>2, <3>3
  <2> QED BY <2>2, <2>3
<1>2. T[n].cause \in 1 .. Len(w)
  BY DEF IsTrace
<1>3. n # 1
  <2> SUFFICES ASSUME n = 1 PROVE FALSE
    OBVIOUS
  <2>1. T[n] = Start(NoBook, 0, 1, w[1])
    BY <1>0, TraceLength DEF IsTrace
  <2>2. T[n].cause = 1
    BY <2>1, StartFields
  <2>3. w[1] \in Messages
    BY <1>2, <2>2, ElementOfSeq
  <2> QED BY <1>1, <2>1, <2>3
<1>4. PICK j : j = n - 1
  OBVIOUS
<1>5. j \in 1 .. Len(T) /\ j \in 1 .. Len(T) - 1 /\ j + 1 = n
  BY <1>0, <1>3, <1>4
<1>6. PICK c : c = T[j]
  OBVIOUS
<1>7. T[n] = Successor(c, w)
  BY <1>5, <1>6 DEF IsTrace
<1>8. c.phase # "Finish"
  <2> SUFFICES ASSUME c.phase = "Finish" PROVE FALSE
    OBVIOUS
  <2>1. T[n] = Start(c.book, c.last, c.cause + 1, w[c.cause + 1])
    BY <1>7 DEF Successor
  <2>2. T[n].cause = c.cause + 1
    BY <2>1, StartFields
  <2>3. w[c.cause + 1] \in Messages
    BY <1>2, <2>2, ElementOfSeq
  <2> QED BY <1>1, <2>1, <2>3
<1>9. T[n] = After(c)
  BY <1>7, <1>8 DEF Successor
<1>10. Sound(c, w) /\ RestsIn(EventsIn(T, j)) = RestsOf(c)
  BY <1>5, <1>6, TraceKnows DEF Knows
<1>11. c.phase = "Match"
  <2>1. c.phase \in {"Match", "MakerDone"}
    BY <1>8, <1>10 DEF Sound
  <2>2. c.phase # "MakerDone"
    <3> SUFFICES ASSUME c.phase = "MakerDone" PROVE FALSE
      OBVIOUS
    <3>1. T[n] = Further(c, c.book, "Match", c.remaining, 0, OrderEvent("Done", c.maker))
      BY <1>9 DEF After
    <3>2. T[n].event = OrderEvent("Done", c.maker)
      BY <3>1, ConfigFields DEF Further
    <3> QED BY <3>2 DEF OrderEvent
  <2> QED BY <2>1, <2>2
<1>12. TradesIn(c)
  <2> SUFFICES ASSUME ~TradesIn(c) PROVE FALSE
    OBVIOUS
  <2>1. T[n] = AfterLoop(c)
    BY <1>9, <1>11 DEF After
  <2>2. T[n].event.type \in {"Done", "Rested", "Rejected", "MatcherFatal"}
    BY <2>1, ConfigFields DEF AfterLoop, Further, OrderEvent, Rested
  <2> QED BY <2>2
<1>13. T[n] = AfterTrade(c)
  BY <1>9, <1>11, <1>12 DEF After
<1>14. PICK trade : trade = Trade(OrderOf(c).id, MakerOf(c).id,
                                  BestPriceIn(c.book, Opponent(c)), ExecutedOf(c))
  OBVIOUS
<1>15. T[n].event = trade
  BY <1>13, <1>14, ConfigFields DEF AfterTrade, Further
<1>16. T[n].cause = c.cause
  BY <1>9, AfterFields
<1>17. RestsOf(c) = OrdersOf(c.book)
  BY <1>11 DEF RestsOf
<1> QED BY <1>4, <1>5, <1>6, <1>10, <1>11, <1>12, <1>14, <1>15, <1>16, <1>17

\* What price-time priority says of a trade of order o, when orders r rest.
Prior(o, trade, r) ==
  \E x \in r :
    /\ x.side = Opposite(o.side) /\ x.id = trade.maker /\ x.price = trade.price
    /\ Crosses(o.side, o.price, x.price)
    /\ trade.quantity <= x.remaining
    /\ \A other \in r : other.side = Opposite(o.side) =>
         \/ Book!AtLeastAsGood(x.side, x.price, other.price) /\ x.price # other.price
         \/ x.price = other.price /\ x.id <= other.id

LEMMA TradeIsPrior ==
  ASSUME NEW w, NEW c, Sound(c, w), c.phase = "Match", TradesIn(c),
         NEW trade, trade = Trade(OrderOf(c).id, MakerOf(c).id,
                                  BestPriceIn(c.book, Opponent(c)), ExecutedOf(c))
  PROVE  Prior(OrderOf(c), trade, OrdersOf(c.book))
<1>1. PICK q : q = c.book
  OBVIOUS
<1>2. PICK s : s = Opponent(c)
  OBVIOUS
<1>3. PICK p : p = BestPriceIn(q, s)
  OBVIOUS
<1>4. PICK o : o = MakerOf(c)
  OBVIOUS
<1>5. PICK n : n = ExecutedOf(c)
  OBVIOUS
<1>6. /\ s \in Sides /\ p \in Prices /\ 1 \in 1 .. Len(q[s][p]) /\ o = q[s][p][1]
      /\ o.id \in Nat /\ n <= o.remaining
  BY <1>1, <1>2, <1>3, <1>4, <1>5, TradeFacts
<1>14. \A p2 \in ActiveIn(q, s) : Book!AtLeastAsGood(s, p, p2)
  BY <1>1, <1>2, <1>3, <1>4, <1>5, TradeFacts
<1>15. Crosses(OrderOf(c).side, OrderOf(c).price, p)
  BY <1>1, <1>2, <1>3 DEF TradesIn
<1>7. Neat(q) /\ q \in Books
  BY <1>1 DEF Sound, Neat
<1>8. PICK x : x = Entry(s, p, o)
  OBVIOUS
<1>9. x \in OrdersOf(q)
  BY <1>6, <1>7, <1>8, OrdersOfFacts
<1>10. x.side = s /\ x.id = o.id /\ x.price = p /\ x.remaining = o.remaining
  BY <1>8 DEF Entry
<1>11. trade.maker = o.id /\ trade.price = p /\ trade.quantity = n
  BY <1>1, <1>2, <1>3, <1>4, <1>5 DEF Trade
<1>12. s = Opposite(OrderOf(c).side)
  BY <1>2 DEF Opponent
<1>13. ASSUME NEW other \in OrdersOf(q), other.side = s
       PROVE  \/ Book!AtLeastAsGood(s, p, other.price) /\ p # other.price
              \/ p = other.price /\ o.id <= other.id
  <2>1. PICK f : f = q[s][other.price]
    OBVIOUS
  <2>2. PICK k \in 1 .. Len(f) : other = Entry(s, other.price, f[k])
    BY <1>7, <1>13, <2>1, OrderFacts
  <2>3. other.price \in Prices /\ other.id \in Nat
    BY <1>7, OrderFacts
  <2>4. other.price \in ActiveIn(q, s)
    <3>1. f # <<>>
      BY <2>2
    <3> QED BY <2>1, <2>3, <3>1 DEF ActiveIn
  <2>5. CASE other.price # p
    BY <1>14, <2>4, <2>5
  <2>6. CASE other.price = p
    <3>1. Queued(f) /\ o = f[1] /\ other.id = f[k].id
      BY <1>6, <1>7, <2>1, <2>2, <2>3, <2>6 DEF Neat, Entry
    <3>2. CASE k = 1
      BY <2>3, <2>6, <3>1, <3>2
    <3>3. CASE k # 1
      <4>1. 1 \in 1 .. k - 1
        BY <3>3
      <4>2. f[1].id < f[k].id
        BY <3>1, <4>1 DEF Queued
      <4> QED BY <1>6, <2>3, <2>6, <3>1, <4>2
    <3> QED BY <3>2, <3>3
  <2> QED BY <2>5, <2>6
<1> QED BY <1>1, <1>6, <1>9, <1>10, <1>11, <1>12, <1>13, <1>15, SMTT(20) DEF Prior

\* The first events of the live events.
LEMMA FrontIs ==
  ASSUME NEW T, NEW n \in Nat
  PROVE  /\ Last(EventsIn(T, n + 1)) = T[n + 1].event
         /\ Front(EventsIn(T, n + 1)) = EventsIn(T, n)
<1>1. PICK S : S = {T[k].event : k \in 1 .. n + 1}
  OBVIOUS
<1>2. PICK f : f = EventsIn(T, n)
  OBVIOUS
<1>3. PICK g : g = EventsIn(T, n + 1)
  OBVIOUS
<1>4. /\ f \in Seq(S) /\ Len(f) = n /\ \A k \in 1 .. n : f[k] = T[k].event
      /\ g \in Seq(S) /\ Len(g) = n + 1 /\ \A k \in 1 .. n + 1 : g[k] = T[k].event
  BY <1>1, <1>2, <1>3 DEF EventsIn
<1>5. Last(g) = T[n + 1].event
  <2>1. n + 1 \in 1 .. n + 1
    OBVIOUS
  <2> QED BY <1>4, <2>1 DEF Last
<1>6. PICK h : h = SubSeq(g, 1, n)
  OBVIOUS
<1>7. h \in Seq(S) /\ Len(h) = n /\ \A k \in 1 .. n : h[k] = g[k]
  <2>1. \A k \in 1 .. n : g[k] \in S
    <3>1. \A k \in 1 .. n : k \in 1 .. Len(g)
      BY <1>4
    <3> QED BY <1>4, <3>1, ElementOfSeq
  <2>2. /\ h \in Seq(S) /\ Len(h) = IF 1 <= n THEN (n - 1) + 1 ELSE 0
        /\ \A k \in 1 .. (n - 1) + 1 : h[k] = g[(1 + k) - 1]
    BY <1>4, <1>6, <2>1, SubSeqProperties
  <2> QED BY <2>2
<1>8. \A k \in 1 .. n : h[k] = f[k]
  BY <1>4, <1>7
<1>9. h = f
  BY <1>4, <1>7, <1>8, SeqEqual
<1>10. Front(g) = h
  <2>1. Len(g) - 1 = n
    BY <1>4
  <2> QED BY <1>6, <2>1 DEF Front
<1> QED BY <1>2, <1>3, <1>5, <1>9, <1>10

\* What is told of the matcher, running or stopped.
ToldInv ==
  /\ AllInv /\ FatalInv
  /\ fatalReason = "None" => \E T : TraceInv(T)
  /\ fatalReason # "None" => \E T, w : Told(T, w)

LEMMA ToldAlways ==
  ASSUME ToldInv
  PROVE  \E T, w : Told(T, w)
<1>1. CASE fatalReason = "None"
  <2>1. PICK T : TraceInv(T)
    BY <1>1 DEF ToldInv
  <2>2. Told(T, wal)
    BY <2>1, TraceTells DEF ToldInv
  <2> QED BY <2>2
<1> QED BY <1>1 DEF ToldInv

LEMMA ToldInvariant ==
  ASSUME "LoadSnapshot" \notin Controls
  PROVE  Spec => []ToldInv
<1>1. Init => ToldInv
  <2> SUFFICES ASSUME Init PROVE ToldInv
    OBVIOUS
  <2>1. AllInv
    BY BookInit, EventInit, StreamInit DEF AllInv
  <2>2. TraceInv(<<>>)
    BY TraceInit
  <2>3. FatalInv
    BY DEF Init, FatalInv
  <2> QED BY <2>1, <2>2, <2>3 DEF Init, ToldInv
<1>2. ToldInv /\ [Next]_vars => ToldInv'
  <2> SUFFICES ASSUME ToldInv, [Next]_vars PROVE ToldInv'
    OBVIOUS
  <2>1. /\ AllInv /\ FatalInv /\ (fatalReason = "None" => \E T : TraceInv(T))
        /\ \E T, w : Told(T, w)
    BY ToldAlways DEF ToldInv
  <2>2. AllInv'
    BY <2>1, BookStep, EventStep, StreamStep DEF AllInv
  <2>3. FatalInv'
    BY <2>1, FatalStep
  <2>4. ASSUME fatalReason' = "None" PROVE \E U : TraceInv(U)'
    <3>1. fatalReason = "None"
      BY <2>4, FatalStays
    <3>2. PICK T : TraceInv(T)
      BY <2>1, <3>1
    <3> QED BY <2>1, <2>4, <3>2, TraceStep
  <2>5. ASSUME fatalReason' # "None" PROVE \E T, w : Told(T, w)'
    BY <2>1, <2>5, ToldStep
  <2> QED BY <2>2, <2>3, <2>4, <2>5 DEF ToldInv
<1> QED BY <1>1, <1>2, PTL DEF Spec

\* Every trade is with the oldest order of the best price, at its price, also when
\* the matcher is stopped after it.
THEOREM PriceTimePriorityAlways ==
  ASSUME "LoadSnapshot" \notin Controls
  PROVE  Spec => []PriceTimePriority
<1>1. ToldInv => PriceTimePriority
  <2> SUFFICES ASSUME ToldInv PROVE PriceTimePriority
    OBVIOUS
  <2>1. PICK T, w : Told(T, w)
    BY ToldAlways
  <2>2. StreamInv
    BY DEF ToldInv, AllInv
  <2>3. PICK n : n = Len(LiveEvents)
    OBVIOUS
  <2>4. PICK events : events = EventsOf(LiveEvents)
    OBVIOUS
  <2>5. /\ n \in Nat /\ DOMAIN LiveEvents = 1 .. n
        /\ Len(events) = n /\ \A k \in 1 .. n : events[k] = LiveEvents[k].event
    <3>1. PICK S : LiveEvents \in Seq(S)
      BY <2>2 DEF StreamInv, IsStream
    <3>2. n \in Nat /\ DOMAIN LiveEvents = 1 .. n
      BY <2>3, <3>1, LenProperties
    <3>3. events = [k \in 1 .. n |-> LiveEvents[k].event]
      BY <2>4, <3>2 DEF EventsOf
    <3> QED BY <3>2, <3>3
  <2>6. SUFFICES ASSUME events # <<>>, Last(events).type = "Trade"
                 PROVE  LET trade == Last(events)
                            o == wal[Last(LiveEvents).cause].order
                            there == {r \in RestsIn(Front(events)) : r.side = Opposite(o.side)}
                        IN  \E r \in there :
                              /\ r.id = trade.maker /\ r.price = trade.price
                              /\ Crosses(o.side, o.price, r.price)
                              /\ trade.quantity <= r.remaining
                              /\ \A other \in there :
                                   \/ Book!AtLeastAsGood(r.side, r.price, other.price)
                                        /\ r.price # other.price
                                   \/ r.price = other.price /\ r.id <= other.id
    BY <2>4 DEF PriceTimePriority
  <2>7. n # 0
    <3> SUFFICES ASSUME n = 0 PROVE FALSE
      OBVIOUS
    <3>1. events = [k \in 1 .. n |-> LiveEvents[k].event]
      BY <2>4, <2>5 DEF EventsOf
    <3> QED BY <2>6, <3>1
  <2>8. n \in 1 .. n /\ Last(events) = LiveEvents[n].event /\ Last(LiveEvents) = LiveEvents[n]
    BY <2>3, <2>5, <2>7 DEF Last
  <2>9. \A k \in 1 .. n : k \in 1 .. Len(T) /\ LiveEvents[k] = EventAt(T[k], k)
    <3>1. ~SaysSo(n)
      BY <2>6, <2>8 DEF SaysSo
    <3>2. \A k \in 1 .. n : ~SaysSo(k)
      BY <2>3, <3>1 DEF SaysSo
    <3> QED BY <2>1, <2>3, <3>2 DEF Told
  <2>10. events = EventsIn(T, n)
    BY <2>2, <2>3, <2>4, <2>5, <2>9, EventsAre
  <2>11. LiveEvents[n].event = T[n].event /\ LiveEvents[n].cause = T[n].cause
    <3>1. LiveEvents[n] = EventAt(T[n], n)
      BY <2>8, <2>9
    <3>2. EventAt(T[n], n).event = T[n].event /\ EventAt(T[n], n).cause = T[n].cause
      BY DEF EventAt
    <3> QED BY <3>1, <3>2
  <2>12. PICK c : /\ c = T[n - 1] /\ Sound(c, w) /\ c.phase = "Match" /\ TradesIn(c)
                  /\ RestsIn(EventsIn(T, n - 1)) = OrdersOf(c.book)
                  /\ T[n].event = Trade(OrderOf(c).id, MakerOf(c).id,
                                        BestPriceIn(c.book, Opponent(c)), ExecutedOf(c))
                  /\ T[n].cause = c.cause
    <3>1. T[n].event.type = "Trade" /\ n \in 1 .. Len(T)
      BY <2>6, <2>8, <2>9, <2>11
    <3>2. w \in Seq(Messages) /\ IsTrace(T, w)
      BY <2>1 DEF Told
    <3> QED BY <3>1, <3>2, TradeInTrace
  <2>13. PICK trade : trade = Last(events)
    OBVIOUS
  <2>14. Prior(OrderOf(c), trade, OrdersOf(c.book))
    BY <2>8, <2>11, <2>12, <2>13, TradeIsPrior
  <2>15. RestsIn(Front(events)) = OrdersOf(c.book)
    <3>1. PICK j : j = n - 1
      OBVIOUS
    <3>2. j \in Nat /\ j + 1 = n
      BY <2>5, <2>7, <3>1
    <3>3. Front(EventsIn(T, j + 1)) = EventsIn(T, j)
      BY <3>2, FrontIs
    <3> QED BY <2>10, <2>12, <3>1, <3>2, <3>3
  <2>16. wal[Last(LiveEvents).cause].order = OrderOf(c)
    <3>1. Last(LiveEvents).cause = c.cause
      BY <2>8, <2>11, <2>12
    <3>2. c.cause \in 1 .. Len(w) /\ c.message = w[c.cause]
      BY <2>12 DEF Sound
    <3>3. w[c.cause] = wal[c.cause]
      BY <2>1, <3>2 DEF Told
    <3> QED BY <3>1, <3>2, <3>3 DEF OrderOf
  <2> QED BY <2>13, <2>14, <2>15, <2>16 DEF Prior
<1> QED BY <1>1, ToldInvariant, PTL

-----------------------------------------------------------------------------
(* The types of the variables.                                                *)

\* Only orders that were sent rest.
Known(q) == Neat(q) /\ \A x \in OrdersOf(q) : x.id \in Ids
KnownBooks ==
  /\ Known(book) /\ lastOrderId \in Ids \cup {0}
  /\ \A image \in store : /\ Known(image.book) /\ image.lastOrderId \in Ids \cup {0}
                          /\ image.of \in 1 .. Len(wal)
KnownWal ==
  /\ Len(wal) <= MaxCommands
  /\ \A k \in 1 .. Len(wal) : wal[k].type = "NewLimit" => wal[k].order.id \in Ids
KnownState ==
  /\ nextEventSequence # 0
  /\ deferredStartReplay \in BOOLEAN /\ running \in BOOLEAN
  /\ maker \in Ids \cup {0} /\ cursor \in 0 .. MaxCommands + 1
KnownInv == KnownBooks /\ KnownWal /\ KnownState

\* What a refused restore leaves of a book is known if the book is.
LEMMA RefusedIsKnown ==
  ASSUME NEW q, Known(q), NEW place \in Book!Places(q),
         NEW r, r = RestoredBefore(q, place)
  PROVE  Known(r)
<1>1. /\ q \in Books /\ Distinct(q)
      /\ \A s \in Sides, p \in Prices : Queued(q[s][p])
      /\ \A x \in OrdersOf(q) : x.id \in Ids
  BY DEF Known, Neat
<1>2. /\ r \in Books
      /\ \A s \in Sides, p \in Prices :
           /\ Len(r[s][p]) <= Len(q[s][p])
           /\ \A k \in 1 .. Len(r[s][p]) :
                k \in 1 .. Len(q[s][p]) /\ r[s][p][k] = q[s][p][k]
  BY <1>1, RestoredPrefix
<1>3. Distinct(r)
  <2> SUFFICES ASSUME NEW s \in Sides, NEW p \in Prices, NEW k \in 1 .. Len(r[s][p]),
                      NEW t \in Sides, NEW v \in Prices, NEW j \in 1 .. Len(r[t][v]),
                      r[s][p][k].id = r[t][v][j].id
               PROVE  s = t /\ p = v /\ k = j
    BY Zenon DEF Distinct
  <2>1. /\ k \in 1 .. Len(q[s][p]) /\ r[s][p][k] = q[s][p][k]
        /\ j \in 1 .. Len(q[t][v]) /\ r[t][v][j] = q[t][v][j]
    BY <1>2, Zenon
  <2>2. q[s][p][k].id = q[t][v][j].id
    BY <2>1
  <2>3. Distinct(q)
    BY <1>1
  <2> QED BY <2>1, <2>2, <2>3 DEF Distinct
<1>4. ASSUME NEW s \in Sides, NEW p \in Prices
      PROVE  Queued(r[s][p])
  <2>1. PICK f, g : f = r[s][p] /\ g = q[s][p]
    OBVIOUS
  <2>2. Len(f) \in Nat /\ \A k \in 1 .. Len(f) : k \in 1 .. Len(g) /\ f[k] = g[k]
    BY <1>2, <2>1, QueueFacts
  <2>3. \A k \in 1 .. Len(f) : \A j \in 1 .. k - 1 : j \in 1 .. Len(f)
    BY <2>2
  <2>4. Queued(g)
    BY <1>1, <2>1
  <2>5. Queued(f)
    BY <2>2, <2>3, <2>4, Zenon DEF Queued
  <2> QED BY <2>1, <2>5
<1>5. ASSUME NEW x \in OrdersOf(r) PROVE x \in OrdersOf(q)
  <2>1. PICK s \in Sides, p \in Prices : \E k \in 1 .. Len(r[s][p]) : x = Entry(s, p, r[s][p][k])
    BY <1>2, OrdersOfFacts
  <2>2. PICK k \in 1 .. Len(r[s][p]) : x = Entry(s, p, r[s][p][k])
    BY <2>1
  <2>3. k \in 1 .. Len(q[s][p]) /\ r[s][p][k] = q[s][p][k]
    BY <1>2
  <2> QED BY <1>1, <2>2, <2>3, OrdersOfFacts
<1> QED BY <1>1, <1>2, <1>3, <1>4, <1>5 DEF Known, Neat

LEMMA KnownInit == Init => KnownInv
<1> SUFFICES ASSUME Init PROVE KnownInv
  OBVIOUS
<1>1. Known(NoBook)
  BY EmptyNeat DEF Known
<1>2. Len(<<>>) = 0 /\ \A k : k \notin 1 .. 0
  OBVIOUS
<1>3. KnownBooks
  BY <1>1 DEF Init, KnownBooks
<1>4. KnownWal
  BY <1>2, MatcherAssumption DEF Init, KnownWal
<1>5. KnownState
  <2>1. 0 \in 0 .. MaxCommands + 1
    BY MatcherAssumption
  <2>2. cursor \in 0 .. MaxCommands + 1
    BY <2>1 DEF Init
  <2>3. deferredStartReplay \in BOOLEAN /\ running \in BOOLEAN
    BY Zenon DEF Init
  <2> QED BY <2>2, <2>3 DEF Init, KnownState
<1> QED BY <1>3, <1>4, <1>5 DEF KnownInv

TakesKnown(sequence, replayed, message) ==
  /\ Takes(sequence, replayed, message)
  /\ message.type = "NewLimit" => message.order.id \in Ids
  /\ message.type = "SaveSnapshot" => sequence \in 1 .. Len(wal')

\* Every command taken: an order has an id in use, a snapshot is of a recorded command.
LEMMA CommandKnown ==
  ASSUME TypeInv, KnownInv, TakesCommand
  PROVE  /\ KnownWal' /\ cursor' \in 0 .. MaxCommands + 1 /\ Len(wal) <= Len(wal')
         /\ \E sequence, replayed, message : TakesKnown(sequence, replayed, message)
<1>0. /\ wal \in Seq(Messages) /\ Len(wal) \in Nat /\ Len(wal) <= MaxCommands
      /\ \A k \in 1 .. Len(wal) : wal[k].type = "NewLimit" => wal[k].order.id \in Ids
      /\ cursor \in 0 .. MaxCommands + 1 /\ MaxCommands \in Nat
  BY MatcherAssumption, LenProperties DEF TypeInv, KnownInv, KnownWal, KnownState
<1>1. PICK n : n = Len(wal) + 1
  OBVIOUS
<1>2. n \in Int
  BY <1>0, <1>1
<1>3. CASE \E message \in LiveMessages : Live(message)
  <2>1. PICK message \in LiveMessages : Live(message)
    BY <1>3
  <2>2. message \in Messages
    BY LiveMessageType
  <2>3. /\ Begin(n, FALSE, message) /\ Dispatch(n, message) /\ replayMode = "Live"
        /\ wal' = Append(wal, message) /\ cursor' = 0 /\ Len(wal) < MaxCommands
    BY <1>1, <2>1, Zenon DEF Live
  <2>4. /\ Len(wal') = n /\ wal'[n] = message
        /\ \A k \in 1 .. Len(wal) : wal'[k] = wal[k]
    BY <1>0, <1>1, <2>2, <2>3, AppendProperties
  <2>5. message.type = "NewLimit" => message.order.id \in Ids
    <3>1. CASE message \in {[type |-> "NewLimit", order |-> o] : o \in Orders}
      BY <3>1 DEF Orders
    <3>2. CASE message \notin {[type |-> "NewLimit", order |-> o] : o \in Orders}
      <4>1. message.type \in Controls \/ message.type = "LoadSnapshot"
        BY <2>1, <3>2 DEF LiveMessages, Message, LoadMessage
      <4> QED BY <4>1, MatcherAssumption
    <3> QED BY <3>1, <3>2
  <2>6. KnownWal'
    <3>1. Len(wal') <= MaxCommands
      BY <1>0, <1>1, <2>3, <2>4
    <3>2. \A k \in 1 .. Len(wal') : wal'[k].type = "NewLimit" => wal'[k].order.id \in Ids
      <4>1. \A k \in 1 .. Len(wal') : k \in 1 .. Len(wal) \/ k = n
        BY <1>0, <1>1, <2>4
      <4> QED BY <1>0, <2>4, <2>5, <4>1
    <3> QED BY <3>1, <3>2 DEF KnownWal
  <2>7. Takes(n, FALSE, message)
    BY <1>1, <1>2, <2>2, <2>3, Zenon DEF Takes
  <2>8. n \in 1 .. Len(wal')
    BY <1>0, <1>1, <2>4
  <2>9. TakesKnown(n, FALSE, message)
    BY <2>5, <2>7, <2>8 DEF TakesKnown
  <2>10. cursor' \in 0 .. MaxCommands + 1 /\ Len(wal) <= Len(wal')
    BY <1>0, <1>1, <2>3, <2>4
  <2> QED BY <2>6, <2>9, <2>10
<1>4. CASE \E image \in store : ReplayLoad(image.of)
  <2>1. PICK image \in store : ReplayLoad(image.of)
    BY <1>4
  <2>2. PICK message : message = LoadMessage(image.of)
    OBVIOUS
  <2>3. message \in Messages /\ message.type = "LoadSnapshot"
    BY <2>2 DEF LoadMessage, Messages, TypeInv
  <2>4. /\ Begin(n, FALSE, message) /\ Dispatch(n, message) /\ replayMode = "Replay"
        /\ wal' = wal /\ cursor' = image.of + 1
    BY <1>1, <2>1, <2>2, Zenon DEF ReplayLoad, Control
  <2>5. image.of \in 1 .. Len(wal)
    BY DEF KnownInv, KnownBooks
  <2>6. Takes(n, FALSE, message)
    <3>1. replayMode # "Live"
      BY <2>4
    <3> QED BY <1>2, <2>3, <2>4, <3>1, Zenon DEF Takes
  <2>7. KnownWal' /\ cursor' \in 0 .. MaxCommands + 1
    BY <1>0, <2>4, <2>5 DEF KnownWal
  <2>8. TakesKnown(n, FALSE, message)
    BY <2>3, <2>6 DEF TakesKnown
  <2>9. Len(wal) <= Len(wal')
    BY <1>0, <2>4
  <2> QED BY <2>7, <2>8, <2>9
<1>5. CASE ReplayNext
  <2>1. PICK message : message = wal[cursor]
    OBVIOUS
  <2>2. /\ Begin(cursor, TRUE, message) /\ Dispatch(cursor, message)
        /\ replayMode = "Replay" /\ wal' = wal /\ cursor' = cursor + 1
        /\ cursor \in 1 .. Len(wal) - 1
    BY <1>5, <2>1, Zenon DEF ReplayNext
  <2>3. cursor \in 1 .. Len(wal) /\ cursor \in Int
    BY <1>0, <2>2
  <2>4. message \in Messages /\ (message.type = "NewLimit" => message.order.id \in Ids)
    BY <1>0, <2>1, <2>3, ElementOfSeq
  <2>5. Takes(cursor, TRUE, message)
    <3>1. replayMode # "Live"
      BY <2>2
    <3> QED BY <2>2, <2>3, <2>4, <3>1, Zenon DEF Takes
  <2>6. KnownWal' /\ cursor' \in 0 .. MaxCommands + 1
    BY <1>0, <2>2 DEF KnownWal
  <2>7. TakesKnown(cursor, TRUE, message)
    BY <2>2, <2>3, <2>4, <2>5 DEF TakesKnown
  <2>8. Len(wal) <= Len(wal')
    BY <1>0, <2>2
  <2> QED BY <2>6, <2>7, <2>8
<1>6. CASE ReplayStop \/ Restore
  <2>1. PICK message : /\ message \in {Message("StopReplay"), LoadMessage(Len(wal) - 1)}
                       /\ Begin(n, FALSE, message) /\ Dispatch(n, message)
                       /\ wal' = wal /\ cursor' = cursor /\ replayMode # "Live"
    <3>1. CASE ReplayStop
      BY <1>1, <3>1 DEF ReplayStop, Control
    <3>2. CASE Restore
      BY <1>1, <3>2 DEF Restore, Control
    <3> QED BY <1>6, <3>1, <3>2
  <2>2. message \in Messages /\ message.type \in {"StopReplay", "LoadSnapshot"}
    BY <1>0, <2>1 DEF Message, LoadMessage, Messages
  <2>3. Takes(n, FALSE, message)
    BY <1>2, <2>1, <2>2, Zenon DEF Takes
  <2>4. KnownWal' /\ cursor' \in 0 .. MaxCommands + 1
    BY <1>0, <2>1 DEF KnownWal
  <2>5. TakesKnown(n, FALSE, message)
    BY <2>2, <2>3 DEF TakesKnown
  <2>6. Len(wal) <= Len(wal')
    BY <1>0, <2>1
  <2> QED BY <2>4, <2>5, <2>6
<1> QED BY <1>3, <1>4, <1>5, <1>6 DEF TakesCommand

LEMMA CommandKeepsKnown ==
  ASSUME BookInv, KnownInv, TakesCommand
  PROVE  KnownInv'
<1>0. /\ KnownBooks /\ KnownWal /\ KnownState /\ TypeInv
      /\ Len(wal) \in Nat
  BY LenProperties DEF KnownInv, BookInv, TypeInv
<1>1. KnownWal' /\ cursor' \in 0 .. MaxCommands + 1 /\ Len(wal) <= Len(wal')
  BY <1>0, CommandKnown
<1>2. PICK sequence, replayed, message : TakesKnown(sequence, replayed, message)
  BY <1>0, CommandKnown
<1>3. /\ Takes(sequence, replayed, message) /\ Dispatch(sequence, message)
      /\ message.type = "NewLimit" => message.order.id \in Ids
      /\ message.type = "SaveSnapshot" => sequence \in 1 .. Len(wal')
  BY <1>2 DEF TakesKnown, Takes
<1>4. Len(wal') \in Nat
  <2>1. wal' \in Seq(Messages)
    BY <1>0, <1>3, AppendProperties DEF Takes, TypeInv
  <2> QED BY <2>1, LenProperties
<1>5. \A image \in store : /\ Known(image.book) /\ image.lastOrderId \in Ids \cup {0}
                           /\ image.of \in 1 .. Len(wal')
  <2> SUFFICES ASSUME NEW image \in store
               PROVE  /\ Known(image.book) /\ image.lastOrderId \in Ids \cup {0}
                      /\ image.of \in 1 .. Len(wal')
    OBVIOUS
  <2>1. /\ Known(image.book) /\ image.lastOrderId \in Ids \cup {0}
        /\ image.of \in 1 .. Len(wal)
    BY <1>0 DEF KnownBooks
  <2> QED BY <1>0, <1>1, <1>4, <2>1
<1>6. Known(book) /\ lastOrderId \in Ids \cup {0} /\ Known(NoBook)
  BY <1>0, EmptyNeat DEF KnownBooks, Known
<1>7. CASE message.type = "NewLimit" /\ NewLimit(message.order)
  <2>1. PICK o : o = message.order
    OBVIOUS
  <2>2. /\ book' = book /\ store' = store /\ maker' = maker
        /\ lastOrderId' = lastOrderId \/ lastOrderId' = o.id
        /\ running' = running \/ running' = FALSE
        /\ deferredStartReplay' = deferredStartReplay
        /\ nextEventSequence' = nextEventSequence
    BY <1>7, <2>1 DEF NewLimit, replayVars, AddFirst, Consume, Healthy, Terminal
  <2>3. KnownBooks'
    BY <1>3, <1>5, <1>6, <1>7, <2>1, <2>2 DEF KnownBooks
  <2>4. KnownState'
    BY <1>0, <1>1, <2>2, Zenon DEF KnownState
  <2> QED BY <1>1, <2>3, <2>4 DEF KnownInv
<1>8. CASE message.type = "SaveSnapshot" /\ SaveSnapshot(sequence)
  <2>1. PICK new : new = [of |-> sequence, lastOrderId |-> lastOrderId,
                          nextEventSequence |-> CaptureSequence, book |-> book]
    OBVIOUS
  <2>2. /\ book' = book /\ maker' = maker /\ lastOrderId' = lastOrderId
        /\ running' = running \/ running' = FALSE
        /\ deferredStartReplay' = deferredStartReplay
        /\ nextEventSequence' = nextEventSequence
        /\ \A image \in store' : image \in store \/ image = new
    BY <1>8, <2>1 DEF SaveSnapshot, replayVars, AddFirst, Healthy, Terminal
  <2>3. /\ Known(new.book) /\ new.lastOrderId \in Ids \cup {0}
        /\ new.of \in 1 .. Len(wal')
    BY <1>3, <1>6, <1>8, <2>1
  <2>4. KnownBooks'
    BY <1>5, <1>6, <2>2, <2>3 DEF KnownBooks
  <2>5. KnownState'
    BY <1>0, <1>1, <2>2, Zenon DEF KnownState
  <2> QED BY <1>1, <2>4, <2>5 DEF KnownInv
<1>9. CASE message.type = "LoadSnapshot" /\ LoadSnapshot(message.of)
  <2>1. /\ store' = store /\ maker' = maker
        /\ running' = running \/ running' = FALSE
        /\ deferredStartReplay' = deferredStartReplay
        /\ nextEventSequence' = nextEventSequence
    BY <1>9 DEF LoadSnapshot, AddFirst, Healthy, Terminal
  <2>2. \/ \E image \in store : LoadState(image)
        \/ /\ book' \in {book, NoBook} \cup RefusedRestores(message.of)
           /\ lastOrderId' = lastOrderId
    BY <1>9 DEF LoadSnapshot
  <2>3. Known(book') /\ lastOrderId' \in Ids \cup {0}
    <3>1. CASE book' \in RefusedRestores(message.of) /\ lastOrderId' = lastOrderId
      <4>1. PICK image \in store : \E place \in Book!Places(image.book) :
              book' = RestoredBefore(image.book, place)
        BY <3>1, RefusedRestore
      <4>2. Known(image.book)
        BY <1>5
      <4> QED BY <1>6, <3>1, <4>1, <4>2, RefusedIsKnown
    <3> QED BY <1>5, <1>6, <2>2, <3>1 DEF LoadState
  <2>4. KnownBooks'
    BY <1>5, <2>1, <2>3 DEF KnownBooks
  <2>5. KnownState'
    BY <1>0, <1>1, <2>1, Zenon DEF KnownState
  <2> QED BY <1>1, <2>4, <2>5 DEF KnownInv
<1>10. CASE message.type \in Signals /\ Signal(message.type)
  <2>1. /\ book' = book /\ store' = store /\ maker' = maker /\ lastOrderId' = lastOrderId
        /\ running' = (message.type # "Shutdown")
        /\ deferredStartReplay' = (message.type = "StartReplay" /\ replayMode = "Live")
        /\ nextEventSequence' = nextEventSequence
    BY <1>10 DEF Signal, AddFirst
  <2>2. running' \in BOOLEAN /\ deferredStartReplay' \in BOOLEAN
    BY <2>1, Zenon
  <2>3. KnownBooks'
    BY <1>5, <1>6, <2>1 DEF KnownBooks
  <2>4. KnownState'
    BY <1>0, <1>1, <2>1, <2>2, Zenon DEF KnownState
  <2> QED BY <1>1, <2>3, <2>4 DEF KnownInv
<1> QED BY <1>3, <1>7, <1>8, <1>9, <1>10 DEF Dispatch

\* What is left of the order goes into the book.
LEMMA RestKeepsKnown ==
  ASSUME BookInv, KnownInv, phase = "Match", remaining # 0, CanRest,
         Book!Rest(book, Order.id, Order.side, Order.price, remaining)
  PROVE  Known(book')
<1>1. PICK q : q = book
  OBVIOUS
<1>2. PICK o : o = Order
  OBVIOUS
<1>3. /\ o \in NewOrders /\ o.id = lastOrderId /\ GoodBook(q, lastOrderId - 1)
      /\ lastOrderId \in Nat /\ remaining \in Nat \ {0}
  BY <1>1, <1>2, OrderType DEF BookInv, TypeInv, Matching, Order
<1>4. Known(q) /\ Neat(q) /\ q \in Books /\ lastOrderId \in Ids \cup {0}
  BY <1>1 DEF KnownInv, KnownBooks, Known, Neat
<1>5. o.id \in Ids /\ o.id \in Nat /\ o.side \in Sides /\ o.price \in Prices
  BY <1>2, <1>3, <1>4 DEF NewOrders, CanRest
<1>6. \A s \in Sides, p \in Prices : \A k \in 1 .. Len(q[s][p]) : q[s][p][k].id < o.id
  <2> SUFFICES ASSUME NEW s \in Sides, NEW p \in Prices, NEW k \in 1 .. Len(q[s][p])
               PROVE  q[s][p][k].id < o.id
    OBVIOUS
  <2>1. q[s][p][k].id \in Nat /\ q[s][p][k].id <= lastOrderId - 1
    BY <1>3, <1>4, QueueFacts DEF GoodBook, UpTo
  <2> QED BY <1>3, <2>1
<1>7. PICK z : z = [id |-> o.id, side |-> o.side, price |-> o.price, remaining |-> remaining]
  OBVIOUS
<1>8. book' = Book!Rested(q, o.id, o.side, o.price, remaining)
  BY <1>1, <1>2 DEF Book!Rest
<1>9. Neat(book') /\ OrdersOf(book') = OrdersOf(q) \cup {z}
  <2>1. PICK n : n = remaining
    OBVIOUS
  <2>2. PICK r : r = Book!Rested(q, o.id, o.side, o.price, n)
    OBVIOUS
  <2>3. n \in Nat \ {0} /\ z = [id |-> o.id, side |-> o.side, price |-> o.price, remaining |-> n]
    BY <1>3, <1>7, <2>1
  <2>4. Neat(r) /\ OrdersOf(r) = OrdersOf(q) \cup {z}
    BY <1>4, <1>5, <1>6, <2>2, <2>3, RestedNeat
  <2> QED BY <1>8, <2>1, <2>2, <2>4
<1>10. \A x \in OrdersOf(book') : x.id \in Ids
  <2>1. z.id = o.id
    BY <1>7
  <2> QED BY <1>4, <1>5, <1>9, <2>1 DEF Known
<1> QED BY <1>9, <1>10 DEF Known

LEMMA TradeKeepsKnown ==
  ASSUME BookInv, KnownInv, MatchOne
  PROVE  Known(book') /\ maker' \in Ids \cup {0}
<1>1. PICK q : q = book
  OBVIOUS
<1>2. PICK s : s = Opposite(Order.side)
  OBVIOUS
<1>3. PICK p : p = BestPriceIn(q, s)
  OBVIOUS
<1>4. PICK o : o = Resting
  OBVIOUS
<1>5. PICK n : n = Executed
  OBVIOUS
<1>6. Known(q) /\ Neat(q) /\ q \in Books /\ maker \in Ids \cup {0} /\ remaining \in Nat
  BY <1>1 DEF KnownInv, KnownBooks, KnownState, Known, Neat, BookInv, TypeInv
<1>7. s \in Sides /\ ActiveIn(q, s) # {} /\ o = BestIn(q, s)
  BY <1>1, <1>2, <1>4, SameBest DEF MatchOne, CanTrade, Resting, Opposite, Sides
<1>8. p \in Prices /\ 1 \in 1 .. Len(q[s][p]) /\ o = q[s][p][1] /\ o.remaining \in Nat \ {0}
  BY <1>3, <1>6, <1>7, BestInFacts
<1>9. o.id \in Ids
  <2>1. Entry(s, p, o) \in OrdersOf(q)
    BY <1>6, <1>7, <1>8, OrdersOfFacts
  <2>2. Entry(s, p, o).id = o.id
    BY DEF Entry
  <2> QED BY <1>6, <2>1, <2>2 DEF Known
<1>10. n = IF remaining < o.remaining THEN remaining ELSE o.remaining
  BY <1>4, <1>5 DEF Executed
<1>11. CASE n = o.remaining
  <2>1. book' = Book!Cancelled(q, o.id) /\ maker' = o.id
    BY <1>1, <1>4, <1>5, <1>11 DEF MatchOne, Book!Cancel
  <2>2. PICK k \in 1 .. Len(q[s][p]) : o = q[s][p][k]
    BY <1>8
  <2>3. PICK id : id = q[s][p][k].id
    OBVIOUS
  <2>4. PICK r : r = Book!Cancelled(q, id)
    OBVIOUS
  <2>5. Neat(r) /\ OrdersOf(r) = {x \in OrdersOf(q) : x.id # id}
    BY <1>6, <1>7, <1>8, <2>3, <2>4, CancelledNeat
  <2>6. book' = r
    BY <2>1, <2>2, <2>3, <2>4
  <2> QED BY <1>6, <1>9, <2>1, <2>5, <2>6 DEF Known
<1>12. CASE n # o.remaining
  <2>1. PICK left : left = o.remaining - n
    OBVIOUS
  <2>2. left \in Nat \ {0}
    BY <1>6, <1>8, <1>10, <1>12, <2>1
  <2>3. book' = Book!Changed(q, o.id, left) /\ maker' = maker
    BY <1>1, <1>4, <1>5, <1>12, <2>1 DEF MatchOne, UpdateMaker, Book!Change
  <2>4. PICK k \in 1 .. Len(q[s][p]) : o = q[s][p][k]
    BY <1>8
  <2>5. PICK id : id = q[s][p][k].id
    OBVIOUS
  <2>6. PICK r : r = Book!Changed(q, id, left)
    OBVIOUS
  <2>7. IsReduced(r, q, id, left)
    BY <1>6, <1>7, <1>8, <2>2, <2>5, <2>6, ChangedNeat
  <2>8. ASSUME NEW y \in OrdersOf(r) PROVE y.id \in Ids
    <3>1. PICK x \in OrdersOf(q) : y = Reduced(x, id, left)
      BY <2>7 DEF IsReduced
    <3>2. PICK j \in 1 .. Len(q[x.side][x.price]) : x = Entry(x.side, x.price, q[x.side][x.price][j])
      BY <1>6, OrderFacts
    <3>3. y.id = x.id
      BY <3>1, <3>2 DEF Reduced, Entry
    <3> QED BY <1>6, <3>3 DEF Known
  <2>9. book' = r
    BY <2>3, <2>4, <2>5, <2>6
  <2> QED BY <1>6, <2>3, <2>7, <2>8, <2>9 DEF Known, IsReduced
<1> QED BY <1>11, <1>12

LEMMA KnownStep == BookInv /\ KnownInv /\ [Next]_vars => KnownInv'
<1> SUFFICES ASSUME BookInv, KnownInv, [Next]_vars PROVE KnownInv'
  OBVIOUS
<1>0. KnownBooks /\ KnownWal /\ KnownState
  BY DEF KnownInv
<1>1. CASE TakesCommand
  BY <1>1, CommandKeepsKnown
<1>2. CASE MatchOne \/ MakerDone \/ MatchEnds \/ AddFails
  <2>1. /\ lastOrderId' = lastOrderId /\ wal' = wal /\ store' = store /\ cursor' = cursor
        /\ deferredStartReplay' = deferredStartReplay
        /\ running' = running \/ running' = FALSE
        /\ nextEventSequence' = nextEventSequence \/ nextEventSequence' = nextEventSequence + 1
    BY <1>2 DEF MatchOne, MakerDone, MatchEnds, AddFails, WriterFails, Add, Publish, Healthy,
                Terminal, environment, replayVars
  <2>2. Known(book') /\ maker' \in Ids \cup {0}
    <3>1. CASE MatchOne
      BY <3>1, TradeKeepsKnown
    <3>2. CASE MakerDone
      <4>1. book' = book /\ maker' = 0
        BY <3>2 DEF MakerDone
      <4> QED BY <1>0, <4>1 DEF KnownBooks
    <3>3. CASE MatchEnds \/ AddFails
      <4>1. maker' = maker
        BY <3>3 DEF MatchEnds, AddFails, WriterFails
      <4>2. \/ book' = book
            \/ /\ phase = "Match" /\ remaining # 0 /\ CanRest
               /\ Book!Rest(book, Order.id, Order.side, Order.price, remaining)
        BY <3>3 DEF MatchEnds, AddFails
      <4>3. Known(book')
        BY <1>0, <4>2, RestKeepsKnown DEF KnownBooks
      <4> QED BY <1>0, <4>1, <4>3 DEF KnownState
    <3> QED BY <1>2, <3>1, <3>2, <3>3
  <2>3. nextEventSequence' # 0
    <3>1. nextEventSequence \in Nat
      BY DEF BookInv, TypeInv
    <3> QED BY <1>0, <2>1, <3>1 DEF KnownState
  <2>4. KnownBooks' /\ KnownWal'
    BY <1>0, <2>1, <2>2 DEF KnownBooks, KnownWal
  <2>5. KnownState'
    BY <1>0, <2>1, <2>2, <2>3, Zenon DEF KnownState
  <2> QED BY <2>4, <2>5 DEF KnownInv
<1>3. CASE Finish
  <2>1. /\ book' = book /\ lastOrderId' = lastOrderId /\ wal' = wal /\ store' = store
        /\ cursor' = cursor /\ maker' = maker
        /\ deferredStartReplay' = FALSE /\ running' = running
        /\ nextEventSequence' = IF deferredEventSequence # 0 THEN deferredEventSequence
                                ELSE nextEventSequence + 1
    BY <1>3 DEF Finish, ApplyDeferred, Healthy, environment
  <2>2. nextEventSequence' # 0
    <3>1. nextEventSequence \in Nat
      BY DEF BookInv, TypeInv
    <3> QED BY <2>1, <3>1
  <2>3. KnownBooks' /\ KnownWal'
    BY <1>0, <2>1 DEF KnownBooks, KnownWal
  <2>4. KnownState'
    BY <1>0, <2>1, <2>2, Zenon DEF KnownState
  <2> QED BY <2>3, <2>4 DEF KnownInv
<1>4. CASE FinishFails \/ ReaderFails \/ UNCHANGED vars
  <2>1. /\ book' = book /\ lastOrderId' = lastOrderId /\ wal' = wal /\ store' = store
        /\ cursor' = cursor /\ maker' = maker
        /\ deferredStartReplay' = deferredStartReplay
        /\ running' = running \/ running' = FALSE
        /\ nextEventSequence' = nextEventSequence
    BY <1>4 DEF FinishFails, WriterFails, ReaderFails, Terminal, vars, environment, replayVars,
                frame
  <2>2. KnownBooks' /\ KnownWal'
    BY <1>0, <2>1 DEF KnownBooks, KnownWal
  <2>3. KnownState'
    BY <1>0, <2>1, Zenon DEF KnownState
  <2> QED BY <2>2, <2>3 DEF KnownInv
<1> QED BY <1>1, <1>2, <1>3, <1>4 DEF Next, TakesCommand

\* The types of the variables: only orders that were sent rest, each with something
\* left, whatever the matcher was stopped in and whatever snapshot it has loaded.
THEOREM TypeOKAlways == Spec => []TypeOK
<1>1. Init => BookInv /\ EventInv /\ KnownInv
  BY BookInit, EventInit, KnownInit
<1>2. BookInv /\ EventInv /\ KnownInv /\ [Next]_vars => (BookInv /\ EventInv /\ KnownInv)'
  BY BookStep, EventStep, KnownStep
<1>3. BookInv /\ EventInv /\ KnownInv => TypeOK
  <2> SUFFICES ASSUME BookInv, EventInv, KnownInv PROVE TypeOK
    OBVIOUS
  <2>1. TypeInv /\ KnownBooks /\ KnownState /\ nextIndex \in Nat /\ Known(book)
    BY DEF BookInv, EventInv, KnownInv, KnownBooks
  <2>2. ASSUME NEW x \in RestsInBook PROVE x.id \in Ids /\ x.remaining \in Nat \ {0}
    <3>1. x \in OrdersOf(book) /\ Neat(book) /\ book \in Books
      BY <2>1, OrdersOfBook DEF Known, Neat
    <3>2. PICK f : f = book[x.side][x.price]
      OBVIOUS
    <3>3. PICK k \in 1 .. Len(f) : x = Entry(x.side, x.price, f[k])
      BY <3>1, <3>2, OrderFacts
    <3>4. x.side \in Sides /\ x.price \in Prices
      BY <3>1, OrderFacts
    <3>5. f[k] \in RestingOrder /\ f[k].remaining # 0
      <4>1. f \in Seq(RestingOrder) /\ Queued(f)
        BY <3>1, <3>2, <3>4, QueueFacts DEF Neat
      <4> QED BY <4>1, ElementOfSeq DEF Queued
    <3>6. x.remaining = f[k].remaining
      BY <3>3 DEF Entry
    <3> QED BY <2>1, <3>1, <3>5, <3>6 DEF Known, RestingOrder
  <2>3. /\ deferredStartReplay \in BOOLEAN /\ running \in BOOLEAN /\ nextEventSequence # 0
        /\ maker \in Ids \cup {0} /\ cursor \in 0 .. MaxCommands + 1
    BY <2>1, Zenon DEF KnownState
  <2>4. nextEventSequence \in Nat \ {0}
    BY <2>1, <2>3 DEF TypeInv
  <2>5. lastOrderId \in Ids \cup {0}
    BY <2>1 DEF KnownBooks
  <2> QED BY <2>1, <2>2, <2>3, <2>4, <2>5, Zenon DEF TypeOK, TypeInv
<1> QED BY <1>1, <1>2, <1>3, PTL DEF Spec

-----------------------------------------------------------------------------
(* What an order has taken, event by event.                                  *)

Counted(id, n, e) == IF e.type = "Trade" /\ e.id = id THEN n + e.quantity ELSE n

\* f[k] is what order id has taken in the first k events.
Counts(id, events, f, n) ==
  f[0] = 0 /\ \A k \in 1 .. n : f[k] = Counted(id, f[k - 1], events[k])

LEMMA TakenExists ==
  ASSUME NEW id, NEW events, NEW n \in Nat
  PROVE  \E f : Counts(id, events, f, n)
<1> DEFINE Has(m) == \E f : Counts(id, events, f, m)
           T == {m \in Nat : ~Has(m)}
<1> SUFFICES ASSUME n \in T PROVE FALSE
  OBVIOUS
<1>1. PICK m \in T : \A k \in T : m <= k
  <2> T \subseteq Nat /\ T # {}
    OBVIOUS
  <2> HIDE DEF T
  <2> QED BY Least
<1>2. m # 0
  <2>1. PICK f : f = [k \in {0} |-> 0]
    OBVIOUS
  <2>2. \A k : k \notin 1 .. 0
    OBVIOUS
  <2>3. Counts(id, events, f, 0)
    BY <2>1, <2>2 DEF Counts
  <2> QED BY <2>3
<1>3. m - 1 \in Nat /\ m - 1 \notin T
  <2>1. m \in Nat /\ m - 1 \in Nat /\ ~(m <= m - 1)
    BY <1>2
  <2> QED BY <1>1, <2>1
<1>4. PICK f : Counts(id, events, f, m - 1)
  BY <1>3
<1>5. PICK last : last = Counted(id, f[m - 1], events[m])
  OBVIOUS
<1>6. PICK g : g = [k \in 0 .. m |-> IF k = m THEN last ELSE f[k]]
  OBVIOUS
<1>7. g[m] = last /\ \A k \in 0 .. m - 1 : g[k] = f[k]
  BY <1>3, <1>6
<1>8. Counts(id, events, g, m)
  <2>1. g[0] = 0
    BY <1>3, <1>4, <1>7 DEF Counts
  <2>2. ASSUME NEW k \in 1 .. m PROVE g[k] = Counted(id, g[k - 1], events[k])
    <3>1. k - 1 \in 0 .. m - 1 /\ g[k - 1] = f[k - 1]
      BY <1>3, <1>7
    <3>2. CASE k = m
      BY <1>5, <1>7, <3>1, <3>2
    <3>3. CASE k # m
      <4>1. k \in 1 .. m - 1 /\ k \in 0 .. m - 1
        BY <1>3, <3>3
      <4> QED BY <1>4, <1>7, <3>1, <4>1 DEF Counts
    <3> QED BY <3>2, <3>3
  <2> QED BY <2>1, <2>2 DEF Counts
<1> QED BY <1>8

LEMMA TakenUnique ==
  ASSUME NEW id, NEW events, NEW n \in Nat, NEW f, NEW g,
         Counts(id, events, f, n), Counts(id, events, g, n)
  PROVE  f[n] = g[n]
<1> DEFINE T == {k \in 0 .. n : f[k] # g[k]}
<1> SUFFICES ASSUME n \in T PROVE FALSE
  OBVIOUS
<1>1. PICK m \in T : \A k \in T : m <= k
  <2>1. T \subseteq Nat
    OBVIOUS
  <2>2. T # {}
    OBVIOUS
  <2> HIDE DEF T
  <2> QED BY <2>1, <2>2, Least
<1>2. m \in 1 .. n
  BY DEF Counts
<1>3. m - 1 \in 0 .. n /\ m - 1 \notin T
  <2>1. m - 1 \in 0 .. n /\ ~(m <= m - 1)
    BY <1>2
  <2> QED BY <1>1, <2>1
<1>4. f[m - 1] = g[m - 1]
  BY <1>3
<1>5. f[m] = g[m]
  BY <1>2, <1>4 DEF Counts
<1> QED BY <1>5

LEMMA TakenIs ==
  ASSUME NEW id, NEW events, IsStream(events), NEW f, Counts(id, events, f, Len(events))
  PROVE  TakenBy(id, events) = f[Len(events)]
<1> DEFINE n == Len(events)
           Rec(g) == g = [k \in 0 .. n |->
                            IF k = 0 THEN 0 ELSE Counted(id, g[k - 1], events[k])]
           chosen == CHOOSE g : Rec(g)
<1>1. n \in Nat
  BY LenProperties DEF IsStream
<1>2. PICK g : g = [k \in 0 .. n |-> f[k]]
  OBVIOUS
<1>3. Rec(g)
  <2> SUFFICES ASSUME NEW k \in 0 .. n
               PROVE  f[k] = IF k = 0 THEN 0 ELSE Counted(id, g[k - 1], events[k])
    BY <1>2
  <2>1. CASE k = 0
    BY <2>1 DEF Counts
  <2>2. CASE k # 0
    <3>1. k \in 1 .. n /\ k - 1 \in 0 .. n
      BY <1>1, <2>2
    <3>2. g[k - 1] = f[k - 1]
      BY <1>2, <3>1
    <3>3. f[k] = Counted(id, f[k - 1], events[k])
      BY <3>1 DEF Counts
    <3> QED BY <2>2, <3>2, <3>3
  <2> QED BY <2>1, <2>2
<1>4. Rec(chosen)
  BY <1>3
<1>5. Counts(id, events, chosen, n)
  <2> HIDE DEF chosen
  <2>1. \A k \in 0 .. n : chosen[k] = IF k = 0 THEN 0 ELSE Counted(id, chosen[k - 1], events[k])
    BY <1>4
  <2>2. 0 \in 0 .. n /\ \A k \in 1 .. n : k \in 0 .. n /\ k # 0
    BY <1>1
  <2> QED BY <2>1, <2>2 DEF Counts
<1>6. TakenBy(id, events) = chosen[n]
  BY DEF TakenBy, Counted
<1> HIDE DEF chosen
<1>7. chosen[n] = f[n]
  BY <1>1, <1>5, TakenUnique
<1> QED BY <1>6, <1>7

\* One event more.
LEMMA TakenAppend ==
  ASSUME NEW id, NEW events, IsStream(events), NEW e, NEW more, more = Append(events, e)
  PROVE  TakenBy(id, more) = Counted(id, TakenBy(id, events), e)
<1> DEFINE n == Len(events)
<1>1. /\ n \in Nat /\ Len(more) = n + 1
      /\ \A k \in 1 .. n : more[k] = events[k]
      /\ more[n + 1] = e
  BY AppendFacts
<1>0. IsStream(more)
  BY AppendFacts
<1> HIDE DEF n
<1>2. PICK f : Counts(id, more, f, n + 1)
  <2>1. n + 1 \in Nat
    BY <1>1
  <2> QED BY <2>1, TakenExists
<1>3. Counts(id, events, f, n)
  <2>1. \A k \in 1 .. n : k \in 1 .. n + 1
    BY <1>1
  <2> QED BY <1>1, <1>2, <2>1 DEF Counts
<1>4. f[n + 1] = Counted(id, f[n], e)
  <2>1. n + 1 \in 1 .. n + 1 /\ (n + 1) - 1 = n
    BY <1>1
  <2> QED BY <1>1, <1>2, <2>1 DEF Counts
<1>5. TakenBy(id, more) = f[n + 1]
  BY <1>0, <1>1, <1>2, TakenIs
<1>6. TakenBy(id, events) = f[n]
  BY <1>3, TakenIs DEF n
<1> QED BY <1>4, <1>5, <1>6

LEMMA TakenEmpty == ASSUME NEW id PROVE TakenBy(id, <<>>) = 0
<1>1. IsStream(<<>>) /\ Len(<<>>) = 0 /\ \A k : k \notin 1 .. 0
  <2>1. <<>> \in Seq({})
    OBVIOUS
  <2> QED BY <2>1 DEF IsStream
<1>2. PICK f : Counts(id, <<>>, f, 0)
  BY TakenExists
<1>3. f[0] = 0
  BY <1>2 DEF Counts
<1>4. TakenBy(id, <<>>) = f[Len(<<>>)]
  BY <1>1, <1>2, TakenIs
<1> QED BY <1>1, <1>3, <1>4

-----------------------------------------------------------------------------
(* What became of an order, along the trace.                                  *)

\* Which of the first k events say type of order id, and what it has taken in them.
Says(T, k, type, id) == {i \in 1 .. k : T[i].event.type = type /\ T[i].event.id = id}
Took(T, k, id) == TakenBy(id, EventsIn(T, k))

\* Event e is about what became of order id.
About(e, id) == e.type \in {"Rejected", "Rested", "Done", "Trade"} /\ e.id = id

LEMMA SaysNext ==
  ASSUME NEW T, NEW k \in Nat, NEW m, m = k + 1, NEW type, NEW id, NEW e, e = T[m].event
  PROVE  /\ e.type = type /\ e.id = id => Says(T, m, type, id) = Says(T, k, type, id) \cup {m}
         /\ ~(e.type = type /\ e.id = id) => Says(T, m, type, id) = Says(T, k, type, id)
<1>1. \A i : i \in 1 .. m <=> i \in 1 .. k \/ i = m
  OBVIOUS
<1> QED BY <1>1 DEF Says

LEMMA TookNext ==
  ASSUME NEW T, NEW k \in Nat, NEW m, m = k + 1, NEW id, NEW e, e = T[m].event
  PROVE  Took(T, m, id) = Counted(id, Took(T, k, id), e)
<1>1. IsStream(EventsIn(T, k)) /\ EventsIn(T, k + 1) = Append(EventsIn(T, k), T[k + 1].event)
  BY EventsInFacts
<1>2. EventsIn(T, m) = Append(EventsIn(T, k), e)
  BY <1>1
<1> QED BY <1>1, <1>2, TakenAppend DEF Took

LEMMA SaysNothing ==
  ASSUME NEW T, NEW id
  PROVE  (\A type : Says(T, 0, type, id) = {}) /\ Took(T, 0, id) = 0
<1>1. \A i : i \notin 1 .. 0
  OBVIOUS
<1>2. EventsIn(T, 0) = <<>>
  BY EventsInFacts
<1> QED BY <1>1, <1>2, TakenEmpty DEF Says, Took

\* Nothing has become of order id yet; and what became of order o adds up.
Unheard(T, k, id) == /\ Says(T, k, "Rejected", id) = {} /\ Says(T, k, "Rested", id) = {}
                     /\ Says(T, k, "Done", id) = {}
Settled(T, k, o) ==
  LET rejected == Says(T, k, "Rejected", o.id)
      rested   == Says(T, k, "Rested", o.id)
      done     == Says(T, k, "Done", o.id)
      taken    == Took(T, k, o.id)
  IN  /\ rejected # {} => taken = 0 /\ rested = {} /\ done = {}
      /\ rested # {} => /\ Cardinality(rested) = 1
                        /\ \A i \in rested : taken + T[i].event.quantity = o.quantity
      /\ rested = {} /\ rejected = {} => taken = o.quantity /\ Cardinality(done) = 1

\* An event that is not about an order changes nothing for it.
LEMMA NotAbout ==
  ASSUME NEW T, NEW k \in Nat, NEW m, m = k + 1, NEW id, ~About(T[m].event, id)
  PROVE  /\ Says(T, m, "Rejected", id) = Says(T, k, "Rejected", id)
         /\ Says(T, m, "Rested", id) = Says(T, k, "Rested", id)
         /\ Says(T, m, "Done", id) = Says(T, k, "Done", id)
         /\ Took(T, m, id) = Took(T, k, id)
<1>1. PICK e : e = T[m].event
  OBVIOUS
<1>2. /\ ~(e.type = "Rejected" /\ e.id = id) /\ ~(e.type = "Rested" /\ e.id = id)
      /\ ~(e.type = "Done" /\ e.id = id) /\ ~(e.type = "Trade" /\ e.id = id)
  BY <1>1 DEF About
<1>3. Says(T, m, "Rejected", id) = Says(T, k, "Rejected", id)
  BY <1>1, <1>2, SaysNext
<1>4. Says(T, m, "Rested", id) = Says(T, k, "Rested", id)
  BY <1>1, <1>2, SaysNext
<1>5. Says(T, m, "Done", id) = Says(T, k, "Done", id)
  BY <1>1, <1>2, SaysNext
<1>6. Took(T, m, id) = Took(T, k, id)
  BY <1>1, <1>2, TookNext DEF Counted
<1> QED BY <1>3, <1>4, <1>5, <1>6

LEMMA NotAboutSettled ==
  ASSUME NEW T, NEW k \in Nat, NEW m, m = k + 1, NEW o, ~About(T[m].event, o.id)
  PROVE  /\ Settled(T, k, o) => Settled(T, m, o)
         /\ Unheard(T, k, o.id) => Unheard(T, m, o.id)
<1>1. PICK id : id = o.id
  OBVIOUS
<1>2. /\ Says(T, m, "Rejected", id) = Says(T, k, "Rejected", id)
      /\ Says(T, m, "Rested", id) = Says(T, k, "Rested", id)
      /\ Says(T, m, "Done", id) = Says(T, k, "Done", id)
      /\ Took(T, m, id) = Took(T, k, id)
  BY <1>1, NotAbout
<1>3. Settled(T, k, o) => Settled(T, m, o)
  BY <1>1, <1>2, Zenon DEF Settled
<1>4. Unheard(T, k, id) => Unheard(T, m, id)
  BY <1>2 DEF Unheard
<1> QED BY <1>1, <1>3, <1>4

\* No order has been heard of after the last one; and what became of the orders among
\* the first n commands adds up.
Silent(T, k, last) == \A id \in Nat : id > last => Unheard(T, k, id) /\ Took(T, k, id) = 0
Past(T, w, k, n, last) ==
  \A j \in 1 .. n : w[j].type = "NewLimit" =>
    w[j].order.id \in 1 .. last /\ Settled(T, k, w[j].order)

\* In the middle of an order: what it has taken and what remains of it.
Underway(T, w, k, c) ==
  /\ Silent(T, k, c.last) /\ Past(T, w, k, c.cause - 1, c.last - 1)
  /\ Unheard(T, k, c.last) /\ Took(T, k, c.last) \in Nat
  /\ Took(T, k, c.last) + c.remaining = OrderOf(c).quantity
Balanced(T, w, k) ==
  /\ T[k].phase = "Finish" => Silent(T, k, T[k].last) /\ Past(T, w, k, T[k].cause, T[k].last)
  /\ T[k].phase # "Finish" => Underway(T, w, k, T[k])

\* A resting order has been announced.
Announced(T, k, r) == \A x \in r : Says(T, k, "Rested", x.id) # {}

Accounted(T, w, k) == Balanced(T, w, k) /\ Announced(T, k, RestsOf(T[k]))

LEMMA SilentNext ==
  ASSUME NEW T, NEW k \in Nat, NEW m, m = k + 1, NEW last \in Nat, NEW now \in Nat, last <= now,
         Silent(T, k, last), \A id \in Nat : About(T[m].event, id) => id <= now
  PROVE  Silent(T, m, now)
<1> SUFFICES ASSUME NEW id \in Nat, id > now
             PROVE  Unheard(T, m, id) /\ Took(T, m, id) = 0
  BY DEF Silent
<1>1. ~About(T[m].event, id)
  BY DEF Silent
<1>2. Unheard(T, k, id) /\ Took(T, k, id) = 0
  BY DEF Silent
<1>3. /\ Says(T, m, "Rejected", id) = Says(T, k, "Rejected", id)
      /\ Says(T, m, "Rested", id) = Says(T, k, "Rested", id)
      /\ Says(T, m, "Done", id) = Says(T, k, "Done", id)
  BY <1>1, NotAbout
<1>4. Took(T, m, id) = Took(T, k, id)
  BY <1>1, NotAbout
<1> QED BY <1>2, <1>3, <1>4 DEF Unheard

LEMMA PastNext ==
  ASSUME NEW T, NEW w, NEW k \in Nat, NEW m, m = k + 1, NEW n, NEW last \in Nat, NEW now \in Nat,
         last <= now, Past(T, w, k, n, last),
         \A o : /\ o.id \in 1 .. last /\ Settled(T, k, o) /\ About(T[m].event, o.id)
                => Settled(T, m, o)
  PROVE  Past(T, w, m, n, now)
<1> SUFFICES ASSUME NEW j \in 1 .. n, w[j].type = "NewLimit"
             PROVE  w[j].order.id \in 1 .. now /\ Settled(T, m, w[j].order)
  BY DEF Past
<1>1. PICK o : o = w[j].order
  OBVIOUS
<1>2. o.id \in 1 .. last /\ Settled(T, k, o)
  BY <1>1 DEF Past
<1>3. o.id \in 1 .. now
  BY <1>2
<1>4. CASE About(T[m].event, o.id)
  BY <1>1, <1>2, <1>3, <1>4
<1>5. CASE ~About(T[m].event, o.id)
  BY <1>1, <1>2, <1>3, <1>5, NotAboutSettled
<1> QED BY <1>4, <1>5

\* One command more is settled.
LEMMA PastOneMore ==
  ASSUME NEW T, NEW w, NEW m, NEW n \in Nat, NEW j, j = n + 1, NEW last, Past(T, w, m, n, last),
         w[j].type = "NewLimit" => w[j].order.id \in 1 .. last /\ Settled(T, m, w[j].order)
  PROVE  Past(T, w, m, j, last)
<1>1. \A i \in 1 .. j : i \in 1 .. n \/ i = j
  OBVIOUS
<1> QED BY <1>1 DEF Past

\* A command begins.
LEMMA StartBalanced ==
  ASSUME NEW T, NEW w, w \in Seq(Messages), NEW k \in Nat, NEW m, m = k + 1,
         NEW n \in Nat, NEW j, j = n + 1, j \in 1 .. Len(w), NEW last \in Nat, NEW q,
         Silent(T, k, last), Past(T, w, k, n, last),
         T[m] = Start(q, last, j, w[j]), T[m].event.type # "MatcherFatal"
  PROVE  Balanced(T, w, m)
<1>1. PICK c : c = T[m]
  OBVIOUS
<1>2. PICK x : x = w[j]
  OBVIOUS
<1>3. x \in Messages
  BY <1>2, ElementOfSeq
<1>4. c = Start(q, last, j, x) /\ c.cause = j /\ c.message = x
  BY <1>1, <1>2, StartFields
<1>5. CASE x.type # "NewLimit"
  <2>1. c.last = last /\ c.phase = "Finish"
    BY <1>4, <1>5, StartFields
  <2>2. c.event = IF x.type = "None" THEN OrderEvent("Rejected", 0) ELSE Event(x.type)
    BY <1>4, <1>5, ConfigFields DEF Start
  <2>3. x.type \in {"SaveSnapshot", "LoadSnapshot", "Shutdown", "StartReplay", "StopReplay", "None"}
    BY <1>3, <1>5 DEF Messages
  <2>4. \A id : About(c.event, id) => id = 0
    BY <2>2, <2>3 DEF About, OrderEvent, Event
  <2>5. \A id \in Nat : About(T[m].event, id) => id <= last
    BY <1>1, <2>4
  <2>6. \A o : /\ o.id \in 1 .. last /\ Settled(T, k, o) /\ About(T[m].event, o.id)
               => Settled(T, m, o)
    BY <1>1, <2>4
  <2>7. Silent(T, m, last)
    BY <2>5, SilentNext
  <2>8. Past(T, w, m, n, last)
    BY <2>6, PastNext
  <2>9. Past(T, w, m, j, last)
    BY <1>2, <1>5, <2>8, PastOneMore
  <2> QED BY <1>1, <1>4, <2>1, <2>7, <2>9 DEF Balanced
<1>6. CASE x.type = "NewLimit"
  <2>1. PICK o : o = x.order
    OBVIOUS
  <2>2. o \in NewOrders /\ o.id \in Nat /\ o.quantity \in Nat
    BY <1>3, <1>6, <2>1, OrderType DEF NewOrders
  <2>3. c = StartOrder(q, last, j, x)
    BY <1>4, <1>6 DEF Start
  <2>4. ~(o.id <= last)
    <3> SUFFICES ASSUME o.id <= last PROVE FALSE
      OBVIOUS
    <3>1. c = Config(q, last, "Finish", 0, 0, OrderEvent("MatcherFatal", o.id), 1, j, x)
      BY <2>1, <2>3 DEF StartOrder
    <3>2. c.event = OrderEvent("MatcherFatal", o.id)
      BY <3>1, ConfigFields
    <3> QED BY <1>1, <3>2 DEF OrderEvent
  <2>5. last <= o.id /\ o.id \in 1 .. o.id /\ last <= o.id - 1 /\ o.id - 1 \in Nat
    BY <2>2, <2>4
  <2>6. Unheard(T, k, o.id) /\ Took(T, k, o.id) = 0
    BY <2>2, <2>4 DEF Silent
  <2>7. CASE o.quantity = 0
    <3>1. c = Config(q, o.id, "Finish", 0, 0, OrderEvent("Rejected", o.id), 1, j, x)
      BY <2>1, <2>3, <2>4, <2>7 DEF StartOrder
    <3>2. c.last = o.id /\ c.phase = "Finish" /\ c.event = OrderEvent("Rejected", o.id)
      BY <3>1, ConfigFields
    <3>3. c.event.type = "Rejected" /\ c.event.id = o.id
      BY <3>2 DEF OrderEvent
    <3>4. \A id : About(T[m].event, id) => id = o.id
      BY <1>1, <3>3 DEF About
    <3>5. Silent(T, m, o.id)
      <4>1. \A id \in Nat : About(T[m].event, id) => id <= o.id
        BY <2>2, <3>4
      <4> QED BY <2>2, <2>5, <4>1, SilentNext
    <3>6. Past(T, w, m, n, o.id)
      <4>1. \A y : y.id \in 1 .. last => y.id # o.id
        BY <2>2, <2>4
      <4>2. \A y : /\ y.id \in 1 .. last /\ Settled(T, k, y) /\ About(T[m].event, y.id)
                   => Settled(T, m, y)
        BY <3>4, <4>1
      <4> QED BY <2>2, <2>5, <4>2, PastNext
    <3>7. Settled(T, m, o)
      <4>1. /\ Says(T, m, "Rejected", o.id) = Says(T, k, "Rejected", o.id) \cup {m}
            /\ Says(T, m, "Rested", o.id) = Says(T, k, "Rested", o.id)
            /\ Says(T, m, "Done", o.id) = Says(T, k, "Done", o.id)
        BY <1>1, <3>3, SaysNext
      <4>2. Took(T, m, o.id) = 0
        BY <1>1, <2>6, <3>3, TookNext DEF Counted
      <4> QED BY <2>6, <4>1, <4>2 DEF Settled, Unheard
    <3>8. Past(T, w, m, j, o.id)
      BY <1>2, <2>1, <2>5, <3>6, <3>7, PastOneMore
    <3> QED BY <1>1, <1>4, <3>2, <3>5, <3>8 DEF Balanced
  <2>8. CASE o.quantity # 0
    <3>1. c = Config(q, o.id, "Match", o.quantity, 0, OrderEvent("Accepted", o.id), 1, j, x)
      BY <2>1, <2>3, <2>4, <2>8 DEF StartOrder
    <3>2. /\ c.last = o.id /\ c.remaining = o.quantity /\ c.phase = "Match"
          /\ c.event = OrderEvent("Accepted", o.id)
      BY <3>1, ConfigFields
    <3>3. \A id : ~About(T[m].event, id)
      BY <1>1, <3>2 DEF About, OrderEvent
    <3>4. Silent(T, m, o.id)
      BY <2>2, <2>5, <3>3, SilentNext
    <3>5. Past(T, w, m, n, o.id - 1)
      <4>1. PICK now : now = o.id - 1
        OBVIOUS
      <4>2. Past(T, w, m, n, now)
        BY <2>5, <3>3, <4>1, PastNext
      <4> QED BY <4>1, <4>2
    <3>6. Unheard(T, m, o.id) /\ Took(T, m, o.id) = 0
      <4>1. PICK id : id = o.id
        OBVIOUS
      <4>2. /\ Says(T, m, "Rejected", id) = Says(T, k, "Rejected", id)
            /\ Says(T, m, "Rested", id) = Says(T, k, "Rested", id)
            /\ Says(T, m, "Done", id) = Says(T, k, "Done", id)
        BY <3>3, NotAbout
      <4>3. Took(T, m, id) = Took(T, k, id)
        BY <3>3, NotAbout
      <4> QED BY <2>6, <4>1, <4>2, <4>3 DEF Unheard
    <3>7. OrderOf(c) = o /\ c.cause - 1 = n
      BY <1>4, <2>1 DEF OrderOf
    <3>8. Underway(T, w, m, c)
      <4>1. Took(T, m, c.last) \in Nat /\ Took(T, m, c.last) + c.remaining = OrderOf(c).quantity
        BY <2>2, <3>2, <3>6, <3>7
      <4> QED BY <3>2, <3>4, <3>5, <3>6, <3>7, <4>1 DEF Underway
    <3> QED BY <1>1, <3>2, <3>8 DEF Balanced
  <2> QED BY <2>7, <2>8
<1> QED BY <1>5, <1>6

\* A trade: what it takes from what remains, the order has taken.
LEMMA TradeBalanced ==
  ASSUME NEW T, NEW w, NEW k \in Nat, NEW m, m = k + 1, NEW c, Sound(c, w),
         c.phase = "Match", TradesIn(c), Underway(T, w, k, c),
         NEW d, d = T[m], d = AfterTrade(c)
  PROVE  Balanced(T, w, m)
<1>1. PICK n : n = ExecutedOf(c)
  OBVIOUS
<1>2. PICK o : o = OrderOf(c)
  OBVIOUS
<1>3. n \in Nat \ {0} /\ n <= c.remaining
  BY <1>1, TradeFacts
<1>4. /\ o \in NewOrders /\ o.id = c.last /\ c.remaining \in Nat /\ c.last \in Nat
  BY <1>2 DEF Sound
<1>5. c.last \in Nat \ {0} /\ o.quantity \in Nat
  BY <1>4 DEF NewOrders
<1>6. PICK trade : trade = Trade(o.id, MakerOf(c).id, BestPriceIn(c.book, Opponent(c)), n)
  OBVIOUS
<1>7. trade.type = "Trade" /\ trade.id = c.last /\ trade.quantity = n
  BY <1>4, <1>6 DEF Trade
<1>8. \E r, at, gone : /\ d = Further(c, r, at, c.remaining - n, gone, trade)
                       /\ at \in {"MakerDone", "Match"}
  <2>1. CASE ExecutedOf(c) = MakerOf(c).remaining
    <3>1. d = Further(c, Book!Cancelled(c.book, MakerOf(c).id), "MakerDone", c.remaining - n,
                      MakerOf(c).id, trade)
      BY <1>1, <1>2, <1>6, <2>1 DEF AfterTrade
    <3> QED BY <3>1
  <2>2. CASE ExecutedOf(c) # MakerOf(c).remaining
    <3>1. d = Further(c, Book!Changed(c.book, MakerOf(c).id, MakerOf(c).remaining - ExecutedOf(c)),
                      "Match", c.remaining - n, 0, trade)
      BY <1>1, <1>2, <1>6, <2>2 DEF AfterTrade
    <3> QED BY <3>1
  <2> QED BY <2>1, <2>2
<1>9. /\ d.last = c.last /\ d.phase # "Finish" /\ d.remaining = c.remaining - n
      /\ d.event = trade /\ d.cause = c.cause /\ d.message = c.message
  <2>1. PICK r, at, gone : /\ d = Further(c, r, at, c.remaining - n, gone, trade)
                           /\ at \in {"MakerDone", "Match"}
    BY <1>8
  <2>2. /\ d.last = c.last /\ d.phase = at /\ d.remaining = c.remaining - n
        /\ d.event = trade /\ d.cause = c.cause /\ d.message = c.message
    BY <2>1, ConfigFields DEF Further
  <2> QED BY <2>1, <2>2
<1>10. \A id : About(T[m].event, id) => id = c.last
  BY <1>7, <1>9 DEF About
<1>11. Silent(T, m, c.last)
  <2>1. PICK last : last = c.last
    OBVIOUS
  <2>2. Silent(T, k, last) /\ last \in Nat /\ last <= last
    BY <1>4, <2>1 DEF Underway
  <2>3. \A id \in Nat : About(T[m].event, id) => id <= last
    BY <1>10, <2>1, <2>2
  <2>4. Silent(T, m, last)
    BY <2>2, <2>3, SilentNext
  <2> QED BY <2>1, <2>4
<1>12. Past(T, w, m, c.cause - 1, c.last - 1)
  <2>1. PICK last, before : last = c.last - 1 /\ before = c.cause - 1
    OBVIOUS
  <2>2. last \in Nat /\ last <= last /\ \A y : y.id \in 1 .. last => y.id # c.last
    BY <1>5, <2>1
  <2>3. Past(T, w, k, before, last)
    BY <2>1 DEF Underway
  <2>4. \A y : /\ y.id \in 1 .. last /\ Settled(T, k, y) /\ About(T[m].event, y.id)
               => Settled(T, m, y)
    BY <1>10, <2>2
  <2>5. Past(T, w, m, before, last)
    BY <2>2, <2>3, <2>4, PastNext
  <2> QED BY <2>1, <2>5
<1>13. Unheard(T, m, c.last)
  <2>1. PICK id : id = c.last
    OBVIOUS
  <2>2. Unheard(T, k, id)
    BY <2>1 DEF Underway
  <2>3. trade = T[m].event
    BY <1>9
  <2>4. Says(T, m, "Rejected", id) = Says(T, k, "Rejected", id)
    BY <1>7, <2>3, SaysNext
  <2>5. Says(T, m, "Rested", id) = Says(T, k, "Rested", id)
    BY <1>7, <2>3, SaysNext
  <2>6. Says(T, m, "Done", id) = Says(T, k, "Done", id)
    BY <1>7, <2>3, SaysNext
  <2> QED BY <2>1, <2>2, <2>4, <2>5, <2>6 DEF Unheard
<1>14. Took(T, m, c.last) = Took(T, k, c.last) + n
  <2>1. PICK id : id = c.last
    OBVIOUS
  <2>2. trade = T[m].event
    BY <1>9
  <2>3. Took(T, m, id) = Counted(id, Took(T, k, id), trade)
    BY <2>2, TookNext
  <2> QED BY <1>7, <2>1, <2>3 DEF Counted
<1>15. /\ Took(T, m, c.last) \in Nat
       /\ Took(T, m, c.last) + d.remaining = OrderOf(d).quantity
  <2>1. Took(T, k, c.last) \in Nat /\ Took(T, k, c.last) + c.remaining = o.quantity
    BY <1>2 DEF Underway
  <2>2. OrderOf(d) = o
    BY <1>2, <1>9 DEF OrderOf
  <2> QED BY <1>3, <1>4, <1>5, <1>9, <1>14, <2>1, <2>2
<1>16. Underway(T, w, m, d)
  BY <1>9, <1>11, <1>12, <1>13, <1>15 DEF Underway
<1> QED BY <1>9, <1>16 DEF Balanced

\* The maker filled in full is done: that it has rested is all that counts for it.
LEMMA MakerDoneBalanced ==
  ASSUME NEW T, NEW w, NEW k \in Nat, NEW m, m = k + 1, NEW c, Sound(c, w),
         c.phase = "MakerDone", Underway(T, w, k, c), Announced(T, k, RestsOf(c)),
         NEW d, d = T[m], d = After(c)
  PROVE  Balanced(T, w, m)
<1>1. PICK e : e = OrderEvent("Done", c.maker)
  OBVIOUS
<1>2. d = Further(c, c.book, "Match", c.remaining, 0, e)
  BY <1>1 DEF After
<1>3. /\ d.last = c.last /\ d.phase = "Match" /\ d.remaining = c.remaining
      /\ d.event = e /\ d.cause = c.cause /\ d.message = c.message
  BY <1>2, ConfigFields DEF Further
<1>4. e.type = "Done" /\ e.id = c.maker
  BY <1>1 DEF OrderEvent
<1>5. /\ c.maker \in Nat /\ c.maker < c.last /\ c.last \in Nat /\ c.last - 1 \in Nat
  <2>1. c.maker \in Nat /\ c.maker < c.last /\ c.last \in Nat
    BY DEF Sound
  <2> QED BY <2>1
<1>6. \A id : About(T[m].event, id) => id = c.maker
  BY <1>3, <1>4 DEF About
<1>7. Says(T, k, "Rested", c.maker) # {}
  <2>1. PICK z : z = [id |-> c.maker, side |-> Opponent(c), price |-> c.event.price,
                      remaining |-> 0]
    OBVIOUS
  <2>2. z \in RestsOf(c) /\ z.id = c.maker
    BY <2>1 DEF RestsOf
  <2> QED BY <2>2 DEF Announced
<1>8. Silent(T, m, c.last)
  <2>1. PICK last : last = c.last
    OBVIOUS
  <2>2. Silent(T, k, last) /\ last \in Nat /\ last <= last
    BY <1>5, <2>1 DEF Underway
  <2>3. \A id \in Nat : About(T[m].event, id) => id <= last
    BY <1>5, <1>6, <2>1
  <2>4. Silent(T, m, last)
    BY <2>2, <2>3, SilentNext
  <2> QED BY <2>1, <2>4
<1>9. ASSUME NEW y, y.id = c.maker, Settled(T, k, y)
      PROVE  Settled(T, m, y)
  <2>1. PICK id : id = y.id
    OBVIOUS
  <2>7. e = T[m].event
    BY <1>3
  <2>2. Says(T, m, "Rejected", id) = Says(T, k, "Rejected", id)
    BY <1>4, <2>7, SaysNext
  <2>3. Says(T, m, "Rested", id) = Says(T, k, "Rested", id)
    BY <1>4, <2>7, SaysNext
  <2>4. Took(T, m, id) = Took(T, k, id)
    BY <1>4, <2>7, TookNext DEF Counted
  <2>5. Says(T, k, "Rested", id) # {}
    BY <1>7, <1>9, <2>1
  <2>6. Says(T, k, "Rejected", id) = {}
    BY <1>9, <2>1, <2>5 DEF Settled
  <2> QED BY <1>9, <2>1, <2>2, <2>3, <2>4, <2>5, <2>6, Zenon DEF Settled
<1>10. Past(T, w, m, c.cause - 1, c.last - 1)
  <2>1. PICK last, before : last = c.last - 1 /\ before = c.cause - 1
    OBVIOUS
  <2>2. Past(T, w, k, before, last)
    BY <2>1 DEF Underway
  <2>3. \A y : /\ y.id \in 1 .. last /\ Settled(T, k, y) /\ About(T[m].event, y.id)
               => Settled(T, m, y)
    BY <1>6, <1>9
  <2>4. last \in Nat /\ last <= last
    BY <1>5, <2>1
  <2>5. Past(T, w, m, before, last)
    BY <2>2, <2>3, <2>4, PastNext
  <2> QED BY <2>1, <2>5
<1>11. PICK id : id = c.last
  OBVIOUS
<1>12. ~About(T[m].event, id)
  BY <1>5, <1>6, <1>11
<1>13. Unheard(T, m, id)
  <2>1. Unheard(T, k, id)
    BY <1>11 DEF Underway
  <2>2. Says(T, m, "Rejected", id) = Says(T, k, "Rejected", id)
    BY <1>12, NotAbout, ZenonT(40)
  <2>3. Says(T, m, "Rested", id) = Says(T, k, "Rested", id)
    BY <1>12, NotAbout, ZenonT(40)
  <2>4. Says(T, m, "Done", id) = Says(T, k, "Done", id)
    BY <1>12, NotAbout, ZenonT(40)
  <2> QED BY <2>1, <2>2, <2>3, <2>4 DEF Unheard
<1>14. Took(T, m, id) = Took(T, k, id)
  BY <1>12, NotAbout
<1>15. OrderOf(d) = OrderOf(c)
  BY <1>3 DEF OrderOf
<1>16. Underway(T, w, m, d)
  BY <1>3, <1>8, <1>10, <1>11, <1>13, <1>14, <1>15 DEF Underway
<1> QED BY <1>3, <1>16 DEF Balanced

\* The first event that says so.
LEMMA SaysFirst ==
  ASSUME NEW T, NEW k \in Nat, NEW m, m = k + 1, NEW type, NEW id, NEW e, e = T[m].event,
         e.id = id, Says(T, k, type, id) = {}
  PROVE  Says(T, m, type, id) = IF e.type = type THEN {m} ELSE {}
<1>1. \A i : i \in 1 .. m <=> i \in 1 .. k \/ i = m
  OBVIOUS
<1>2. \A i \in 1 .. k : ~(T[i].event.type = type /\ T[i].event.id = id)
  BY DEF Says
<1>3. PICK says : says = Says(T, m, type, id)
  OBVIOUS
<1>4. \A i : i \in says <=> i = m /\ e.type = type
  BY <1>1, <1>2, <1>3 DEF Says
<1>5. CASE e.type = type
  BY <1>3, <1>4, <1>5
<1>6. CASE e.type # type
  BY <1>3, <1>4, <1>6
<1> QED BY <1>5, <1>6

\* The order ends: done, resting or rejected, it adds up.
LEMMA EndSettles ==
  ASSUME NEW T, NEW k \in Nat, NEW m, m = k + 1, NEW o, NEW e, e = T[m].event, e.id = o.id,
         Unheard(T, k, o.id), NEW taken \in Nat, taken = Took(T, k, o.id),
         NEW left \in Nat, taken + left = o.quantity,
         \/ e.type = "Done" /\ left = 0
         \/ e.type = "Rested" /\ e.quantity = left
         \/ e.type = "Rejected" /\ left = o.quantity
  PROVE  Settled(T, m, o)
<1>1. PICK id : id = o.id
  OBVIOUS
<1>2. e.id = id /\ Unheard(T, k, id) /\ taken = Took(T, k, id)
  BY <1>1
<1>3. Took(T, m, id) = taken
  <2>1. Took(T, m, id) = Counted(id, taken, e)
    BY <1>2, TookNext
  <2> QED BY <2>1 DEF Counted
<1>4. PICK rejected, rested, done : /\ rejected = Says(T, m, "Rejected", id)
                                    /\ rested = Says(T, m, "Rested", id)
                                    /\ done = Says(T, m, "Done", id)
  OBVIOUS
<1>5. /\ rejected = IF e.type = "Rejected" THEN {m} ELSE {}
      /\ rested = IF e.type = "Rested" THEN {m} ELSE {}
      /\ done = IF e.type = "Done" THEN {m} ELSE {}
  <2>1. /\ Says(T, k, "Rejected", id) = {} /\ Says(T, k, "Rested", id) = {}
        /\ Says(T, k, "Done", id) = {}
    BY <1>2 DEF Unheard
  <2>5. e = T[m].event /\ e.id = id
    BY <1>2
  <2>2. rejected = IF e.type = "Rejected" THEN {m} ELSE {}
    BY <1>4, <2>1, <2>5, SaysFirst
  <2>3. rested = IF e.type = "Rested" THEN {m} ELSE {}
    BY <1>4, <2>1, <2>5, SaysFirst
  <2>4. done = IF e.type = "Done" THEN {m} ELSE {}
    BY <1>4, <2>1, <2>5, SaysFirst
  <2> QED BY <2>2, <2>3, <2>4
<1>6. Cardinality({m}) = 1
  BY FS_Singleton
<1>7. CASE e.type = "Done" /\ left = 0
  <2>1. rejected = {} /\ rested = {} /\ done = {m} /\ taken = o.quantity
    BY <1>5, <1>7
  <2> QED BY <1>1, <1>3, <1>4, <1>6, <2>1, Zenon DEF Settled
<1>8. CASE e.type = "Rested" /\ e.quantity = left
  <2>1. rejected = {} /\ rested = {m} /\ taken + e.quantity = o.quantity
    BY <1>5, <1>8
  <2>2. \A i \in rested : taken + T[i].event.quantity = o.quantity
    BY <2>1
  <2>3. rested # {}
    BY <2>1
  <2> QED BY <1>1, <1>3, <1>4, <1>6, <2>1, <2>2, <2>3, Zenon DEF Settled
<1>9. CASE e.type = "Rejected" /\ left = o.quantity
  <2>1. rejected = {m} /\ rested = {} /\ done = {} /\ taken = 0
    BY <1>5, <1>9
  <2>2. rejected # {}
    BY <2>1
  <2> QED BY <1>1, <1>3, <1>4, <2>1, <2>2, Zenon DEF Settled
<1> QED BY <1>7, <1>8, <1>9

LEMMA EndBalanced ==
  ASSUME NEW T, NEW w, NEW k \in Nat, NEW m, m = k + 1, NEW c, Sound(c, w),
         c.phase = "Match", Underway(T, w, k, c),
         NEW d, d = T[m], d = AfterLoop(c), d.event.type # "MatcherFatal"
  PROVE  Balanced(T, w, m)
<1>1. PICK o : o = OrderOf(c)
  OBVIOUS
<1>2. /\ o \in NewOrders /\ o.id = c.last /\ c.remaining \in Nat /\ c.last \in Nat
      /\ c.cause \in 1 .. Len(w) /\ c.message = w[c.cause]
  BY <1>1 DEF Sound
<1>3. o.id \in Nat \ {0} /\ o.quantity \in Nat
  BY <1>2 DEF NewOrders
<1>4. \E r, e : /\ d = Further(c, r, "Finish", 0, 0, e)
                /\ \/ e = OrderEvent("Done", o.id) /\ c.remaining = 0
                   \/ e = Rested(o, c.remaining)
                   \/ e = OrderEvent("Rejected", o.id) /\ c.remaining = o.quantity
                   \/ e = OrderEvent("MatcherFatal", o.id)
  <2>1. CASE c.remaining = 0
    BY <1>1, <2>1 DEF AfterLoop
  <2>2. CASE c.remaining # 0 /\ FitsIn(c)
    BY <1>1, <2>2 DEF AfterLoop
  <2>3. CASE c.remaining # 0 /\ ~FitsIn(c) /\ c.remaining = o.quantity
    BY <1>1, <2>3 DEF AfterLoop
  <2>4. CASE c.remaining # 0 /\ ~FitsIn(c) /\ c.remaining # o.quantity
    BY <1>1, <2>4 DEF AfterLoop
  <2> QED BY <2>1, <2>2, <2>3, <2>4
<1>5. PICK e : /\ d.event = e /\ d.phase = "Finish" /\ d.last = c.last /\ d.cause = c.cause
               /\ e.id = o.id
               /\ \/ e.type = "Done" /\ c.remaining = 0
                  \/ e.type = "Rested" /\ e.quantity = c.remaining
                  \/ e.type = "Rejected" /\ c.remaining = o.quantity
  <2>1. PICK r, e : /\ d = Further(c, r, "Finish", 0, 0, e)
                    /\ \/ e = OrderEvent("Done", o.id) /\ c.remaining = 0
                       \/ e = Rested(o, c.remaining)
                       \/ e = OrderEvent("Rejected", o.id) /\ c.remaining = o.quantity
                       \/ e = OrderEvent("MatcherFatal", o.id)
    BY <1>4
  <2>2. d.event = e /\ d.phase = "Finish" /\ d.last = c.last /\ d.cause = c.cause
    BY <2>1, ConfigFields DEF Further
  <2>3. /\ e.id = o.id
        /\ \/ e.type = "Done" /\ c.remaining = 0
           \/ e.type = "Rested" /\ e.quantity = c.remaining
           \/ e.type = "Rejected" /\ c.remaining = o.quantity
           \/ e.type = "MatcherFatal"
    BY <2>1 DEF OrderEvent, Rested
  <2> QED BY <2>2, <2>3
<1>6. \A id : About(T[m].event, id) => id = o.id
  BY <1>5 DEF About
<1>7. Silent(T, m, c.last)
  <2>1. PICK last : last = c.last
    OBVIOUS
  <2>2. Silent(T, k, last) /\ last \in Nat /\ last <= last
    BY <1>2, <2>1 DEF Underway
  <2>3. \A id \in Nat : About(T[m].event, id) => id <= last
    BY <1>2, <1>6, <2>1
  <2>4. Silent(T, m, last)
    BY <2>2, <2>3, SilentNext
  <2> QED BY <2>1, <2>4
<1>8. PICK last, before : last = c.last - 1 /\ before = c.cause - 1
  OBVIOUS
<1>9. last \in Nat /\ before \in Nat /\ c.cause = before + 1 /\ last <= c.last
  BY <1>2, <1>3, <1>8, SMTT(20)
<1>10. Past(T, w, m, before, c.last)
  <2>1. \A y : y.id \in 1 .. last => y.id # o.id
    BY <1>2, <1>8
  <2>2. Past(T, w, k, before, last)
    BY <1>8 DEF Underway
  <2>3. \A y : /\ y.id \in 1 .. last /\ Settled(T, k, y) /\ About(T[m].event, y.id)
               => Settled(T, m, y)
    BY <1>6, <2>1
  <2> QED BY <1>2, <1>9, <2>2, <2>3, PastNext
<1>11. Settled(T, m, o)
  <2>1. PICK taken : taken = Took(T, k, o.id)
    OBVIOUS
  <2>2. PICK left : left = c.remaining
    OBVIOUS
  <2>3. taken \in Nat /\ taken + left = o.quantity /\ Unheard(T, k, o.id) /\ left \in Nat
    BY <1>1, <1>2, <2>1, <2>2 DEF Underway
  <2>4. e = T[m].event /\ e.id = o.id
    BY <1>5
  <2>5. \/ e.type = "Done" /\ left = 0
        \/ e.type = "Rested" /\ e.quantity = left
        \/ e.type = "Rejected" /\ left = o.quantity
    BY <1>5, <2>2
  <2> QED BY <2>1, <2>3, <2>4, <2>5, EndSettles
<1>12. w[c.cause].order = o /\ o.id \in 1 .. c.last
  <2>1. w[c.cause].order = o
    BY <1>1, <1>2 DEF OrderOf
  <2> QED BY <1>2, <1>3, <2>1
<1>13. Past(T, w, m, c.cause, c.last)
  BY <1>9, <1>10, <1>11, <1>12, PastOneMore
<1> QED BY <1>5, <1>7, <1>13 DEF Balanced

LEMMA AfterBalanced ==
  ASSUME NEW T, NEW w, NEW k \in Nat, NEW m, m = k + 1, NEW c, c = T[k], Sound(c, w),
         c.phase # "Finish", Accounted(T, w, k),
         NEW d, d = T[m], d = After(c), d.event.type # "MatcherFatal"
  PROVE  Balanced(T, w, m)
<1>1. Underway(T, w, k, c) /\ Announced(T, k, RestsOf(c))
  BY DEF Accounted, Balanced
<1>2. CASE c.phase = "MakerDone"
  BY <1>1, <1>2, MakerDoneBalanced
<1>3. CASE c.phase # "MakerDone"
  <2>1. c.phase = "Match"
    BY <1>3 DEF Sound
  <2>2. CASE TradesIn(c)
    <3>1. d = AfterTrade(c)
      BY <1>3, <2>2 DEF After
    <3> QED BY <1>1, <2>1, <2>2, <3>1, TradeBalanced
  <2>3. CASE ~TradesIn(c)
    <3>1. d = AfterLoop(c)
      BY <1>3, <2>3 DEF After
    <3> QED BY <1>1, <2>1, <3>1, EndBalanced
  <2> QED BY <2>2, <2>3
<1> QED BY <1>2, <1>3

\* What rests stays announced, and what comes to rest is announced by the event.
LEMMA AnnouncedNext ==
  ASSUME NEW T, NEW k \in Nat, NEW m, m = k + 1, NEW e, e = T[m].event,
         NEW r, Announced(T, k, r), \A x \in r : "id" \in DOMAIN x,
         NEW d, d = Learned(r, e)
  PROVE  Announced(T, m, d)
<1>1. m \in 1 .. m /\ \A i \in 1 .. k : i \in 1 .. m
  OBVIOUS
<1>2. ASSUME NEW x \in r PROVE Says(T, m, "Rested", x.id) # {}
  BY <1>1 DEF Announced, Says
<1>3. ASSUME NEW y \in d
      PROVE  \/ \E x \in r : y.id = x.id
             \/ e.type = "Rested" /\ y.id = e.id
  <2>1. CASE e.type = "Rested"
    <3>1. PICK z : z = [id |-> e.id, side |-> e.side, price |-> e.price,
                        remaining |-> e.quantity]
      OBVIOUS
    <3>2. d = r \cup {z} /\ z.id = e.id
      BY <2>1, <3>1 DEF Learned
    <3> QED BY <1>3, <2>1, <3>2
  <2>2. CASE e.type = "Trade"
    <3>1. PICK with, n : with = e.maker /\ n = e.quantity
      OBVIOUS
    <3>2. d = {Filled(x, with, n) : x \in r}
      BY <2>2, <3>1 DEF Learned, Filled
    <3>3. PICK x \in r : y = Filled(x, with, n)
      BY <1>3, <3>2
    <3>4. y.id = x.id
      <4>1. CASE x.id = with
        <5>1. PICK left : left = x.remaining - n
          OBVIOUS
        <5>2. y = [x EXCEPT !.remaining = left]
          BY <3>3, <4>1, <5>1 DEF Filled
        <5> QED BY <5>2
      <4>2. CASE x.id # with
        BY <3>3, <4>2 DEF Filled
      <4> QED BY <4>1, <4>2
    <3> QED BY <3>4
  <2>3. CASE e.type \notin {"Rested", "Trade"}
    <3>1. d \subseteq r
      BY <2>3 DEF Learned
    <3> QED BY <1>3, <3>1
  <2> QED BY <2>1, <2>2, <2>3
<1>4. ASSUME e.type = "Rested" PROVE Says(T, m, "Rested", e.id) # {}
  BY <1>1, <1>4 DEF Says
<1>5. ASSUME NEW y \in d PROVE Says(T, m, "Rested", y.id) # {}
  <2>1. CASE \E x \in r : y.id = x.id
    <3>1. PICK x \in r : y.id = x.id
      BY <2>1
    <3> QED BY <1>2, <3>1
  <2>2. CASE e.type = "Rested" /\ y.id = e.id
    BY <1>4, <2>2
  <2> QED BY <1>3, <2>1, <2>2
<1> QED BY <1>5 DEF Announced

LEMMA RestsHaveIds ==
  ASSUME NEW c
  PROVE  \A x \in RestsOf(c) : "id" \in DOMAIN x
<1>1. \A x \in OrdersOf(c.book) : "id" \in DOMAIN x
  BY DEF OrdersOf
<1>2. ASSUME NEW x, NEW a, NEW s, NEW p,
             x = [id |-> a, side |-> s, price |-> p, remaining |-> 0]
      PROVE  "id" \in DOMAIN x
  BY <1>2
<1> QED BY <1>1, <1>2 DEF RestsOf

LEMMA TraceAccounts ==
  ASSUME NEW T, NEW w, w \in Seq(Messages), IsTrace(T, w), NEW n \in 1 .. Len(T)
  PROVE  Accounted(T, w, n)
<1>0. Len(T) \in Nat
  BY TraceLength DEF IsTrace
<1> DEFINE Bad == {k \in 1 .. Len(T) : ~Accounted(T, w, k)}
<1> SUFFICES ASSUME n \in Bad PROVE FALSE
  OBVIOUS
<1>1. PICK m \in Bad : \A k \in Bad : m <= k
  <2>1. Bad \subseteq Nat /\ Bad # {}
    BY <1>0
  <2> HIDE DEF Bad
  <2> QED BY <2>1, Least
<1>2. m \in 1 .. Len(T) /\ ~Accounted(T, w, m) /\ m \in Nat
  BY <1>0, <1>1
<1>3. PICK c : c = T[m]
  OBVIOUS
<1>4. c.cause \in 1 .. Len(w) /\ c.event.type # "MatcherFatal"
  BY <1>2, <1>3 DEF IsTrace
<1>5. PICK k : k = m - 1
  OBVIOUS
<1>6. k \in Nat /\ m = k + 1
  BY <1>2, <1>5
<1>7. CASE k = 0
  <2>1. T # <<>> /\ m = 1
    <3>1. Len(T) > 0 /\ IsStream(T)
      BY <1>0, <1>2 DEF IsTrace
    <3> QED BY <1>6, <1>7, <3>1, TraceLength
  <2>2. PICK zero, one : zero = 0 /\ one = 1
    OBVIOUS
  <2>3. c = Start(NoBook, zero, one, w[one])
    BY <1>3, <2>1, <2>2 DEF IsTrace
  <2>4. c.cause = one /\ zero \in Nat /\ one = zero + 1
    BY <2>2, <2>3, StartFields
  <2>5. Silent(T, k, zero) /\ Past(T, w, k, zero, zero)
    <3>1. \A id : (\A type : Says(T, 0, type, id) = {}) /\ Took(T, 0, id) = 0
      BY SaysNothing
    <3>2. Silent(T, 0, 0)
      BY <3>1 DEF Silent, Unheard
    <3>3. \A j : j \notin 1 .. 0
      OBVIOUS
    <3>4. Past(T, w, 0, 0, 0)
      BY <3>3 DEF Past
    <3> QED BY <1>7, <2>2, <3>2, <3>4
  <2>6. Balanced(T, w, m)
    <3>1. T[m] = Start(NoBook, zero, one, w[one]) /\ T[m].event.type # "MatcherFatal"
      BY <1>3, <1>4, <2>3
    <3>2. one \in 1 .. Len(w)
      BY <1>4, <2>4
    <3> QED BY <1>6, <2>4, <2>5, <3>1, <3>2, StartBalanced
  <2>7. Announced(T, m, RestsOf(c))
    <3>1. RestsOf(c) = Learned({}, c.event)
      <4>1. Neat(NoBook) /\ UpTo(NoBook, zero)
        BY <2>2, EmptyNeat
      <4>5. c = Start(NoBook, zero, one, w[one]) /\ one \in 1 .. Len(w)
        BY <1>4, <2>3, <2>4
      <4>2. one \in 1 .. Len(w)
        BY <1>4, <2>4
      <4>3. c.event.type # "MatcherFatal" /\ zero \in Nat
        BY <1>4, <2>4
      <4>4. Sound(c, w) /\ RestsOf(c) = Learned(OrdersOf(NoBook), c.event)
        BY <2>3, <4>1, <4>2, <4>3, <4>5, StartSound
      <4> QED BY <4>4, EmptyNeat
    <3>2. PICK none : none = {}
      OBVIOUS
    <3>3. Announced(T, k, none) /\ \A x \in none : "id" \in DOMAIN x
      BY <3>2 DEF Announced
    <3>4. PICK d, e : d = RestsOf(c) /\ e = c.event
      OBVIOUS
    <3>5. d = Learned(none, e) /\ e = T[m].event
      BY <1>3, <3>1, <3>2, <3>4
    <3>6. Announced(T, m, d)
      BY <1>6, <3>3, <3>5, AnnouncedNext
    <3> QED BY <3>4, <3>6
  <2> QED BY <1>2, <1>3, <2>6, <2>7 DEF Accounted
<1>8. CASE k # 0
  <2>1. k \in 1 .. Len(T) /\ k \in 1 .. Len(T) - 1 /\ ~(m <= k)
    BY <1>0, <1>2, <1>6, <1>8
  <2>2. Accounted(T, w, k)
    BY <1>1, <2>1
  <2>3. PICK b : b = T[k]
    OBVIOUS
  <2>4. Sound(b, w)
    BY <2>1, <2>3, TraceKnows DEF Knows
  <2>5. c = Successor(b, w)
    BY <1>3, <1>6, <2>1, <2>3 DEF IsTrace
  <2>6. Balanced(T, w, m) /\ RestsOf(c) = Learned(RestsOf(b), c.event)
    <3>1. CASE b.phase = "Finish"
      <4>1. PICK n1, j, last, q : n1 = b.cause /\ j = b.cause + 1 /\ last = b.last /\ q = b.book
        OBVIOUS
      <4>2. c = Start(q, last, j, w[j])
        BY <2>5, <3>1, <4>1 DEF Successor
      <4>3. c.cause = j
        BY <4>2, StartFields
      <4>4. Neat(q) /\ last \in Nat /\ UpTo(q, last) /\ n1 \in Nat
        <5>1. b.cause \in 1 .. Len(w)
          BY <2>4 DEF Sound
        <5> QED BY <2>4, <4>1, <5>1 DEF Sound
      <4>5. j \in 1 .. Len(w) /\ j = n1 + 1
        BY <1>4, <4>1, <4>3
      <4>6. Silent(T, k, last) /\ Past(T, w, k, n1, last)
        BY <2>2, <2>3, <3>1, <4>1 DEF Accounted, Balanced
      <4>7. T[m] = Start(q, last, j, w[j]) /\ T[m].event.type # "MatcherFatal"
        BY <1>3, <1>4, <4>2
      <4>8. Balanced(T, w, m)
        BY <1>6, <4>4, <4>5, <4>6, <4>7, StartBalanced
      <4>9. RestsOf(c) = Learned(OrdersOf(q), c.event)
        BY <1>4, <4>2, <4>4, <4>5, StartSound
      <4>10. RestsOf(b) = OrdersOf(q)
        BY <3>1, <4>1 DEF RestsOf
      <4> QED BY <4>8, <4>9, <4>10
    <3>2. CASE b.phase # "Finish"
      <4>1. c = After(b)
        BY <2>5, <3>2 DEF Successor
      <4>2. RestsOf(c) = Learned(RestsOf(b), c.event)
        BY <2>4, <3>2, <4>1, AfterSound
      <4>3. Balanced(T, w, m)
        BY <1>3, <1>4, <1>6, <2>2, <2>3, <2>4, <3>2, <4>1, AfterBalanced
      <4> QED BY <4>2, <4>3
    <3> QED BY <3>1, <3>2
  <2>7. Announced(T, m, RestsOf(c))
    <3>1. PICK r, d, e : r = RestsOf(b) /\ d = RestsOf(c) /\ e = c.event
      OBVIOUS
    <3>2. d = Learned(r, e) /\ e = T[m].event
      BY <1>3, <2>6, <3>1
    <3>3. Announced(T, k, r)
      BY <2>2, <2>3, <3>1 DEF Accounted
    <3>4. \A x \in r : "id" \in DOMAIN x
      BY <3>1, RestsHaveIds
    <3>5. Announced(T, m, d)
      BY <1>6, <3>2, <3>3, <3>4, AnnouncedNext
    <3> QED BY <3>1, <3>5
  <2> QED BY <1>2, <1>3, <2>6, <2>7 DEF Accounted
<1> QED BY <1>7, <1>8

\* What became of every order, as the live events tell it, adds up once its command
\* has been processed.
THEOREM OrdersAddUpAlways ==
  ASSUME "LoadSnapshot" \notin Controls
  PROVE  Spec => []OrdersAddUp
<1>1. ReplayedInv /\ TypeOK => OrdersAddUp
  <2> SUFFICES ASSUME ReplayedInv, TypeOK PROVE OrdersAddUp
    OBVIOUS
  <2> DEFINE events == EventsOf(LiveEvents)
  <2> SUFFICES ASSUME phase = "Idle", fatalReason = "None",
                      NEW i \in DOMAIN wal, wal[i].type = "NewLimit"
               PROVE  LET o == wal[i].order
                          of(type) == {k \in DOMAIN events :
                                         events[k].type = type /\ events[k].id = o.id}
                          rested == of("Rested")
                          taken == TakenBy(o.id, events)
                      IN  /\ of("Rejected") # {} => taken = 0 /\ rested = {} /\ of("Done") = {}
                          /\ rested # {} => Cardinality(rested) = 1 /\
                               \A k \in rested : taken + events[k].quantity = o.quantity
                          /\ rested = {} /\ of("Rejected") = {} =>
                               taken = o.quantity /\ Cardinality(of("Done")) = 1
    BY Zenon DEF OrdersAddUp
  <2>1. PICK T : TraceInv(T)
    BY DEF ReplayedInv
  <2>2. StreamInv /\ wal \in Seq(Messages) /\ Len(wal) \in Nat
    <3>1. wal \in Seq(Messages)
      BY DEF ReplayedInv, AllInv, BookInv, TypeInv
    <3> QED BY <3>1, LenProperties DEF ReplayedInv, AllInv
  <2>3. PICK n : n = Len(T)
    OBVIOUS
  <2>4. /\ IsTrace(T, wal) /\ Len(LiveEvents) = n
        /\ \A k \in 1 .. n : LiveEvents[k] = EventAt(T[k], k)
        /\ T # <<>> => T[n].phase = "Finish"
    BY <2>1, <2>3 DEF TraceInv, LiveInv
  <2>5. n \in Nat /\ (T # <<>> <=> n > 0) /\ i \in 1 .. Len(wal)
    BY <2>2, <2>3, <2>4, TraceLength DEF IsTrace
  <2>6. n \in 1 .. Len(T) /\ T[n].phase = "Finish" /\ T[n].cause = Len(wal)
    <3>1. T # <<>>
      <4> SUFFICES ASSUME T = <<>> PROVE FALSE
        OBVIOUS
      <4>1. wal = <<>>
        BY <2>4 DEF IsTrace
      <4> QED BY <2>5, <4>1
    <3> QED BY <2>3, <2>4, <2>5, <3>1 DEF IsTrace
  <2>7. events = EventsIn(T, n)
    BY <2>2, <2>4, <2>5, EventsAre
  <2> HIDE DEF events
  <2>8. PICK o : o = wal[i].order
    OBVIOUS
  <2>9. Settled(T, n, o)
    <3>1. Accounted(T, wal, n)
      BY <2>2, <2>4, <2>6, TraceAccounts
    <3>2. Past(T, wal, n, Len(wal), T[n].last)
      BY <2>6, <3>1 DEF Accounted, Balanced
    <3> QED BY <2>5, <2>8, <3>2 DEF Past
  <2>10. DOMAIN events = 1 .. n /\ \A k \in 1 .. n : events[k] = T[k].event
    BY <2>7 DEF EventsIn
  <2>11. ASSUME NEW type
         PROVE  {k \in DOMAIN events : events[k].type = type /\ events[k].id = o.id}
                  = Says(T, n, type, o.id)
    BY <2>10 DEF Says
  <2>12. TakenBy(o.id, events) = Took(T, n, o.id)
    BY <2>7 DEF Took
  <2> DEFINE Of(type) == {k \in DOMAIN events : events[k].type = type /\ events[k].id = o.id}
  <2>13. /\ Of("Rejected") = Says(T, n, "Rejected", o.id)
         /\ Of("Rested") = Says(T, n, "Rested", o.id)
         /\ Of("Done") = Says(T, n, "Done", o.id)
    BY <2>11
  <2>14. \A k \in Says(T, n, "Rested", o.id) : events[k] = T[k].event
    BY <2>10 DEF Says
  <2> HIDE DEF Of
  <2>15. LET taken == TakenBy(o.id, events)
         IN  /\ Of("Rejected") # {} => taken = 0 /\ Of("Rested") = {} /\ Of("Done") = {}
             /\ Of("Rested") # {} => Cardinality(Of("Rested")) = 1 /\
                  \A k \in Of("Rested") : taken + events[k].quantity = o.quantity
             /\ Of("Rested") = {} /\ Of("Rejected") = {} =>
                  taken = o.quantity /\ Cardinality(Of("Done")) = 1
    BY <2>9, <2>12, <2>13, <2>14 DEF Settled
  <2> USE DEF Of, events
  <2> QED BY <2>8, <2>15, Zenon
<1>2. Spec => []TypeOK
  BY TypeOKAlways
<1> QED BY <1>1, <1>2, ReplayedInvariant, PTL
=============================================================================
