---------------------------- MODULE PriceTimeBook ----------------------------
(***************************************************************************)
(* What the order book promises to the matcher: per side and price a queue   *)
(* of resting orders in time order, with no pool, no links, no hash table    *)
(* and no bitmaps.  The owner of an order is carried through unread and is   *)
(* left out.                                                                 *)
(***************************************************************************)
EXTENDS Integers, Sequences, FiniteSets, SequencesExt

CONSTANTS Ids,         \* OrderIds in use
          Prices,      \* min_price_tick .. max_price_tick
          Quantities,  \* order quantities in use, all positive
          MaxOrders    \* capacity

VARIABLE queue

Sides == {"Bid", "Ask"}

\* The places of book q that hold an order.
Places(q) == UNION {{s} \X {p} \X DOMAIN q[s][p] : s \in Sides, p \in Prices}

IsAt(q, id, place) == q[place[1]][place[2]][place[3]].id = id

Resting(q, id) == \E place \in Places(q) : IsAt(q, id, place)

Place(q, id) == CHOOSE place \in Places(q) : IsAt(q, id, place)

ActivePrices(side) == {p \in Prices : queue[side][p] # <<>>}

\* Bids rank by the highest price, asks by the lowest.
AtLeastAsGood(side, p, q) == IF side = "Bid" THEN p >= q ELSE p <= q

BestPrice(side) == CHOOSE p \in ActivePrices(side) :
                     \A q \in ActivePrices(side) : AtLeastAsGood(side, p, q)

\* Mutation of Best: the newest order of the price.
BestNewest(side) == LET q == queue[side][BestPrice(side)] IN q[Len(q)]

\* The order the matcher executes next against: price, then time.
Best(side) == Head(queue[side][BestPrice(side)])

Empty == [s \in Sides |-> [p \in Prices |-> <<>>]]

Init == queue = Empty

CanRest(q, id) == ~Resting(q, id) /\ Cardinality(Places(q)) < MaxOrders

Rested(q, id, side, price, quantity) ==
  [q EXCEPT ![side][price] = Append(@, [id |-> id, remaining |-> quantity])]

Cancelled(q, id) ==
  LET place == Place(q, id)
  IN  [q EXCEPT ![place[1]][place[2]] = RemoveAt(@, place[3])]

Changed(q, id, quantity) ==
  LET place == Place(q, id)
  IN  [q EXCEPT ![place[1]][place[2]][place[3]].remaining = quantity]

\* The operations, for a composition with one book.
Rest(q, id, side, price, quantity) ==
  CanRest(q, id) /\ queue' = Rested(q, id, side, price, quantity)
Cancel(q, id) == Resting(q, id) /\ queue' = Cancelled(q, id)
Change(q, id, quantity) == Resting(q, id) /\ queue' = Changed(q, id, quantity)

\* One operation leads from book q to book r.
Step(q, r) ==
  \/ r = Empty
  \/ \E id \in Ids : Resting(q, id) /\
       \/ r = Cancelled(q, id)
       \/ \E n \in Quantities : r = Changed(q, id, n)
  \/ \E id \in Ids : CanRest(q, id) /\
       \E s \in Sides, p \in Prices, n \in Quantities : r = Rested(q, id, s, p, n)

Next == \E q \in {queue}, r \in {queue'} : Step(q, r)

Spec == Init /\ [][Next]_queue
=============================================================================
