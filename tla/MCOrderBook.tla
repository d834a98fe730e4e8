----------------------------- MODULE MCOrderBook -----------------------------
(* OrderBook for TLC.                                                        *)
EXTENDS OrderBook

Order(id, side, price, remaining) ==
  [id |-> id, side |-> side, price |-> price, remaining |-> remaining]

\* Images that restore() takes, and that it refuses at the second order: an id
\* twice, a price out of range, a zero quantity.
MCImages ==
  {<<Order(2, "Bid", MaxPrice, 1), Order(1, "Bid", MinPrice, 1)>>,
   <<Order(1, "Ask", MinPrice, 1), Order(1, "Bid", MaxPrice, 1)>>,
   <<Order(1, "Bid", MinPrice, 1), Order(2, "Bid", MaxPrice + 1, 1)>>,
   <<Order(2, "Ask", MaxPrice, 1), Order(3, "Ask", MinPrice, 0)>>}
=============================================================================
