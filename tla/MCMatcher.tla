------------------------------ MODULE MCMatcher ------------------------------
(* Matcher for TLC.                                                          *)
EXTENDS Matcher

In(side, price, quantity) == [side |-> side, price |-> price, quantity |-> quantity]

\* Orders that rest, trade at once, sweep two prices, are beyond the book, or are
\* rejected.
MCIncoming == {In("Bid", 1, 1), In("Bid", 2, 2), In("Ask", 1, 2), In("Ask", 2, 1),
               In("Bid", 3, 2), In("Ask", 1, 0)}

\* Enough to rest, to trade and to be rejected.
MCFew == {In("Bid", 1, 2), In("Ask", 1, 1), In("Ask", 1, 0)}
=============================================================================
