------------------------------ MODULE OrderBook ------------------------------
(***************************************************************************)
(* OrderBook: resting orders in a fixed pool, linked by slot numbers into    *)
(* one FIFO per side and price.  Around the FIFOs it keeps a free list       *)
(* through the same links, an index from OrderId to slot (the map that       *)
(* OrderIdIndex implements), and per side the bitmaps of active prices and   *)
(* occupied segments, the best segment, and totals.  Every operation keeps   *)
(* them all in step.                                                         *)
(*                                                                           *)
(* The book is called by one thread.  A call that is refused changes nothing *)
(* and is a stuttering step; insert then gives back the slot it acquired.    *)
(* restore() is a loop of inserts, of which each is a step here.             *)
(*                                                                           *)
(* Data: a bitmap is the set of its bits; the owner of an order is carried   *)
(* through unread and is left out.  A free slot holds the poison of the      *)
(* debug build.                                                              *)
(***************************************************************************)
EXTENDS Integers, Sequences, FiniteSets, SequencesExt

CONSTANTS Ids,              \* OrderIds in use
          MinPrice,         \* OrderBookConfig.min_price_tick
          MaxPrice,         \* OrderBookConfig.max_price_tick
          MaxOrders,        \* OrderBookConfig.max_orders
          PricesPerSegment, \* prices_per_segment
          Quantities,       \* order quantities in use, all positive
          Images            \* snapshot images of another origin to restore

ASSUME BookAssumption == /\ MinPrice \in Nat /\ MaxPrice \in Nat
                         /\ MinPrice <= MaxPrice
                         /\ MaxOrders \in Nat /\ PricesPerSegment \in Nat \ {0}
                         /\ Quantities \subseteq Nat \ {0}
                         /\ Images \subseteq Seq([id : Ids, side : {"Bid", "Ask"},
                                                 price : Nat,
                                                 remaining : Quantities \cup {0}])

VARIABLES orders,     \* OrderPool::orders_
          freeHead,   \* OrderPool::free_head_
          freeCount,  \* OrderPool::free_count_
          index,      \* index_
          levels,     \* PriceLevel of each side and price
          active,     \* PriceSegment::active_mask
          occupied,   \* segment_occupancy_
          best,       \* best_segment_
          count,      \* order_count_
          total,      \* total_quantity_
          image,      \* image that restore() is inserting
          restored,   \* and how many it has inserted
          own,        \* history: the image was a snapshot of this book
          before      \* history: the queues when restore() was called

pool == <<orders, freeHead, freeCount>>
sideVars == <<levels, active, occupied, best, count, total>>
restoreVars == <<image, restored, own, before>>
vars == <<pool, index, sideVars, restoreVars>>

Sides == {"Bid", "Ask"}
Prices == MinPrice .. MaxPrice
LevelNumbers == 1 .. MaxPrice - MinPrice + 1
Slots == 0 .. MaxOrders - 1
NoSlot == MaxOrders
NoSegment == -1

\* local_segment
SegmentOf(price) == price \div PricesPerSegment - MinPrice \div PricesPerSegment
Segments == 0 .. SegmentOf(MaxPrice)

\* poison_free_slot
FreeOrder(next) == [id |-> 0, side |-> "Bid", price |-> 0, remaining |-> 0,
                    prev |-> NoSlot, next |-> next, inUse |-> FALSE]
EmptyLevel == [head |-> NoSlot, tail |-> NoSlot, quantity |-> 0, count |-> 0]

\* The slots found by following next, for as many steps as there are slots and
\* one more: a longer chain has a cycle.
Chain(head) ==
  LET slot[k \in 0 .. MaxOrders] ==
        IF k = 0 THEN head
        ELSE IF slot[k - 1] = NoSlot THEN NoSlot ELSE orders[slot[k - 1]].next
      length == Cardinality({k \in 0 .. MaxOrders : slot[k] # NoSlot})
  IN  [k \in 1 .. length |-> slot[k - 1]]

Fifo(s, p) == Chain(levels[s][p].head)

Queue == [s \in Sides |-> [p \in Prices |->
           LET fifo == Fifo(s, p)
           IN  [k \in DOMAIN fifo |-> [id |-> orders[fifo[k]].id,
                                       remaining |-> orders[fifo[k]].remaining]]]]

NoQueue == [s \in Sides |-> [p \in Prices |-> <<>>]]

\* Mutation of InitializeFreelist: free_head_ is not reset.
InitializeFreelistKeepsHead ==
  /\ orders' = [slot \in Slots |-> FreeOrder(slot + 1)]
  /\ UNCHANGED freeHead /\ freeCount' = MaxOrders

InitializeFreelist ==
  /\ orders' = [slot \in Slots |-> FreeOrder(slot + 1)]
  /\ freeHead' = 0 /\ freeCount' = MaxOrders

ClearSides ==
  /\ levels' = [s \in Sides |-> [p \in Prices |-> EmptyLevel]]
  /\ active' = [s \in Sides |-> [g \in Segments |-> {}]]
  /\ occupied' = [s \in Sides |-> {}]
  /\ best' = [s \in Sides |-> NoSegment]
  /\ count' = [s \in Sides |-> 0] /\ total' = [s \in Sides |-> 0]

Cleared == InitializeFreelist /\ ClearSides /\ index' = [id \in Ids |-> NoSlot]

Init ==
  /\ orders = [slot \in Slots |-> FreeOrder(slot + 1)]
  /\ freeHead = 0 /\ freeCount = MaxOrders
  /\ index = [id \in Ids |-> NoSlot]
  /\ levels = [s \in Sides |-> [p \in Prices |-> EmptyLevel]]
  /\ active = [s \in Sides |-> [g \in Segments |-> {}]]
  /\ occupied = [s \in Sides |-> {}]
  /\ best = [s \in Sides |-> NoSegment]
  /\ count = [s \in Sides |-> 0] /\ total = [s \in Sides |-> 0]
  /\ image = <<>> /\ restored = 0 /\ own = FALSE /\ before = NoQueue

-----------------------------------------------------------------------------
(* OrderPool and the links in its slots.                                     *)

Acquire == freeHead' = orders[freeHead].next /\ freeCount' = freeCount - 1

Emplaced(slot, o) ==
  [orders EXCEPT ![slot] = [id |-> o.id, side |-> o.side, price |-> o.price,
                            remaining |-> o.remaining, prev |-> NoSlot,
                            next |-> NoSlot, inUse |-> TRUE]]

\* The release of a slot, once f has the links around it repaired.
Release(f, slot) == /\ orders' = [f EXCEPT ![slot] = FreeOrder(freeHead)]
                    /\ freeHead' = slot /\ freeCount' = freeCount + 1

\* Mutation of SetNext: the link forward is not repaired.
SetNextForgotten(f, slot, to) == f

SetNext(f, slot, to) ==
  IF slot = NoSlot THEN f ELSE [f EXCEPT ![slot].next = to]

\* Mutation of SetPrev: the link backward is not repaired.
SetPrevForgotten(f, slot, to) == f

SetPrev(f, slot, to) ==
  IF slot = NoSlot THEN f ELSE [f EXCEPT ![slot].prev = to]

-----------------------------------------------------------------------------
(* SideBook.                                                                 *)

\* Bids prefer the highest segment, asks the lowest.
Extreme(s, segments) == IF segments = {} THEN NoSegment
                        ELSE IF s = "Bid" THEN Max(segments) ELSE Min(segments)

\* Mutation of RecomputeBest: the scan precedes clear_segment_occupied.
RecomputeBestFirst(s, g) ==
  IF g = best[s] THEN Extreme(s, occupied[s]) ELSE best[s]

\* The best segment when segment g has become empty.
RecomputeBest(s, g) ==
  IF g = best[s] THEN Extreme(s, occupied[s] \ {g}) ELSE best[s]

UpdateBestAfterInsert(s, g) ==
  Extreme(s, IF best[s] = NoSegment THEN {g} ELSE {best[s], g})

\* append, of an order that was put into a slot.
AppendToSide(o, slot) ==
  LET tail == levels[o.side][o.price].tail
      g == SegmentOf(o.price)
  IN  /\ orders' = SetNext(SetPrev(Emplaced(slot, o), slot, tail), tail, slot)
      /\ levels' = [levels EXCEPT ![o.side][o.price] =
                      [head |-> IF tail = NoSlot THEN slot ELSE @.head,
                       tail |-> slot,
                       quantity |-> @.quantity + o.remaining,
                       count |-> @.count + 1]]
      /\ active' = [active EXCEPT ![o.side][g] = @ \cup {o.price}]
      /\ occupied' = [occupied EXCEPT ![o.side] = @ \cup {g}]
      /\ best' = [best EXCEPT ![o.side] = UpdateBestAfterInsert(o.side, g)]
      /\ count' = [count EXCEPT ![o.side] = @ + 1]
      /\ total' = [total EXCEPT ![o.side] = @ + o.remaining]

\* remove, without the links.
RemoveFromSide(o) ==
  LET level == levels[o.side][o.price]
      g == SegmentOf(o.price)
      lastOfPrice == level.count = 1
      lastOfSegment == lastOfPrice /\ active[o.side][g] = {o.price}
  IN  /\ levels' = [levels EXCEPT ![o.side][o.price] =
                      [head |-> IF o.prev = NoSlot THEN o.next ELSE @.head,
                       tail |-> IF o.next = NoSlot THEN o.prev ELSE @.tail,
                       quantity |-> @.quantity - o.remaining,
                       count |-> @.count - 1]]
      /\ active' = IF lastOfPrice
                   THEN [active EXCEPT ![o.side][g] = @ \ {o.price}]
                   ELSE active
      /\ occupied' = IF lastOfSegment
                     THEN [occupied EXCEPT ![o.side] = @ \ {g}] ELSE occupied
      /\ best' = IF lastOfSegment
                 THEN [best EXCEPT ![o.side] = RecomputeBest(o.side, g)] ELSE best
      /\ count' = [count EXCEPT ![o.side] = @ - 1]
      /\ total' = [total EXCEPT ![o.side] = @ - o.remaining]

Unlinked(o) == SetPrev(SetNext(orders, o.prev, o.next), o.next, o.prev)

SetSideRemaining(slot, quantity) ==
  LET o == orders[slot]
  IN  /\ orders' = [orders EXCEPT ![slot].remaining = quantity]
      /\ levels' = [levels EXCEPT ![o.side][o.price].quantity =
                      @ + quantity - o.remaining]
      /\ total' = [total EXCEPT ![o.side] = @ + quantity - o.remaining]

-----------------------------------------------------------------------------
(* Operations of OrderBook.                                                  *)

\* The status of insert().  A slot that was acquired for an id that the index
\* refuses goes back, which leaves the free list as it was.
InsertStatus(o) ==
  IF o.remaining = 0 THEN "InvalidQuantity"
  ELSE IF o.price \notin Prices THEN "PriceOutOfRange"
  ELSE IF index[o.id] # NoSlot THEN "DuplicateOrderId"
  ELSE IF freeHead = NoSlot THEN "CapacityExhausted" ELSE "Ok"

Accepts(o) == InsertStatus(o) = "Ok"

\* insert(), when it succeeds.
AppendOrder(o) ==
  /\ Acquire
  /\ index' = [index EXCEPT ![o.id] = freeHead]
  /\ AppendToSide(o, freeHead)

Idle == image = <<>>

Insert(o) == Idle /\ Accepts(o) /\ AppendOrder(o) /\ UNCHANGED restoreVars

\* remove_active_order
RemoveActiveOrder(slot) ==
  RemoveFromSide(orders[slot]) /\ Release(Unlinked(orders[slot]), slot)

Erase(id) ==
  /\ Idle /\ index[id] # NoSlot
  /\ index' = [index EXCEPT ![id] = NoSlot]
  /\ RemoveActiveOrder(index[id])
  /\ UNCHANGED restoreVars

SetRemaining(id, quantity) ==
  /\ Idle /\ index[id] # NoSlot
  /\ SetSideRemaining(index[id], quantity)
  /\ UNCHANGED <<freeHead, freeCount, index, active, occupied, best, count,
                 restoreVars>>

Clear == Idle /\ Cleared /\ UNCHANGED restoreVars

\* view_for
View(slot) == [id |-> orders[slot].id, side |-> orders[slot].side,
               price |-> orders[slot].price, remaining |-> orders[slot].remaining]

\* Mutation of LevelViews: from the tail.
LevelViewsFromTail(s, p) == LET fifo == Reverse(Fifo(s, p))
                            IN  [j \in DOMAIN fifo |-> View(fifo[j])]

LevelViews(s, p) == LET fifo == Fifo(s, p)
                    IN  [j \in DOMAIN fifo |-> View(fifo[j])]

\* snapshot_into: bids, then asks, by price and then by time.
SnapshotSide(s) ==
  FlattenSeq([k \in LevelNumbers |-> LevelViews(s, MinPrice + k - 1)])

Snapshot == SnapshotSide("Bid") \o SnapshotSide("Ask")

\* restore() up to its loop.  The image is not empty: that is a clear().
Restore(orderViews) ==
  /\ Idle
  /\ orderViews # <<>> /\ Len(orderViews) <= MaxOrders
  /\ Cleared
  /\ image' = orderViews /\ restored' = 0
  /\ before' = Queue

RestoreOwn == Restore(Snapshot) /\ own' = TRUE
RestoreForeign == \E orderViews \in Images : Restore(orderViews) /\ own' = FALSE

RestoreEnds == image' = <<>> /\ restored' = 0 /\ own' = FALSE /\ before' = NoQueue

\* One insert of the loop; restore() returns at the first that fails.
RestoreNext ==
  /\ ~Idle
  /\ LET o == image[restored + 1]
     IN  IF Accepts(o)
         THEN /\ AppendOrder(o)
              /\ IF restored + 1 = Len(image) THEN RestoreEnds
                 ELSE restored' = restored + 1 /\ UNCHANGED <<image, own, before>>
         ELSE RestoreEnds /\ UNCHANGED <<pool, index, sideVars>>

Orders == [id : Ids, side : Sides, price : Prices, remaining : Quantities]

Next == \/ \E o \in Orders : Insert(o)
        \/ \E id \in Ids : Erase(id)
        \/ \E id \in Ids, q \in Quantities : SetRemaining(id, q)
        \/ Clear \/ RestoreOwn \/ RestoreForeign \/ RestoreNext

Spec == Init /\ [][Next]_vars

-----------------------------------------------------------------------------
(* validate_invariants, the book's own check of itself in debug builds and   *)
(* tests.                                                                    *)

InUse == {slot \in Slots : orders[slot].inUse}
contains(slot) == slot \in InUse

validate_freelist ==
  LET free == Chain(freeHead)
  IN  /\ \A k \in DOMAIN free : ~contains(free[k])
      /\ IsInjective(free) /\ Len(free) = freeCount
      /\ \A slot \in Slots : contains(slot) \/ slot \in ToSet(free)

\* The counters of validate_side: a sum in the order of the loop.
Sum(numbers) ==
  LET sum[k \in 0 .. Len(numbers)] ==
        IF k = 0 THEN 0 ELSE sum[k - 1] + numbers[k]
  IN  sum[Len(numbers)]

SumRemaining(slots) == Sum([k \in DOMAIN slots |-> orders[slots[k]].remaining])

validate_level(level, fifo, s, p) ==
  IF level.count = 0 THEN level = EmptyLevel
  ELSE /\ contains(level.head) /\ contains(level.tail)
       /\ orders[level.head].prev = NoSlot /\ orders[level.tail].next = NoSlot
       /\ \A k \in DOMAIN fifo :
            LET o == orders[fifo[k]]
            IN  /\ contains(fifo[k])
                /\ o.remaining # 0 /\ o.side = s /\ o.price = p
                /\ o.prev = IF k = 1 THEN NoSlot ELSE fifo[k - 1]
       /\ level.tail = Last(fifo) /\ level.count = Len(fifo)
       /\ level.quantity = SumRemaining(fifo)

\* best_price: through the best segment and its mask.
BestPrice(s) == Extreme(s, active[s][best[s]])

\* best_order: the head of its level.
BestOrder(s) ==
  IF best[s] = NoSegment THEN NoSlot ELSE levels[s][BestPrice(s)].head

validate_side(fifos, s) ==
  LET filled == {p \in Prices : levels[s][p].count # 0}
      level(k) == levels[s][MinPrice + k - 1]
  IN  /\ \A p \in Prices : validate_level(levels[s][p], fifos[s][p], s, p)
      /\ \A g \in Segments :
           /\ active[s][g] = {p \in filled : SegmentOf(p) = g}
           /\ g \in occupied[s] <=> active[s][g] # {}
      /\ count[s] = Sum([k \in LevelNumbers |-> level(k).count])
      /\ total[s] = Sum([k \in LevelNumbers |-> level(k).quantity])
      /\ IF count[s] = 0 THEN best[s] = NoSegment
         ELSE /\ best[s] \in Segments /\ active[s][best[s]] # {}
              /\ BestPrice(s) = Extreme(s, filled)

\* How often a walk through all FIFOs meets a slot.
fifo_seen(fifos, slot) ==
  Cardinality({at \in Sides \X Prices : slot \in Range(fifos[at[1]][at[2]])})

\* Every slot in use is in one FIFO, and the index leads to it and nowhere else.
validate_invariants ==
  \E fifos \in {[s \in Sides |-> [p \in Prices |-> Fifo(s, p)]]} :
    LET indexed == {id \in Ids : index[id] # NoSlot}
    IN  /\ validate_freelist /\ \A s \in Sides : validate_side(fifos, s)
        /\ Cardinality(indexed) = count["Bid"] + count["Ask"]
        /\ \A slot \in Slots :
             IF contains(slot)
             THEN fifo_seen(fifos, slot) = 1 /\ index[orders[slot].id] = slot
             ELSE fifo_seen(fifos, slot) = 0
        /\ \A id \in indexed : contains(index[id]) /\ orders[index[id]].id = id

-----------------------------------------------------------------------------
(* Properties.                                                               *)

OrderType == [id : Ids \cup {0}, side : Sides, price : Prices \cup {0},
              remaining : Nat, prev : Slots \cup {NoSlot},
              next : Slots \cup {NoSlot}, inUse : BOOLEAN]

LevelType == [head : Slots \cup {NoSlot}, tail : Slots \cup {NoSlot},
              quantity : Nat, count : Nat]

TypeOK ==
  /\ orders \in [Slots -> OrderType]
  /\ freeHead \in Slots \cup {NoSlot} /\ freeCount \in 0 .. MaxOrders
  /\ index \in [Ids -> Slots \cup {NoSlot}]
  /\ levels \in [Sides -> [Prices -> LevelType]]
  /\ active \in [Sides -> [Segments -> SUBSET Prices]]
  /\ occupied \in [Sides -> SUBSET Segments]
  /\ best \in [Sides -> Segments \cup {NoSegment}]
  /\ count \in [Sides -> Nat] /\ total \in [Sides -> Nat]
  /\ restored \in 0 .. MaxOrders /\ own \in BOOLEAN

\* The free list visits every slot that is not in use, once.
FreelistExact ==
  /\ TypeOK
  /\ freeCount = MaxOrders - Cardinality(InUse)
  /\ ToSet(Chain(freeHead)) = Slots \ InUse

\* Every FIFO holds exactly the orders of its side and price, the index leads to
\* each, and validate_invariants accepts the book after every operation: it never
\* reports an error that is none.
FifosExact ==
  /\ \A s \in Sides, p \in Prices :
       ToSet(Fifo(s, p)) = {slot \in InUse : orders[slot].side = s
                                             /\ orders[slot].price = p}
  /\ \A s \in Sides : count[s] = Cardinality({slot \in InUse : orders[slot].side = s})
  /\ validate_invariants

\* The cached best segment and the two levels of bitmaps lead to the oldest
\* order of the best price that has any, after every removal and restore.
BestExact ==
  \A s \in Sides :
    LET prices == {p \in Prices : Fifo(s, p) # <<>>}
    IN  /\ \A g \in Segments :
             /\ active[s][g] = {p \in prices : SegmentOf(p) = g}
             /\ g \in occupied[s] <=> active[s][g] # {}
        /\ best[s] = Extreme(s, occupied[s])
        /\ BestOrder(s) = IF prices = {} THEN NoSlot
                          ELSE Head(Fifo(s, Extreme(s, prices)))

\* Pool, links, index and bitmaps together are a book of queues.
Book == INSTANCE PriceTimeBook WITH queue <- Queue

ImplementsPriceTimeBook == Book!Spec

\* A book restored from a snapshot of itself is the book, whatever slots its
\* orders had and have now.
SnapshotRoundTrip ==
  [][own /\ image' = <<>> => Queue' = before]_vars

\* DESIGN.md:114: "failure statuses leave the logical state unchanged".
\* README.md:104: "Failed operations leave the logical book unchanged."
FailedRestoreChangesNothing ==
  [][~Idle /\ image' = <<>> /\ ~Accepts(image[restored + 1])
       => Queue' = before]_vars
=============================================================================
