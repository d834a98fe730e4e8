------------------------------- MODULE Matcher -------------------------------
(***************************************************************************)
(* Matcher: processes ordered commands against the book and publishes        *)
(* events.  process() is a sequence of adds to the batch of the command.     *)
(* The batch holds one event back: an event is published, as not the last,   *)
(* when the next one is added, and the last one when the command ends.  One  *)
(* step here is the part of process() up to the next publication, because    *)
(* the event writer may fail at each and stop the matcher there.             *)
(*                                                                           *)
(* The environment is the tract.  In live mode it appends each command to    *)
(* the Command WAL; StartReplay follows a SaveSnapshot.  In replay mode it   *)
(* loads a snapshot, sends the commands recorded after it with their         *)
(* original sequences, and StopReplay at any time; then it loads the         *)
(* snapshot saved before StartReplay.                                        *)
(*                                                                           *)
(* The book is the one PriceTimeBook describes.  best() returns an order     *)
(* that rests, so erase() and set_remaining() of it succeed; every command   *)
(* adds an event, so CommandProducedNoEvent does not occur.                  *)
(***************************************************************************)
EXTENDS Integers, Sequences, FiniteSets, SequencesExt

CONSTANTS Ids,          \* OrderIds in use
          Prices,       \* min_price_tick .. max_price_tick
          MaxOrders,    \* capacity of the book
          Incoming,     \* [side, price, quantity] of incoming orders
          Controls,     \* types of the other commands of live mode
          MaxCommands   \* bound on the Command WAL

ASSUME MatcherAssumption ==
  /\ Ids \subseteq Nat \ {0} /\ Prices \subseteq Nat /\ IsFiniteSet(Prices)
  /\ MaxOrders \in Nat /\ MaxCommands \in Nat
  /\ Incoming \subseteq [side : {"Bid", "Ask"}, price : Nat, quantity : Nat]
  /\ Controls \subseteq {"SaveSnapshot", "LoadSnapshot", "Shutdown", "StartReplay",
                         "StopReplay", "None"}

VARIABLES book,                    \* book_
          lastOrderId,             \* last_order_id_
          nextEventSequence,       \* next_event_sequence_
          liveResumeEventSequence, \* live_resume_event_sequence_
          deferredEventSequence,   \* deferred_event_sequence_, 0 for none
          replayMode,              \* replay_mode_
          deferredMode,            \* deferred_mode_, "None" for none
          deferredStartReplay,     \* deferred_start_replay_
          running,                 \* running_
          fatalReason,             \* fatal_reason_; fatal_ is # "None"
          command,                 \* envelope of the last process()
          phase,                   \* where in process() it is
          remaining,               \* remaining of process_new_limit
          maker,                   \* resting->id that was erased
          pending, nextIndex,      \* CommandEventBatch
          wal,                     \* the Command WAL
          published,               \* events the writer has accepted
          store,                   \* images the snapshot store has captured
          cursor                   \* next command to replay, 0 before the load

replayVars == <<liveResumeEventSequence, deferredEventSequence, replayMode,
                deferredMode, deferredStartReplay>>
frame == <<command, phase, remaining, maker>>
batch == <<pending, nextIndex>>
environment == <<wal, store, cursor>>
vars == <<book, lastOrderId, nextEventSequence, replayVars, running, fatalReason,
          frame, batch, published, environment>>

Book == INSTANCE PriceTimeBook
          WITH queue <- book, Quantities <- {o.quantity : o \in Incoming}

NoBook == [s \in Book!Sides |-> [p \in Prices |-> <<>>]]

None == [type |-> "None"]
Event(type) == [type |-> type]
OrderEvent(type, id) == [type |-> type, id |-> id]
SnapshotFailed == OrderEvent("MatcherFatal", 0)
LoadMessage(of) == [type |-> "LoadSnapshot", of |-> of]
Trade(id, with, price, quantity) ==
  [type |-> "Trade", id |-> id, maker |-> with, price |-> price,
   quantity |-> quantity]
Rested(o, quantity) ==
  [type |-> "Rested", id |-> o.id, side |-> o.side, price |-> o.price,
   quantity |-> quantity]

Init ==
  /\ book = NoBook /\ lastOrderId = 0 /\ nextEventSequence = 1
  /\ liveResumeEventSequence = 0 /\ deferredEventSequence = 0
  /\ replayMode = "Live" /\ deferredMode = "None" /\ deferredStartReplay = FALSE
  /\ running = TRUE /\ fatalReason = "None"
  /\ command = [sequence |-> 0, replayed |-> FALSE, message |-> None]
  /\ phase = "Idle" /\ remaining = 0 /\ maker = 0
  /\ pending = None /\ nextIndex = 0
  /\ wal = <<>> /\ published = <<>> /\ store = {} /\ cursor = 0

-----------------------------------------------------------------------------
(* Events.                                                                   *)

Fatal == fatalReason # "None"

\* What the batch publishes, with what a later reader knows of the moment.
Envelope(last) ==
  [sequence |-> nextEventSequence, cause |-> command.sequence,
   index |-> nextIndex - 1, last |-> last, event |-> pending,
   from |-> IF replayMode = "Live" THEN "Live"
            ELSE IF command.replayed THEN "Replayed" ELSE "Session"]

\* publish_event succeeds.
Publish(last) == /\ published' = Append(published, Envelope(last))
                 /\ nextEventSequence' = nextEventSequence + 1

\* Mutation of Add: the event held back is published as the last.
AddAsLast(event) == /\ Publish(TRUE)
                    /\ pending' = event /\ nextIndex' = nextIndex + 1

\* add() when an event is held back.
Add(event) == /\ Publish(FALSE)
              /\ pending' = event /\ nextIndex' = nextIndex + 1

\* The first add() of a command.
AddFirst(event) == /\ pending' = event /\ nextIndex' = 1
                   /\ UNCHANGED <<published, nextEventSequence>>

\* publish_event fails: the event may have been accepted all the same.
WriterFails(last) ==
  /\ published' \in {published, Append(published, Envelope(last))}
  /\ fatalReason' = "EventWriterFatal" /\ running' = FALSE
  /\ phase' = "Idle" /\ pending' = None
  /\ UNCHANGED <<lastOrderId, nextEventSequence, replayVars, command, remaining,
                 maker, nextIndex, environment>>

\* transition_to_fatal_state
Terminal(reason) == fatalReason' = reason /\ running' = FALSE

Healthy == UNCHANGED <<fatalReason, running>>

-----------------------------------------------------------------------------
(* New orders.                                                               *)

Opposite(side) == IF side = "Bid" THEN "Ask" ELSE "Bid"

\* Mutation of Crosses: equal prices do not cross.
CrossesStrictly(side, price, resting) ==
  IF side = "Bid" THEN price > resting ELSE price < resting

Crosses(side, price, resting) ==
  IF side = "Bid" THEN price >= resting ELSE price <= resting

Idle == phase = "Idle" /\ running /\ ~Fatal

\* process() up to its switch.
Begin(sequence, replayed, message) ==
  /\ Idle
  /\ command' = [sequence |-> sequence, replayed |-> replayed, message |-> message]

\* Mutation of Consume: an order that is rejected does not use up its id.
ConsumeIfValid(o) ==
  lastOrderId' = IF o.quantity = 0 THEN lastOrderId ELSE o.id

\* The id is used up whatever happens to the order.
Consume(o) == lastOrderId' = o.id

\* Mutation of Stale: the last id again is not stale.
StaleStrictly(o) == o.id < lastOrderId

Stale(o) == o.id <= lastOrderId

\* process_new_limit up to its loop.
NewLimit(o) ==
  /\ IF Stale(o)
     THEN /\ AddFirst(OrderEvent("MatcherFatal", o.id))
          /\ Terminal("NonMonotonicOrderId")
          /\ phase' = "Finish" /\ UNCHANGED <<lastOrderId, remaining>>
     ELSE /\ Consume(o) /\ Healthy
          /\ IF o.quantity = 0
             THEN /\ AddFirst(OrderEvent("Rejected", o.id))
                  /\ phase' = "Finish" /\ UNCHANGED remaining
             ELSE /\ AddFirst(OrderEvent("Accepted", o.id))
                  /\ phase' = "Match" /\ remaining' = o.quantity
  /\ UNCHANGED <<book, maker, replayVars, store>>

Order == command.message.order
Resting == Book!Best(Opposite(Order.side))

CanTrade ==
  /\ remaining # 0
  /\ Book!ActivePrices(Opposite(Order.side)) # {}
  /\ Crosses(Order.side, Order.price, Book!BestPrice(Opposite(Order.side)))

Executed == IF remaining < Resting.remaining THEN remaining ELSE Resting.remaining

\* Mutation of UpdateMaker: a maker filled in part keeps its quantity.
UpdateMakerForgotten == UNCHANGED book

UpdateMaker == Book!Change(book, Resting.id, Resting.remaining - Executed)

\* One turn of the loop, to the next publication.
MatchOne ==
  /\ phase = "Match" /\ CanTrade
  /\ Add(Trade(Order.id, Resting.id,
               Book!BestPrice(Opposite(Order.side)), Executed))
  /\ remaining' = remaining - Executed
  /\ IF Executed = Resting.remaining
     THEN /\ Book!Cancel(book, Resting.id)
          /\ maker' = Resting.id /\ phase' = "MakerDone"
     ELSE UpdateMaker /\ UNCHANGED <<maker, phase>>
  /\ Healthy /\ UNCHANGED <<lastOrderId, replayVars, command, environment>>

MakerDone ==
  /\ phase = "MakerDone"
  /\ Add(OrderEvent("Done", maker))
  /\ phase' = "Match" /\ maker' = 0 /\ Healthy
  /\ UNCHANGED <<book, lastOrderId, replayVars, command, remaining, environment>>

\* insert() succeeds.
CanRest == /\ Order.price \in Prices
           /\ ~Book!Resting(book, Order.id)
           /\ Cardinality(Book!Places(book)) < MaxOrders

\* process_new_limit after its loop.
MatchEnds ==
  /\ phase = "Match" /\ ~CanTrade
  /\ phase' = "Finish"
  /\ \/ /\ remaining = 0
        /\ Add(OrderEvent("Done", Order.id)) /\ Healthy /\ UNCHANGED book
     \/ /\ remaining # 0 /\ CanRest
        /\ Book!Rest(book, Order.id, Order.side, Order.price, remaining)
        /\ Add(Rested(Order, remaining)) /\ Healthy
     \/ /\ remaining # 0 /\ ~CanRest /\ UNCHANGED book
        /\ IF remaining = Order.quantity
           THEN Add(OrderEvent("Rejected", Order.id)) /\ Healthy
           ELSE /\ Add(OrderEvent("MatcherFatal", Order.id))
                /\ Terminal("BookInsertFailedAfterExecution")
  /\ UNCHANGED <<lastOrderId, replayVars, command, remaining, maker, environment>>

\* add() fails.  An order that rests has been inserted before.
AddFails ==
  /\ phase \in {"Match", "MakerDone"}
  /\ WriterFails(FALSE)
  /\ IF phase = "Match" /\ ~CanTrade /\ remaining # 0 /\ CanRest
     THEN Book!Rest(book, Order.id, Order.side, Order.price, remaining)
     ELSE UNCHANGED book

-----------------------------------------------------------------------------
(* Other commands.                                                           *)

\* Mutation of CaptureSequence: the event of this command is not counted.
CaptureSequenceNow == nextEventSequence

\* The sequence of the first event after this command.
CaptureSequence == nextEventSequence + 1

SaveSnapshot(sequence) ==
  /\ phase' = "Finish"
  /\ \/ /\ store' = {image \in store : image.of # sequence} \cup
                      {[of |-> sequence, lastOrderId |-> lastOrderId,
                        nextEventSequence |-> CaptureSequence, book |-> book]}
        /\ AddFirst(Event("SaveSnapshot")) /\ Healthy
     \/ /\ AddFirst(SnapshotFailed)
        /\ Terminal("SnapshotCaptureFailed")
        /\ UNCHANGED store
  /\ UNCHANGED <<book, lastOrderId, replayVars, remaining, maker>>

LoadState(image) == book' = image.book /\ lastOrderId' = image.lastOrderId

\* Mutation of LoadDeferred: the live cursor comes from the snapshot, too.
LoadDeferredFromImage(image) ==
  /\ deferredEventSequence' = IF replayMode # "Live"
                              THEN image.nextEventSequence
                              ELSE deferredEventSequence
  /\ deferredMode' = IF replayMode = "Restoring" THEN "Live" ELSE deferredMode

\* Takes effect after the event of this command.
LoadDeferred(image) ==
  /\ deferredEventSequence' =
       CASE replayMode = "Replay" -> image.nextEventSequence
         [] replayMode = "Restoring" -> liveResumeEventSequence
         [] replayMode = "Live" -> deferredEventSequence
  /\ deferredMode' = IF replayMode = "Restoring" THEN "Live" ELSE deferredMode

\* What restore() has inserted of book q when it refuses the order at a place: the
\* orders before it in an image, bids before asks, by price and then by time.
RestoredBefore(q, place) ==
  [s \in Book!Sides |-> [p \in Prices |->
     IF s = place[1] /\ p = place[2] THEN SubSeq(q[s][p], 1, place[3] - 1)
     ELSE IF \/ s = "Bid" /\ place[1] = "Ask"
             \/ s = place[1] /\ p < place[2] THEN q[s][p]
     ELSE <<>>]]

RefusedRestores(of) ==
  UNION {{RestoredBefore(image.book, place) : place \in Book!Places(image.book)} :
           image \in {i \in store : i.of = of}}

\* The load may find no image, an image of another configuration, or one with an
\* order that the book refuses.
LoadSnapshot(of) ==
  /\ phase' = "Finish"
  /\ \/ \E image \in store :
          /\ image.of = of
          /\ LoadState(image) /\ LoadDeferred(image)
          /\ AddFirst(LoadMessage(of)) /\ Healthy
     \/ /\ AddFirst(SnapshotFailed)
        /\ \/ Terminal("SnapshotLoadUnavailable") /\ UNCHANGED book
           \/ /\ Terminal("SnapshotLoadInvalid")
              /\ book' \in {book, NoBook} \cup RefusedRestores(of)
        /\ UNCHANGED <<lastOrderId, deferredEventSequence, deferredMode>>
  /\ UNCHANGED <<liveResumeEventSequence, replayMode, deferredStartReplay,
                 remaining, maker, store>>

\* Commands that are all event.  An unknown one is rejected.
Signal(type) ==
  /\ phase' = "Finish"
  /\ AddFirst(IF type = "None" THEN OrderEvent("Rejected", 0) ELSE Event(type))
  /\ running' = (type # "Shutdown") /\ UNCHANGED fatalReason
  /\ deferredStartReplay' = (type = "StartReplay" /\ replayMode = "Live")
  /\ deferredMode' = IF type = "StopReplay" /\ replayMode = "Replay"
                     THEN "Restoring" ELSE deferredMode
  /\ UNCHANGED <<book, lastOrderId, liveResumeEventSequence,
                 deferredEventSequence, replayMode, remaining, maker, store>>

Signals == {"None", "Shutdown", "StartReplay", "StopReplay"}

\* The switch of process().
Dispatch(sequence, message) ==
  \/ message.type = "NewLimit" /\ NewLimit(message.order)
  \/ message.type = "SaveSnapshot" /\ SaveSnapshot(sequence)
  \/ message.type = "LoadSnapshot" /\ LoadSnapshot(message.of)
  \/ message.type \in Signals /\ Signal(message.type)

\* apply_deferred_replay_transition, after the event has been counted.
ApplyDeferred ==
  /\ liveResumeEventSequence' = IF deferredStartReplay THEN nextEventSequence + 1
                                ELSE liveResumeEventSequence
  /\ nextEventSequence' = IF deferredEventSequence # 0 THEN deferredEventSequence
                          ELSE nextEventSequence + 1
  /\ replayMode' = IF deferredMode # "None" THEN deferredMode
                   ELSE IF deferredStartReplay THEN "Replay" ELSE replayMode
  /\ deferredStartReplay' = FALSE /\ deferredEventSequence' = 0
  /\ deferredMode' = "None"

\* finish() and the end of process().
Finish ==
  /\ phase = "Finish"
  /\ published' = Append(published, Envelope(TRUE))
  /\ ApplyDeferred
  /\ phase' = "Idle" /\ pending' = None
  /\ Healthy
  /\ UNCHANGED <<book, lastOrderId, command, remaining, maker, nextIndex, environment>>

FinishFails == phase = "Finish" /\ WriterFails(TRUE) /\ UNCHANGED book

\* run() when the reader fails.
ReaderFails == /\ Idle /\ Terminal("CommandReaderFatal")
               /\ UNCHANGED <<book, lastOrderId, nextEventSequence, replayVars,
                              frame, batch, published, environment>>

-----------------------------------------------------------------------------
(* The tract.                                                                *)

Message(type) == [type |-> type]

Orders == {[id |-> id, side |-> o.side, price |-> o.price, quantity |-> o.quantity] :
             id \in Ids, o \in Incoming}

LiveMessages == {[type |-> "NewLimit", order |-> o] : o \in Orders}
                  \cup {Message(type) : type \in Controls \ {"LoadSnapshot"}}
                  \cup {LoadMessage(image.of) :
                          image \in {i \in store : "LoadSnapshot" \in Controls}}

\* A live command is recorded and processed.
Live(message) ==
  /\ replayMode = "Live" /\ Len(wal) < MaxCommands
  /\ message.type = "StartReplay" => wal # <<>> /\ Last(wal).type = "SaveSnapshot"
  /\ message.type = "NewLimit" => message.order.id <= lastOrderId + 1
  /\ Begin(Len(wal) + 1, FALSE, message)
  /\ Dispatch(Len(wal) + 1, message)
  /\ wal' = Append(wal, message) /\ cursor' = 0

\* A command of the replay session itself: it is not recorded.
Control(message) == /\ Begin(Len(wal) + 1, FALSE, message)
                    /\ Dispatch(Len(wal) + 1, message)
                    /\ UNCHANGED wal

ReplayLoad(of) == /\ replayMode = "Replay" /\ cursor = 0
                  /\ Control(LoadMessage(of)) /\ cursor' = of + 1

\* A recorded command from before StartReplay, the last one.
ReplayNext == /\ replayMode = "Replay" /\ cursor \in 1 .. Len(wal) - 1
              /\ Begin(cursor, TRUE, wal[cursor])
              /\ Dispatch(cursor, wal[cursor])
              /\ cursor' = cursor + 1 /\ UNCHANGED wal

ReplayStop == /\ replayMode = "Replay" /\ cursor # 0
              /\ Control(Message("StopReplay")) /\ UNCHANGED cursor

Restore == /\ replayMode = "Restoring"
           /\ Control(LoadMessage(Len(wal) - 1)) /\ UNCHANGED cursor

Next == \/ \E message \in LiveMessages : Live(message)
        \/ \E image \in store : ReplayLoad(image.of)
        \/ ReplayNext \/ ReplayStop \/ Restore
        \/ MatchOne \/ MakerDone \/ MatchEnds \/ AddFails
        \/ Finish \/ FinishFails \/ ReaderFails

Spec == Init /\ [][Next]_vars

-----------------------------------------------------------------------------
(* Properties.                                                               *)

\* The orders that rest.
RestsInBook ==
  {[id |-> book[place[1]][place[2]][place[3]].id, side |-> place[1],
    price |-> place[2], remaining |-> book[place[1]][place[2]][place[3]].remaining] :
     place \in Book!Places(book)}

TypeOK ==
  /\ \A order \in RestsInBook : order.id \in Ids /\ order.remaining \in Nat \ {0}
  /\ lastOrderId \in Ids \cup {0}
  /\ nextEventSequence \in Nat \ {0}
  /\ liveResumeEventSequence \in Nat /\ deferredEventSequence \in Nat
  /\ replayMode \in {"Live", "Replay", "Restoring"}
  /\ deferredMode \in {"None", "Live", "Restoring"}
  /\ deferredStartReplay \in BOOLEAN /\ running \in BOOLEAN
  /\ phase \in {"Idle", "Match", "MakerDone", "Finish"}
  /\ remaining \in Nat /\ maker \in Ids \cup {0} /\ nextIndex \in Nat
  /\ cursor \in 0 .. MaxCommands + 1

LiveEvents ==
  LET live[k \in 0 .. Len(published)] ==
        IF k = 0 THEN <<>>
        ELSE IF published[k].from = "Live" THEN Append(live[k - 1], published[k])
        ELSE live[k - 1]
  IN  live[Len(published)]

\* No live event lies between events j and k of a stream.
NoLiveBetween(events, j, k) == \A i \in j + 1 .. k - 1 : events[i].from # "Live"

\* The first event of the Event WAL, and an event e that follows event d there.
First(e) == e.sequence = 1 /\ e.index = 0 /\ e.cause = 1
Follows(d, e) ==
  /\ e.sequence = d.sequence + 1
  /\ IF d.last THEN e.index = 0 /\ e.cause = d.cause + 1
     ELSE e.index = d.index + 1 /\ e.cause = d.cause

\* Every live event follows the live event before it.
InOrder(events) ==
  \A k \in DOMAIN events : events[k].from = "Live" =>
    /\ NoLiveBetween(events, 0, k) => First(events[k])
    /\ \A j \in 1 .. k - 1 :
         events[j].from = "Live" /\ NoLiveBetween(events, j, k) =>
           Follows(events[j], events[k])

\* README.md:48: events of a command are contiguous, zero-based, and only the
\* last says so; Event WAL sequences have no gap and no repetition, commands no
\* gap: also when the matcher has been through a replay or was stopped by the
\* writer in the middle of a command.
EventStreamExact == InOrder(published)

\* What a reader of events, to whom orders r rest, learns from event e.
Learned(r, e) ==
  CASE e.type = "Rested" -> r \cup {[id |-> e.id, side |-> e.side, price |-> e.price,
                                     remaining |-> e.quantity]}
    [] e.type = "Trade"  -> {IF o.id = e.maker
                             THEN [o EXCEPT !.remaining = @ - e.quantity] ELSE o : o \in r}
    [] e.type = "Done"   -> {o \in r : o.id # e.id}
    [] OTHER             -> r

\* The orders that rest, as a reader of the events knows them.
RestsIn(events) ==
  LET known[k \in 0 .. Len(events)] ==
        IF k = 0 THEN {} ELSE Learned(known[k - 1], events[k])
  IN  known[Len(events)]

EventsOf(envelopes) == [k \in DOMAIN envelopes |-> envelopes[k].event]

\* Between two commands a reader of the events knows the book: every order
\* that rests and what is left of it.
BookMatchesEvents ==
  phase = "Idle" /\ replayMode = "Live" /\ fatalReason = "None"
    => RestsInBook = RestsIn(EventsOf(LiveEvents))

\* Every trade of the last event is with the oldest order, by id, of the best
\* price among those the events before it say rest, at that order's price.
PriceTimePriority ==
  LET events == EventsOf(LiveEvents)
  IN  events # <<>> /\ Last(events).type = "Trade" =>
        LET trade == Last(events)
            o == wal[Last(LiveEvents).cause].order
            there == {r \in RestsIn(Front(events)) : r.side = Opposite(o.side)}
        IN  \E r \in there :
              /\ r.id = trade.maker /\ r.price = trade.price
              /\ Crosses(o.side, o.price, r.price)
              /\ trade.quantity <= r.remaining
              /\ \A other \in there :
                   \/ Book!AtLeastAsGood(r.side, r.price, other.price)
                        /\ r.price # other.price
                   \/ r.price = other.price /\ r.id <= other.id

\* The book is never crossed, whatever the matcher was stopped in.
BookUncrossed ==
  \A bid \in Book!ActivePrices("Bid"), ask \in Book!ActivePrices("Ask") : bid < ask

\* What order id has taken from those that rested.
TakenBy(id, events) ==
  LET taken[k \in 0 .. Len(events)] ==
        IF k = 0 THEN 0
        ELSE IF events[k].type = "Trade" /\ events[k].id = id
             THEN taken[k - 1] + events[k].quantity
        ELSE taken[k - 1]
  IN  taken[Len(events)]

\* What became of an order adds up: traded, and then resting or nothing left;
\* and a rejected order has not traded.
OrdersAddUp ==
  LET events == EventsOf(LiveEvents)
  IN  /\ TypeOK
      /\ phase = "Idle" /\ fatalReason = "None" =>
        \A c \in {c \in DOMAIN wal : wal[c].type = "NewLimit"} :
          LET o == wal[c].order
              of(type) == {k \in DOMAIN events :
                             events[k].type = type /\ events[k].id = o.id}
              rested == of("Rested")
              taken == TakenBy(o.id, events)
          IN  /\ of("Rejected") # {} => taken = 0 /\ rested = {} /\ of("Done") = {}
              /\ rested # {} => Cardinality(rested) = 1 /\
                   \A k \in rested : taken + events[k].quantity = o.quantity
              /\ rested = {} /\ of("Rejected") = {} =>
                   taken = o.quantity /\ Cardinality(of("Done")) = 1

\* Only a price outside the book can stop the matcher for an order that was
\* executed in part: there is always room for the rest of it.
RestAlwaysFits ==
  fatalReason = "BookInsertFailedAfterExecution" => Order.price \notin Prices

\* A replayed command publishes the events it published when it was live, with
\* the same sequences, as long as the snapshot store works.
ReplayReproduces ==
  \A k \in DOMAIN published :
    LET e == published[k]
    IN  e.from = "Replayed" /\ e.event # SnapshotFailed =>
          \E j \in 1 .. k - 1 : published[j] = [e EXCEPT !.from = "Live"]

\* Back in live mode the matcher is as StartReplay left it.
ReplayLeavesNoTrace ==
  phase = "Idle" /\ replayMode = "Live" /\ cursor # 0 /\ ~Fatal =>
    /\ nextEventSequence = Len(LiveEvents) + 1
    /\ \E image \in store : /\ image.of = Len(wal) - 1
                            /\ book = image.book /\ lastOrderId = image.lastOrderId
=============================================================================
