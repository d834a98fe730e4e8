-------------------------------- MODULE Wal ---------------------------------
(***************************************************************************)
(* The write-ahead log: WalCore (the bounded ring with its head and tail     *)
(* frontiers), the PersistenceSlider (Slider + BoundedRangeAcquire +         *)
(* PersistenceBatchPublish) over the PersistenceModule, and the facade Wal   *)
(* that gives one operation to each of three concurrent roles:               *)
(*                                                                           *)
(*   producer  --head-->  persister  --durable-->  consumer  --tail--> ...   *)
(*                                                                           *)
(* Each role has a program counter; a step makes at most one access to an    *)
(* atomic of another role (the two loads of try_view are one step), so that  *)
(* every interleaving of the loads, copies and stores of the calls is a      *)
(* behaviour.  A fourth role only calls snapshot().  A call that the code    *)
(* rejects without changing anything is a stuttering step.                   *)
(*                                                                           *)
(* Data: the record published at position p carries the payload p; -1 is a   *)
(* zeroed block and -2 a block in the middle of a copy.                      *)
(* Bounds: MaxSequence stands for the largest uint64, the bound at which the *)
(* code itself stops publishing; no other bound is needed.                   *)
(***************************************************************************)
EXTENDS Integers, Sequences

CONSTANTS Capacity,      \* WalConfig.capacity
          FirstSequence, \* WalConfig.first_sequence
          MaxSequence,   \* largest physical sequence (2^64 - 1 in the code)
          BatchSizes     \* values callers pass to advance_durable

ASSUME WalAssumption ==
  /\ Capacity \in Nat \ {0}
  /\ FirstSequence \in Nat \ {0}
  /\ MaxSequence \in Nat
  /\ FirstSequence <= MaxSequence
  /\ BatchSizes \subseteq Nat

VARIABLES
  open,       \* Wal::open_ (and WalCore::open_)
  lastClose,  \* status of the last effective close(), or "None"
  head,       \* WalCore::head_frontier_
  tail,       \* WalCore::tail_frontier_
  headSlot,   \* WalCore::head_slot_
  slots,      \* WalCore::storage_
  exhausted,  \* WalCore::sequence_exhausted_
  durable,    \* Wal::durable_progress_
  current,    \* Slider::current_
  batchEnd,   \* range.end of the running process_available()
  failed,     \* PersistenceModule::failed_
  file,       \* payloads of the complete records appended to the file
  torn,       \* a partial record follows them
  synced,     \* how many of them a successful sync has covered
  producer, persister, consumer,  \* program counters of the three roles
  consumed,   \* history: payloads returned by try_consume, oldest first
  snap        \* loads made so far by the running or last snapshot()

coreVars == <<head, tail, headSlot, slots, exhausted>>
diskVars == <<failed, file, torn, synced>>
sliderVars == <<durable, current, batchEnd>>
lifeVars == <<open, lastClose>>
vars == <<coreVars, diskVars, sliderVars, lifeVars, producer, persister,
          consumer, consumed, snap>>

Zeroed == -1
HalfCopied == -2
Slots == 0 .. Capacity - 1
MaxRecords == MaxSequence - FirstSequence + 1

NextSlot(slot) == IF slot + 1 = Capacity THEN 0 ELSE slot + 1

SlotOf(position) == position % Capacity

\* What try_view(position) finds: the position is retained.
Viewable(position) == tail <= position /\ position < head

\* Mutation of RangeEnd: waits for a full batch.
RangeEndFullBatch(begin, available, maximum) ==
  IF available <= begin \/ available - begin < maximum THEN begin
  ELSE begin + maximum

\* The range BoundedRangeAcquire selects, given the acquired upstream end.
RangeEnd(begin, available, maximum) ==
  IF available <= begin THEN begin
  ELSE IF available - begin < maximum THEN available ELSE begin + maximum

NoSnapshot == [loads |-> 0, tail |-> 0, durable |-> 0, head |-> 0]

RolesIdle == /\ producer = "idle" /\ persister = "idle" /\ consumer = "idle"
             /\ snap.loads \in {0, 3}

-----------------------------------------------------------------------------
(* Construction and Wal::open.                                              *)

Init == /\ open = FALSE /\ lastClose = "None"
        /\ head = 0 /\ tail = 0 /\ headSlot = 0 /\ exhausted = FALSE
        /\ slots = [s \in Slots |-> Zeroed]
        /\ durable = 0 /\ current = 0 /\ batchEnd = 0
        /\ failed = FALSE /\ file = <<>> /\ torn = FALSE /\ synced = 0
        /\ producer = "idle" /\ persister = "idle" /\ consumer = "idle"
        /\ consumed = <<>> /\ snap = NoSnapshot

\* WalCore::open: it comes first in Wal::open and is not undone, except for
\* the open flag and the storage, when the file cannot be created.
CoreOpen == /\ head' = 0 /\ tail' = 0 /\ headSlot' = 0 /\ exhausted' = FALSE
            /\ slots' = [s \in Slots |-> Zeroed]

Open == /\ ~open /\ RolesIdle
        /\ CoreOpen
        /\ failed' = FALSE /\ file' = <<>> /\ torn' = FALSE /\ synced' = 0
        /\ durable' = 0 /\ current' = 0 /\ batchEnd' = 0
        /\ open' = TRUE
        /\ consumed' = <<>> /\ snap' = NoSnapshot
        /\ UNCHANGED <<lastClose, producer, persister, consumer>>

OpenFails == /\ ~open /\ RolesIdle
             /\ CoreOpen
             /\ UNCHANGED <<diskVars, sliderVars, lifeVars, producer,
                            persister, consumer, consumed, snap>>

-----------------------------------------------------------------------------
(* Producer: Wal::try_publish, then WalCore::try_publish.                    *)

\* Mutation of PublishCheck: failed_ is not consulted.
PublishCheckIgnoresFailure ==
  /\ open /\ producer = "idle" /\ ~exhausted
  /\ producer' = "checked"
  /\ UNCHANGED <<coreVars, diskVars, sliderVars, lifeVars, persister,
                 consumer, consumed, snap>>

\* The checks of the facade: open_, sequence_exhausted_ and failed_.
PublishCheck == /\ open /\ producer = "idle"
                /\ ~exhausted /\ ~failed
                /\ producer' = "checked"
                /\ UNCHANGED <<coreVars, diskVars, sliderVars, lifeVars,
                               persister, consumer, consumed, snap>>

\* The load of tail: Full, SequenceExhausted, or go on to the copy.
Full == head - tail = Capacity
LastPosition == MaxSequence - FirstSequence

PublishLoadTail ==
  /\ producer = "checked"
  /\ \/ /\ Full
        /\ producer' = "idle" /\ UNCHANGED exhausted
     \/ /\ ~Full /\ head > LastPosition
        /\ exhausted' = TRUE /\ producer' = "idle"
     \/ /\ ~Full /\ head <= LastPosition
        /\ producer' = "copy" /\ UNCHANGED exhausted
  /\ UNCHANGED <<head, tail, headSlot, slots, diskVars, sliderVars, lifeVars,
                 persister, consumer, consumed, snap>>

\* Mutation of PublishCopyBegin: head is stored before the copy.
PublishHeadBeforeCopy ==
  /\ producer = "copy"
  /\ head' = head + 1
  /\ slots' = [slots EXCEPT ![headSlot] = HalfCopied]
  /\ producer' = "copying"
  /\ UNCHANGED <<tail, headSlot, exhausted, diskVars, sliderVars, lifeVars,
                 persister, consumer, consumed, snap>>

\* memcpy into the block at head_slot_: begin and end.
PublishCopyBegin ==
  /\ producer = "copy"
  /\ slots' = [slots EXCEPT ![headSlot] = HalfCopied]
  /\ producer' = "copying"
  /\ UNCHANGED <<head, tail, headSlot, exhausted, diskVars, sliderVars,
                 lifeVars, persister, consumer, consumed, snap>>

PublishCopyEnd ==
  /\ producer = "copying"
  /\ slots' = [slots EXCEPT ![headSlot] = head]
  /\ headSlot' = NextSlot(headSlot)
  /\ producer' = "copied"
  /\ UNCHANGED <<head, tail, exhausted, diskVars, sliderVars, lifeVars,
                 persister, consumer, consumed, snap>>

PublishHead ==
  /\ producer = "copied"
  /\ head' = head + 1
  /\ producer' = "idle"
  /\ UNCHANGED <<tail, headSlot, slots, exhausted, diskVars, sliderVars,
                 lifeVars, persister, consumer, consumed, snap>>

Producer == PublishCheck \/ PublishLoadTail \/ PublishCopyBegin
              \/ PublishCopyEnd \/ PublishHead

-----------------------------------------------------------------------------
(* Persister: Wal::advance_durable, which runs Slider::process_available     *)
(* with BoundedRangeAcquire and PersistenceBatchPublish.                     *)

\* Mutation of AdvanceBegin: a failed batch is tried again from durable.
AdvanceBeginRetries(batch) ==
  /\ open /\ persister = "idle"
  /\ RangeEnd(durable, head, batch) > durable
  /\ current' = durable
  /\ batchEnd' = RangeEnd(durable, head, batch)
  /\ persister' = "view"
  /\ UNCHANGED <<coreVars, diskVars, durable, lifeVars, producer, consumer,
                 consumed, snap>>

\* The checks on own state, the load of head and the selection of the range.
\* durable # current is SliderStatus::ProgressMismatch.
AdvanceBegin(batch) ==
  /\ open /\ persister = "idle"
  /\ ~failed
  /\ durable = current
  /\ RangeEnd(current, head, batch) > current
  /\ batchEnd' = RangeEnd(current, head, batch)
  /\ persister' = "view"
  /\ UNCHANGED <<coreVars, diskVars, durable, current, lifeVars, producer,
                 consumer, consumed, snap>>

\* source_.try_view(current_): a failure leaves the loop as ViewUnavailable.
AdvanceView ==
  /\ persister = "view"
  /\ persister' = IF Viewable(current) THEN "append" ELSE "idle"
  /\ UNCHANGED <<coreVars, diskVars, sliderVars, lifeVars, producer, consumer,
                 consumed, snap>>

\* module_.process(record) = PersistenceModule::append, ++current_, and
\* after_process, which holds.
AdvanceAppend ==
  /\ persister = "append"
  /\ file' = Append(file, slots[SlotOf(current)])
  /\ current' = current + 1
  /\ persister' = IF current + 1 < batchEnd THEN "view" ELSE "sync"
  /\ UNCHANGED <<coreVars, failed, torn, synced, durable, batchEnd, lifeVars,
                 producer, consumer, consumed, snap>>

\* append_record fails before, within or after its last write.
AppendFails ==
  /\ persister = "append"
  /\ failed' = TRUE
  /\ torn' \in BOOLEAN
  /\ persister' = "idle"
  /\ UNCHANGED <<coreVars, file, synced, sliderVars, lifeVars, producer,
                 consumer, consumed, snap>>

\* after_range: PersistenceModule::sync decides Publish or Failed.
AdvanceSync ==
  /\ persister = "sync"
  /\ synced' = Len(file)
  /\ persister' = "publish"
  /\ UNCHANGED <<coreVars, failed, file, torn, sliderVars, lifeVars, producer,
                 consumer, consumed, snap>>

SyncFails ==
  /\ persister = "sync"
  /\ failed' = TRUE
  /\ persister' = "idle"
  /\ UNCHANGED <<coreVars, file, torn, synced, sliderVars, lifeVars, producer,
                 consumer, consumed, snap>>

\* Progress::Writer::publish(current_): never moves backward.
AdvancePublish ==
  /\ persister = "publish"
  /\ durable' = IF current < durable THEN durable ELSE current
  /\ persister' = "idle"
  /\ UNCHANGED <<coreVars, diskVars, current, batchEnd, lifeVars, producer,
                 consumer, consumed, snap>>

Persister == \/ \E batch \in BatchSizes : AdvanceBegin(batch)
             \/ AdvanceView \/ AdvanceAppend \/ AppendFails
             \/ AdvanceSync \/ SyncFails \/ AdvancePublish

-----------------------------------------------------------------------------
(* Consumer: Wal::try_consume.                                               *)

\* Mutation of ConsumeBegin: the consumer stops with the persistence.
ConsumeBeginIfHealthy ==
  /\ open /\ consumer = "idle"
  /\ tail # durable /\ ~failed
  /\ consumer' = "view"
  /\ UNCHANGED <<coreVars, diskVars, sliderVars, lifeVars, producer,
                 persister, consumed, snap>>

\* tail is its own; durable is acquired.  Equal means Empty.
ConsumeBegin ==
  /\ open /\ consumer = "idle"
  /\ tail # durable
  /\ consumer' = "view"
  /\ UNCHANGED <<coreVars, diskVars, sliderVars, lifeVars, producer,
                 persister, consumed, snap>>

ConsumeView ==
  /\ consumer = "view"
  /\ consumer' = IF Viewable(tail) THEN "copy" ELSE "idle"
  /\ UNCHANGED <<coreVars, diskVars, sliderVars, lifeVars, producer,
                 persister, consumed, snap>>

ConsumeCopy ==
  /\ consumer = "copy"
  /\ consumed' = Append(consumed, slots[SlotOf(tail)])
  /\ consumer' = "reclaim"
  /\ UNCHANGED <<coreVars, diskVars, sliderVars, lifeVars, producer,
                 persister, snap>>

\* WalCore::reclaim(tail + 1); its status is ignored by try_consume.
ConsumeReclaim ==
  /\ consumer = "reclaim"
  /\ tail' = IF tail + 1 > head THEN tail ELSE tail + 1
  /\ consumer' = "idle"
  /\ UNCHANGED <<head, headSlot, slots, exhausted, diskVars, sliderVars,
                 lifeVars, producer, persister, consumed, snap>>

Consumer == ConsumeBegin \/ ConsumeView \/ ConsumeCopy \/ ConsumeReclaim

-----------------------------------------------------------------------------
(* Wal::snapshot by any other thread: three loads, tail first.               *)

SnapshotUnchanged == UNCHANGED <<coreVars, diskVars, sliderVars, lifeVars,
                                 producer, persister, consumer, consumed>>

SnapshotTail ==
  /\ open /\ snap.loads \in {0, 3}
  /\ snap' = [loads |-> 1, tail |-> tail, durable |-> 0, head |-> 0]
  /\ SnapshotUnchanged

SnapshotDurable ==
  /\ snap.loads = 1
  /\ snap' = [snap EXCEPT !.loads = 2, !.durable = durable]
  /\ SnapshotUnchanged

SnapshotHead ==
  /\ snap.loads = 2
  /\ snap' = [snap EXCEPT !.loads = 3, !.head = head]
  /\ SnapshotUnchanged

\* Mutation of Snapshot: head first, tail last.
SnapshotReversed ==
  /\ SnapshotUnchanged
  /\ \/ /\ open /\ snap.loads \in {0, 3}
        /\ snap' = [loads |-> 1, tail |-> 0, durable |-> 0, head |-> head]
     \/ snap.loads = 1 /\ snap' = [snap EXCEPT !.loads = 2, !.durable = durable]
     \/ snap.loads = 2 /\ snap' = [snap EXCEPT !.loads = 3, !.tail = tail]

Snapshot == SnapshotTail \/ SnapshotDurable \/ SnapshotHead

-----------------------------------------------------------------------------
(* Wal::close: refused while durable records wait for the consumer, and      *)
(* while records of a healthy log wait for durability.                       *)

\* Mutations of CloseAllowed: pending durability, or the durable backlog of a
\* failed log, no longer refuses the close.
CloseAllowedUndurable == tail = durable
CloseAllowedOnFailure == failed \/ (tail = durable /\ durable = head)

CloseAllowed == /\ tail = durable
                /\ failed \/ durable = head

Close == /\ open /\ RolesIdle
         /\ CloseAllowed
         /\ open' = FALSE
         /\ \E fileClosed \in BOOLEAN :
              lastClose' = IF ~fileClosed \/ failed THEN "IoError"
                           ELSE IF exhausted THEN "SequenceExhausted"
                           ELSE "Ok"
         /\ UNCHANGED <<coreVars, diskVars, sliderVars, producer, persister,
                        consumer, consumed, snap>>

Next == Open \/ OpenFails \/ Producer \/ Persister \/ Consumer
          \/ Snapshot \/ Close

Spec == Init /\ [][Next]_vars

\* The persister and the consumer poll: each of their calls returns, and the
\* caller calls again.  Nothing obliges the producer or the caller of close.
Fairness == WF_vars(Persister) /\ WF_vars(Consumer)

FairSpec == Spec /\ Fairness

-----------------------------------------------------------------------------
(* Properties.                                                               *)

TypeOK ==
  /\ open \in BOOLEAN
  /\ lastClose \in {"None", "Ok", "SequenceExhausted", "IoError"}
  /\ head \in Nat /\ tail \in Nat /\ headSlot \in Slots
  /\ slots \in [Slots -> Int]
  /\ exhausted \in BOOLEAN
  /\ durable \in Nat /\ current \in Nat /\ batchEnd \in Nat
  /\ failed \in BOOLEAN /\ torn \in BOOLEAN
  /\ file \in Seq(Int) /\ synced \in Nat
  /\ producer \in {"idle", "checked", "copy", "copying", "copied"}
  /\ persister \in {"idle", "view", "append", "sync", "publish"}
  /\ consumer \in {"idle", "view", "copy", "reclaim"}
  /\ consumed \in Seq(Int)
  /\ snap \in [loads : 0 .. 3, tail : Nat, durable : Nat, head : Nat]

\* In a running session the frontiers are ordered and never span more than the
\* ring, at every point of every interleaving of the three calls, and no
\* record gets a sequence beyond the domain (the producer, slider and consumer
\* each load the other frontiers at different moments).
FrontierOrder ==
  open => /\ tail <= durable /\ durable <= current /\ current <= head
          /\ head - tail <= Capacity
          /\ head <= MaxRecords

\* A block that the persister or the consumer is about to read holds the whole
\* record of the position it asked for: the producer neither reused it nor is
\* copying into it (retained views, head_slot_ against position % capacity).
BorrowedBlockStable ==
  /\ persister = "append" => slots[SlotOf(current)] = current
  /\ consumer = "copy" => slots[SlotOf(tail)] = tail

\* The error exits of the composition that no call can take: a view refused to
\* the slider or to try_consume, a reclaim refused after a copy, a slider of a
\* healthy log that no longer agrees with its own frontier (ProgressMismatch).
NoContractBreach ==
  /\ persister = "view" => Viewable(current)
  /\ consumer = "view" => Viewable(tail)
  /\ consumer = "reclaim" => tail + 1 <= head
  /\ open /\ ~failed /\ persister = "idle" => durable = current

\* What the consumer was given is covered by a successful sync, in the order of
\* the file, whatever failed since: write-ahead across slider, file and ring.
WriteAhead ==
  /\ Len(consumed) <= synced
  /\ \A i \in 1 .. Len(consumed) : i <= Len(file) /\ consumed[i] = file[i]

\* The complete records of the file are the published records, each once and
\* in order; only a failed log has a partial record behind them.
FileIsPrefixOfLog ==
  /\ \A i \in 1 .. Len(file) : file[i] = i - 1
  /\ Len(file) <= head \/ ~open
  /\ torn => failed

\* A close that reports Ok or SequenceExhausted lost nothing: every record
\* published in the session is in the file, synced and consumed.
CleanCloseLosesNothing ==
  [][open /\ ~open' /\ lastClose' \in {"Ok", "SequenceExhausted"} =>
       /\ Len(consumed) = head /\ Len(file) = head /\ synced = head
       /\ ~failed]_vars

\* The three loads of snapshot() are made at different moments, yet the result
\* is ordered as the frontiers are.
SnapshotOrdered ==
  snap.loads = 3 => snap.tail <= snap.durable /\ snap.durable <= snap.head

\* After an append or sync failure the durable frontier and the file stay as
\* they are until the log is closed, and the producer, once it has returned
\* from the call in flight, publishes nothing more.
FailureIsTerminal ==
  [][open /\ failed /\ open' =>
       /\ failed' /\ durable' = durable /\ file' = file
       /\ producer = "idle" => head' = head /\ producer' = "idle"]_vars

\* Every durable record is consumed, even if persistence fails meanwhile.
DurableIsConsumed ==
  \A n \in 1 .. MaxRecords : (open /\ durable >= n) ~> (tail >= n)

\* Every published record becomes durable unless persistence fails.
PublishedIsDurable ==
  \A n \in 1 .. MaxRecords : (open /\ head >= n) ~> (durable >= n \/ failed)

\* The facade implements the abstract log: what is delivered and durable is
\* read from the consumed history and from the file, not from counters.
LogAccepted == IF open THEN head ELSE 0
LogDisk == IF open THEN SubSeq(file, 1, durable) ELSE <<>>
LogDelivered == IF open THEN SubSeq(consumed, 1, tail) ELSE <<>>

Log == INSTANCE DurableLog WITH
  isOpen <- open, accepted <- LogAccepted, disk <- LogDisk,
  delivered <- LogDelivered, broken <- failed

ImplementsDurableLog == Log!Spec
=============================================================================
