----------------------------- MODULE WalProofs ------------------------------
(* Theorems about Wal, for every capacity, sequence domain and batch size.    *)
EXTENDS Wal, TLAPS

-----------------------------------------------------------------------------
(* Ring arithmetic, and the sequence of the payloads so far.                 *)

\* The slot of a position is a slot of the ring.
LEMMA ModInRing ==
  ASSUME NEW c \in Nat \ {0}, NEW a \in Nat
  PROVE  a % c \in 0 .. c - 1
OBVIOUS

\* Two positions less than a capacity apart never share a slot.
LEMMA ModDistinct ==
  ASSUME NEW c \in Nat \ {0}, NEW a \in Nat, NEW b \in Nat, a < b, b - a < c
  PROVE  a % c # b % c
<1> DEFINE qa == a \div c
           qb == b \div c
<1>1. c \in Int /\ c > 0
  OBVIOUS
<1>2. /\ qa \in Int /\ qb \in Int
      /\ a = c * qa + (a % c)
      /\ b = c * qb + (b % c)
  BY <1>1, SMT
<1>3. SUFFICES ASSUME a % c = b % c PROVE FALSE
  OBVIOUS
<1> HIDE DEF qa, qb
<1>4. b - a = c * (qb - qa)
  BY <1>1, <1>2, <1>3, SMT
<1>5. CASE qb - qa <= 0
  <2>1. c * (qb - qa) <= 0
    BY <1>1, <1>2, <1>5, SMT
  <2> QED BY <2>1, <1>4
<1>6. CASE qb - qa >= 1
  <2>1. c * (qb - qa) >= c
    BY <1>1, <1>2, <1>6, SMT
  <2> QED BY <2>1, <1>1, <1>4
<1> QED BY <1>2, <1>5, <1>6

\* The payloads of the first n positions of a session.
FirstPayloads(n) == [i \in 1 .. n |-> i - 1]

\* A prefix of a sequence that counts up from 0 is such a prefix of all of them.
LEMMA PrefixOfPayloads ==
  ASSUME NEW q \in Seq(Int), NEW n \in Nat, n <= Len(q),
         \A i \in 1 .. Len(q) : q[i] = i - 1
  PROVE  SubSeq(q, 1, n) = FirstPayloads(n)
BY DEF FirstPayloads

\* Delivering and hardening extend such a prefix.
LEMMA AppendPayload ==
  ASSUME NEW n \in Nat
  PROVE  Append(FirstPayloads(n), n) = FirstPayloads(n + 1)
BY DEF FirstPayloads

\* The next n - m payloads continue the first m.
LEMMA ConcatPayloads ==
  ASSUME NEW m \in Nat, NEW n \in Nat, m <= n
  PROVE  FirstPayloads(n)
           = FirstPayloads(m) \o [i \in 1 .. n - m |-> m + i - 1]
BY DEF FirstPayloads

\* position % capacity is a block of the ring.
LEMMA SlotOfType == \A a \in Nat : SlotOf(a) \in Slots
BY WalAssumption, ModInRing DEF SlotOf, Slots

\* The first position goes to the first block.
LEMMA SlotZero == SlotOf(0) = 0
BY WalAssumption DEF SlotOf

\* Two retained positions, less than a capacity apart, never share a block.
LEMMA SlotsDistinct ==
  ASSUME NEW a \in Nat, NEW b \in Nat, a < b, b - a < Capacity
  PROVE  SlotOf(a) # SlotOf(b)
BY WalAssumption, ModDistinct DEF SlotOf

\* head_slot_, stepped by next_slot, stays the block of position head.
LEMMA NextSlotOf ==
  ASSUME NEW a \in Nat
  PROVE  NextSlot(SlotOf(a)) = SlotOf(a + 1)
<1> DEFINE q == a \div Capacity
           r == a % Capacity
<1>1. Capacity \in Int /\ Capacity > 0
  BY WalAssumption
<1>2. /\ q \in Int /\ r \in 0 .. Capacity - 1
      /\ a = Capacity * q + r
  BY <1>1, SMT
<1> HIDE DEF q
<1>3. CASE r + 1 = Capacity
  <2>1. a + 1 = Capacity * (q + 1)
    BY <1>1, <1>2, <1>3, SMT
  <2>2. (a + 1) % Capacity = 0
    <3> DEFINE q2 == (a + 1) \div Capacity
               r2 == (a + 1) % Capacity
               k  == q + 1 - q2
    <3>1. /\ q2 \in Int /\ r2 \in 0 .. Capacity - 1
          /\ a + 1 = Capacity * q2 + r2
      BY <1>1, SMT
    <3> HIDE DEF q2, r2
    <3>2. r2 = Capacity * k
      BY <1>1, <1>2, <2>1, <3>1, SMT
    <3>3. k \in Int
      BY <1>2, <3>1
    <3> HIDE DEF k
    <3>4. CASE k <= 0
      <4>1. Capacity * k <= 0
        BY <1>1, <3>3, <3>4, SMT
      <4> QED BY <4>1, <3>1, <3>2 DEF r2
    <3>5. CASE k >= 1
      <4>1. Capacity * k >= Capacity
        BY <1>1, <3>3, <3>5, SMT
      <4> QED BY <4>1, <1>1, <3>1, <3>2
    <3> QED BY <3>3, <3>4, <3>5
  <2> QED BY <2>2, <1>3 DEF NextSlot, SlotOf
<1>4. CASE r + 1 < Capacity
  <2>1. (a + 1) % Capacity = r + 1
    BY <1>1, <1>2, <1>4, SMT
  <2> QED BY <2>1, <1>4, <1>1, <1>2 DEF NextSlot, SlotOf
<1> QED BY <1>1, <1>2, <1>3, <1>4

-----------------------------------------------------------------------------
(* The inductive invariant.  FrontierOrder says where the frontiers are, but  *)
(* is not preserved on its own: a step relies on what the running calls have  *)
(* already checked, on the contents of the ring, and on the file.             *)

\* Outside a session no call is running.
RolesInSession == ~open => RolesIdle

\* A producer past its checks has a free block and a sequence number; the
\* block it fills is the one position head maps to.
ProducerInv ==
  open => /\ producer \in {"copy", "copying", "copied"} =>
               head - tail < Capacity /\ head <= LastPosition
          /\ headSlot = IF producer = "copied" THEN SlotOf(head + 1)
                         ELSE SlotOf(head)

\* Retained positions are intact, and so is the record about to be published.
RingInv ==
  open => /\ \A p \in Nat : tail <= p /\ p < head => slots[SlotOf(p)] = p
          /\ producer = "copied" => slots[SlotOf(head)] = head

\* The slider, the file and the durable frontier agree.
PersisterInv ==
  open => /\ persister # "idle" => ~failed
          /\ persister \in {"view", "append"} =>
               current < batchEnd /\ batchEnd <= head
          /\ persister = "idle" /\ ~failed => durable = current
          /\ persister = "publish" => synced = current
          /\ Len(file) = current
          /\ durable <= synced

FileInv ==
  /\ synced <= Len(file)
  /\ torn => failed
  /\ \A i \in 1 .. Len(file) : file[i] = i - 1

ConsumerInv ==
  /\ Len(consumed) <= synced
  /\ \A i \in 1 .. Len(consumed) : consumed[i] = i - 1
  /\ open => /\ consumer # "idle" => tail < durable
             /\ Len(consumed) = IF consumer = "reclaim" THEN tail + 1
                                 ELSE tail

\* What the loads made so far by a running snapshot() say of the frontiers.
SnapInv ==
  /\ open => /\ snap.loads >= 1 => snap.tail <= tail
             /\ snap.loads >= 2 => snap.durable <= durable
  /\ snap.loads >= 2 => snap.tail <= snap.durable
  /\ snap.loads = 3 => snap.durable <= snap.head

IInv ==
  /\ TypeOK
  /\ RolesInSession
  /\ FrontierOrder
  /\ ProducerInv
  /\ RingInv
  /\ PersisterInv
  /\ FileInv
  /\ ConsumerInv
  /\ SnapInv

-----------------------------------------------------------------------------

\* The invariant holds of a constructed, closed log.
LEMMA InitInv == Init => IInv
<1> SUFFICES ASSUME Init PROVE IInv
  OBVIOUS
<1> USE WalAssumption DEF Init, Slots, NoSnapshot
<1>1. TypeOK /\ RolesInSession /\ FrontierOrder /\ ProducerInv /\ RingInv
  BY DEF TypeOK, RolesInSession, RolesIdle, FrontierOrder, ProducerInv,
         RingInv, Zeroed
<1>2. PersisterInv /\ FileInv /\ ConsumerInv
  BY DEF PersisterInv, FileInv, ConsumerInv
<1>3. SnapInv
  BY DEF SnapInv
<1> QED BY <1>1, <1>2, <1>3 DEF IInv

\* Every step of every role preserves the invariant.
LEMMA StepInv == IInv /\ [Next]_vars => IInv'
<1> SUFFICES ASSUME IInv, [Next]_vars PROVE IInv'
  OBVIOUS
<1> USE WalAssumption
    DEF coreVars, diskVars, sliderVars, lifeVars, vars
<1>1. CASE Open
  <2> USE <1>1 DEF IInv, Open
  <2>1. TypeOK'
    <3>1. slots' \in [Slots -> Int] /\ headSlot' \in Slots
      BY DEF CoreOpen, Zeroed, Slots
    <3>2. head' = 0 /\ tail' = 0 /\ exhausted' = FALSE
      BY DEF CoreOpen
    <3>3. snap' \in [loads : 0 .. 3, tail : Nat, durable : Nat, head : Nat]
      BY DEF TypeOK, NoSnapshot
    <3>4. file' \in Seq(Int) /\ consumed' \in Seq(Int)
      OBVIOUS
    <3> QED BY <3>1, <3>2, <3>3, <3>4 DEF TypeOK
  <2>2. RolesInSession' /\ FrontierOrder'
    BY DEF TypeOK, RolesInSession, RolesIdle, FrontierOrder, CoreOpen, MaxRecords
  <2>3. ProducerInv'
    BY SlotZero DEF TypeOK, RolesInSession, RolesIdle, FrontierOrder, ProducerInv, CoreOpen
  <2>4. RingInv'
    BY DEF TypeOK, RolesInSession, RolesIdle, FrontierOrder, ProducerInv,
           RingInv, CoreOpen
  <2>5. PersisterInv' /\ FileInv'
    BY DEF TypeOK, RolesInSession, RolesIdle, FrontierOrder, PersisterInv,
           FileInv
  <2>6. ConsumerInv'
    BY DEF TypeOK, RolesInSession, RolesIdle, FrontierOrder, PersisterInv,
           FileInv, ConsumerInv, CoreOpen
  <2>7. SnapInv'
    BY DEF TypeOK, RolesInSession, RolesIdle, FrontierOrder,
           SnapInv, NoSnapshot
  <2> QED BY <2>1, <2>2, <2>3, <2>4, <2>5, <2>6, <2>7
<1>2. CASE OpenFails
  <2> USE <1>2 DEF IInv, OpenFails
  <2>1. TypeOK'
    <3>1. slots' \in [Slots -> Int] /\ headSlot' \in Slots
      BY DEF CoreOpen, Zeroed, Slots
    <3>2. head' = 0 /\ tail' = 0 /\ exhausted' = FALSE
      BY DEF CoreOpen
    <3>3. snap' \in [loads : 0 .. 3, tail : Nat, durable : Nat, head : Nat]
      BY DEF TypeOK, NoSnapshot
    <3> QED BY <3>1, <3>2, <3>3 DEF TypeOK
  <2>2. RolesInSession' /\ FrontierOrder'
    BY DEF TypeOK, RolesInSession, RolesIdle, FrontierOrder
  <2>3. ProducerInv'
    BY DEF TypeOK, RolesInSession, RolesIdle, FrontierOrder, ProducerInv
  <2>4. RingInv'
    BY DEF TypeOK, RolesInSession, RolesIdle, FrontierOrder, ProducerInv,
           RingInv
  <2>5. PersisterInv' /\ FileInv'
    BY DEF TypeOK, RolesInSession, RolesIdle, FrontierOrder, PersisterInv,
           FileInv
  <2>6. ConsumerInv'
    BY DEF TypeOK, RolesInSession, RolesIdle, FrontierOrder, PersisterInv,
           FileInv, ConsumerInv
  <2>7. SnapInv'
    BY DEF TypeOK, RolesInSession, RolesIdle, FrontierOrder,
           SnapInv
  <2> QED BY <2>1, <2>2, <2>3, <2>4, <2>5, <2>6, <2>7
<1>3. CASE PublishCheck
  <2> USE <1>3 DEF IInv, PublishCheck
  <2>1. TypeOK'
    BY DEF TypeOK, Slots
  <2>2. RolesInSession' /\ FrontierOrder'
    BY DEF TypeOK, RolesInSession, RolesIdle, FrontierOrder
  <2>3. ProducerInv'
    BY DEF TypeOK, RolesInSession, RolesIdle, FrontierOrder, ProducerInv
  <2>4. RingInv'
    BY DEF TypeOK, RolesInSession, RolesIdle, FrontierOrder, ProducerInv,
           RingInv
  <2>5. PersisterInv' /\ FileInv'
    BY DEF TypeOK, RolesInSession, RolesIdle, FrontierOrder, PersisterInv,
           FileInv
  <2>6. ConsumerInv'
    BY DEF TypeOK, RolesInSession, RolesIdle, FrontierOrder, PersisterInv,
           FileInv, ConsumerInv
  <2>7. SnapInv'
    BY DEF TypeOK, RolesInSession, RolesIdle, FrontierOrder,
           SnapInv
  <2> QED BY <2>1, <2>2, <2>3, <2>4, <2>5, <2>6, <2>7
<1>4. CASE PublishLoadTail
  <2> USE <1>4 DEF IInv, PublishLoadTail
  <2>1. TypeOK'
    <3>1. producer' \in {"idle", "copy"} /\ exhausted' \in BOOLEAN
      BY DEF TypeOK
    <3> QED BY <3>1 DEF TypeOK, Slots
  <2>2. RolesInSession' /\ FrontierOrder'
    BY DEF TypeOK, RolesInSession, RolesIdle, FrontierOrder
  <2>3. ProducerInv'
    BY DEF TypeOK, RolesInSession, RolesIdle, FrontierOrder, ProducerInv, Full, LastPosition
  <2>4. RingInv'
    BY DEF TypeOK, RolesInSession, RolesIdle, FrontierOrder, ProducerInv,
           RingInv
  <2>5. PersisterInv' /\ FileInv'
    BY DEF TypeOK, RolesInSession, RolesIdle, FrontierOrder, PersisterInv,
           FileInv
  <2>6. ConsumerInv'
    BY DEF TypeOK, RolesInSession, RolesIdle, FrontierOrder, PersisterInv,
           FileInv, ConsumerInv
  <2>7. SnapInv'
    BY DEF TypeOK, RolesInSession, RolesIdle, FrontierOrder,
           SnapInv
  <2> QED BY <2>1, <2>2, <2>3, <2>4, <2>5, <2>6, <2>7
<1>5. CASE PublishCopyBegin
  <2> USE <1>5 DEF IInv, PublishCopyBegin
  <2>1. TypeOK'
    BY DEF TypeOK, Slots, HalfCopied
  <2>2. RolesInSession' /\ FrontierOrder'
    BY DEF TypeOK, RolesInSession, RolesIdle, FrontierOrder
  <2>3. ProducerInv'
    BY DEF TypeOK, RolesInSession, RolesIdle, FrontierOrder, ProducerInv
  <2>4. RingInv'
    <3>1. \A p \in Nat : tail <= p /\ p < head => SlotOf(p) # SlotOf(head)
      BY SlotsDistinct DEF TypeOK, RolesInSession, RolesIdle, ProducerInv
    <3> QED BY <3>1, SlotOfType
            DEF TypeOK, RolesInSession, RolesIdle, ProducerInv, RingInv, Slots
  <2>5. PersisterInv' /\ FileInv'
    BY DEF TypeOK, RolesInSession, RolesIdle, FrontierOrder, PersisterInv,
           FileInv
  <2>6. ConsumerInv'
    BY DEF TypeOK, RolesInSession, RolesIdle, FrontierOrder, PersisterInv,
           FileInv, ConsumerInv
  <2>7. SnapInv'
    BY DEF TypeOK, RolesInSession, RolesIdle, FrontierOrder,
           SnapInv
  <2> QED BY <2>1, <2>2, <2>3, <2>4, <2>5, <2>6, <2>7
<1>6. CASE PublishCopyEnd
  <2> USE <1>6 DEF IInv, PublishCopyEnd
  <2>1. TypeOK'
    BY DEF TypeOK, Slots, NextSlot
  <2>2. RolesInSession' /\ FrontierOrder'
    BY DEF TypeOK, RolesInSession, RolesIdle, FrontierOrder
  <2>3. ProducerInv'
    BY NextSlotOf DEF TypeOK, RolesInSession, RolesIdle, FrontierOrder, ProducerInv
  <2>4. RingInv'
    <3>1. \A p \in Nat : tail <= p /\ p < head => SlotOf(p) # SlotOf(head)
      BY SlotsDistinct DEF TypeOK, RolesInSession, RolesIdle, ProducerInv
    <3> QED BY <3>1, SlotOfType
            DEF TypeOK, RolesInSession, RolesIdle, ProducerInv, RingInv, Slots
  <2>5. PersisterInv' /\ FileInv'
    BY DEF TypeOK, RolesInSession, RolesIdle, FrontierOrder, PersisterInv,
           FileInv
  <2>6. ConsumerInv'
    BY DEF TypeOK, RolesInSession, RolesIdle, FrontierOrder, PersisterInv,
           FileInv, ConsumerInv
  <2>7. SnapInv'
    BY DEF TypeOK, RolesInSession, RolesIdle, FrontierOrder,
           SnapInv
  <2> QED BY <2>1, <2>2, <2>3, <2>4, <2>5, <2>6, <2>7
<1>7. CASE PublishHead
  <2> USE <1>7 DEF IInv, PublishHead
  <2>1. TypeOK'
    BY DEF TypeOK, Slots
  <2>2. RolesInSession' /\ FrontierOrder'
    BY DEF TypeOK, RolesInSession, RolesIdle, FrontierOrder, ProducerInv, LastPosition, MaxRecords
  <2>3. ProducerInv'
    BY DEF TypeOK, RolesInSession, RolesIdle, FrontierOrder, ProducerInv
  <2>4. RingInv'
    BY DEF TypeOK, RolesInSession, RolesIdle, FrontierOrder, ProducerInv,
           RingInv
  <2>5. PersisterInv' /\ FileInv'
    BY DEF TypeOK, RolesInSession, RolesIdle, FrontierOrder, PersisterInv,
           FileInv
  <2>6. ConsumerInv'
    BY DEF TypeOK, RolesInSession, RolesIdle, FrontierOrder, PersisterInv,
           FileInv, ConsumerInv
  <2>7. SnapInv'
    BY DEF TypeOK, RolesInSession, RolesIdle, FrontierOrder,
           SnapInv
  <2> QED BY <2>1, <2>2, <2>3, <2>4, <2>5, <2>6, <2>7
<1>8. ASSUME NEW batch \in BatchSizes, AdvanceBegin(batch) PROVE IInv'
  <2> USE <1>8 DEF IInv, AdvanceBegin
  <2>1. TypeOK'
    BY DEF TypeOK, Slots, RangeEnd
  <2>2. RolesInSession' /\ FrontierOrder'
    BY DEF TypeOK, RolesInSession, RolesIdle, FrontierOrder
  <2>3. ProducerInv'
    BY DEF TypeOK, RolesInSession, RolesIdle, FrontierOrder, ProducerInv
  <2>4. RingInv'
    BY DEF TypeOK, RolesInSession, RolesIdle, FrontierOrder, ProducerInv,
           RingInv
  <2>5. PersisterInv' /\ FileInv'
    BY DEF TypeOK, RolesInSession, RolesIdle, FrontierOrder, PersisterInv,
           FileInv, RangeEnd
  <2>6. ConsumerInv'
    BY DEF TypeOK, RolesInSession, RolesIdle, FrontierOrder, PersisterInv,
           FileInv, ConsumerInv
  <2>7. SnapInv'
    BY DEF TypeOK, RolesInSession, RolesIdle, FrontierOrder,
           SnapInv
  <2> QED BY <2>1, <2>2, <2>3, <2>4, <2>5, <2>6, <2>7
<1>9. CASE AdvanceView
  <2> USE <1>9 DEF IInv, AdvanceView
  <2>1. TypeOK'
    BY DEF TypeOK, Slots
  <2>2. RolesInSession' /\ FrontierOrder'
    BY DEF TypeOK, RolesInSession, RolesIdle, FrontierOrder
  <2>3. ProducerInv'
    BY DEF TypeOK, RolesInSession, RolesIdle, FrontierOrder, ProducerInv
  <2>4. RingInv'
    BY DEF TypeOK, RolesInSession, RolesIdle, FrontierOrder, ProducerInv,
           RingInv
  <2>5. PersisterInv' /\ FileInv'
    BY DEF TypeOK, RolesInSession, RolesIdle, FrontierOrder, PersisterInv,
           FileInv, Viewable
  <2>6. ConsumerInv'
    BY DEF TypeOK, RolesInSession, RolesIdle, FrontierOrder, PersisterInv,
           FileInv, ConsumerInv
  <2>7. SnapInv'
    BY DEF TypeOK, RolesInSession, RolesIdle, FrontierOrder,
           SnapInv
  <2> QED BY <2>1, <2>2, <2>3, <2>4, <2>5, <2>6, <2>7
<1>10. CASE AdvanceAppend
  <2> USE <1>10 DEF IInv, AdvanceAppend
  <2>1. TypeOK'
    <3>1. slots[SlotOf(current)] \in Int
      BY SlotOfType DEF TypeOK
    <3> QED BY <3>1 DEF TypeOK, Slots
  <2>2. RolesInSession' /\ FrontierOrder'
    BY DEF TypeOK, RolesInSession, RolesIdle, FrontierOrder, PersisterInv
  <2>3. ProducerInv'
    BY DEF TypeOK, RolesInSession, RolesIdle, FrontierOrder, ProducerInv
  <2>4. RingInv'
    BY DEF TypeOK, RolesInSession, RolesIdle, FrontierOrder, ProducerInv,
           RingInv
  <2>5. PersisterInv' /\ FileInv'
    <3>1. slots[SlotOf(current)] = current
      BY DEF TypeOK, RolesInSession, RolesIdle, FrontierOrder, PersisterInv,
             RingInv
    <3>2. /\ Len(file') = Len(file) + 1
          /\ \A i \in 1 .. Len(file) : file'[i] = file[i]
          /\ file'[Len(file) + 1] = current
      BY <3>1 DEF TypeOK
    <3> QED BY <3>2 DEF TypeOK, RolesInSession, RolesIdle, FrontierOrder,
                        PersisterInv, FileInv
  <2>6. ConsumerInv'
    BY DEF TypeOK, RolesInSession, RolesIdle, FrontierOrder, PersisterInv,
           FileInv, ConsumerInv
  <2>7. SnapInv'
    BY DEF TypeOK, RolesInSession, RolesIdle, FrontierOrder,
           SnapInv
  <2> QED BY <2>1, <2>2, <2>3, <2>4, <2>5, <2>6, <2>7
<1>11. CASE AppendFails
  <2> USE <1>11 DEF IInv, AppendFails
  <2>1. TypeOK'
    BY DEF TypeOK, Slots
  <2>2. RolesInSession' /\ FrontierOrder'
    BY DEF TypeOK, RolesInSession, RolesIdle, FrontierOrder
  <2>3. ProducerInv'
    BY DEF TypeOK, RolesInSession, RolesIdle, FrontierOrder, ProducerInv
  <2>4. RingInv'
    BY DEF TypeOK, RolesInSession, RolesIdle, FrontierOrder, ProducerInv,
           RingInv
  <2>5. PersisterInv' /\ FileInv'
    BY DEF TypeOK, RolesInSession, RolesIdle, FrontierOrder, PersisterInv,
           FileInv
  <2>6. ConsumerInv'
    BY DEF TypeOK, RolesInSession, RolesIdle, FrontierOrder, PersisterInv,
           FileInv, ConsumerInv
  <2>7. SnapInv'
    BY DEF TypeOK, RolesInSession, RolesIdle, FrontierOrder,
           SnapInv
  <2> QED BY <2>1, <2>2, <2>3, <2>4, <2>5, <2>6, <2>7
<1>12. CASE AdvanceSync
  <2> USE <1>12 DEF IInv, AdvanceSync
  <2>1. TypeOK'
    BY DEF TypeOK, Slots
  <2>2. RolesInSession' /\ FrontierOrder'
    BY DEF TypeOK, RolesInSession, RolesIdle, FrontierOrder
  <2>3. ProducerInv'
    BY DEF TypeOK, RolesInSession, RolesIdle, FrontierOrder, ProducerInv
  <2>4. RingInv'
    BY DEF TypeOK, RolesInSession, RolesIdle, FrontierOrder, ProducerInv,
           RingInv
  <2>5. PersisterInv' /\ FileInv'
    BY DEF TypeOK, RolesInSession, RolesIdle, FrontierOrder, PersisterInv,
           FileInv
  <2>6. ConsumerInv'
    BY DEF TypeOK, RolesInSession, RolesIdle, FrontierOrder, PersisterInv,
           FileInv, ConsumerInv
  <2>7. SnapInv'
    BY DEF TypeOK, RolesInSession, RolesIdle, FrontierOrder,
           SnapInv
  <2> QED BY <2>1, <2>2, <2>3, <2>4, <2>5, <2>6, <2>7
<1>13. CASE SyncFails
  <2> USE <1>13 DEF IInv, SyncFails
  <2>1. TypeOK'
    BY DEF TypeOK, Slots
  <2>2. RolesInSession' /\ FrontierOrder'
    BY DEF TypeOK, RolesInSession, RolesIdle, FrontierOrder
  <2>3. ProducerInv'
    BY DEF TypeOK, RolesInSession, RolesIdle, FrontierOrder, ProducerInv
  <2>4. RingInv'
    BY DEF TypeOK, RolesInSession, RolesIdle, FrontierOrder, ProducerInv,
           RingInv
  <2>5. PersisterInv' /\ FileInv'
    BY DEF TypeOK, RolesInSession, RolesIdle, FrontierOrder, PersisterInv,
           FileInv
  <2>6. ConsumerInv'
    BY DEF TypeOK, RolesInSession, RolesIdle, FrontierOrder, PersisterInv,
           FileInv, ConsumerInv
  <2>7. SnapInv'
    BY DEF TypeOK, RolesInSession, RolesIdle, FrontierOrder,
           SnapInv
  <2> QED BY <2>1, <2>2, <2>3, <2>4, <2>5, <2>6, <2>7
<1>14. CASE AdvancePublish
  <2> USE <1>14 DEF IInv, AdvancePublish
  <2>1. TypeOK'
    BY DEF TypeOK, Slots
  <2>2. RolesInSession' /\ FrontierOrder'
    BY DEF TypeOK, RolesInSession, RolesIdle, FrontierOrder
  <2>3. ProducerInv'
    BY DEF TypeOK, RolesInSession, RolesIdle, FrontierOrder, ProducerInv
  <2>4. RingInv'
    BY DEF TypeOK, RolesInSession, RolesIdle, FrontierOrder, ProducerInv,
           RingInv
  <2>5. PersisterInv' /\ FileInv'
    BY DEF TypeOK, RolesInSession, RolesIdle, FrontierOrder, PersisterInv,
           FileInv
  <2>6. ConsumerInv'
    BY DEF TypeOK, RolesInSession, RolesIdle, FrontierOrder, PersisterInv,
           FileInv, ConsumerInv
  <2>7. SnapInv'
    BY DEF TypeOK, RolesInSession, RolesIdle, FrontierOrder,
           SnapInv
  <2> QED BY <2>1, <2>2, <2>3, <2>4, <2>5, <2>6, <2>7
<1>15. CASE ConsumeBegin
  <2> USE <1>15 DEF IInv, ConsumeBegin
  <2>1. TypeOK'
    BY DEF TypeOK, Slots
  <2>2. RolesInSession' /\ FrontierOrder'
    BY DEF TypeOK, RolesInSession, RolesIdle, FrontierOrder
  <2>3. ProducerInv'
    BY DEF TypeOK, RolesInSession, RolesIdle, FrontierOrder, ProducerInv
  <2>4. RingInv'
    BY DEF TypeOK, RolesInSession, RolesIdle, FrontierOrder, ProducerInv,
           RingInv
  <2>5. PersisterInv' /\ FileInv'
    BY DEF TypeOK, RolesInSession, RolesIdle, FrontierOrder, PersisterInv,
           FileInv
  <2>6. ConsumerInv'
    BY DEF TypeOK, RolesInSession, RolesIdle, FrontierOrder, PersisterInv,
           FileInv, ConsumerInv
  <2>7. SnapInv'
    BY DEF TypeOK, RolesInSession, RolesIdle, FrontierOrder,
           SnapInv
  <2> QED BY <2>1, <2>2, <2>3, <2>4, <2>5, <2>6, <2>7
<1>16. CASE ConsumeView
  <2> USE <1>16 DEF IInv, ConsumeView
  <2>1. TypeOK'
    BY DEF TypeOK, Slots
  <2>2. RolesInSession' /\ FrontierOrder'
    BY DEF TypeOK, RolesInSession, RolesIdle, FrontierOrder
  <2>3. ProducerInv'
    BY DEF TypeOK, RolesInSession, RolesIdle, FrontierOrder, ProducerInv
  <2>4. RingInv'
    BY DEF TypeOK, RolesInSession, RolesIdle, FrontierOrder, ProducerInv,
           RingInv
  <2>5. PersisterInv' /\ FileInv'
    BY DEF TypeOK, RolesInSession, RolesIdle, FrontierOrder, PersisterInv,
           FileInv
  <2>6. ConsumerInv'
    BY DEF TypeOK, RolesInSession, RolesIdle, FrontierOrder, PersisterInv,
           FileInv, ConsumerInv
  <2>7. SnapInv'
    BY DEF TypeOK, RolesInSession, RolesIdle, FrontierOrder,
           SnapInv
  <2> QED BY <2>1, <2>2, <2>3, <2>4, <2>5, <2>6, <2>7
<1>17. CASE ConsumeCopy
  <2> USE <1>17 DEF IInv, ConsumeCopy
  <2>1. TypeOK'
    <3>1. slots[SlotOf(tail)] \in Int
      BY SlotOfType DEF TypeOK
    <3> QED BY <3>1 DEF TypeOK, Slots
  <2>2. RolesInSession' /\ FrontierOrder'
    BY DEF TypeOK, RolesInSession, RolesIdle, FrontierOrder
  <2>3. ProducerInv'
    BY DEF TypeOK, RolesInSession, RolesIdle, FrontierOrder, ProducerInv
  <2>4. RingInv'
    BY DEF TypeOK, RolesInSession, RolesIdle, FrontierOrder, ProducerInv,
           RingInv
  <2>5. PersisterInv' /\ FileInv'
    BY DEF TypeOK, RolesInSession, RolesIdle, FrontierOrder, PersisterInv,
           FileInv
  <2>6. ConsumerInv'
    <3>1. slots[SlotOf(tail)] = tail
      BY DEF TypeOK, RolesInSession, RolesIdle, FrontierOrder, ConsumerInv,
             RingInv
    <3>2. /\ Len(consumed') = Len(consumed) + 1
          /\ \A i \in 1 .. Len(consumed) : consumed'[i] = consumed[i]
          /\ consumed'[Len(consumed) + 1] = tail
      BY <3>1 DEF TypeOK
    <3> QED BY <3>2 DEF TypeOK, RolesInSession, RolesIdle, FrontierOrder,
                        PersisterInv, ConsumerInv
  <2>7. SnapInv'
    BY DEF TypeOK, RolesInSession, RolesIdle, FrontierOrder,
           SnapInv
  <2> QED BY <2>1, <2>2, <2>3, <2>4, <2>5, <2>6, <2>7
<1>18. CASE ConsumeReclaim
  <2> USE <1>18 DEF IInv, ConsumeReclaim
  <2>1. TypeOK'
    BY DEF TypeOK, Slots
  <2>2. RolesInSession' /\ FrontierOrder'
    BY DEF TypeOK, RolesInSession, RolesIdle, FrontierOrder, ConsumerInv
  <2>3. ProducerInv'
    BY DEF TypeOK, RolesInSession, RolesIdle, FrontierOrder, ProducerInv
  <2>4. RingInv'
    BY DEF TypeOK, RolesInSession, RolesIdle, FrontierOrder, ProducerInv,
           RingInv
  <2>5. PersisterInv' /\ FileInv'
    BY DEF TypeOK, RolesInSession, RolesIdle, FrontierOrder, PersisterInv,
           FileInv
  <2>6. ConsumerInv'
    BY DEF TypeOK, RolesInSession, RolesIdle, FrontierOrder, PersisterInv,
           FileInv, ConsumerInv
  <2>7. SnapInv'
    BY DEF TypeOK, RolesInSession, RolesIdle, FrontierOrder,
           SnapInv
  <2> QED BY <2>1, <2>2, <2>3, <2>4, <2>5, <2>6, <2>7
<1>19. CASE SnapshotTail
  <2> USE <1>19 DEF IInv, SnapshotTail
  <2>1. TypeOK'
    BY DEF TypeOK, Slots, SnapshotUnchanged
  <2>2. RolesInSession' /\ FrontierOrder'
    BY DEF TypeOK, RolesInSession, RolesIdle, FrontierOrder, SnapshotUnchanged
  <2>3. ProducerInv'
    BY DEF TypeOK, RolesInSession, RolesIdle, FrontierOrder, ProducerInv, SnapshotUnchanged
  <2>4. RingInv'
    BY DEF TypeOK, RolesInSession, RolesIdle, FrontierOrder, ProducerInv,
           RingInv, SnapshotUnchanged
  <2>5. PersisterInv' /\ FileInv'
    BY DEF TypeOK, RolesInSession, RolesIdle, FrontierOrder, PersisterInv,
           FileInv, SnapshotUnchanged
  <2>6. ConsumerInv'
    BY DEF TypeOK, RolesInSession, RolesIdle, FrontierOrder, PersisterInv,
           FileInv, ConsumerInv, SnapshotUnchanged
  <2>7. SnapInv'
    BY DEF TypeOK, RolesInSession, RolesIdle, FrontierOrder,
           SnapInv, SnapshotUnchanged
  <2> QED BY <2>1, <2>2, <2>3, <2>4, <2>5, <2>6, <2>7
<1>20. CASE SnapshotDurable
  <2> USE <1>20 DEF IInv, SnapshotDurable
  <2>1. TypeOK'
    <3>1. snap \in [loads : 0 .. 3, tail : Nat, durable : Nat, head : Nat]
      BY DEF TypeOK
    <3>2. snap' = [loads |-> 2, tail |-> snap.tail,
                   durable |-> durable, head |-> snap.head]
      BY <3>1
    <3>3. snap' \in [loads : 0 .. 3, tail : Nat, durable : Nat, head : Nat]
      BY <3>1, <3>2 DEF TypeOK
    <3> QED BY <3>3 DEF TypeOK, Slots, SnapshotUnchanged
  <2>2. RolesInSession' /\ FrontierOrder'
    BY DEF TypeOK, RolesInSession, RolesIdle, FrontierOrder, SnapshotUnchanged
  <2>3. ProducerInv'
    BY DEF TypeOK, RolesInSession, RolesIdle, FrontierOrder, ProducerInv, SnapshotUnchanged
  <2>4. RingInv'
    BY DEF TypeOK, RolesInSession, RolesIdle, FrontierOrder, ProducerInv,
           RingInv, SnapshotUnchanged
  <2>5. PersisterInv' /\ FileInv'
    BY DEF TypeOK, RolesInSession, RolesIdle, FrontierOrder, PersisterInv,
           FileInv, SnapshotUnchanged
  <2>6. ConsumerInv'
    BY DEF TypeOK, RolesInSession, RolesIdle, FrontierOrder, PersisterInv,
           FileInv, ConsumerInv, SnapshotUnchanged
  <2>7. SnapInv'
    BY DEF TypeOK, RolesInSession, RolesIdle, FrontierOrder,
           SnapInv, SnapshotUnchanged
  <2> QED BY <2>1, <2>2, <2>3, <2>4, <2>5, <2>6, <2>7
<1>21. CASE SnapshotHead
  <2> USE <1>21 DEF IInv, SnapshotHead
  <2>1. TypeOK'
    <3>1. snap \in [loads : 0 .. 3, tail : Nat, durable : Nat, head : Nat]
      BY DEF TypeOK
    <3>2. snap' = [loads |-> 3, tail |-> snap.tail,
                   durable |-> snap.durable, head |-> head]
      BY <3>1
    <3>3. snap' \in [loads : 0 .. 3, tail : Nat, durable : Nat, head : Nat]
      BY <3>1, <3>2 DEF TypeOK
    <3> QED BY <3>3 DEF TypeOK, Slots, SnapshotUnchanged
  <2>2. RolesInSession' /\ FrontierOrder'
    BY DEF TypeOK, RolesInSession, RolesIdle, FrontierOrder, SnapshotUnchanged
  <2>3. ProducerInv'
    BY DEF TypeOK, RolesInSession, RolesIdle, FrontierOrder, ProducerInv, SnapshotUnchanged
  <2>4. RingInv'
    BY DEF TypeOK, RolesInSession, RolesIdle, FrontierOrder, ProducerInv,
           RingInv, SnapshotUnchanged
  <2>5. PersisterInv' /\ FileInv'
    BY DEF TypeOK, RolesInSession, RolesIdle, FrontierOrder, PersisterInv,
           FileInv, SnapshotUnchanged
  <2>6. ConsumerInv'
    BY DEF TypeOK, RolesInSession, RolesIdle, FrontierOrder, PersisterInv,
           FileInv, ConsumerInv, SnapshotUnchanged
  <2>7. SnapInv'
    BY DEF TypeOK, RolesInSession, RolesIdle, FrontierOrder,
           SnapInv, SnapshotUnchanged
  <2> QED BY <2>1, <2>2, <2>3, <2>4, <2>5, <2>6, <2>7
<1>22. CASE Close
  <2> USE <1>22 DEF IInv, Close
  <2>1. TypeOK'
    BY DEF TypeOK, Slots
  <2>2. RolesInSession' /\ FrontierOrder'
    BY DEF TypeOK, RolesInSession, RolesIdle, FrontierOrder
  <2>3. ProducerInv'
    BY DEF TypeOK, RolesInSession, RolesIdle, FrontierOrder, ProducerInv
  <2>4. RingInv'
    BY DEF TypeOK, RolesInSession, RolesIdle, FrontierOrder, ProducerInv,
           RingInv
  <2>5. PersisterInv' /\ FileInv'
    BY DEF TypeOK, RolesInSession, RolesIdle, FrontierOrder, PersisterInv,
           FileInv
  <2>6. ConsumerInv'
    BY DEF TypeOK, RolesInSession, RolesIdle, FrontierOrder, PersisterInv,
           FileInv, ConsumerInv
  <2>7. SnapInv'
    BY DEF TypeOK, RolesInSession, RolesIdle, FrontierOrder,
           SnapInv, CloseAllowed,
           PersisterInv, FileInv, ConsumerInv
  <2> QED BY <2>1, <2>2, <2>3, <2>4, <2>5, <2>6, <2>7
<1>23. CASE UNCHANGED vars
  <2> USE <1>23 DEF IInv
  <2>1. TypeOK'
    BY DEF TypeOK, Slots
  <2>2. RolesInSession' /\ FrontierOrder'
    BY DEF TypeOK, RolesInSession, RolesIdle, FrontierOrder
  <2>3. ProducerInv'
    BY DEF TypeOK, RolesInSession, RolesIdle, FrontierOrder, ProducerInv
  <2>4. RingInv'
    BY DEF TypeOK, RolesInSession, RolesIdle, FrontierOrder, ProducerInv,
           RingInv
  <2>5. PersisterInv' /\ FileInv'
    BY DEF TypeOK, RolesInSession, RolesIdle, FrontierOrder, PersisterInv,
           FileInv
  <2>6. ConsumerInv'
    BY DEF TypeOK, RolesInSession, RolesIdle, FrontierOrder, PersisterInv,
           FileInv, ConsumerInv
  <2>7. SnapInv'
    BY DEF TypeOK, RolesInSession, RolesIdle, FrontierOrder,
           SnapInv
  <2> QED BY <2>1, <2>2, <2>3, <2>4, <2>5, <2>6, <2>7
<1> QED
  BY <1>1, <1>2, <1>3, <1>4, <1>5, <1>6, <1>7, <1>8, <1>9, <1>10, <1>11, <1>12,
     <1>13, <1>14, <1>15, <1>16, <1>17, <1>18, <1>19, <1>20, <1>21, <1>22, <1>23
  DEF Next, Producer, Persister, Consumer, Snapshot

-----------------------------------------------------------------------------
(* Invariants of the specification.                                          *)

\* The inductive invariant holds in every reachable state.
THEOREM Invariance == Spec => []IInv
BY InitInv, StepInv, PTL DEF Spec

\* Every variable keeps its type; in particular head_slot_ is a block.
THEOREM TypeCorrect == Spec => []TypeOK
<1>1. IInv => TypeOK
  BY DEF IInv
<1> QED BY <1>1, Invariance, PTL

\* tail <= durable <= slider current <= head <= tail + capacity, and no
\* sequence beyond the domain, at every point of the three concurrent calls.
THEOREM FrontiersOrdered == Spec => []FrontierOrder
<1>1. IInv => FrontierOrder
  BY DEF IInv
<1> QED BY <1>1, Invariance, PTL

\* No block is overwritten or half written while the persister or the
\* consumer reads it.
THEOREM BorrowedBlocksStable == Spec => []BorrowedBlockStable
<1>1. IInv => BorrowedBlockStable
  BY DEF IInv, TypeOK, RolesInSession, RolesIdle, FrontierOrder, RingInv,
         PersisterInv, ConsumerInv, BorrowedBlockStable
<1> QED BY <1>1, Invariance, PTL

\* ViewUnavailable, a refused reclaim and ProgressMismatch cannot happen in the
\* facade.
THEOREM NoContractBreaches == Spec => []NoContractBreach
<1>1. IInv => NoContractBreach
  BY DEF IInv, TypeOK, RolesInSession, RolesIdle, FrontierOrder, PersisterInv,
         ConsumerInv, NoContractBreach, Viewable
<1> QED BY <1>1, Invariance, PTL

\* Only records covered by a successful sync reach the consumer.
THEOREM WriteAheadHolds == Spec => []WriteAhead
<1>1. IInv => WriteAhead
  BY DEF IInv, TypeOK, FileInv, ConsumerInv, WriteAhead
<1> QED BY <1>1, Invariance, PTL

\* The file is a gapless, duplicate-free prefix of what was published.
THEOREM FileIsPrefix == Spec => []FileIsPrefixOfLog
<1>1. IInv => FileIsPrefixOfLog
  BY DEF IInv, TypeOK, FrontierOrder, PersisterInv, FileInv, FileIsPrefixOfLog
<1> QED BY <1>1, Invariance, PTL

\* A snapshot taken against the running roles is ordered.
THEOREM SnapshotsOrdered == Spec => []SnapshotOrdered
<1>1. IInv => SnapshotOrdered
  BY DEF IInv, TypeOK, SnapInv, SnapshotOrdered
<1> QED BY <1>1, Invariance, PTL

-----------------------------------------------------------------------------
(* What a step may never do.                                                 *)

\* After an append or sync failure the durable frontier and the file are
\* frozen, and an idle producer publishes nothing more.
THEOREM FailureTerminal == Spec => FailureIsTerminal
<1> DEFINE P == open /\ failed /\ open' =>
                  /\ failed' /\ durable' = durable /\ file' = file
                  /\ producer = "idle" => head' = head /\ producer' = "idle"
<1>1. IInv /\ [Next]_vars => P
  <2> SUFFICES ASSUME IInv, [Next]_vars, open, failed, open' PROVE P
    OBVIOUS
  <2>1. persister = "idle"
    BY DEF IInv, PersisterInv
  <2>2. CASE Open \/ OpenFails
    BY <2>2 DEF Open, OpenFails
  <2>3. CASE Producer
    BY <2>3 DEF Producer, PublishCheck, PublishLoadTail, PublishCopyBegin,
                PublishCopyEnd, PublishHead, diskVars, sliderVars
  <2>4. CASE Persister
    BY <2>1, <2>4 DEF Persister, AdvanceBegin, AdvanceView, AdvanceAppend,
                AppendFails, AdvanceSync, SyncFails, AdvancePublish
  <2>5. CASE Consumer
    BY <2>5 DEF Consumer, ConsumeBegin, ConsumeView, ConsumeCopy,
                ConsumeReclaim, coreVars, diskVars, sliderVars
  <2>6. CASE Snapshot
    BY <2>6 DEF Snapshot, SnapshotTail, SnapshotDurable, SnapshotHead,
                SnapshotUnchanged, coreVars, diskVars, sliderVars
  <2>7. CASE Close
    BY <2>7 DEF Close
  <2>8. CASE UNCHANGED vars
    BY <2>8 DEF vars, coreVars, diskVars, sliderVars
  <2> QED BY <2>2, <2>3, <2>4, <2>5, <2>6, <2>7, <2>8 DEF Next
<1>2. IInv /\ [Next]_vars => [P]_vars
  BY <1>1
<1> QED BY <1>2, Invariance, PTL DEF Spec, FailureIsTerminal

\* A close that reports success leaves nothing behind in ring or file.
THEOREM CleanClose == Spec => CleanCloseLosesNothing
<1> DEFINE P == open /\ ~open' /\ lastClose' \in {"Ok", "SequenceExhausted"} =>
                  /\ Len(consumed) = head /\ Len(file) = head /\ synced = head
                  /\ ~failed
<1>1. IInv /\ [Next]_vars => P
  <2> SUFFICES ASSUME IInv, Next, open, ~open',
                      lastClose' \in {"Ok", "SequenceExhausted"}
               PROVE  /\ Len(consumed) = head /\ Len(file) = head
                      /\ synced = head /\ ~failed
    BY DEF vars, lifeVars
  <2>1. Close
    BY DEF Next, Open, OpenFails, Producer, PublishCheck, PublishLoadTail,
           PublishCopyBegin, PublishCopyEnd, PublishHead, Persister,
           AdvanceBegin, AdvanceView, AdvanceAppend, AppendFails, AdvanceSync,
           SyncFails, AdvancePublish, Consumer, ConsumeBegin, ConsumeView,
           ConsumeCopy, ConsumeReclaim, Snapshot, SnapshotTail,
           SnapshotDurable, SnapshotHead, SnapshotUnchanged, lifeVars
  <2>2. ~failed
    BY <2>1 DEF Close
  <2>3. tail = durable /\ durable = head /\ RolesIdle
    BY <2>1, <2>2 DEF Close, CloseAllowed
  <2>4. Len(file) = head /\ Len(consumed) = head
    BY <2>2, <2>3 DEF IInv, PersisterInv, ConsumerInv, RolesIdle
  <2>5. synced <= Len(file) /\ durable <= synced /\ synced \in Nat
          /\ head \in Nat
    BY DEF IInv, TypeOK, PersisterInv, FileInv
  <2> QED BY <2>2, <2>3, <2>4, <2>5
<1>2. IInv /\ [Next]_vars => [P]_vars
  BY <1>1
<1> QED BY <1>2, Invariance, PTL DEF Spec, CleanCloseLosesNothing

-----------------------------------------------------------------------------
(* Refinement: the facade implements DurableLog.                             *)

\* The abstract state, in terms of the frontiers alone.
LEMMA AbstractState ==
  ASSUME IInv, open
  PROVE  /\ LogAccepted = head
         /\ LogDisk = FirstPayloads(durable)
         /\ LogDelivered = FirstPayloads(tail)
         /\ Len(LogDisk) = durable /\ Len(LogDelivered) = tail
<1>1. durable \in Nat /\ tail \in Nat /\ file \in Seq(Int)
        /\ consumed \in Seq(Int)
  BY DEF IInv, TypeOK
<1>2. durable <= Len(file) /\ \A i \in 1 .. Len(file) : file[i] = i - 1
  BY DEF IInv, TypeOK, FrontierOrder, PersisterInv, FileInv
<1>3. tail <= Len(consumed)
        /\ \A i \in 1 .. Len(consumed) : consumed[i] = i - 1
  BY DEF IInv, TypeOK, ConsumerInv
<1>4. LogDisk = FirstPayloads(durable) /\ LogDelivered = FirstPayloads(tail)
  BY <1>1, <1>2, <1>3, PrefixOfPayloads DEF LogDisk, LogDelivered
<1>5. LogAccepted = head
  BY DEF LogAccepted
<1>6. Len(FirstPayloads(durable)) = durable /\ Len(FirstPayloads(tail)) = tail
  BY <1>1 DEF FirstPayloads
<1> QED BY <1>4, <1>5, <1>6

\* The same in the next state.
LEMMA AbstractStatePrime ==
  ASSUME IInv', open'
  PROVE  /\ LogAccepted' = head'
         /\ LogDisk' = FirstPayloads(durable')
         /\ LogDelivered' = FirstPayloads(tail')
<1>1. durable' \in Nat /\ tail' \in Nat /\ file' \in Seq(Int)
        /\ consumed' \in Seq(Int)
  BY DEF IInv, TypeOK
<1>2. durable' <= Len(file') /\ \A i \in 1 .. Len(file') : file'[i] = i - 1
  BY DEF IInv, TypeOK, FrontierOrder, PersisterInv, FileInv
<1>3. tail' <= Len(consumed')
        /\ \A i \in 1 .. Len(consumed') : consumed'[i] = i - 1
  <2>1. \/ Len(consumed') = tail' + 1
        \/ Len(consumed') = tail'
    BY DEF IInv, ConsumerInv
  <2>2. \A i \in 1 .. Len(consumed') : consumed'[i] = i - 1
    BY DEF IInv, ConsumerInv
  <2>3. \A l, t : t \in Nat /\ (l = t + 1 \/ l = t) => t <= l
    OBVIOUS
  <2>4. tail' <= Len(consumed')
    BY ONLY <1>1, <2>1, <2>3, Zenon
  <2> QED BY <2>2, <2>4
<1> QED BY <1>1, <1>2, <1>3, PrefixOfPayloads
        DEF LogDisk, LogDelivered, LogAccepted

\* Nothing abstract exists outside a session.
LEMMA AbstractClosed ==
  /\ ~open => LogAccepted = 0 /\ LogDisk = <<>> /\ LogDelivered = <<>>
  /\ ~open' => LogAccepted' = 0 /\ LogDisk' = <<>> /\ LogDelivered' = <<>>
BY DEF LogAccepted, LogDisk, LogDelivered

\* A step that keeps the session, the frontiers and failed_ is a stutter.
LEMMA AbstractStutter ==
  ASSUME IInv, IInv', UNCHANGED <<open, head, durable, tail, failed>>
  PROVE  UNCHANGED Log!vars
<1>1. CASE open
  BY <1>1, AbstractState, AbstractStatePrime DEF Log!vars
<1>2. CASE ~open
  BY <1>2, AbstractClosed DEF Log!vars
<1> QED BY <1>1, <1>2

\* Every step is a step of the abstract log or leaves it alone.
LEMMA StepRefines == IInv /\ IInv' /\ [Next]_vars => [Log!Next]_(Log!vars)
<1> SUFFICES ASSUME IInv, IInv', [Next]_vars
             PROVE  Log!Next \/ UNCHANGED Log!vars
  OBVIOUS
<1> USE DEF coreVars, diskVars, sliderVars, lifeVars
<1>1. CASE Open
  <2>1. /\ LogAccepted' = 0 /\ LogDisk' = <<>> /\ LogDelivered' = <<>>
    BY <1>1, AbstractStatePrime DEF Open, CoreOpen, FirstPayloads
  <2> QED BY <1>1, <2>1, AbstractClosed DEF Open, Log!Next, Log!Start
<1>2. CASE OpenFails
  BY <1>2, AbstractClosed DEF OpenFails, Log!vars
<1>3. CASE PublishHead
  <2>1. open /\ open' /\ head < MaxRecords /\ head - tail < Capacity
    BY <1>3, WalAssumption
       DEF PublishHead, IInv, TypeOK, RolesInSession, RolesIdle, ProducerInv,
           LastPosition, MaxRecords
  <2>2. LogAccepted' = LogAccepted + 1
          /\ UNCHANGED <<LogDisk, LogDelivered, failed, open>>
    BY <1>3, <2>1, AbstractState, AbstractStatePrime DEF PublishHead
  <2> QED BY <2>1, <2>2, AbstractState DEF Log!Next, Log!Accept
<1>4. CASE AdvancePublish
  <2>1. open /\ open' /\ ~failed /\ durable' = current /\ durable <= current
          /\ current <= head /\ durable \in Nat /\ current \in Nat
          /\ head \in Nat
    BY <1>4 DEF AdvancePublish, IInv, TypeOK, RolesInSession, RolesIdle,
                FrontierOrder, PersisterInv
  <2>2. LogAccepted' = LogAccepted /\ LogDelivered' = LogDelivered
          /\ LogDisk' = FirstPayloads(current)
    BY <1>4, <2>1, AbstractState, AbstractStatePrime DEF AdvancePublish
  <2>3. CASE durable = current
    BY <1>4, <2>1, <2>3, AbstractStutter DEF AdvancePublish
  <2>4. CASE durable < current
    <3>1. LogDisk' = LogDisk \o [i \in 1 .. current - durable
                                   |-> Len(LogDisk) + i - 1]
      BY <2>1, <2>2, <2>4, AbstractState, ConcatPayloads
    <3>2. current - durable \in 1 .. LogAccepted - Len(LogDisk)
      BY <2>1, <2>4, AbstractState
    <3> QED BY <1>4, <2>1, <2>2, <3>1, <3>2
            DEF AdvancePublish, Log!Next, Log!Harden
  <2> QED BY <2>1, <2>3, <2>4
<1>5. CASE AppendFails \/ SyncFails
  <2>1. open /\ open' /\ failed'
          /\ UNCHANGED <<LogAccepted, LogDisk, LogDelivered, open>>
    BY <1>5, AbstractState, AbstractStatePrime
       DEF AppendFails, SyncFails, IInv, RolesInSession, RolesIdle
  <2> QED BY <2>1 DEF Log!Next, Log!Break
<1>6. CASE ConsumeReclaim
  <2>1. open /\ open' /\ tail' = tail + 1 /\ tail < durable
          /\ tail \in Nat /\ durable \in Nat
    BY <1>6 DEF ConsumeReclaim, IInv, TypeOK, RolesInSession, RolesIdle,
                FrontierOrder, ConsumerInv
  <2>2. LogDelivered' = Append(LogDelivered, tail)
          /\ UNCHANGED <<LogAccepted, LogDisk, failed, open>>
    BY <1>6, <2>1, AbstractState, AbstractStatePrime, AppendPayload
       DEF ConsumeReclaim
  <2>3. LogDisk[tail + 1] = tail
    BY <2>1, AbstractState DEF FirstPayloads
  <2> QED BY <2>1, <2>2, <2>3, AbstractState DEF Log!Next, Log!Deliver
<1>7. CASE Close
  <2>1. LogDelivered = LogDisk /\ (~failed => Len(LogDisk) = LogAccepted)
    BY <1>7, AbstractState DEF Close, CloseAllowed
  <2> QED BY <1>7, <2>1, AbstractClosed DEF Close, Log!Next, Log!Finish
<1>8. CASE \/ PublishCheck \/ PublishLoadTail \/ PublishCopyBegin
           \/ PublishCopyEnd
  BY <1>8, AbstractStutter
     DEF PublishCheck, PublishLoadTail, PublishCopyBegin, PublishCopyEnd
<1>9. CASE \/ \E batch \in BatchSizes : AdvanceBegin(batch)
           \/ AdvanceView \/ AdvanceAppend \/ AdvanceSync
  BY <1>9, AbstractStutter
     DEF AdvanceBegin, AdvanceView, AdvanceAppend, AdvanceSync
<1>10. CASE ConsumeBegin \/ ConsumeView \/ ConsumeCopy
  BY <1>10, AbstractStutter DEF ConsumeBegin, ConsumeView, ConsumeCopy
<1>11. CASE Snapshot
  BY <1>11, AbstractStutter
     DEF Snapshot, SnapshotTail, SnapshotDurable, SnapshotHead,
         SnapshotUnchanged
<1>12. CASE UNCHANGED vars
  BY <1>12, AbstractStutter DEF vars
<1> QED
  BY <1>1, <1>2, <1>3, <1>4, <1>5, <1>6, <1>7, <1>8, <1>9, <1>10, <1>11,
     <1>12
  DEF Next, Producer, Persister, Consumer

\* Every behaviour of the three roles, the ring, the slider and the file is a
\* behaviour of the abstract log: records are delivered in order, once, after
\* they are durable, and a session never ends with a durable record undelivered.
THEOREM Refinement == Spec => ImplementsDurableLog
<1>1. Init => Log!Init
  BY AbstractClosed DEF Init, Log!Init
<1> QED BY <1>1, StepRefines, Invariance, PTL
        DEF Spec, ImplementsDurableLog, Log!Spec
=============================================================================
