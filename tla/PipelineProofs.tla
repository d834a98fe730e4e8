--------------------------- MODULE PipelineProofs ---------------------------
(* Theorems about CommandPipeline, for every capacity, sequence domain and    *)
(* set of replayed sequences.                                                 *)
EXTENDS CommandPipeline, TLAPS

-----------------------------------------------------------------------------
(* Ring arithmetic, and the sequence of the payloads so far.                 *)

\* The slot of a position is a slot of the ring.
LEMMA ModInRing ==
  ASSUME NEW c \in Nat \ {0}, NEW a \in Nat
  PROVE  a % c \in 0 .. c - 1
OBVIOUS

\* Two positions less than a capacity apart never share a slot.
LEMMA ModDistinct ==
  ASSUME NEW c \in Nat \ {0}, NEW a \in Nat, NEW b \in Nat, a < b, b - a < c
  PROVE  a % c # b % c
<1> DEFINE qa == a \div c
           qb == b \div c
<1>1. c \in Int /\ c > 0
  OBVIOUS
<1>2. /\ qa \in Int /\ qb \in Int
      /\ a = c * qa + (a % c)
      /\ b = c * qb + (b % c)
  BY <1>1, SMT
<1>3. SUFFICES ASSUME a % c = b % c PROVE FALSE
  OBVIOUS
<1> HIDE DEF qa, qb
<1>4. b - a = c * (qb - qa)
  BY <1>1, <1>2, <1>3, SMT
<1>5. CASE qb - qa <= 0
  <2>1. c * (qb - qa) <= 0
    BY <1>1, <1>2, <1>5, SMT
  <2> QED BY <2>1, <1>4
<1>6. CASE qb - qa >= 1
  <2>1. c * (qb - qa) >= c
    BY <1>1, <1>2, <1>6, SMT
  <2> QED BY <2>1, <1>1, <1>4
<1> QED BY <1>2, <1>5, <1>6

\* The payloads of the first n positions of a session.
FirstPayloads(n) == [i \in 1 .. n |-> i - 1]

\* A prefix of a sequence that counts up from 0 is such a prefix of all of them.
LEMMA PrefixOfPayloads ==
  ASSUME NEW q \in Seq(Int), NEW n \in Nat, n <= Len(q),
         \A i \in 1 .. Len(q) : q[i] = i - 1
  PROVE  SubSeq(q, 1, n) = FirstPayloads(n)
BY DEF FirstPayloads

\* Delivering and hardening extend such a prefix.
LEMMA AppendPayload ==
  ASSUME NEW n \in Nat
  PROVE  Append(FirstPayloads(n), n) = FirstPayloads(n + 1)
BY DEF FirstPayloads

\* The next n - m payloads continue the first m.
LEMMA ConcatPayloads ==
  ASSUME NEW m \in Nat, NEW n \in Nat, m <= n
  PROVE  FirstPayloads(n)
           = FirstPayloads(m) \o [i \in 1 .. n - m |-> m + i - 1]
BY DEF FirstPayloads

\* slot_at stays in the ring.
LEMMA SlotAtType == \A p \in Nat : SlotAt(p) \in Slots
BY PipelineAssumption, ModInRing DEF SlotAt, Slots

\* Retained positions do not share a slot.
LEMMA SlotsApart ==
  ASSUME NEW p \in Nat, NEW q \in Nat, p # q,
         p - q < Capacity, q - p < Capacity
  PROVE  SlotAt(p) # SlotAt(q)
<1>1. CASE p < q
  BY <1>1, PipelineAssumption, ModDistinct DEF SlotAt
<1>2. CASE q < p
  BY <1>2, PipelineAssumption, ModDistinct DEF SlotAt
<1> QED BY <1>1, <1>2

\* Storing a slot: the others keep their contents.
LEMMA StoreSlot ==
  ASSUME slots \in [Slots -> SlotType], NEW s \in Slots, NEW r \in SlotType,
         slots' = [slots EXCEPT ![s] = r]
  PROVE  /\ slots' \in [Slots -> SlotType]
         /\ slots'[s] = r
         /\ \A t \in Slots : t # s => slots'[t] = slots[t]
OBVIOUS

\* Storing one field of a slot: the other fields keep theirs as well.
LEMMA StoreCommand ==
  ASSUME slots \in [Slots -> SlotType], NEW s \in Slots, NEW v \in Int,
         slots' = [slots EXCEPT ![s].command = v]
  PROVE  /\ slots' \in [Slots -> SlotType]
         /\ \A t \in Slots : t # s => slots'[t] = slots[t]
<1>1. [slots[s] EXCEPT !.command = v] \in SlotType
  BY DEF SlotType
<1> QED BY <1>1, StoreSlot

\* The same for the decision of the risk stage ...
LEMMA StoreRisk ==
  ASSUME slots \in [Slots -> SlotType], NEW s \in Slots, NEW v \in Int,
         slots' = [slots EXCEPT ![s].risk = v]
  PROVE  /\ slots' \in [Slots -> SlotType]
         /\ \A t \in Slots : t # s => slots'[t] = slots[t]
         /\ slots'[s].risk = v
         /\ slots'[s].command = slots[s].command
         /\ slots'[s].reserve = slots[s].reserve
<1> DEFINE r == [slots[s] EXCEPT !.risk = v]
<1>1. /\ r \in SlotType /\ r.risk = v /\ r.command = slots[s].command
      /\ r.reserve = slots[s].reserve
  BY DEF SlotType
<1> QED BY <1>1, StoreSlot

\* ... and of the reserve stage.
LEMMA StoreReserve ==
  ASSUME slots \in [Slots -> SlotType], NEW s \in Slots, NEW v \in Int,
         slots' = [slots EXCEPT ![s].reserve = v]
  PROVE  /\ slots' \in [Slots -> SlotType]
         /\ \A t \in Slots : t # s => slots'[t] = slots[t]
         /\ slots'[s].reserve = v
         /\ slots'[s].command = slots[s].command
         /\ slots'[s].risk = slots[s].risk
<1> DEFINE r == [slots[s] EXCEPT !.reserve = v]
<1>1. /\ r \in SlotType /\ r.reserve = v /\ r.command = slots[s].command
      /\ r.risk = slots[s].risk
  BY DEF SlotType
<1> QED BY <1>1, StoreSlot

-----------------------------------------------------------------------------
(* The inductive invariant.  The frontier chain is kept only together with    *)
(* what each role has already checked; the decisions delivered are right only *)
(* because every retained slot is whole and carries the decisions of its own  *)
(* position up to the frontiers of the two stages.                            *)

\* Nothing runs before open().
OpenInv == ~open => /\ producer = "idle" /\ batch = 0 /\ matcher = "idle"
                    /\ ~failed

\* A producer past its checks has a free slot; what it has written is whole.
ProducerInv ==
  /\ producer # "idle" => head < MaxPublished
  /\ producer \in {"assign", "assigning", "written"} => head - tail < Capacity
  /\ producer = "written" =>
       /\ slots[SlotAt(head)].command = head
       /\ slots[SlotAt(head)].risk = Pending
       /\ slots[SlotAt(head)].reserve = Pending

\* Retained slots are whole and decided up to the frontiers of the stages.
RingInv ==
  \A p \in Nat : tail <= p /\ p < head =>
    /\ slots[SlotAt(p)].command = p
    /\ p < riskChecked => slots[SlotAt(p)].risk = p
    /\ p < reserveChecked => slots[SlotAt(p)].reserve = p

\* A stage decides about the command at its own frontier.
StageInv ==
  /\ risk # "idle" => riskChecked < durable /\ riskRead = riskChecked
  /\ risk = "written" => slots[SlotAt(riskChecked)].risk = riskChecked
  /\ reserve # "idle" =>
       reserveChecked < riskChecked /\ reserveRead = reserveChecked
  /\ reserve = "written" =>
       slots[SlotAt(reserveChecked)].reserve = reserveChecked

MatcherInv ==
  /\ matcher = "copied" => tail < reserveChecked
  /\ Len(delivered) = IF matcher = "copied" THEN tail + 1 ELSE tail
  /\ DecisionsBelong

LogInv ==
  /\ Len(walLog) = durable + batch
  /\ \A i \in 1 .. Len(walLog) : walLog[i] = i - 1

IInv ==
  /\ TypeOK
  /\ OpenInv
  /\ FrontierChain
  /\ ProducerInv
  /\ RingInv
  /\ StageInv
  /\ MatcherInv
  /\ LogInv

\* What a step on the ring may use of the invariant.
LEMMA FrontierFacts ==
  ASSUME IInv
  PROVE  /\ head \in Nat /\ durable \in Nat /\ riskChecked \in Nat
         /\ reserveChecked \in Nat /\ tail \in Nat /\ batch \in Nat
         /\ tail <= reserveChecked /\ reserveChecked <= riskChecked
         /\ riskChecked <= durable /\ durable + batch <= head
         /\ head - tail <= Capacity /\ Capacity \in Nat \ {0}
BY PipelineAssumption DEF IInv, TypeOK, FrontierChain

\* The fresh pipeline satisfies the invariant.
LEMMA InitInv == Init => IInv
<1> SUFFICES ASSUME Init PROVE IInv
  OBVIOUS
<1> USE PipelineAssumption DEF Init, Slots, EmptySlot, Pending
<1>1. TypeOK
  <2>1. slots \in [Slots -> SlotType]
    BY DEF SlotType
  <2>2. delivered \in Seq(SlotType) /\ walLog \in Seq(Int)
    OBVIOUS
  <2>3. /\ publishing \in [seq : 0 .. MaxSequence, live : BOOLEAN]
        /\ nextLive \in 0 .. MaxSequence
    OBVIOUS
  <2>4. /\ head \in Nat /\ durable \in Nat /\ riskChecked \in Nat
        /\ reserveChecked \in Nat /\ tail \in Nat /\ batch \in Nat
        /\ riskRead \in Int /\ reserveRead \in Int
    OBVIOUS
  <2> QED BY <2>1, <2>2, <2>3, <2>4 DEF TypeOK
<1>2. OpenInv /\ FrontierChain /\ ProducerInv /\ RingInv /\ StageInv
  BY DEF OpenInv, FrontierChain, ProducerInv, RingInv, StageInv
<1>3. MatcherInv /\ LogInv
  BY DEF MatcherInv, DecisionsBelong, LogInv
<1> QED BY <1>1, <1>2, <1>3 DEF IInv
-----------------------------------------------------------------------------
(* The steps that write to the ring or move a frontier.                       *)

\* An assignment in progress touches no retained slot.
LEMMA AssignStep == IInv /\ PublishAssign => IInv'
<1> SUFFICES ASSUME IInv, PublishAssign PROVE IInv'
  OBVIOUS
<1> USE DEF PublishAssign, ProducerElse, persistenceVars, stageVars, liveVars
<1>0. head - tail < Capacity /\ open
  BY DEF IInv, ProducerInv, OpenInv
<1>a. /\ slots' \in [Slots -> SlotType]
      /\ \A t \in Slots : t # SlotAt(head) => slots'[t] = slots[t]
  <2>1. slots \in [Slots -> SlotType] /\ SlotAt(head) \in Slots
          /\ HalfWritten \in Int
    BY FrontierFacts, SlotAtType DEF IInv, TypeOK, HalfWritten
  <2>2. slots' = [slots EXCEPT ![SlotAt(head)].command = HalfWritten]
    OBVIOUS
  <2> QED BY ONLY <2>1, <2>2, StoreCommand
<1>1. \A p \in Nat : tail <= p /\ p < head => slots'[SlotAt(p)] = slots[SlotAt(p)]
  BY <1>0, <1>a, FrontierFacts, SlotsApart, SlotAtType
<1>2. TypeOK'
  BY <1>a DEF IInv, TypeOK
<1>3. OpenInv' /\ FrontierChain' /\ ProducerInv'
  BY <1>0 DEF IInv, OpenInv, FrontierChain, ProducerInv
<1>4. RingInv'
  BY <1>1 DEF IInv, RingInv
<1>5. StageInv'
  BY <1>1, FrontierFacts DEF IInv, StageInv
<1>6. MatcherInv' /\ LogInv'
  BY DEF IInv, MatcherInv, DecisionsBelong, LogInv
<1> QED BY <1>2, <1>3, <1>4, <1>5, <1>6 DEF IInv

\* The finished assignment is whole, and still touches no retained slot.
LEMMA ResetStep == IInv /\ PublishReset => IInv'
<1> SUFFICES ASSUME IInv, PublishReset PROVE IInv'
  OBVIOUS
<1> USE DEF PublishReset, ProducerElse, persistenceVars, stageVars, liveVars
<1>0. head - tail < Capacity /\ open
  BY DEF IInv, ProducerInv, OpenInv
<1> DEFINE r == [command |-> head, seq |-> publishing.seq,
                 risk |-> Pending, reserve |-> Pending]
<1>r. r \in SlotType
  BY DEF IInv, TypeOK, SlotType, Pending
<1>a. /\ slots' \in [Slots -> SlotType] /\ slots'[SlotAt(head)] = r
      /\ \A t \in Slots : t # SlotAt(head) => slots'[t] = slots[t]
  BY <1>r, FrontierFacts, SlotAtType, StoreSlot DEF IInv, TypeOK
<1>1. \A p \in Nat : tail <= p /\ p < head => slots'[SlotAt(p)] = slots[SlotAt(p)]
  BY <1>0, <1>a, FrontierFacts, SlotsApart, SlotAtType
<1>2. TypeOK'
  BY <1>a DEF IInv, TypeOK
<1>3. OpenInv' /\ FrontierChain' /\ ProducerInv'
  BY <1>0, <1>a, FrontierFacts
     DEF IInv, OpenInv, FrontierChain, ProducerInv
<1>4. RingInv'
  BY <1>1 DEF IInv, RingInv
<1>5. StageInv'
  BY <1>1, FrontierFacts DEF IInv, StageInv
<1>6. MatcherInv' /\ LogInv'
  BY DEF IInv, MatcherInv, DecisionsBelong, LogInv
<1> QED BY <1>2, <1>3, <1>4, <1>5, <1>6 DEF IInv

\* The published slot joins the retained ones.
LEMMA HeadStep == IInv /\ PublishHead => IInv'
<1> SUFFICES ASSUME IInv, PublishHead PROVE IInv'
  OBVIOUS
<1> USE DEF PublishHead, ProducerElse, persistenceVars, stageVars, liveVars
<1>0. head - tail < Capacity /\ open
  BY DEF IInv, ProducerInv, OpenInv
<1>2. TypeOK'
  <2>1. nextLive' \in 0 .. MaxSequence /\ exhausted' \in BOOLEAN
    <3>1. publishing.seq \in 0 .. MaxSequence /\ nextLive \in 0 .. MaxSequence
            /\ exhausted \in BOOLEAN /\ MaxSequence \in Nat
      BY PipelineAssumption DEF IInv, TypeOK
    <3>2. CASE AdvanceLive
      <4>1. CASE publishing.seq = MaxSequence
        BY <3>1, <3>2, <4>1 DEF AdvanceLive
      <4>2. CASE publishing.seq # MaxSequence
        BY <3>1, <3>2, <4>2 DEF AdvanceLive
      <4> QED BY <4>1, <4>2
    <3>3. CASE UNCHANGED liveVars
      BY <3>1, <3>3
    <3> QED BY <3>2, <3>3
  <2> QED BY <2>1 DEF IInv, TypeOK
<1>3. OpenInv' /\ FrontierChain' /\ ProducerInv'
  BY <1>0, FrontierFacts DEF IInv, OpenInv, FrontierChain, ProducerInv
<1>4. RingInv'
  BY FrontierFacts DEF IInv, RingInv, ProducerInv
<1>5. StageInv'
  BY DEF IInv, StageInv
<1>6. MatcherInv' /\ LogInv'
  BY DEF IInv, MatcherInv, DecisionsBelong, LogInv
<1> QED BY <1>2, <1>3, <1>4, <1>5, <1>6 DEF IInv

\* The other steps of the producer write nothing that is shared.
LEMMA ProducerStep == IInv /\ Producer => IInv'
<1> SUFFICES ASSUME IInv, Producer PROVE IInv'
  OBVIOUS
<1> USE DEF ProducerElse, persistenceVars, stageVars, liveVars
<1>1. CASE PublishAssign \/ PublishReset \/ PublishHead
  BY <1>1, AssignStep, ResetStep, HeadStep
<1>2. CASE PublishLive \/ \E s \in ReplaySequences : PublishReplay(s)
  <2>1. /\ open /\ head < MaxPublished /\ producer' = "checked"
        /\ publishing' \in [seq : 0 .. MaxSequence, live : BOOLEAN]
        /\ UNCHANGED <<open, frontiers, slots, liveVars, persistenceVars,
                       stageVars>>
    <3>1. nextLive \in 0 .. MaxSequence
            /\ ReplaySequences \subseteq 0 .. MaxSequence
      BY PipelineAssumption DEF IInv, TypeOK
    <3>2. publishing' \in [seq : 0 .. MaxSequence, live : BOOLEAN]
      <4>1. CASE PublishLive
        BY <4>1, <3>1 DEF PublishLive
      <4>2. ASSUME NEW s \in ReplaySequences, PublishReplay(s)
            PROVE  publishing' \in [seq : 0 .. MaxSequence, live : BOOLEAN]
        BY <4>2, <3>1 DEF PublishReplay
      <4> QED BY <1>2, <4>1, <4>2
    <3> QED BY <1>2, <3>2 DEF PublishLive, PublishReplay, frontiers
  <2>2. TypeOK'
    BY <2>1 DEF IInv, TypeOK, frontiers
  <2>3. OpenInv' /\ FrontierChain' /\ ProducerInv' /\ RingInv' /\ StageInv'
    BY <2>1 DEF IInv, OpenInv, FrontierChain, ProducerInv, RingInv, StageInv,
                frontiers
  <2>4. MatcherInv' /\ LogInv'
    BY <2>1 DEF IInv, MatcherInv, DecisionsBelong, LogInv, frontiers
  <2> QED BY <2>2, <2>3, <2>4 DEF IInv
<1>3. CASE PublishCheckAgain \/ PublishLoadTail
  <2>1. /\ open /\ producer # "idle"
        /\ producer' \in {"idle", "admitted", "assign"}
        /\ producer' = "assign" => ~Full
        /\ UNCHANGED <<open, frontiers, slots, publishing, liveVars,
                       persistenceVars, stageVars>>
    BY <1>3 DEF IInv, OpenInv, PublishCheckAgain, PublishLoadTail, frontiers
  <2>2. TypeOK'
    BY <2>1 DEF IInv, TypeOK, frontiers
  <2>3. OpenInv' /\ FrontierChain' /\ RingInv' /\ StageInv'
    BY <2>1 DEF IInv, OpenInv, FrontierChain, RingInv, StageInv, frontiers
  <2>4. ProducerInv'
    BY <2>1, FrontierFacts DEF IInv, ProducerInv, Full, frontiers
  <2>5. MatcherInv' /\ LogInv'
    BY <2>1 DEF IInv, MatcherInv, DecisionsBelong, LogInv, frontiers
  <2> QED BY <2>2, <2>3, <2>4, <2>5 DEF IInv
<1>4. CASE \E s \in RestorePoints : RestoreLiveSequence(s)
  <2>1. /\ nextLive' \in 0 .. MaxSequence /\ exhausted' = FALSE
        /\ UNCHANGED <<open, frontiers, slots, producer, publishing,
                       persistenceVars, stageVars>>
    BY <1>4, PipelineAssumption DEF RestoreLiveSequence, frontiers
  <2>2. TypeOK'
    BY <2>1 DEF IInv, TypeOK, frontiers
  <2>3. OpenInv' /\ FrontierChain' /\ ProducerInv' /\ RingInv' /\ StageInv'
    BY <2>1 DEF IInv, OpenInv, FrontierChain, ProducerInv, RingInv, StageInv,
                frontiers
  <2>4. MatcherInv' /\ LogInv'
    BY <2>1 DEF IInv, MatcherInv, DecisionsBelong, LogInv, frontiers
  <2> QED BY <2>2, <2>3, <2>4 DEF IInv
<1> QED BY <1>1, <1>2, <1>3, <1>4 DEF Producer
\* The risk sidecar goes to the slot of the command the stage read.
LEMMA WriteRiskStep == IInv /\ WriteRisk => IInv'
<1> SUFFICES ASSUME IInv, WriteRisk PROVE IInv'
  OBVIOUS
<1> USE DEF WriteRisk, RiskElse, persistenceVars, producerVars, liveVars
<1>1. /\ slots \in [Slots -> SlotType] /\ SlotAt(riskChecked) \in Slots
      /\ riskRead \in Int
  BY FrontierFacts, SlotAtType DEF IInv, TypeOK
<1>2. slots' = [slots EXCEPT ![SlotAt(riskChecked)].risk = riskRead]
  OBVIOUS
<1>3. /\ slots' \in [Slots -> SlotType]
      /\ \A t \in Slots : t # SlotAt(riskChecked) => slots'[t] = slots[t]
      /\ slots'[SlotAt(riskChecked)].risk = riskRead
      /\ slots'[SlotAt(riskChecked)].command = slots[SlotAt(riskChecked)].command
      /\ slots'[SlotAt(riskChecked)].reserve = slots[SlotAt(riskChecked)].reserve
  BY ONLY <1>1, <1>2, StoreRisk
<1>4. /\ tail <= riskChecked /\ riskChecked < head /\ riskRead = riskChecked
  BY FrontierFacts DEF IInv, StageInv
<1>5. \A p \in Nat : tail <= p /\ p - tail < Capacity /\ p # riskChecked =>
        slots'[SlotAt(p)] = slots[SlotAt(p)]
  <2> SUFFICES ASSUME NEW p \in Nat, tail <= p, p - tail < Capacity,
                      p # riskChecked
               PROVE  SlotAt(p) \in Slots /\ SlotAt(p) # SlotAt(riskChecked)
    BY <1>3
  <2>1. p - riskChecked < Capacity /\ riskChecked - p < Capacity /\ riskChecked \in Nat
    BY <1>4, FrontierFacts
  <2> QED BY <2>1, SlotsApart, SlotAtType
<1>6. TypeOK'
  BY <1>3 DEF IInv, TypeOK
<1>7. OpenInv' /\ FrontierChain'
  BY DEF IInv, OpenInv, FrontierChain
<1>8. ProducerInv'
  <2>1. producer = "written" => slots'[SlotAt(head)] = slots[SlotAt(head)]
    BY <1>4, <1>5, FrontierFacts DEF IInv, ProducerInv
  <2> QED BY <2>1 DEF IInv, ProducerInv
<1>9. RingInv'
  BY <1>3, <1>4, <1>5, FrontierFacts DEF IInv, RingInv
<1>10. StageInv'
  BY <1>3, <1>4, <1>5, FrontierFacts DEF IInv, StageInv
<1>11. MatcherInv' /\ LogInv'
  BY DEF IInv, MatcherInv, DecisionsBelong, LogInv
<1> QED BY <1>6, <1>7, <1>8, <1>9, <1>10, <1>11 DEF IInv

\* The other steps of the stage read, or move its frontier past a decided slot.
LEMMA RiskStep == IInv /\ Risk => IInv'
<1> SUFFICES ASSUME IInv, Risk PROVE IInv'
  OBVIOUS
<1> USE DEF RiskElse, persistenceVars, producerVars, liveVars
<1>1. CASE TryReadForRisk
  <2> USE <1>1 DEF TryReadForRisk
  <2>0. riskRead' = riskChecked /\ riskChecked < durable
    BY FrontierFacts DEF IInv, RingInv
  <2>1. TypeOK'
    BY <2>0, FrontierFacts DEF IInv, TypeOK
  <2>2. OpenInv' /\ FrontierChain' /\ ProducerInv' /\ RingInv'
    BY DEF IInv, OpenInv, FrontierChain, ProducerInv, RingInv
  <2>3. StageInv'
    BY <2>0 DEF IInv, StageInv
  <2>4. MatcherInv' /\ LogInv'
    BY DEF IInv, MatcherInv, DecisionsBelong, LogInv
  <2> QED BY <2>1, <2>2, <2>3, <2>4 DEF IInv
<1>2. CASE WriteRisk
  BY <1>2, WriteRiskStep
<1>3. CASE PublishRisk
  <2> USE <1>3 DEF PublishRisk
  <2>0. riskChecked < durable /\ slots[SlotAt(riskChecked)].risk = riskChecked
    BY DEF IInv, StageInv
  <2>1. TypeOK'
    BY DEF IInv, TypeOK
  <2>2. OpenInv' /\ FrontierChain' /\ ProducerInv'
    BY <2>0, FrontierFacts DEF IInv, OpenInv, FrontierChain, ProducerInv
  <2>3. RingInv'
    BY <2>0, FrontierFacts DEF IInv, RingInv
  <2>4. StageInv'
    BY <2>0, FrontierFacts DEF IInv, StageInv
  <2>5. MatcherInv' /\ LogInv'
    BY <2>0, FrontierFacts DEF IInv, MatcherInv, DecisionsBelong, LogInv
  <2> QED BY <2>1, <2>2, <2>3, <2>4, <2>5 DEF IInv
<1> QED BY <1>1, <1>2, <1>3 DEF Risk

\* The reserve sidecar goes to the slot of the command the stage read.
LEMMA WriteReserveStep == IInv /\ WriteReserve => IInv'
<1> SUFFICES ASSUME IInv, WriteReserve PROVE IInv'
  OBVIOUS
<1> USE DEF WriteReserve, ReserveElse, persistenceVars, producerVars, liveVars
<1>1. /\ slots \in [Slots -> SlotType] /\ SlotAt(reserveChecked) \in Slots
      /\ reserveRead \in Int
  BY FrontierFacts, SlotAtType DEF IInv, TypeOK
<1>2. slots' = [slots EXCEPT ![SlotAt(reserveChecked)].reserve = reserveRead]
  OBVIOUS
<1>3. /\ slots' \in [Slots -> SlotType]
      /\ \A t \in Slots : t # SlotAt(reserveChecked) => slots'[t] = slots[t]
      /\ slots'[SlotAt(reserveChecked)].reserve = reserveRead
      /\ slots'[SlotAt(reserveChecked)].command = slots[SlotAt(reserveChecked)].command
      /\ slots'[SlotAt(reserveChecked)].risk = slots[SlotAt(reserveChecked)].risk
  BY ONLY <1>1, <1>2, StoreReserve
<1>4. /\ tail <= reserveChecked /\ reserveChecked < head /\ reserveRead = reserveChecked
  BY FrontierFacts DEF IInv, StageInv, ReserveReady
<1>5. \A p \in Nat : tail <= p /\ p - tail < Capacity /\ p # reserveChecked =>
        slots'[SlotAt(p)] = slots[SlotAt(p)]
  <2> SUFFICES ASSUME NEW p \in Nat, tail <= p, p - tail < Capacity,
                      p # reserveChecked
               PROVE  SlotAt(p) \in Slots /\ SlotAt(p) # SlotAt(reserveChecked)
    BY <1>3
  <2>1. p - reserveChecked < Capacity /\ reserveChecked - p < Capacity /\ reserveChecked \in Nat
    BY <1>4, FrontierFacts
  <2> QED BY <2>1, SlotsApart, SlotAtType
<1>6. TypeOK'
  BY <1>3 DEF IInv, TypeOK
<1>7. OpenInv' /\ FrontierChain'
  BY DEF IInv, OpenInv, FrontierChain
<1>8. ProducerInv'
  <2>1. producer = "written" => slots'[SlotAt(head)] = slots[SlotAt(head)]
    BY <1>4, <1>5, FrontierFacts DEF IInv, ProducerInv
  <2> QED BY <2>1 DEF IInv, ProducerInv
<1>9. RingInv'
  BY <1>3, <1>4, <1>5, FrontierFacts DEF IInv, RingInv
<1>10. StageInv'
  BY <1>3, <1>4, <1>5, FrontierFacts DEF IInv, StageInv
<1>11. MatcherInv' /\ LogInv'
  BY DEF IInv, MatcherInv, DecisionsBelong, LogInv
<1> QED BY <1>6, <1>7, <1>8, <1>9, <1>10, <1>11 DEF IInv

\* The other steps of the stage read, or move its frontier past a decided slot.
LEMMA ReserveStep == IInv /\ Reserve => IInv'
<1> SUFFICES ASSUME IInv, Reserve PROVE IInv'
  OBVIOUS
<1> USE DEF ReserveElse, persistenceVars, producerVars, liveVars
<1>1. CASE TryReadForReserve
  <2> USE <1>1 DEF TryReadForReserve
  <2>0. reserveRead' = reserveChecked /\ reserveChecked < riskChecked
    BY FrontierFacts DEF IInv, RingInv, ReserveReady
  <2>1. TypeOK'
    BY <2>0, FrontierFacts DEF IInv, TypeOK
  <2>2. OpenInv' /\ FrontierChain' /\ ProducerInv' /\ RingInv'
    BY DEF IInv, OpenInv, FrontierChain, ProducerInv, RingInv
  <2>3. StageInv'
    BY <2>0 DEF IInv, StageInv
  <2>4. MatcherInv' /\ LogInv'
    BY DEF IInv, MatcherInv, DecisionsBelong, LogInv
  <2> QED BY <2>1, <2>2, <2>3, <2>4 DEF IInv
<1>2. CASE WriteReserve
  BY <1>2, WriteReserveStep
<1>3. CASE PublishReserve
  <2> USE <1>3 DEF PublishReserve
  <2>0. reserveChecked < riskChecked /\ slots[SlotAt(reserveChecked)].reserve = reserveChecked
    BY DEF IInv, StageInv
  <2>1. TypeOK'
    BY DEF IInv, TypeOK
  <2>2. OpenInv' /\ FrontierChain' /\ ProducerInv'
    BY <2>0, FrontierFacts DEF IInv, OpenInv, FrontierChain, ProducerInv
  <2>3. RingInv'
    BY <2>0, FrontierFacts DEF IInv, RingInv
  <2>4. StageInv'
    BY <2>0, FrontierFacts DEF IInv, StageInv
  <2>5. MatcherInv' /\ LogInv'
    BY <2>0, FrontierFacts DEF IInv, MatcherInv, DecisionsBelong, LogInv
  <2> QED BY <2>1, <2>2, <2>3, <2>4, <2>5 DEF IInv
<1> QED BY <1>1, <1>2, <1>3 DEF Reserve

\* Persistence extends the log with the next pending command.
LEMMA PersistenceStep == IInv /\ Persistence => IInv'
<1> SUFFICES ASSUME IInv, Persistence PROVE IInv'
  OBVIOUS
<1> USE DEF PersistenceElse, producerVars, stageVars, liveVars
<1>1. CASE Copy
  <2> USE <1>1 DEF Copy
  <2>0. slots[SlotAt(durable + batch)].command = durable + batch
    <3>1. durable + batch \in Nat /\ tail <= durable + batch /\ durable + batch < head
      BY FrontierFacts
    <3>2. \A p \in Nat : tail <= p /\ p < head => slots[SlotAt(p)].command = p
      BY DEF IInv, RingInv
    <3> QED BY ONLY <3>1, <3>2
  <2>1. TypeOK'
    BY <2>0, FrontierFacts DEF IInv, TypeOK
  <2>2. OpenInv' /\ FrontierChain' /\ ProducerInv' /\ RingInv' /\ StageInv'
    BY FrontierFacts
       DEF IInv, OpenInv, FrontierChain, ProducerInv, RingInv, StageInv
  <2>3. MatcherInv'
    BY DEF IInv, MatcherInv, DecisionsBelong
  <2>4. LogInv'
    <3>1. Len(walLog) = durable + batch /\ walLog \in Seq(Int)
      BY DEF IInv, TypeOK, LogInv
    <3>2. walLog' = Append(walLog, durable + batch) /\ batch' = batch + 1
            /\ durable' = durable
      BY <2>0
    <3>3. Len(walLog') = durable' + batch'
      BY <3>1, <3>2, FrontierFacts
    <3>4. \A i \in 1 .. Len(walLog') : walLog'[i] = i - 1
      <4> SUFFICES ASSUME NEW i \in 1 .. Len(walLog') PROVE walLog'[i] = i - 1
        OBVIOUS
      <4>1. CASE i <= durable + batch
        <5>1. walLog'[i] = walLog[i] /\ i \in 1 .. Len(walLog)
          BY <3>1, <3>2, <4>1, FrontierFacts
        <5> QED BY <5>1 DEF IInv, LogInv
      <4>2. CASE i = durable + batch + 1
        <5>1. /\ i = Len(walLog) + 1 /\ walLog \in Seq(Int)
              /\ i - 1 = durable + batch
          BY <3>1, <4>2, FrontierFacts
        <5>2. walLog'[Len(walLog) + 1] = durable + batch
          BY ONLY <3>1, <3>2
        <5> QED BY ONLY <5>1, <5>2
      <4> QED BY <3>2, <3>3, <4>1, <4>2, FrontierFacts
    <3> QED BY <3>3, <3>4 DEF LogInv
  <2> QED BY <2>1, <2>2, <2>3, <2>4 DEF IInv
<1>2. CASE PublishDurable
  <2> USE <1>2 DEF PublishDurable
  <2>1. TypeOK'
    BY FrontierFacts DEF IInv, TypeOK
  <2>2. OpenInv' /\ FrontierChain' /\ ProducerInv' /\ RingInv'
    BY FrontierFacts DEF IInv, OpenInv, FrontierChain, ProducerInv, RingInv
  <2>3. StageInv'
    BY FrontierFacts DEF IInv, StageInv
  <2>4. MatcherInv' /\ LogInv'
    BY FrontierFacts DEF IInv, MatcherInv, DecisionsBelong, LogInv
  <2> QED BY <2>1, <2>2, <2>3, <2>4 DEF IInv
<1>3. CASE FailPersistence
  <2> USE <1>3 DEF FailPersistence
  <2>1. TypeOK'
    BY DEF IInv, TypeOK
  <2>2. OpenInv' /\ FrontierChain' /\ ProducerInv' /\ RingInv' /\ StageInv'
    BY DEF IInv, OpenInv, FrontierChain, ProducerInv, RingInv, StageInv
  <2>3. MatcherInv' /\ LogInv'
    BY DEF IInv, MatcherInv, DecisionsBelong, LogInv
  <2> QED BY <2>1, <2>2, <2>3 DEF IInv
<1> QED BY <1>1, <1>2, <1>3 DEF Persistence

\* The matcher copies a decided slot before it releases it.
LEMMA MatcherStep == IInv /\ Matcher => IInv'
<1> SUFFICES ASSUME IInv, Matcher PROVE IInv'
  OBVIOUS
<1> USE DEF MatcherElse, producerVars, persistenceVars, liveVars
<1>1. CASE ConsumeCopy
  <2> USE <1>1 DEF ConsumeCopy
  <2>0. /\ tail < reserveChecked
        /\ slots[SlotAt(tail)].command = tail
        /\ slots[SlotAt(tail)].risk = tail
        /\ slots[SlotAt(tail)].reserve = tail
        /\ slots[SlotAt(tail)] \in SlotType
    BY FrontierFacts, SlotAtType DEF IInv, TypeOK, RingInv
  <2>1. TypeOK'
    BY <2>0 DEF IInv, TypeOK
  <2>2. OpenInv' /\ FrontierChain' /\ ProducerInv' /\ RingInv' /\ StageInv'
    BY DEF IInv, OpenInv, FrontierChain, ProducerInv, RingInv, StageInv
  <2>3. Len(delivered) = tail /\ delivered \in Seq(SlotType)
    BY DEF IInv, TypeOK, MatcherInv
  <2>4. Len(delivered') = tail + 1
    BY <2>3
  <2>5. DecisionsBelong'
    <3> SUFFICES ASSUME NEW i \in 1 .. Len(delivered')
                 PROVE  /\ delivered'[i].command = i - 1
                        /\ delivered'[i].risk = i - 1
                        /\ delivered'[i].reserve = i - 1
      BY DEF DecisionsBelong
    <3>1. CASE i <= tail
      <4>1. delivered'[i] = delivered[i] /\ i \in 1 .. Len(delivered)
        BY <2>3, <2>4, <3>1, FrontierFacts
      <4> QED BY <4>1 DEF IInv, MatcherInv, DecisionsBelong
    <3>2. CASE i = tail + 1
      <4>1. delivered'[i] = slots[SlotAt(tail)]
        BY <2>3, <3>2, FrontierFacts
      <4> QED BY <4>1, <2>0, <3>2, FrontierFacts
    <3> QED BY <2>4, <3>1, <3>2, FrontierFacts
  <2>6. MatcherInv'
    BY <2>0, <2>4, <2>5 DEF MatcherInv
  <2>7. LogInv'
    BY DEF IInv, LogInv
  <2> QED BY <2>1, <2>2, <2>6, <2>7 DEF IInv
<1>2. CASE ConsumeRelease
  <2> USE <1>2 DEF ConsumeRelease
  <2>1. TypeOK'
    BY FrontierFacts DEF IInv, TypeOK
  <2>2. OpenInv' /\ FrontierChain' /\ ProducerInv' /\ RingInv' /\ StageInv'
    BY FrontierFacts DEF IInv, OpenInv, FrontierChain, ProducerInv, RingInv,
                         StageInv, MatcherInv
  <2>3. MatcherInv' /\ LogInv'
    BY FrontierFacts DEF IInv, MatcherInv, DecisionsBelong, LogInv
  <2> QED BY <2>1, <2>2, <2>3 DEF IInv
<1> QED BY <1>1, <1>2 DEF Matcher

\* Every step of every role preserves the invariant.
LEMMA StepInv == IInv /\ [Next]_vars => IInv'
<1> SUFFICES ASSUME IInv, [Next]_vars PROVE IInv'
  OBVIOUS
<1> USE DEF frontiers, producerVars, persistenceVars, stageVars, liveVars
<1>1. CASE Open
  <2>1. TypeOK'
    BY <1>1, PipelineAssumption DEF IInv, TypeOK, Open
  <2>2. OpenInv' /\ FrontierChain' /\ ProducerInv' /\ RingInv' /\ StageInv'
    BY <1>1 DEF IInv, Open, OpenInv, FrontierChain, ProducerInv, RingInv,
                StageInv
  <2>3. MatcherInv' /\ LogInv'
    BY <1>1 DEF IInv, Open, MatcherInv, DecisionsBelong, LogInv
  <2> QED BY <2>1, <2>2, <2>3 DEF IInv
<1>2. CASE UNCHANGED vars
  <2>1. TypeOK'
    BY <1>2 DEF IInv, TypeOK, vars
  <2>2. OpenInv' /\ FrontierChain' /\ ProducerInv' /\ RingInv' /\ StageInv'
    BY <1>2 DEF IInv, vars, OpenInv, FrontierChain, ProducerInv, RingInv,
                StageInv
  <2>3. MatcherInv' /\ LogInv'
    BY <1>2 DEF IInv, vars, MatcherInv, DecisionsBelong, LogInv
  <2> QED BY <2>1, <2>2, <2>3 DEF IInv
<1> QED BY <1>1, <1>2, ProducerStep, PersistenceStep, RiskStep,
           ReserveStep, MatcherStep DEF Next
-----------------------------------------------------------------------------
(* Invariants of the specification.                                          *)

\* The inductive invariant holds in every reachable state.
THEOREM Invariance == Spec => []IInv
BY InitInv, StepInv, PTL DEF Spec

\* Every variable keeps its type; in particular no command gets the sequence 0
\* or one beyond the domain.
THEOREM TypeCorrect == Spec => []TypeOK
<1>1. IInv => TypeOK
  BY DEF IInv
<1> QED BY <1>1, Invariance, PTL

\* The frontier contract of COMMAND_PIPELINE.md holds between any two accesses
\* of the five roles.
THEOREM FrontiersChained == Spec => []FrontierChain
<1>1. IInv => FrontierChain
  BY DEF IInv
<1> QED BY <1>1, Invariance, PTL

\* The matcher gets every command once, in order, whole, with its own
\* decisions, for every capacity and every interleaving.
THEOREM DecisionsDelivered == Spec => []DecisionsBelong
<1>1. IInv => DecisionsBelong
  BY DEF IInv, MatcherInv
<1> QED BY <1>1, Invariance, PTL

-----------------------------------------------------------------------------
(* Decisions of an earlier lap: sidecars are fresh in front of their stages.  *)

\* Every step but the publication of a slot, and the two stages, leaves the
\* retained slots and the frontiers of the stages, and retains no new slot.
LEMMA FreshElsewhere ==
  ASSUME IInv, [Next]_vars, ~PublishHead, ~Risk, ~Reserve
  PROVE  /\ \A p \in Nat : tail <= p /\ p < head =>
              slots'[SlotAt(p)] = slots[SlotAt(p)]
         /\ tail <= tail' /\ head' = head
         /\ UNCHANGED <<riskChecked, reserveChecked, risk, reserve>>
<1> USE DEF frontiers, producerVars, persistenceVars, stageVars, liveVars
<1>1. CASE PublishAssign
  <2>0. head - tail < Capacity
    BY <1>1 DEF IInv, ProducerInv, PublishAssign
  <2>1. /\ slots \in [Slots -> SlotType] /\ SlotAt(head) \in Slots
        /\ HalfWritten \in Int
    BY FrontierFacts, SlotAtType DEF IInv, TypeOK, HalfWritten
  <2>2. slots' = [slots EXCEPT ![SlotAt(head)].command = HalfWritten]
    BY <1>1 DEF PublishAssign
  <2>3. \A t \in Slots : t # SlotAt(head) => slots'[t] = slots[t]
    BY ONLY <2>1, <2>2, StoreCommand
  <2>4. \A p \in Nat : tail <= p /\ p < head => slots'[SlotAt(p)] = slots[SlotAt(p)]
    BY <2>0, <2>3, FrontierFacts, SlotsApart, SlotAtType
  <2> QED BY <1>1, <2>4, FrontierFacts DEF PublishAssign, ProducerElse
<1>2. CASE PublishReset
  <2>0. head - tail < Capacity
    BY <1>2 DEF IInv, ProducerInv, PublishReset
  <2> DEFINE r == [command |-> head, seq |-> publishing.seq,
                   risk |-> Pending, reserve |-> Pending]
  <2>1. slots \in [Slots -> SlotType] /\ SlotAt(head) \in Slots
    BY FrontierFacts, SlotAtType DEF IInv, TypeOK
  <2>r. r \in SlotType
    BY DEF IInv, TypeOK, SlotType, Pending
  <2>2. slots' = [slots EXCEPT ![SlotAt(head)] = r]
    BY <1>2 DEF PublishReset
  <2>3. \A t \in Slots : t # SlotAt(head) => slots'[t] = slots[t]
    BY ONLY <2>1, <2>r, <2>2, StoreSlot
  <2>4. \A p \in Nat : tail <= p /\ p < head => slots'[SlotAt(p)] = slots[SlotAt(p)]
    BY <2>0, <2>3, FrontierFacts, SlotsApart, SlotAtType
  <2> QED BY <1>2, <2>4, FrontierFacts DEF PublishReset, ProducerElse
<1>3. CASE Producer /\ ~PublishAssign /\ ~PublishReset
  BY <1>3, FrontierFacts
     DEF Producer, PublishLive, PublishReplay, PublishCheckAgain, PublishLoadTail,
         RestoreLiveSequence, ProducerElse
<1>4. CASE Persistence
  BY <1>4, FrontierFacts
     DEF Persistence, Copy, PublishDurable, FailPersistence, PersistenceElse
<1>5. CASE Matcher
  BY <1>5, FrontierFacts DEF Matcher, ConsumeCopy, ConsumeRelease, MatcherElse
<1>6. CASE Open \/ UNCHANGED vars
  BY <1>6, FrontierFacts DEF Open, vars
<1> QED BY <1>1, <1>2, <1>3, <1>4, <1>5, <1>6 DEF Next

\* A decision is written to the slot at the frontier of its stage, or published.
LEMMA FreshAtStages ==
  ASSUME IInv, Risk \/ Reserve, SidecarsFresh
  PROVE  SidecarsFresh'
<1> USE DEF producerVars, persistenceVars, liveVars
<1>0. \A p \in Nat : tail <= p /\ p < head =>
        /\ SlotAt(p) \in Slots
        /\ \A q \in Nat : tail <= q /\ q < head /\ p # q => SlotAt(p) # SlotAt(q)
  BY FrontierFacts, SlotsApart, SlotAtType
<1>1. CASE WriteRisk
  <2>1. /\ slots \in [Slots -> SlotType] /\ SlotAt(riskChecked) \in Slots
        /\ riskRead \in Int
    BY FrontierFacts, SlotAtType DEF IInv, TypeOK
  <2>2. slots' = [slots EXCEPT ![SlotAt(riskChecked)].risk = riskRead]
    BY <1>1 DEF WriteRisk
  <2>3. /\ \A t \in Slots : t # SlotAt(riskChecked) => slots'[t] = slots[t]
        /\ slots'[SlotAt(riskChecked)].reserve = slots[SlotAt(riskChecked)].reserve
    BY ONLY <2>1, <2>2, StoreRisk
  <2>4. /\ tail <= riskChecked /\ riskChecked < head /\ risk # "written" /\ risk' = "written"
        /\ UNCHANGED <<tail, head, riskChecked, reserveChecked, reserve>>
    BY <1>1, FrontierFacts DEF IInv, StageInv, WriteRisk, RiskElse
  <2>5. \A p \in Nat : tail <= p /\ p < head =>
          /\ slots'[SlotAt(p)].reserve = slots[SlotAt(p)].reserve
          /\ p # riskChecked => slots'[SlotAt(p)].risk = slots[SlotAt(p)].risk
    BY <1>0, <2>3, <2>4, FrontierFacts
  <2> QED BY <2>4, <2>5, FrontierFacts DEF SidecarsFresh
<1>2. CASE WriteReserve
  <2>1. /\ slots \in [Slots -> SlotType] /\ SlotAt(reserveChecked) \in Slots
        /\ reserveRead \in Int
    BY FrontierFacts, SlotAtType DEF IInv, TypeOK
  <2>2. slots' = [slots EXCEPT ![SlotAt(reserveChecked)].reserve = reserveRead]
    BY <1>2 DEF WriteReserve
  <2>3. /\ \A t \in Slots : t # SlotAt(reserveChecked) => slots'[t] = slots[t]
        /\ slots'[SlotAt(reserveChecked)].risk = slots[SlotAt(reserveChecked)].risk
    BY ONLY <2>1, <2>2, StoreReserve
  <2>4. /\ tail <= reserveChecked /\ reserveChecked < head
        /\ reserve # "written" /\ reserve' = "written"
        /\ UNCHANGED <<tail, head, riskChecked, reserveChecked, risk>>
    BY <1>2, FrontierFacts DEF IInv, StageInv, WriteReserve, ReserveElse
  <2>5. \A p \in Nat : tail <= p /\ p < head =>
          /\ slots'[SlotAt(p)].risk = slots[SlotAt(p)].risk
          /\ p # reserveChecked => slots'[SlotAt(p)].reserve = slots[SlotAt(p)].reserve
    BY <1>0, <2>3, <2>4, FrontierFacts
  <2> QED BY <2>4, <2>5, FrontierFacts DEF SidecarsFresh
<1>3. CASE TryReadForRisk \/ PublishRisk
  BY <1>3, FrontierFacts DEF TryReadForRisk, PublishRisk, RiskElse, SidecarsFresh
<1>4. CASE TryReadForReserve \/ PublishReserve
  BY <1>4, FrontierFacts
     DEF TryReadForReserve, PublishReserve, ReserveElse, SidecarsFresh
<1> QED BY <1>1, <1>2, <1>3, <1>4 DEF Risk, Reserve

\* No stage finds a decision of an earlier lap of the ring in a slot it has not
\* reached, for every capacity and every interleaving.
THEOREM SidecarsStayFresh == Spec => []SidecarsFresh
<1>1. Init => SidecarsFresh
  BY DEF Init, SidecarsFresh
<1>2. IInv /\ SidecarsFresh /\ [Next]_vars => SidecarsFresh'
  <2> SUFFICES ASSUME IInv, SidecarsFresh, [Next]_vars PROVE SidecarsFresh'
    OBVIOUS
  <2>1. CASE PublishHead
    <3>1. /\ slots[SlotAt(head)].risk = Pending /\ slots[SlotAt(head)].reserve = Pending
          /\ head' = head + 1
          /\ UNCHANGED <<slots, tail, riskChecked, reserveChecked, risk, reserve>>
      BY <2>1 DEF IInv, ProducerInv, PublishHead, ProducerElse, stageVars
    <3> QED BY <3>1, FrontierFacts DEF SidecarsFresh
  <2>2. CASE Risk \/ Reserve
    BY <2>2, FreshAtStages
  <2>3. CASE ~PublishHead /\ ~Risk /\ ~Reserve
    <3>1. /\ \A p \in Nat : tail <= p /\ p < head =>
               slots'[SlotAt(p)] = slots[SlotAt(p)]
          /\ tail <= tail' /\ head' = head
          /\ UNCHANGED <<riskChecked, reserveChecked, risk, reserve>>
      BY <2>3, FreshElsewhere
    <3>2. tail' \in Nat
      BY StepInv DEF IInv, TypeOK
    <3> QED BY <3>1, <3>2, FrontierFacts DEF SidecarsFresh
  <2> QED BY <2>1, <2>2, <2>3
<1> QED BY <1>1, <1>2, Invariance, PTL DEF Spec

-----------------------------------------------------------------------------
(* What a step may never do.                                                 *)

\* Every step but those of the producer leaves head to it, and every step but
\* those of persistence leaves durable and the log.
LEMMA OnlyOwnersWrite ==
  ASSUME [Next]_vars
  PROVE  /\ ~Producer => UNCHANGED <<producer, head>>
         /\ ~Persistence => UNCHANGED <<failed, durable, walLog>>
<1> USE DEF frontiers, producerVars, persistenceVars, stageVars, liveVars
<1>1. CASE Open \/ UNCHANGED vars
  BY <1>1 DEF Open, vars
<1>2. CASE Producer
  BY <1>2 DEF Producer, PublishLive, PublishReplay, PublishCheckAgain,
              PublishLoadTail, PublishAssign, PublishReset, PublishHead,
              RestoreLiveSequence, ProducerElse
<1>3. CASE Persistence
  BY <1>3 DEF Persistence, Copy, PublishDurable, FailPersistence,
              PersistenceElse
<1>4. CASE Risk
  BY <1>4 DEF Risk, TryReadForRisk, WriteRisk, PublishRisk, RiskElse
<1>5. CASE Reserve
  BY <1>5 DEF Reserve, TryReadForReserve, WriteReserve, PublishReserve,
              ReserveElse
<1>6. CASE Matcher
  BY <1>6 DEF Matcher, ConsumeCopy, ConsumeRelease, MatcherElse
<1> QED BY <1>1, <1>2, <1>3, <1>4, <1>5, <1>6 DEF Next

\* After fail_persistence durable and the command WAL are frozen, and an idle
\* producer admits nothing more.
THEOREM FailureTerminal == Spec => FailureIsTerminal
<1> DEFINE P == failed => /\ failed' /\ durable' = durable /\ walLog' = walLog
                          /\ producer = "idle" =>
                               producer' = "idle" /\ head' = head
<1>1. [Next]_vars => P
  <2> SUFFICES ASSUME [Next]_vars, failed PROVE P
    OBVIOUS
  <2>1. ~Persistence
    BY DEF Persistence, Copy, PublishDurable, FailPersistence
  <2>2. producer = "idle" => producer' = "idle" /\ head' = head
    <3>1. CASE Producer
      BY <3>1 DEF Producer, PublishLive, PublishReplay, PublishCheckAgain,
                  PublishLoadTail, PublishAssign, PublishReset, PublishHead,
                  RestoreLiveSequence
    <3>2. CASE ~Producer
      BY <3>2, OnlyOwnersWrite
    <3> QED BY <3>1, <3>2
  <2> QED BY <2>1, <2>2, OnlyOwnersWrite
<1>2. [Next]_vars => [P]_vars
  BY <1>1
<1> QED BY <1>2, PTL DEF Spec, FailureIsTerminal
-----------------------------------------------------------------------------
(* Refinement: the five roles implement DurableLog.                          *)

\* What the matcher released of a history of whole, ordered slots.
LEMMA DeliveredPrefix ==
  ASSUME NEW q \in Seq(SlotType), NEW n \in Nat, n <= Len(q),
         \A i \in 1 .. Len(q) : q[i].command = i - 1
  PROVE  SubSeq([i \in 1 .. Len(q) |-> q[i].command], 1, n) = FirstPayloads(n)
<1> DEFINE m == Len(q)
           c == [i \in 1 .. m |-> q[i].command]
<1>1. m \in Nat
  OBVIOUS
<1>2. \A i \in 1 .. m : q[i].command = i - 1
  OBVIOUS
<1>3. n <= m
  OBVIOUS
<1> HIDE DEF m
<1>4. c \in Seq(Int) /\ Len(c) = m /\ \A i \in 1 .. m : c[i] = i - 1
  BY <1>1, <1>2
<1> HIDE DEF c
<1>5. SubSeq(c, 1, n) = FirstPayloads(n)
  BY <1>1, <1>3, <1>4, PrefixOfPayloads
<1> QED BY <1>5 DEF c, m

\* What the invariant says of the two logs, in any state.
LEMMA LogFacts ==
  ASSUME IInv
  PROVE  /\ durable \in Nat /\ walLog \in Seq(Int) /\ durable <= Len(walLog)
         /\ \A i \in 1 .. Len(walLog) : walLog[i] = i - 1
         /\ tail \in Nat /\ delivered \in Seq(SlotType) /\ tail <= Len(delivered)
         /\ \A i \in 1 .. Len(delivered) : delivered[i].command = i - 1
<1>1. /\ durable \in Nat /\ tail \in Nat /\ walLog \in Seq(Int)
      /\ delivered \in Seq(SlotType) /\ batch \in Nat
  BY DEF IInv, TypeOK
<1>2. durable <= Len(walLog) /\ \A i \in 1 .. Len(walLog) : walLog[i] = i - 1
  BY <1>1 DEF IInv, LogInv
<1> DEFINE n == Len(delivered)
<1>3. n = tail + 1 \/ n = tail
  BY DEF IInv, MatcherInv
<1>4. \A l, t : t \in Nat /\ (l = t + 1 \/ l = t) => t <= l
  OBVIOUS
<1>5. tail <= n
  <2> HIDE DEF n
  <2> QED BY ONLY <1>1, <1>3, <1>4, Zenon
<1>6. \A i \in 1 .. n : delivered[i].command = i - 1
  BY DEF IInv, MatcherInv, DecisionsBelong
<1> QED BY <1>1, <1>2, <1>5, <1>6

\* The abstract state, in terms of the frontiers alone.
LEMMA AbstractState == IInv => /\ DurableCommands = FirstPayloads(durable)
                               /\ DeliveredCommands = FirstPayloads(tail)
<1> SUFFICES ASSUME IInv
             PROVE  /\ DurableCommands = FirstPayloads(durable)
                    /\ DeliveredCommands = FirstPayloads(tail)
  OBVIOUS
<1>1. DurableCommands = FirstPayloads(durable)
  BY LogFacts, PrefixOfPayloads DEF DurableCommands
<1>2. DeliveredCommands = FirstPayloads(tail)
  BY LogFacts, DeliveredPrefix DEF DeliveredCommands
<1> QED BY <1>1, <1>2

\* The same in the next state.
LEMMA AbstractStatePrime ==
  IInv' => /\ DurableCommands' = FirstPayloads(durable')
           /\ DeliveredCommands' = FirstPayloads(tail')
<1>1. (IInv => /\ DurableCommands = FirstPayloads(durable)
               /\ DeliveredCommands = FirstPayloads(tail))'
  BY AbstractState, PTL
<1> QED BY <1>1 DEF FirstPayloads

\* A step that keeps open, the outer frontiers and the flag is a stutter.
LEMMA AbstractStutter ==
  ASSUME IInv, IInv', UNCHANGED <<open, head, durable, tail, failed>>
  PROVE  UNCHANGED Commands!vars
BY AbstractState, AbstractStatePrime DEF Commands!vars

\* Every step is a step of the abstract log or leaves it alone.
LEMMA StepRefines ==
  IInv /\ IInv' /\ [Next]_vars => [Commands!Next]_(Commands!vars)
<1> SUFFICES ASSUME IInv, IInv', [Next]_vars
             PROVE  Commands!Next \/ UNCHANGED Commands!vars
  OBVIOUS
<1> USE DEF frontiers, producerVars, persistenceVars, stageVars, liveVars
<1>0. /\ Len(DurableCommands) = durable /\ Len(DeliveredCommands) = tail
      /\ DurableCommands = FirstPayloads(durable)
      /\ DeliveredCommands = FirstPayloads(tail)
  BY FrontierFacts, AbstractState DEF FirstPayloads
<1>1. CASE Open
  BY <1>1, AbstractState, AbstractStatePrime
     DEF Open, IInv, OpenInv, Commands!Next, Commands!Start
<1>2. CASE PublishHead
  <2>1. open /\ head < MaxPublished /\ head - tail < Capacity
    BY <1>2 DEF PublishHead, IInv, OpenInv, ProducerInv
  <2>2. /\ head' = head + 1
        /\ UNCHANGED <<open, DurableCommands, DeliveredCommands, failed>>
    BY <1>2, AbstractState, AbstractStatePrime DEF PublishHead, ProducerElse
  <2> QED BY <1>0, <2>1, <2>2 DEF Commands!Next, Commands!Accept
<1>3. CASE Producer /\ ~PublishHead
  BY <1>3, AbstractStutter
     DEF Producer, PublishLive, PublishReplay, PublishCheckAgain,
         PublishLoadTail, PublishAssign, PublishReset, RestoreLiveSequence,
         ProducerElse
<1>4. CASE Copy
  BY <1>4, AbstractStutter DEF Copy, PersistenceElse
<1>5. CASE PublishDurable
  <2>1. /\ open /\ ~failed /\ batch \in 1 .. head - durable
        /\ durable' = durable + batch
        /\ UNCHANGED <<open, head, tail, failed>>
    BY <1>5, FrontierFacts
       DEF PublishDurable, PersistenceElse, IInv, OpenInv
  <2>2. DurableCommands'
          = DurableCommands \o [i \in 1 .. batch |-> Len(DurableCommands) + i - 1]
    <3>1. FirstPayloads(durable + batch)
            = FirstPayloads(durable)
                \o [i \in 1 .. (durable + batch) - durable |-> durable + i - 1]
      <4>1. durable \in Nat /\ durable + batch \in Nat
              /\ durable <= durable + batch
        BY FrontierFacts
      <4>2. \A m, n \in Nat : m <= n => FirstPayloads(n)
               = FirstPayloads(m) \o [i \in 1 .. n - m |-> m + i - 1]
        BY ConcatPayloads
      <4> QED BY ONLY <4>1, <4>2, Zenon
    <3>2. (durable + batch) - durable = batch
      BY FrontierFacts
    <3> QED BY <1>0, <2>1, <3>1, <3>2, AbstractStatePrime
  <2>3. UNCHANGED DeliveredCommands
    BY <2>1, AbstractState, AbstractStatePrime
  <2> QED BY <1>0, <2>1, <2>2, <2>3 DEF Commands!Next, Commands!Harden
<1>6. CASE FailPersistence
  BY <1>6, AbstractState, AbstractStatePrime
     DEF FailPersistence, PersistenceElse, Commands!Next, Commands!Break
<1>7. CASE Risk \/ Reserve
  BY <1>7, AbstractStutter
     DEF Risk, TryReadForRisk, WriteRisk, PublishRisk, RiskElse,
         Reserve, TryReadForReserve, WriteReserve, PublishReserve, ReserveElse
<1>8. CASE ConsumeCopy
  BY <1>8, AbstractStutter DEF ConsumeCopy, MatcherElse
<1>9. CASE ConsumeRelease
  <2>1. /\ open /\ tail < durable /\ tail' = tail + 1
        /\ UNCHANGED <<open, head, durable, failed>>
    BY <1>9, FrontierFacts
       DEF ConsumeRelease, MatcherElse, IInv, OpenInv, MatcherInv
  <2>2. DeliveredCommands' = Append(DeliveredCommands, tail)
          /\ UNCHANGED DurableCommands
    BY <1>0, <2>1, FrontierFacts, AbstractStatePrime, AppendPayload
  <2>3. DurableCommands[tail + 1] = tail
    BY <1>0, <2>1, FrontierFacts DEF FirstPayloads
  <2> QED BY <1>0, <2>1, <2>2, <2>3 DEF Commands!Next, Commands!Deliver
<1>10. CASE UNCHANGED vars
  BY <1>10, AbstractStutter DEF vars
<1> QED
  BY <1>1, <1>2, <1>3, <1>4, <1>5, <1>6, <1>7, <1>8, <1>9, <1>10
  DEF Next, Persistence, Matcher

\* Commands are delivered in order, once, and only after they are in the
\* command WAL, whatever the five roles do and whenever persistence fails.
THEOREM Refinement == Spec => ImplementsDurableLog
<1>1. Init => Commands!Init
  BY InitInv, AbstractState
     DEF Init, Commands!Init, FirstPayloads
<1> QED BY <1>1, StepRefines, Invariance, PTL
        DEF Spec, ImplementsDurableLog, Commands!Spec
=============================================================================
