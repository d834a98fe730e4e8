--------------------------- MODULE CommandPipeline ---------------------------
(***************************************************************************)
(* CommandPipeline: a ring of command slots between five concurrent roles,   *)
(* each the only writer of one frontier:                                     *)
(*                                                                           *)
(*  producer --head--> persistence --durable--> risk --riskChecked-->        *)
(*    reserve --reserveChecked--> matcher --tail--> producer                 *)
(*                                                                           *)
(* A step makes at most one access to an atomic of another role, and writes  *)
(* a slot and the frontier that publishes it in different steps.  The        *)
(* persistence role is the loop the tests run around the pipeline: copy      *)
(* pending commands, write them to the command WAL, then publish or fail.    *)
(* A call rejected without an effect is a stuttering step.                   *)
(*                                                                           *)
(* Data: the command published at position p is p (HalfWritten while the     *)
(* producer assigns it), and a decision is the command it was made for       *)
(* (Pending before).  Its CommandSequence is kept beside it.                 *)
(* Bounds: MaxSequence is the largest CommandSequence, at which the code     *)
(* itself stops; MaxPublished bounds the positions, which the code does not. *)
(***************************************************************************)
EXTENDS Integers, Sequences

CONSTANTS Capacity,        \* CommandPipelineConfig.capacity
          FirstSequence,   \* CommandPipelineConfig.first_sequence
          MaxSequence,     \* largest CommandSequence
          MaxPublished,    \* bound on the positions published
          ReplaySequences, \* sequences a replay source may publish
          RestorePoints    \* sequences passed to restore_live_sequence

ASSUME PipelineAssumption ==
  /\ Capacity \in Nat \ {0}
  /\ MaxSequence \in Nat
  /\ FirstSequence \in 1 .. MaxSequence
  /\ MaxPublished \in Nat
  /\ ReplaySequences \subseteq 1 .. MaxSequence
  /\ RestorePoints \subseteq 1 .. MaxSequence

VARIABLES
  open,            \* open_
  head, durable, riskChecked, reserveChecked, tail,  \* the five frontiers
  failed,          \* FailureState::persistence_failed
  slots,           \* slots_
  nextLive,        \* next_live_sequence_
  exhausted,       \* sequence_exhausted_
  producer,        \* program counter of the producer
  publishing,      \* sequence being published, and by which call
  walLog,          \* commands written to the command WAL, oldest first
  batch,           \* commands of it copied since the last publish_durable
  risk, reserve, matcher,  \* program counters of the three stages
  riskRead, reserveRead,   \* command each stage read and decides about
  delivered        \* history: slots copied out by try_consume

frontiers == <<head, durable, riskChecked, reserveChecked, tail>>
liveVars == <<nextLive, exhausted>>
producerVars == <<producer, publishing, liveVars>>
persistenceVars == <<failed, walLog, batch>>
stageVars == <<risk, riskRead, reserve, reserveRead, matcher, delivered>>
vars == <<open, frontiers, slots, producerVars, persistenceVars, stageVars>>

Pending == -1
HalfWritten == -2
Slots == 0 .. Capacity - 1
EmptySlot == [command |-> Pending, seq |-> 0, risk |-> Pending,
              reserve |-> Pending]

\* slot_at
SlotAt(position) == position % Capacity

Init == /\ open = FALSE
        /\ head = 0 /\ durable = 0 /\ riskChecked = 0 /\ reserveChecked = 0
        /\ tail = 0 /\ failed = FALSE
        /\ slots = [s \in Slots |-> EmptySlot]
        /\ nextLive = 0 /\ exhausted = FALSE
        /\ producer = "idle" /\ publishing = [seq |-> 0, live |-> FALSE]
        /\ walLog = <<>> /\ batch = 0
        /\ risk = "idle" /\ reserve = "idle" /\ matcher = "idle"
        /\ riskRead = Pending /\ reserveRead = Pending
        /\ delivered = <<>>

\* open() resets what Init already holds and starts the live cursor; there is
\* no close, and a second open() is AlreadyOpen.
Open == /\ ~open
        /\ open' = TRUE
        /\ nextLive' = FirstSequence
        /\ UNCHANGED <<frontiers, slots, exhausted, producer, publishing,
                       persistenceVars, stageVars>>

-----------------------------------------------------------------------------
(* The active producer: try_publish (live) or try_replay, then               *)
(* try_publish_envelope.                                                     *)

ProducerElse == UNCHANGED <<open, durable, riskChecked, reserveChecked, tail,
                            persistenceVars, stageVars>>

PublishLive ==
  /\ open /\ producer = "idle" /\ head < MaxPublished
  /\ ~failed /\ ~exhausted
  /\ publishing' = [seq |-> nextLive, live |-> TRUE]
  /\ producer' = "checked"
  /\ UNCHANGED <<head, slots, liveVars>> /\ ProducerElse

PublishReplay(sequence) ==
  /\ open /\ producer = "idle" /\ head < MaxPublished
  /\ ~failed
  /\ publishing' = [seq |-> sequence, live |-> FALSE]
  /\ producer' = "checked"
  /\ UNCHANGED <<head, slots, liveVars>> /\ ProducerElse

\* persistence_failed is loaded a second time.
PublishCheckAgain ==
  /\ producer = "checked"
  /\ producer' = IF failed THEN "idle" ELSE "admitted"
  /\ UNCHANGED <<head, slots, publishing, liveVars>> /\ ProducerElse

\* Mutation of Full: one slot too many.
FullOffByOne == head - tail > Capacity

Full == head - tail = Capacity

PublishLoadTail ==
  /\ producer = "admitted"
  /\ producer' = IF Full THEN "idle" ELSE "assign"
  /\ UNCHANGED <<head, slots, publishing, liveVars>> /\ ProducerElse

\* slot.command = command: the assignment begins, and the slot is unusable.
PublishAssign ==
  /\ producer = "assign"
  /\ slots' = [slots EXCEPT ![SlotAt(head)].command = HalfWritten]
  /\ producer' = "assigning"
  /\ UNCHANGED <<head, publishing, liveVars>> /\ ProducerElse

\* Mutation of PublishReset: the sidecars of the previous lap are kept.
PublishResetForgotten ==
  /\ producer = "assigning"
  /\ slots' = [slots EXCEPT
                 ![SlotAt(head)] = [@ EXCEPT !.command = head,
                                             !.seq = publishing.seq]]
  /\ producer' = "written"
  /\ UNCHANGED <<head, publishing, liveVars>> /\ ProducerElse

\* The assignment ends, and both sidecars are reset.
PublishReset ==
  /\ producer = "assigning"
  /\ slots' = [slots EXCEPT
                 ![SlotAt(head)] = [command |-> head, seq |-> publishing.seq,
                                    risk |-> Pending, reserve |-> Pending]]
  /\ producer' = "written"
  /\ UNCHANGED <<head, publishing, liveVars>> /\ ProducerElse

\* try_publish after a successful publication: the next live sequence.
AdvanceLive ==
  IF publishing.seq = MaxSequence
  THEN exhausted' = TRUE /\ UNCHANGED nextLive
  ELSE nextLive' = publishing.seq + 1 /\ UNCHANGED exhausted

PublishHead ==
  /\ producer = "written"
  /\ head' = head + 1
  /\ IF publishing.live THEN AdvanceLive ELSE UNCHANGED liveVars
  /\ producer' = "idle"
  /\ UNCHANGED <<slots, publishing>> /\ ProducerElse

\* restore_live_sequence: its caller excludes a running live producer.
RestoreLiveSequence(next) ==
  /\ open /\ producer = "idle"
  /\ nextLive' = next /\ exhausted' = FALSE
  /\ UNCHANGED <<head, slots, producer, publishing>> /\ ProducerElse

Producer == \/ PublishLive \/ \E s \in ReplaySequences : PublishReplay(s)
            \/ PublishCheckAgain \/ PublishLoadTail \/ PublishAssign
            \/ PublishReset \/ PublishHead
            \/ \E s \in RestorePoints : RestoreLiveSequence(s)

-----------------------------------------------------------------------------
(* Persistence: copy_pending_for_persistence, publish_durable and            *)
(* fail_persistence, around the writes to the command WAL.                   *)

PersistenceElse == UNCHANGED <<open, head, riskChecked, reserveChecked, tail,
                               slots, producerVars, stageVars>>

\* Mutation of Copy: the offset in the batch is ignored.
CopyWithoutOffset ==
  /\ open /\ ~failed
  /\ durable + batch < head
  /\ walLog' = Append(walLog, slots[SlotAt(durable)].command)
  /\ batch' = batch + 1
  /\ UNCHANGED <<durable, failed>> /\ PersistenceElse

\* copy_pending_for_persistence(batch), and the append of the copy.
Copy == /\ open /\ ~failed
        /\ durable + batch < head
        /\ walLog' = Append(walLog, slots[SlotAt(durable + batch)].command)
        /\ batch' = batch + 1
        /\ UNCHANGED <<durable, failed>> /\ PersistenceElse

\* publish_durable(batch) after the WAL is synchronized.
PublishDurable == /\ ~failed
                  /\ batch > 0 /\ batch <= head - durable
                  /\ durable' = durable + batch
                  /\ batch' = 0
                  /\ UNCHANGED <<failed, walLog>> /\ PersistenceElse

\* fail_persistence() because an append or a sync failed.
FailPersistence == /\ open /\ ~failed
                   /\ durable < head
                   /\ failed' = TRUE
                   /\ UNCHANGED <<durable, walLog, batch>> /\ PersistenceElse

Persistence == Copy \/ PublishDurable \/ FailPersistence

-----------------------------------------------------------------------------
(* Risk: try_read_for_risk, a decision, publish_risk.                        *)

RiskElse == UNCHANGED <<open, head, durable, reserveChecked, tail,
                        producerVars, persistenceVars, reserve, reserveRead,
                        matcher, delivered>>

TryReadForRisk == /\ open /\ risk = "idle"
                  /\ riskChecked # durable
                  /\ riskRead' = slots[SlotAt(riskChecked)].command
                  /\ risk' = "decided"
                  /\ UNCHANGED <<riskChecked, slots>> /\ RiskElse

WriteRisk == /\ risk = "decided"
             /\ riskChecked # durable
             /\ slots' = [slots EXCEPT ![SlotAt(riskChecked)].risk = riskRead]
             /\ risk' = "written"
             /\ UNCHANGED <<riskChecked, riskRead>> /\ RiskElse

\* Mutation of PublishRisk: the frontier is not moved.
PublishRiskAgain == /\ risk = "written"
                    /\ risk' = "idle"
                    /\ UNCHANGED <<riskChecked, slots, riskRead>> /\ RiskElse

PublishRisk == /\ risk = "written"
               /\ riskChecked' = riskChecked + 1
               /\ risk' = "idle"
               /\ UNCHANGED <<slots, riskRead>> /\ RiskElse

Risk == TryReadForRisk \/ WriteRisk \/ PublishRisk

-----------------------------------------------------------------------------
(* Reserve: try_read_for_reserve, a decision, publish_reserve.               *)

ReserveElse == UNCHANGED <<open, head, durable, riskChecked, tail,
                           producerVars, persistenceVars, risk, riskRead,
                           matcher, delivered>>

\* Mutation of ReserveReady: the upstream frontier is durable, not risk.
ReserveReadyBeforeRisk == reserveChecked # durable

ReserveReady == reserveChecked # riskChecked

TryReadForReserve ==
  /\ open /\ reserve = "idle"
  /\ ReserveReady
  /\ reserveRead' = slots[SlotAt(reserveChecked)].command
  /\ reserve' = "decided"
  /\ UNCHANGED <<reserveChecked, slots>> /\ ReserveElse

WriteReserve ==
  /\ reserve = "decided"
  /\ ReserveReady
  /\ slots' = [slots EXCEPT ![SlotAt(reserveChecked)].reserve = reserveRead]
  /\ reserve' = "written"
  /\ UNCHANGED <<reserveChecked, reserveRead>> /\ ReserveElse

PublishReserve == /\ reserve = "written"
                  /\ reserveChecked' = reserveChecked + 1
                  /\ reserve' = "idle"
                  /\ UNCHANGED <<slots, reserveRead>> /\ ReserveElse

Reserve == TryReadForReserve \/ WriteReserve \/ PublishReserve

-----------------------------------------------------------------------------
(* Matcher: try_consume copies the slot, then releases it.                   *)

MatcherElse == UNCHANGED <<open, head, durable, riskChecked, reserveChecked,
                           slots, producerVars, persistenceVars, risk,
                           riskRead, reserve, reserveRead>>

\* Mutation of ConsumeCopy: the matcher stops with the persistence.
ConsumeCopyIfHealthy ==
  /\ open /\ matcher = "idle" /\ ~failed
  /\ tail # reserveChecked
  /\ delivered' = Append(delivered, slots[SlotAt(tail)])
  /\ matcher' = "copied"
  /\ UNCHANGED tail /\ MatcherElse

ConsumeCopy == /\ open /\ matcher = "idle"
               /\ tail # reserveChecked
               /\ delivered' = Append(delivered, slots[SlotAt(tail)])
               /\ matcher' = "copied"
               /\ UNCHANGED tail /\ MatcherElse

ConsumeRelease == /\ matcher = "copied"
                  /\ tail' = tail + 1
                  /\ matcher' = "idle"
                  /\ UNCHANGED delivered /\ MatcherElse

Matcher == ConsumeCopy \/ ConsumeRelease

-----------------------------------------------------------------------------
Next == Open \/ Producer \/ Persistence \/ Risk \/ Reserve \/ Matcher

Spec == Init /\ [][Next]_vars

\* Every role but the producer polls: its calls return, and it calls again.
Fairness == /\ WF_vars(Risk) /\ WF_vars(Reserve) /\ WF_vars(Matcher)
            /\ WF_vars(Persistence)

FairSpec == Spec /\ Fairness

-----------------------------------------------------------------------------
(* Properties.                                                               *)

SlotType == [command : Int, seq : 0 .. MaxSequence, risk : Int, reserve : Int]

TypeOK ==
  /\ open \in BOOLEAN
  /\ head \in Nat /\ durable \in Nat /\ riskChecked \in Nat
  /\ reserveChecked \in Nat /\ tail \in Nat
  /\ failed \in BOOLEAN
  /\ slots \in [Slots -> SlotType]
  /\ nextLive \in 0 .. MaxSequence /\ exhausted \in BOOLEAN
  /\ producer \in {"idle", "checked", "admitted", "assign", "assigning",
                   "written"}
  /\ publishing \in [seq : 0 .. MaxSequence, live : BOOLEAN]
  /\ walLog \in Seq(Int) /\ batch \in Nat
  /\ risk \in {"idle", "decided", "written"}
  /\ reserve \in {"idle", "decided", "written"}
  /\ matcher \in {"idle", "copied"}
  /\ riskRead \in Int /\ reserveRead \in Int
  /\ delivered \in Seq(SlotType)

\* The frontier contract of COMMAND_PIPELINE.md, with the part of the batch
\* already copied, at every point of every interleaving of the five roles.
FrontierChain ==
  /\ tail <= reserveChecked /\ reserveChecked <= riskChecked
  /\ riskChecked <= durable /\ durable + batch <= head
  /\ head - tail <= Capacity

\* A published slot that a stage has not reached carries no decision of an
\* earlier lap of the ring, whichever role writes to the ring meanwhile.
SidecarsFresh ==
  \A p \in tail .. head - 1 :
    LET slot == slots[SlotAt(p)]
    IN  /\ p > riskChecked \/ (p = riskChecked /\ risk # "written")
             => slot.risk = Pending
        /\ p > reserveChecked \/ (p = reserveChecked /\ reserve # "written")
             => slot.reserve = Pending

\* The matcher gets every command once, in order, whole, and with the
\* decisions the two stages made about that very command.
DecisionsBelong ==
  \A i \in 1 .. Len(delivered) :
    /\ delivered[i].command = i - 1
    /\ delivered[i].risk = i - 1
    /\ delivered[i].reserve = i - 1

\* fail_persistence is terminal for ingress and persistence: durable never
\* moves again, and a producer that is idle admits nothing more.
FailureIsTerminal ==
  [][failed => /\ failed' /\ durable' = durable /\ walLog' = walLog
               /\ producer = "idle" => producer' = "idle" /\ head' = head]_vars

\* Whatever is durable reaches the matcher, also after a persistence failure.
DurableIsDelivered ==
  \A n \in 1 .. MaxPublished : (durable >= n) ~> (tail >= n)

\* A full ring drains, unless persistence has failed.
BackpressureEnds == Full ~> (~Full \/ failed)

\* The five roles together keep the promise of the durable log: delivery in
\* order, each command once and only after it is in the command WAL.
DurableCommands == SubSeq(walLog, 1, durable)
DeliveredCommands ==
  SubSeq([i \in 1 .. Len(delivered) |-> delivered[i].command], 1, tail)

Commands == INSTANCE DurableLog WITH
  MaxRecords <- MaxPublished,
  isOpen <- open, accepted <- head, disk <- DurableCommands,
  delivered <- DeliveredCommands, broken <- failed

ImplementsDurableLog == Commands!Spec
=============================================================================
