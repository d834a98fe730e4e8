------------------------------- MODULE Replay --------------------------------
(***************************************************************************)
(* A replay session through the command pipeline.  The producer publishes    *)
(* StartReplay live and the LoadSnapshot of the session, hands the head to   *)
(* WalFileReplaySource for a range of the Command WAL, and ends the session  *)
(* with StopReplay and a last LoadSnapshot.  ReplayPersistenceState tells    *)
(* the persistence role, from the commands that pass, which to record; it    *)
(* also restores the live cursor, which the producer otherwise owns.         *)
(*                                                                           *)
(* The pipeline is the queue that CommandPipeline implements: ring holds the *)
(* commands between tail and head, and its first durable ones are durable.   *)
(* A command is [seq, payload, by], by telling who published it: "Live", the *)
(* "Source", or the session: its "Load", "Stop" and "Restore".  The Command   *)
(* WAL holds the records that the persistence role has encoded.              *)
(*                                                                           *)
(* Environment: the loop of the persistence role (one command at a time, as  *)
(* in the tests), and a producer that, as COMMAND_PIPELINE.md requires, does *)
(* not publish live before the session has ended, and StopReplay only to end *)
(* one: the persistence role would take a recorded StopReplay in a replayed  *)
(* range for the end of the session.  It opens a new source on recorded      *)
(* commands and gives it up when it fails: another publish_next() would go   *)
(* on after the record that does not decode.  One record of the range may    *)
(* have been written by another program.                                     *)
(* Bound: MaxCommands, on the live sequences used outside of a session.      *)
(***************************************************************************)
EXTENDS Integers, Sequences, SequencesExt, PayloadCodec

CONSTANTS Capacity,     \* CommandPipelineConfig.capacity
          LiveTypes,    \* what arrives live: "Bid" and "Ask" orders, other types
          ForeignRecords, \* payload records that encode_command_... did not write
          MaxCommands   \* bound on the Command WAL

ASSUME ReplayAssumption ==
  /\ Capacity \in Nat \ {0} /\ MaxCommands \in Nat
  /\ LiveTypes \subseteq {"Bid", "Ask", "SaveSnapshot", "LoadSnapshot",
                          "Shutdown", "StartReplay"}
  /\ \A record \in ForeignRecords :
       LET decoded == decode_command_wal_payload_v2(record)
       IN  /\ record.bytes \in [0 .. record.size - 1 -> Nat]
           /\ decoded.status = "Ok" => decoded.payload.message.type # "StopReplay"

VARIABLES
  ring, durable,        \* commands in the pipeline, and how many are durable
  nextLive,             \* next_live_sequence_ of the pipeline
  failed,               \* persistence_failed of the pipeline
  producer,             \* what the producer does next
  source,               \* WalFileReplaySource: next of its reader, last, complete;
                        \* the records of others it finds, and whether it failed
  pending,              \* pending_, a sequence of at most one
  persistence, copied,  \* where the persistence role is, and its command
  mode, liveResume,     \* ReplayPersistenceState
  log,                  \* the Command WAL, synced
  sent,                 \* history: what the source has published in the session
  consumed              \* history: the live commands the matcher got

pipelineVars == <<ring, durable, nextLive, failed>>
sourceVars == <<source, pending, sent>>
persistenceVars == <<persistence, copied, mode, liveResume, log>>
vars == <<pipelineVars, producer, sourceVars, persistenceVars, consumed>>

Command(seq, payload, by) == [seq |-> seq, payload |-> payload, by |-> by]
NoCommand == Command(0, CommandWalPayload(0, Signal("None")), "Live")
TypeOfCommand(command) == command.payload.message.type

Client == 17

\* The message of a live command: orders use up the ids one by one.
Message(type, seq) ==
  CASE type = "Bid" -> NewLimitOrder(seq, 11, Bid, 150, 10)
    [] type = "Ask" -> NewLimitOrder(seq, 12, Ask, 151, 20)
    [] type = "LoadSnapshot" -> LoadSnapshot(8, 7)
    [] OTHER -> Signal(type)

IsLive(command) == command.by = "Live"

NoSource == [first |-> 1, next |-> 1, last |-> 0, complete |-> TRUE,
             foreign |-> <<>>, failed |-> FALSE]

Init == /\ ring = <<>> /\ durable = 0 /\ nextLive = 1 /\ failed = FALSE
        /\ producer = "Live"
        /\ source = NoSource
        /\ pending = <<>> /\ sent = <<>>
        /\ persistence = "Idle" /\ copied = NoCommand
        /\ mode = "Live" /\ liveResume = 0 /\ log = <<>>
        /\ consumed = <<>>

-----------------------------------------------------------------------------
(* The producer: live ingress, and the control commands of a session.        *)

Full == Len(ring) = Capacity

\* try_publish
TryPublish(type, by) ==
  /\ ~failed /\ ~Full
  /\ ring' = Append(ring, Command(nextLive,
                                   CommandWalPayload(Client, Message(type, nextLive)), by))
  /\ nextLive' = nextLive + 1
  /\ UNCHANGED <<durable, failed, persistenceVars, consumed>>

Ingress(type) ==
  /\ producer = "Live" /\ nextLive <= MaxCommands
  /\ TryPublish(type, "Live")
  /\ producer' = IF type = "StartReplay" THEN "Load" ELSE "Live"
  /\ UNCHANGED sourceVars

LoadReplaySnapshot ==
  /\ producer = "Load"
  /\ TryPublish("LoadSnapshot", "Load")
  /\ producer' = "Open"
  /\ UNCHANGED sourceVars

\* The records of the WAL as one foreign record may have changed them.
ForeignAmong(first, last) ==
  {<<>>} \cup UNION {[{k} -> ForeignRecords] : k \in first .. last}

Source(first, last, foreign) ==
  [first |-> first, next |-> first, last |-> last, complete |-> FALSE,
   foreign |-> foreign, failed |-> FALSE]

\* WalFileReplaySource::open on a range that is recorded: it skips to first.
OpenSource(first, last, foreign) ==
  /\ producer = "Open" /\ last <= Len(log)
  /\ source' = Source(first, last, foreign)
  /\ pending' = <<>> /\ sent' = <<>>
  /\ producer' = "Replay"
  /\ UNCHANGED <<pipelineVars, persistenceVars, consumed>>

\* The session is stopped, at the end of the range or before.
Stop ==
  /\ producer = "Replay"
  /\ TryPublish("StopReplay", "Stop")
  /\ producer' = "Restore"
  /\ UNCHANGED sourceVars

Restore ==
  /\ producer = "Restore"
  /\ TryPublish("LoadSnapshot", "Restore")
  /\ producer' = "Wait"
  /\ UNCHANGED sourceVars

\* The ingress waits until the session is through and the live cursor restored
\* before it publishes again.  The source of the session is gone.
Resume ==
  /\ producer = "Wait" /\ mode = "Live"
  /\ durable = Len(ring) /\ persistence = "Idle"
  /\ producer' = "Live"
  /\ source' = NoSource /\ pending' = <<>> /\ sent' = <<>>
  /\ UNCHANGED <<pipelineVars, persistenceVars, consumed>>

-----------------------------------------------------------------------------
(* WalFileReplaySource::publish_next                                         *)

\* The record of the file with this sequence.
RecordAt(seq) == IF seq \in DOMAIN source.foreign THEN source.foreign[seq]
                 ELSE log[seq].record

Decodes(seq) == decode_command_wal_payload_v2(RecordAt(seq)).status = "Ok"

\* The record in hand, or the next one of the file.  The reader has moved past
\* a record in hand, and never gets beyond last before complete_ is set.
Offered == IF pending # <<>> THEN pending[1]
           ELSE Command(source.next,
                        decode_command_wal_payload_v2(RecordAt(source.next)).payload,
                        "Source")
NextRead == IF pending # <<>> THEN source.next ELSE source.next + 1

\* Mutation of Backpressure: the record in hand is forgotten.
BackpressureForgets ==
  /\ Full
  /\ pending' = <<>>
  /\ source' = [source EXCEPT !.next = NextRead]
  /\ UNCHANGED <<ring, sent>>

Backpressure ==
  /\ Full
  /\ pending' = <<Offered>>
  /\ source' = [source EXCEPT !.next = NextRead]
  /\ UNCHANGED <<ring, sent>>

\* try_replay: the cursor of the live sequences stays where it is.
Published ==
  /\ ~Full
  /\ ring' = Append(ring, Offered)
  /\ sent' = Append(sent, Offered)
  /\ pending' = <<>>
  /\ source' = [source EXCEPT !.next = NextRead,
                              !.complete = Offered.seq = source.last]

\* DecodeFailed: the reader is past the record.
DecodeFails ==
  /\ source' = [source EXCEPT !.next = NextRead, !.failed = TRUE]
  /\ UNCHANGED <<ring, pending, sent>>

\* Without a record in hand the file must have another one (WalReadFailed).
SourcePublishes ==
  /\ ~source.complete /\ ~source.failed /\ ~failed
  /\ pending = <<>> => source.next <= Len(log)
  /\ IF pending = <<>> /\ ~Decodes(source.next) THEN DecodeFails
     ELSE Backpressure \/ Published
  /\ UNCHANGED <<durable, nextLive, failed, producer, persistenceVars, consumed>>

PublishNext == producer = "Replay" /\ SourcePublishes

Session == \/ LoadReplaySnapshot \/ Stop \/ Restore \/ Resume \/ PublishNext
           \/ \E last \in 1 .. MaxCommands : \E first \in 1 .. last :
                \E foreign \in ForeignAmong(first, last) :
                  OpenSource(first, last, foreign)

-----------------------------------------------------------------------------
(* The persistence role.                                                     *)

PersistenceElse == UNCHANGED <<ring, producer, sourceVars, consumed>>

\* ReplayPersistenceState::action
Records == mode = "Live"

\* The record of a command, with who published it for the history.
Recorded(command) ==
  LET encoded == encode_command_wal_payload_v2(command.payload, command_wal_payload_size)
  IN  [seq |-> command.seq, by |-> command.by,
       record |-> [size |-> encoded.size, bytes |-> encoded.bytes]]

\* copy_pending_for_persistence(0), and append and sync if action() says so.
Persist ==
  /\ persistence = "Idle" /\ ~failed /\ durable < Len(ring)
  /\ LET command == ring[durable + 1]
     IN  /\ copied' = command
         /\ log' = IF Records THEN Append(log, Recorded(command)) ELSE log
  /\ persistence' = "Written"
  /\ UNCHANGED <<durable, nextLive, failed, mode, liveResume>> /\ PersistenceElse

\* The append or the sync fails: fail_persistence.
PersistFails ==
  /\ persistence = "Idle" /\ ~failed /\ durable < Len(ring) /\ Records
  /\ failed' = TRUE
  /\ UNCHANGED <<durable, nextLive, persistenceVars>> /\ PersistenceElse

\* publish_durable(1)
PublishDurable ==
  /\ persistence = "Written"
  /\ durable' = durable + 1
  /\ persistence' = "Published"
  /\ UNCHANGED <<nextLive, failed, copied, mode, liveResume, log>>
  /\ PersistenceElse

\* Mutation of StartsReplay: the cursor is that of StartReplay itself.
StartsReplayAtItself ==
  /\ mode = "Live" /\ TypeOfCommand(copied) = "StartReplay"
  /\ liveResume' = copied.seq /\ mode' = "Replay"
  /\ persistence' = "Idle" /\ UNCHANGED nextLive

\* Mutation of RestoresLive: the mode is not set.
RestoresCursorOnly ==
  /\ mode = "Restoring" /\ TypeOfCommand(copied) = "LoadSnapshot"
  /\ nextLive' = liveResume /\ UNCHANGED <<mode, liveResume>>
  /\ persistence' = "Idle"

\* The transitions of ReplayPersistenceState::on_durable.
StartsReplay ==
  /\ mode = "Live" /\ TypeOfCommand(copied) = "StartReplay"
  /\ liveResume' = copied.seq + 1 /\ mode' = "Replay"
  /\ persistence' = "Idle" /\ UNCHANGED nextLive

StopsReplay ==
  /\ mode = "Replay" /\ TypeOfCommand(copied) = "StopReplay"
  /\ mode' = "Restoring"
  /\ persistence' = "Idle" /\ UNCHANGED <<nextLive, liveResume>>

\* restore_live_sequence(live_resume_sequence_)
RestoresLive ==
  /\ mode = "Restoring" /\ TypeOfCommand(copied) = "LoadSnapshot"
  /\ nextLive' = liveResume /\ mode' = "Live"
  /\ persistence' = "Idle" /\ UNCHANGED liveResume

\* InvalidTransition: the role stops there.
Refuses ==
  /\ mode = "Restoring" /\ TypeOfCommand(copied) # "LoadSnapshot"
  /\ persistence' = "Refused" /\ UNCHANGED <<nextLive, mode, liveResume>>

Passes ==
  /\ mode = "Live" => TypeOfCommand(copied) # "StartReplay"
  /\ mode = "Replay" => TypeOfCommand(copied) # "StopReplay"
  /\ mode # "Restoring"
  /\ persistence' = "Idle" /\ UNCHANGED <<nextLive, mode, liveResume>>

OnDurable ==
  /\ persistence = "Published"
  /\ StartsReplay \/ StopsReplay \/ RestoresLive \/ Refuses \/ Passes
  /\ UNCHANGED <<durable, failed, copied, log>> /\ PersistenceElse

Persistence == Persist \/ PersistFails \/ PublishDurable \/ OnDurable

\* Risk, reserve and matcher, as far as the ring goes.
Consume ==
  /\ durable > 0
  /\ consumed' = IF IsLive(Head(ring)) THEN Append(consumed, Head(ring)) ELSE consumed
  /\ ring' = Tail(ring) /\ durable' = durable - 1
  /\ UNCHANGED <<nextLive, failed, producer, sourceVars, persistenceVars>>

Next == (\E type \in LiveTypes : Ingress(type)) \/ Session \/ Persistence
          \/ Consume

Spec == Init /\ [][Next]_vars

-----------------------------------------------------------------------------
(* Properties.                                                               *)

IsCommand(command) ==
  /\ command.seq \in Nat /\ command.payload.client_id \in Nat
  /\ command.by \in {"Live", "Load", "Source", "Stop", "Restore"}

TypeOK ==
  /\ \A k \in DOMAIN ring : IsCommand(ring[k])
  /\ Len(ring) <= Capacity /\ durable \in 0 .. Len(ring)
  /\ nextLive \in Nat \ {0} /\ failed \in BOOLEAN
  /\ producer \in {"Live", "Load", "Open", "Replay", "Restore", "Wait", "Closed"}
  /\ source.next \in Nat /\ source.complete \in BOOLEAN /\ source.failed \in BOOLEAN
  /\ Len(pending) <= 1
  /\ persistence \in {"Idle", "Written", "Published", "Refused"}
  /\ IsCommand(copied)
  /\ mode \in {"Live", "Replay", "Restoring"} /\ liveResume \in Nat

\* The Command WAL is the gapless record of the live commands: no command of a
\* session gets into it, whoever publishes it and however long it waits in the
\* ring, and the first command after a session continues the sequence.
CommandWalExact ==
  TypeOK /\ \A k \in DOMAIN log : log[k].seq = k /\ log[k].by = "Live"

Decoded(entry) ==
  Command(entry.seq, decode_command_wal_payload_v2(entry.record).payload, entry.by)

\* The matcher gets the live commands exactly once, in the order of the WAL and
\* after they are in it, with any number of sessions between them, and the
\* record of each decodes to it.
LiveDeliveredOnce ==
  /\ CommandWalExact
  /\ IsPrefix(consumed, [k \in DOMAIN log |-> Decoded(log[k])])

\* The source publishes its range of the WAL record by record, with the original
\* sequences, whenever and however often the ring is full, and every command it
\* publishes encodes to the bytes it was read from.  It gives up only at a record
\* of another program.
ReplayExact ==
  /\ \A k \in DOMAIN sent :
       /\ sent[k].seq = source.first + k - 1 /\ sent[k].by = "Source"
       /\ LET encoded == encode_command_wal_payload_v2(sent[k].payload,
                                                       command_wal_payload_size)
          IN  /\ encoded.status = "Ok"
              /\ encoded.bytes = RecordAt(sent[k].seq).bytes
  /\ source.failed => source.next - 1 \in DOMAIN source.foreign
=============================================================================
