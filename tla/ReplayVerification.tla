-------------------------- MODULE ReplayVerification --------------------------
(***************************************************************************)
(* Replay for verification, as in tests/test_wal_stream.cpp: when the live   *)
(* tract has come to rest, a fresh pipeline, a WalFileReplaySource on a      *)
(* range of the Command WAL, and a fresh matcher whose event writer is an    *)
(* EventWalComparator on the range of the Event WAL that belongs to it.      *)
(* The roles between them pass every command on; nothing is recorded.        *)
(*                                                                           *)
(* The matcher is a deterministic function of the command and the book's     *)
(* configuration (Matcher models the real one), and its state at the start   *)
(* of the range that of the live one.  One thing may be wrong: the Event WAL *)
(* lacks its end, one field of one of its records is another, the source     *)
(* meets a record of another program, or the range ends an event early or    *)
(* late.  The configuration of the book may be another, too.                 *)
(* Bound: the range ends with the Command WAL.                               *)
(***************************************************************************)
EXTENDS Replay

CONSTANTS BookConfigs,    \* configurations the verification may be started with
          Offsets         \* offsets of the fields of an event record

VARIABLES verifier,       \* "Off", "Running" or "Finished"
          bookConfig,     \* of the verifying matcher
          eventLog,       \* payload records of the Event WAL
          comparator,     \* EventWalComparator
          outgoing,       \* events of the command that the matcher has to publish
          emitted,        \* history: what it has published
          intact          \* history: nothing was changed between the two runs

verifierVars == <<verifier, bookConfig, eventLog, comparator, outgoing, emitted,
                  intact>>

RecordedBook == [min_price_tick |-> 100, max_price_tick |-> 200, max_orders |-> 8]

CommandConfig ==
  [manifest_id |-> 1001, epoch_id |-> 7, stream_id |-> 101, stream_kind |-> "Command",
   payload_schema_version |-> 2, payload_size |-> command_wal_payload_size,
   first_sequence |-> 1]
EventConfig ==
  [CommandConfig EXCEPT !.stream_id = 201, !.stream_kind = "Event",
                        !.payload_size = event_wal_payload_size]

-----------------------------------------------------------------------------
(* The matcher, as far as its events go.                                     *)

\* The events of a command: contiguous indices, and the last one says so.
Caused(command, messages) ==
  [k \in DOMAIN messages |->
     EventWalPayload(command.payload.client_id, command.seq, k - 1,
                     k = Len(messages), messages[k])]

EventsOf(command, book) ==
  LET m == command.payload.message
  IN  Caused(command,
        CASE m.type = "NewLimit" /\ m.price \notin book.min_price_tick .. book.max_price_tick ->
               <<OrderEvent("OrderAccepted", m.id), OrderRejected(m.id, 2)>>
          [] m.type = "NewLimit" /\ m.side = Bid ->
               <<OrderEvent("OrderAccepted", m.id),
                 OrderRested(m.id, m.owner_id, m.side, m.price, m.quantity)>>
          [] m.type = "NewLimit" /\ m.side = Ask ->
               <<OrderEvent("OrderAccepted", m.id),
                 Trade(m.id, 90, m.owner_id, 13, m.price, m.quantity),
                 OrderEvent("OrderDone", m.id)>>
          [] m.type = "SaveSnapshot" -> <<MatcherFatal(8, 0, 90)>>
          [] OTHER -> <<m>>)

\* What the live matcher has sent to the Event WAL for the first n commands.
EventsUpTo(n) ==
  FlattenSeq([k \in 1 .. n |-> EventsOf(Decoded(log[k]), RecordedBook)])

EventRecord(payload) ==
  LET encoded == encode_event_wal_payload_v2(payload, event_wal_payload_size)
  IN  [size |-> encoded.size, bytes |-> encoded.bytes]

Altered(record, at) == [record EXCEPT !.bytes[at] = @ + 1]

\* The Event WAL as the verification finds it: as it was written, without its
\* end, or with one field of one record changed.
EventLogs(records) ==
  {records} \cup {SubSeq(records, 1, n) : n \in 0 .. Len(records) - 1}
    \cup {[records EXCEPT ![k] = Altered(@, at)] : k \in DOMAIN records, at \in Offsets}

-----------------------------------------------------------------------------
(* The start.                                                                *)

\* FNV-1a of the three fields, taken to be injective.
hash_order_book_config(config) ==
  <<config.min_price_tick, config.max_price_tick, config.max_orders>>

ReplayManifest(command, event, book) ==
  [manifest_id |-> command.manifest_id, epoch_id |-> command.epoch_id,
   command_stream_id |-> command.stream_id, event_stream_id |-> event.stream_id,
   command_schema_version |-> command.payload_schema_version,
   event_schema_version |-> event.payload_schema_version,
   configuration_hash |-> hash_order_book_config(book)]

validate_replay_manifest(manifest, command, event, book) ==
  /\ manifest.manifest_id # 0
  /\ event.manifest_id = command.manifest_id /\ event.epoch_id = command.epoch_id
  /\ manifest = ReplayManifest(command, event, book)

\* The checks of the two open() before they open the file.
RangeOk(config, kind, size, first, last) ==
  /\ first # 0 /\ first <= last /\ config.first_sequence <= first
  /\ config.payload_schema_version = 2 /\ config.payload_size = size
  /\ config.stream_kind = kind

\* EventWalComparator::open skips to first, as far as the log goes.
OpenComparator(config, first, last) ==
  /\ RangeOk(config, "Event", event_wal_payload_size, first, last)
  /\ comparator' = [first |-> first, next |-> first, last |-> last, status |-> "Ok", at |-> 0]

\* The manifest that was saved with the WAL is validated for the book in use.
ManifestHolds(book) ==
  validate_replay_manifest(ReplayManifest(CommandConfig, EventConfig, RecordedBook),
                           CommandConfig, EventConfig, book)

\* A range of orders, the last command of which may be another one: a fresh
\* matcher is in live mode.
IsVerifiable(first, last) ==
  \A k \in first .. last - 1 : TypeOfCommand(Decoded(log[k])) = "NewLimit"

\* A new process over the files the tract has left.
FreshTract ==
  /\ ring' = <<>> /\ durable' = 0 /\ nextLive' = 1 /\ consumed' = <<>>
  /\ copied' = NoCommand /\ liveResume' = 0
  /\ UNCHANGED <<failed, persistence, mode, log>>

\* What is wrong: nothing, the log of events, the source, or the range.
Deviation(records, first, last) ==
  {[log |-> l, foreign |-> <<>>, late |-> 0] : l \in EventLogs(records)}
    \cup {[log |-> records, foreign |-> f, late |-> 0] : f \in ForeignAmong(first, last)}
    \cup {[log |-> records, foreign |-> <<>>, late |-> n] : n \in {0 - 1, 1}}

Start(first, book) ==
  LET last == Len(log)
      written == EventsUpTo(last)
      records == [k \in DOMAIN written |-> EventRecord(written[k])]
      firstEvent == Len(EventsUpTo(first - 1)) + 1
  IN  /\ verifier = "Off" /\ producer = "Live" /\ ring = <<>> /\ ~failed
      /\ persistence = "Idle" /\ mode = "Live"
      /\ IsVerifiable(first, last) /\ ManifestHolds(book)
      /\ RangeOk(CommandConfig, "Command", command_wal_payload_size, first, last)
      /\ \E deviation \in Deviation(records, first, last) :
           /\ firstEvent - 1 <= Len(deviation.log)
           /\ eventLog' = deviation.log
           /\ OpenComparator(EventConfig, firstEvent, Len(records) + deviation.late)
           /\ source' = Source(first, last, deviation.foreign)
           /\ intact' = (deviation.foreign = <<>> /\ deviation.late = 0 /\
                          \A k \in firstEvent .. Len(records) :
                            k \in DOMAIN deviation.log /\ deviation.log[k] = records[k])
      /\ pending' = <<>> /\ sent' = <<>>
      /\ bookConfig' = book /\ outgoing' = <<>> /\ emitted' = <<>>
      /\ producer' = "Closed" /\ verifier' = "Running"
      /\ FreshTract

-----------------------------------------------------------------------------
(* The run.                                                                  *)

\* The matcher is stopped by a fatal event writer.
Stopped == comparator.status # "Ok"

SourceStep == verifier = "Running" /\ ~Stopped /\ SourcePublishes
              /\ UNCHANGED verifierVars

\* publish_durable(1)
PassDurable ==
  /\ verifier = "Running" /\ durable < Len(ring)
  /\ durable' = durable + 1
  /\ UNCHANGED <<ring, nextLive, failed, producer, sourceVars, persistenceVars,
                 consumed, verifierVars>>

\* try_consume, and Matcher::process up to its first event.
ProcessCommand ==
  /\ verifier = "Running" /\ ~Stopped /\ outgoing = <<>> /\ durable > 0
  /\ outgoing' = EventsOf(Head(ring), bookConfig)
  /\ ring' = Tail(ring) /\ durable' = durable - 1
  /\ UNCHANGED <<nextLive, failed, producer, sourceVars, persistenceVars, consumed>>
  /\ UNCHANGED <<verifier, bookConfig, eventLog, comparator, emitted, intact>>

\* The sequences of the verifying matcher go on from the first of the range.
NextEvent == comparator.first + Len(emitted)

SameEvent(payload) ==
  LET expected == eventLog[comparator.next]
      actual == encode_event_wal_payload_v2(payload, event_wal_payload_size)
  IN  /\ decode_event_wal_payload_v2(expected).status = "Ok"
      /\ actual.status = "Ok"
      /\ comparator.next = NextEvent
      /\ expected.bytes = actual.bytes

\* EventWalComparator::publish.  The reader of the Event WAL is at next.
Compare(payload) ==
  LET Halt(status) == [comparator EXCEPT !.status = status, !.at = NextEvent]
  IN  comparator' = IF comparator.next > comparator.last THEN Halt("UnexpectedEvent")
                    ELSE IF comparator.next > Len(eventLog)
                         THEN Halt("ExpectedEventMissing")
                    ELSE IF ~SameEvent(payload) THEN Halt("EventMismatch")
                    ELSE [comparator EXCEPT !.next = @ + 1, !.at = NextEvent]

PublishEvent ==
  /\ verifier = "Running" /\ ~Stopped /\ outgoing # <<>>
  /\ Compare(Head(outgoing))
  /\ emitted' = Append(emitted, Head(outgoing)) /\ outgoing' = Tail(outgoing)
  /\ UNCHANGED <<vars, verifier, bookConfig, eventLog, intact>>

\* Mutation of Missing: the end of the range is not looked at.
MissingNothing == FALSE

Missing == comparator.next # comparator.last + 1

\* EventWalComparator::finish, when there is nothing more to publish.
Finish ==
  /\ verifier = "Running"
  /\ \/ Stopped
     \/ (source.complete \/ source.failed) /\ ring = <<>> /\ outgoing = <<>>
  /\ comparator' = IF Stopped THEN comparator
                   ELSE IF Missing
                        THEN [comparator EXCEPT !.status = "ExpectedEventMissing",
                                                !.at = comparator.next]
                   ELSE [comparator EXCEPT !.status = "Complete"]
  /\ verifier' = "Finished"
  /\ UNCHANGED <<vars, bookConfig, eventLog, outgoing, emitted, intact>>

VerificationInit ==
  /\ Init
  /\ verifier = "Off" /\ bookConfig = RecordedBook /\ eventLog = <<>>
  /\ comparator = [first |-> 1, next |-> 0, last |-> 0, status |-> "InvalidConfig", at |-> 0]
  /\ outgoing = <<>> /\ emitted = <<>> /\ intact = FALSE

Verify == SourceStep \/ PassDurable \/ ProcessCommand \/ PublishEvent \/ Finish

Alone(action) == verifier = "Off" /\ action /\ UNCHANGED verifierVars

Tract == Alone(Next)

VerificationNext ==
  \/ Tract \/ Verify
  \/ \E first \in DOMAIN log, book \in BookConfigs : Start(first, book)

verificationVars == <<vars, verifierVars>>

VerificationSpec == VerificationInit /\ [][VerificationNext]_verificationVars

\* All that the roles do, from the start of a session or a verification to its end.
Polling == Alone(Session \/ Persistence \/ Consume) \/ Verify

\* The roles poll: as long as one of them can do something, one does.
FairVerificationSpec == VerificationSpec /\ WF_verificationVars(Polling)

-----------------------------------------------------------------------------
(* Properties.                                                               *)

\* matcher/README.md:120-123: the verification completes exactly if the events
\* the matcher published are the recorded ones of the range, and stops at the
\* first one that is missing, extra, malformed or different: none before it is.
\* A recording nobody has changed verifies, through a ring that is often full.
VerdictExact ==
  LET Same(k) == /\ comparator.first + k - 1 <= comparator.last
                 /\ comparator.first + k - 1 \in DOMAIN eventLog
                 /\ EventRecord(emitted[k]).bytes
                      = eventLog[comparator.first + k - 1].bytes
  IN  verifier = "Finished" =>
        /\ comparator.status = "Complete" <=>
             /\ Len(emitted) = comparator.last - comparator.first + 1
             /\ \A k \in DOMAIN emitted : Same(k)
        /\ \A k \in 1 .. Len(emitted) - 1 : Same(k)
        /\ intact => comparator.status = "Complete"

\* A session ends in live mode, unless persistence fails, and a verification has
\* a verdict.
SessionEnds ==
  (mode = "Replay" \/ verifier = "Running")
    ~> (producer = "Live" \/ failed \/ verifier = "Finished")
=============================================================================
