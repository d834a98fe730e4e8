----------------------------- MODULE PayloadCodec -----------------------------
(***************************************************************************)
(* The canonical codec of the Command and Event WAL payloads.  A record is   *)
(* its size and its bytes: a function that gives at the offset of a field    *)
(* the value written there; every other byte is zero, as after the std::fill *)
(* of the encoders.                                                          *)
(*                                                                           *)
(* A message is a record with its type and the fields of that type, named as *)
(* in types.hpp.  Sides and reasons are the numbers of their enumerators.    *)
(***************************************************************************)
EXTENDS Naturals, Sequences

CommandTypes == <<"NewLimit", "SaveSnapshot", "LoadSnapshot", "Shutdown",
                  "StartReplay", "StopReplay">>

EventTypes == <<"OrderAccepted", "OrderRejected", "Trade", "OrderRested",
                "OrderDone", "SaveSnapshot", "LoadSnapshot", "Shutdown",
                "MatcherFatal", "StartReplay", "StopReplay">>

Bid == 0
Ask == 1
UnknownCommand == 3         \* the last RejectReason
SnapshotLoadInvalid == 10   \* the last FatalReason

NewLimitOrder(id, owner, side, price, quantity) ==
  [type |-> "NewLimit", id |-> id, owner_id |-> owner, side |-> side,
   price |-> price, quantity |-> quantity]
Signal(type) == [type |-> type]
LoadSnapshot(command, epoch) ==
  [type |-> "LoadSnapshot", save_snapshot_command_sequence |-> command,
   snapshot_epoch_id |-> epoch]
OrderEvent(type, id) == [type |-> type, id |-> id]
OrderRejected(id, reason) == [type |-> "OrderRejected", id |-> id, reason |-> reason]
Trade(taker, maker, takerOwner, makerOwner, price, quantity) ==
  [type |-> "Trade", taker_order_id |-> taker, maker_order_id |-> maker,
   taker_owner_id |-> takerOwner, maker_owner_id |-> makerOwner,
   price |-> price, quantity |-> quantity]
OrderRested(id, owner, side, price, remaining) ==
  [type |-> "OrderRested", id |-> id, owner_id |-> owner, side |-> side,
   price |-> price, remaining |-> remaining]
MatcherFatal(reason, offending, last) ==
  [type |-> "MatcherFatal", reason |-> reason, offending_order_id |-> offending,
   last_order_id |-> last]

CommandWalPayload(client, message) == [client_id |-> client, message |-> message]
EventWalPayload(client, cause, index, last, message) ==
  [client_id |-> client, caused_by_command_sequence |-> cause,
   index_in_command |-> index, is_last_for_command |-> last, message |-> message]

-----------------------------------------------------------------------------
(* Bytes.                                                                    *)

command_wal_payload_size == 48     \* of both versions
event_wal_payload_size == 64

\* The record before its fields are written.
Zeros(size) == [at \in 0 .. size - 1 |-> 0]

\* The byte of an enumerator, None is 0; the enumerator of a byte, None if unknown.
CodeOf(types, type) ==
  IF \E k \in DOMAIN types : types[k] = type
  THEN CHOOSE k \in DOMAIN types : types[k] = type ELSE 0
TypeOf(types, byte) == IF byte \in DOMAIN types THEN types[byte] ELSE "None"

valid_side(value) == value <= Ask
valid_reject_reason(value) == value <= UnknownCommand
valid_fatal_reason(value) == value <= SnapshotLoadInvalid

\* The end of every decoder: what was decoded must encode to the same bytes.
Canonical(record, decoded, encoded) ==
  [payload |-> decoded,
   status |-> IF encoded.status # "Ok" THEN encoded.status
              ELSE IF record.bytes # encoded.bytes THEN "NonCanonicalBytes"
              ELSE "Ok"]

Refused(status) == [status |-> status]

-----------------------------------------------------------------------------
(* Commands.                                                                 *)

CommandBytes(payload) ==
  LET m == payload.message
      header == [Zeros(command_wal_payload_size) EXCEPT
                   ![0] = payload.client_id, ![8] = CodeOf(CommandTypes, m.type)]
  IN  CASE m.type = "NewLimit" ->
             [header EXCEPT ![16] = m.id, ![24] = m.owner_id, ![32] = m.side,
                            ![36] = m.price, ![40] = m.quantity]
        [] m.type = "LoadSnapshot" ->
             [header EXCEPT ![16] = m.save_snapshot_command_sequence,
                            ![24] = m.snapshot_epoch_id]
        [] OTHER -> header

encode_command_wal_payload_v1(payload, size) ==
  LET m == payload.message
  IN  [size |-> size, bytes |-> CommandBytes(payload),
       status |-> IF size # command_wal_payload_size THEN "InvalidSize"
                  ELSE IF m.type \in {"StartReplay", "StopReplay", "None"}
                       THEN "InvalidType"
                  ELSE IF m.type = "NewLimit" /\ ~valid_side(m.side)
                       THEN "InvalidField"
                  ELSE "Ok"]

DecodedCommand(type, bytes) ==
  CommandWalPayload(bytes[0],
    CASE type = "NewLimit" ->
           NewLimitOrder(bytes[16], bytes[24], bytes[32],
                         bytes[36], bytes[40])
      [] type = "LoadSnapshot" -> LoadSnapshot(bytes[16], bytes[24])
      [] OTHER -> Signal(type))

decode_command_wal_payload_v1(record) ==
  LET type == TypeOf(CommandTypes, record.bytes[8])
      decoded == DecodedCommand(type, record.bytes)
  IN  IF record.size # command_wal_payload_size THEN Refused("InvalidSize")
      ELSE IF type \in {"StartReplay", "StopReplay", "None"}
           THEN Refused("InvalidType")
      ELSE IF type = "NewLimit" /\ ~valid_side(record.bytes[32])
           THEN Refused("InvalidField")
      ELSE Canonical(record, decoded,
             encode_command_wal_payload_v1(decoded, command_wal_payload_size))

encode_command_wal_payload_v2(payload, size) ==
  IF size = command_wal_payload_size
       /\ payload.message.type \in {"StartReplay", "StopReplay"}
  THEN [status |-> "Ok", size |-> size, bytes |-> CommandBytes(payload)]
  ELSE encode_command_wal_payload_v1(payload, size)

decode_command_wal_payload_v2(record) ==
  LET type == TypeOf(CommandTypes, record.bytes[8])
      decoded == DecodedCommand(type, record.bytes)
  IN  IF record.size = command_wal_payload_size
           /\ type \in {"StartReplay", "StopReplay"}
      THEN Canonical(record, decoded,
             encode_command_wal_payload_v2(decoded, command_wal_payload_size))
      ELSE decode_command_wal_payload_v1(record)

-----------------------------------------------------------------------------
(* Events.                                                                   *)

EventBytes(payload) ==
  LET m == payload.message
      header == [Zeros(event_wal_payload_size) EXCEPT
                   ![0] = payload.client_id,
                   ![8] = payload.caused_by_command_sequence,
                   ![16] = payload.index_in_command,
                   ![20] = IF payload.is_last_for_command THEN 1 ELSE 0,
                   ![21] = CodeOf(EventTypes, m.type)]
  IN  CASE m.type \in {"OrderAccepted", "OrderDone"} -> [header EXCEPT ![24] = m.id]
        [] m.type = "OrderRejected" ->
             [header EXCEPT ![24] = m.id, ![32] = m.reason]
        [] m.type = "Trade" ->
             [header EXCEPT ![24] = m.taker_order_id, ![32] = m.maker_order_id,
                            ![40] = m.taker_owner_id, ![48] = m.maker_owner_id,
                            ![56] = m.price, ![60] = m.quantity]
        [] m.type = "OrderRested" ->
             [header EXCEPT ![24] = m.id, ![32] = m.owner_id, ![40] = m.side,
                            ![44] = m.price, ![48] = m.remaining]
        [] m.type = "LoadSnapshot" ->
             [header EXCEPT ![24] = m.save_snapshot_command_sequence,
                            ![32] = m.snapshot_epoch_id]
        [] m.type = "MatcherFatal" ->
             [header EXCEPT ![24] = m.reason, ![32] = m.offending_order_id,
                            ![40] = m.last_order_id]
        [] OTHER -> header

encode_event_wal_payload_v1(payload, size) ==
  LET m == payload.message
  IN  [size |-> size, bytes |-> EventBytes(payload),
       status |-> IF size # event_wal_payload_size THEN "InvalidSize"
                  ELSE IF m.type \in {"StartReplay", "StopReplay", "None"}
                       THEN "InvalidType"
                  ELSE IF \/ m.type = "OrderRejected" /\ ~valid_reject_reason(m.reason)
                          \/ m.type = "OrderRested" /\ ~valid_side(m.side)
                          \/ m.type = "MatcherFatal" /\ ~valid_fatal_reason(m.reason)
                       THEN "InvalidField"
                  ELSE "Ok"]

DecodedEvent(type, bytes) ==
  EventWalPayload(bytes[0], bytes[8], bytes[16], bytes[20] # 0,
    CASE type \in {"OrderAccepted", "OrderDone"} -> OrderEvent(type, bytes[24])
      [] type = "OrderRejected" -> OrderRejected(bytes[24], bytes[32])
      [] type = "Trade" ->
           Trade(bytes[24], bytes[32], bytes[40], bytes[48],
                 bytes[56], bytes[60])
      [] type = "OrderRested" ->
           OrderRested(bytes[24], bytes[32], bytes[40],
                       bytes[44], bytes[48])
      [] type = "LoadSnapshot" -> LoadSnapshot(bytes[24], bytes[32])
      [] type = "MatcherFatal" ->
           MatcherFatal(bytes[24], bytes[32], bytes[40])
      [] OTHER -> Signal(type))

decode_event_wal_payload_v1(record) ==
  LET type == TypeOf(EventTypes, record.bytes[21])
      decoded == DecodedEvent(type, record.bytes)
  IN  IF record.size # event_wal_payload_size THEN Refused("InvalidSize")
      ELSE IF record.bytes[20] > 1 THEN Refused("InvalidField")
      ELSE IF type \in {"StartReplay", "StopReplay", "None"}
           THEN Refused("InvalidType")
      ELSE IF \/ type = "OrderRejected" /\ ~valid_reject_reason(record.bytes[32])
              \/ type = "OrderRested" /\ ~valid_side(record.bytes[40])
              \/ type = "MatcherFatal" /\ ~valid_fatal_reason(record.bytes[24])
           THEN Refused("InvalidField")
      ELSE Canonical(record, decoded,
             encode_event_wal_payload_v1(decoded, event_wal_payload_size))

encode_event_wal_payload_v2(payload, size) ==
  IF size = event_wal_payload_size
       /\ payload.message.type \in {"StartReplay", "StopReplay"}
  THEN [status |-> "Ok", size |-> size, bytes |-> EventBytes(payload)]
  ELSE encode_event_wal_payload_v1(payload, size)

decode_event_wal_payload_v2(record) ==
  LET type == TypeOf(EventTypes, record.bytes[21])
      decoded == DecodedEvent(type, record.bytes)
  IN  IF record.size = event_wal_payload_size /\ record.bytes[20] <= 1
           /\ type \in {"StartReplay", "StopReplay"}
      THEN Canonical(record, decoded,
             encode_event_wal_payload_v2(decoded, event_wal_payload_size))
      ELSE decode_event_wal_payload_v1(record)
=============================================================================
