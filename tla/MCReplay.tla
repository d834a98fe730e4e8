------------------------------ MODULE MCReplay -------------------------------
(* Replay and verification for TLC: a ring smaller than the ranges replayed   *)
(* through it.                                                               *)
EXTENDS ReplayVerification
MCLiveTypes == {"Bid", "Ask", "StartReplay"}

Written(message) ==
  LET encoded == encode_command_wal_payload_v2(CommandWalPayload(Client, message),
                                               command_wal_payload_size)
  IN  [size |-> encoded.size, bytes |-> encoded.bytes]

\* An order on neither side, a StartReplay with the fields of another program, and
\* a command that no record of this WAL holds.
MCForeignRecords ==
  {Written(NewLimitOrder(1, 11, 2, 150, 10)),
   [Written(Signal("StartReplay")) EXCEPT !.bytes[16] = 5],
   Written(LoadSnapshot(8, 7))}

\* The configuration that was recorded, and one that refuses the prices of orders.
MCBookConfigs == {RecordedBook, [RecordedBook EXCEPT !.max_price_tick = 120]}

\* Fields of all events, and a byte no event uses.
MCOffsets == {8, 20, 21, 24, 25, 32, 44}

\* One message of every type, with another value in every field.
MCCommands == {NewLimitOrder(1, 2, Ask, 3, 4), LoadSnapshot(5, 6)}
                \cup {Signal(type) : type \in {"SaveSnapshot", "Shutdown",
                                               "StartReplay", "StopReplay"}}
MCEvents == {OrderEvent("OrderAccepted", 1), OrderRejected(2, 3),
             Trade(1, 2, 3, 4, 5, 6), OrderRested(1, 2, Ask, 4, 5),
             OrderEvent("OrderDone", 7), LoadSnapshot(8, 9), MatcherFatal(10, 1, 2)}
              \cup {Signal(type) : type \in {"SaveSnapshot", "Shutdown",
                                             "StartReplay", "StopReplay"}}

\* Every message survives the codec, and a message without a type does not get in.
ASSUME CodecRoundTrips ==
  /\ \A message \in MCCommands :
       LET payload == CommandWalPayload(Client, message)
           decoded == decode_command_wal_payload_v2(Written(message))
       IN  decoded.status = "Ok" /\ decoded.payload = payload
  /\ \A message \in MCEvents, last \in BOOLEAN :
       LET payload == EventWalPayload(Client, 21, 22, last, message)
           decoded == decode_event_wal_payload_v2(EventRecord(payload))
       IN  decoded.status = "Ok" /\ decoded.payload = payload
  /\ encode_command_wal_payload_v2(CommandWalPayload(Client, Signal("None")),
                                   command_wal_payload_size).status = "InvalidType"
=============================================================================
