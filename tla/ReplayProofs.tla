----------------------------- MODULE ReplayProofs -----------------------------
(* Theorems about replay sessions and offline verifications, for every         *)
(* capacity of the pipeline, every choice of what arrives live, of the records *)
(* other programs have written and of what was changed before a verification.  *)
EXTENDS ReplayVerification, FiniteSetTheorems, TLAPS

-----------------------------------------------------------------------------
(* The codec of commands.                                                    *)

LiveMessages == {"Bid", "Ask", "SaveSnapshot", "LoadSnapshot", "Shutdown",
                 "StartReplay"}

\* The payload a live command carries.
LivePayload(type, seq) == CommandWalPayload(Client, Message(type, seq))

\* The byte of a type stands for it.
LEMMA TypeCodes ==
  \A k \in 1 .. 6 : /\ CodeOf(CommandTypes, CommandTypes[k]) = k
                    /\ TypeOf(CommandTypes, k) = CommandTypes[k]
<1>1. /\ DOMAIN CommandTypes = 1 .. 6
      /\ CommandTypes[1] = "NewLimit" /\ CommandTypes[2] = "SaveSnapshot"
      /\ CommandTypes[3] = "LoadSnapshot" /\ CommandTypes[4] = "Shutdown"
      /\ CommandTypes[5] = "StartReplay" /\ CommandTypes[6] = "StopReplay"
  BY DEF CommandTypes
<1>2. \A j, k \in 1 .. 6 : CommandTypes[j] = CommandTypes[k] => j = k
  BY <1>1
<1>3. ASSUME NEW k \in 1 .. 6
      PROVE  CodeOf(CommandTypes, CommandTypes[k]) = k
  <2>1. (CHOOSE j \in DOMAIN CommandTypes : CommandTypes[j] = CommandTypes[k]) = k
    BY <1>1, <1>2
  <2> QED BY <1>1, <2>1, Zenon DEF CodeOf
<1> QED BY <1>1, <1>3 DEF TypeOf

\* Every field is at its offset, and no other.
LEMMA MessageBytes ==
  ASSUME NEW payload
  PROVE  /\ CommandBytes(payload)[0] = payload.client_id
         /\ CommandBytes(payload)[8] = CodeOf(CommandTypes, payload.message.type)
         /\ payload.message.type = "NewLimit" =>
              /\ CommandBytes(payload)[16] = payload.message.id
              /\ CommandBytes(payload)[24] = payload.message.owner_id
              /\ CommandBytes(payload)[32] = payload.message.side
              /\ CommandBytes(payload)[36] = payload.message.price
              /\ CommandBytes(payload)[40] = payload.message.quantity
         /\ payload.message.type = "LoadSnapshot" =>
              /\ CommandBytes(payload)[16] = payload.message.save_snapshot_command_sequence
              /\ CommandBytes(payload)[24] = payload.message.snapshot_epoch_id
<1> DEFINE m == payload.message
           h == [Zeros(command_wal_payload_size) EXCEPT
                   ![0] = payload.client_id, ![8] = CodeOf(CommandTypes, m.type)]
<1>1. /\ DOMAIN h = 0 .. 47
      /\ h[0] = payload.client_id /\ h[8] = CodeOf(CommandTypes, m.type)
  BY SMT DEF Zeros, command_wal_payload_size
<1>2. CommandBytes(payload) =
        CASE m.type = "NewLimit" ->
             [h EXCEPT ![16] = m.id, ![24] = m.owner_id, ![32] = m.side,
                            ![36] = m.price, ![40] = m.quantity]
        [] m.type = "LoadSnapshot" ->
             [h EXCEPT ![16] = m.save_snapshot_command_sequence,
                            ![24] = m.snapshot_epoch_id]
        [] OTHER -> h
  BY Zenon DEF CommandBytes
<1> HIDE DEF h
<1>3. CASE m.type = "NewLimit"
  BY <1>1, <1>2, <1>3, SMT
<1>4. CASE m.type = "LoadSnapshot"
  BY <1>1, <1>2, <1>4, SMT
<1>5. CASE m.type \notin {"NewLimit", "LoadSnapshot"}
  BY <1>1, <1>2, <1>5, SMT
<1> QED BY <1>3, <1>4, <1>5, Zenon

\* What is written for a live command decodes to it.
LEMMA LiveRoundTrip ==
  ASSUME NEW type \in LiveMessages, NEW seq
  PROVE  LET r == [size |-> command_wal_payload_size,
                   bytes |-> CommandBytes(LivePayload(type, seq))]
         IN  /\ decode_command_wal_payload_v2(r).status = "Ok"
             /\ decode_command_wal_payload_v2(r).payload = LivePayload(type, seq)
<1> DEFINE p == LivePayload(type, seq)
           m == Message(type, seq)
           b == CommandBytes(p)
           r == [size |-> command_wal_payload_size, bytes |-> b]
           t == TypeOf(CommandTypes, b[8])
           d == DecodedCommand(t, b)
<1>1. p.message = m /\ p.client_id = Client /\ p = [client_id |-> Client, message |-> m]
  BY DEF LivePayload, CommandWalPayload
<1>2. m.type \in {"NewLimit", "SaveSnapshot", "LoadSnapshot", "Shutdown", "StartReplay"}
  BY DEF LiveMessages, Message, NewLimitOrder, LoadSnapshot, Signal
<1>3. t = m.type
  <2>1. \E k \in 1 .. 6 : m.type = CommandTypes[k]
    BY <1>2 DEF CommandTypes
  <2>2. b[8] = CodeOf(CommandTypes, m.type)
    BY <1>1, MessageBytes
  <2> QED BY <2>1, <2>2, TypeCodes
<1>4. d = p
  <2>1. b[0] = Client
    BY <1>1, MessageBytes
  <2>2. CASE m.type = "NewLimit"
    <3>1. /\ b[16] = m.id /\ b[24] = m.owner_id /\ b[32] = m.side
          /\ b[36] = m.price /\ b[40] = m.quantity
      BY <1>1, <2>2, MessageBytes
    <3>2. m = NewLimitOrder(m.id, m.owner_id, m.side, m.price, m.quantity)
      BY <2>2 DEF LiveMessages, Message, NewLimitOrder, LoadSnapshot, Signal
    <3>3. d = CommandWalPayload(b[0], NewLimitOrder(b[16], b[24], b[32], b[36], b[40]))
      BY <1>3, <2>2 DEF DecodedCommand
    <3> HIDE DEF d, b, m
    <3> QED BY <1>1, <2>1, <3>1, <3>2, <3>3 DEF CommandWalPayload
  <2>3. CASE m.type = "LoadSnapshot"
    <3>1. b[16] = m.save_snapshot_command_sequence /\ b[24] = m.snapshot_epoch_id
      BY <1>1, <2>3, MessageBytes
    <3>2. m = LoadSnapshot(m.save_snapshot_command_sequence, m.snapshot_epoch_id)
      BY <2>3 DEF LiveMessages, Message, NewLimitOrder, LoadSnapshot, Signal
    <3>3. d = CommandWalPayload(b[0], LoadSnapshot(b[16], b[24]))
      BY <1>3, <2>3 DEF DecodedCommand
    <3> HIDE DEF d, b, m
    <3> QED BY <1>1, <2>1, <3>1, <3>2, <3>3 DEF CommandWalPayload
  <2>4. CASE m.type \notin {"NewLimit", "LoadSnapshot"}
    <3>1. m = Signal(m.type)
      BY <2>4 DEF LiveMessages, Message, NewLimitOrder, LoadSnapshot, Signal
    <3>2. d = CommandWalPayload(b[0], Signal(m.type))
      BY <1>3, <2>4 DEF DecodedCommand
    <3> HIDE DEF d, b, m
    <3> QED BY <1>1, <2>1, <3>1, <3>2 DEF CommandWalPayload
  <2> QED BY <2>2, <2>3, <2>4
<1>5. m.type = "NewLimit" => valid_side(m.side) /\ b[32] = m.side
  <2>1. m.type = "NewLimit" => m.side \in {Bid, Ask}
    BY DEF LiveMessages, Message, NewLimitOrder, LoadSnapshot, Signal
  <2>2. m.type = "NewLimit" => b[32] = m.side
    BY <1>1, MessageBytes
  <2> QED BY <2>1, <2>2 DEF valid_side, Bid, Ask
<1>6. /\ encode_command_wal_payload_v2(p, command_wal_payload_size).status = "Ok"
      /\ encode_command_wal_payload_v2(p, command_wal_payload_size).bytes = b
  <2> HIDE DEF p, m
  <2> QED BY <1>1, <1>2, <1>5
          DEF encode_command_wal_payload_v2, encode_command_wal_payload_v1
<1>7. m.type # "StartReplay" =>
        /\ encode_command_wal_payload_v1(p, command_wal_payload_size).status = "Ok"
        /\ encode_command_wal_payload_v1(p, command_wal_payload_size).bytes = b
  <2> HIDE DEF p, m
  <2> QED BY <1>1, <1>2, <1>5 DEF encode_command_wal_payload_v1
<1>8. r.size = command_wal_payload_size /\ r.bytes = b
  OBVIOUS
<1> HIDE DEF d, p, m, b, r
<1>9. CASE m.type = "StartReplay"
  <2>1. decode_command_wal_payload_v2(r)
          = Canonical(r, d, encode_command_wal_payload_v2(d, command_wal_payload_size))
    BY <1>3, <1>8, <1>9 DEF decode_command_wal_payload_v2, d
  <2> QED BY <1>4, <1>6, <1>8, <2>1 DEF Canonical, r, b, p
<1>10. CASE m.type # "StartReplay"
  <2>1. decode_command_wal_payload_v2(r)
          = Canonical(r, d, encode_command_wal_payload_v1(d, command_wal_payload_size))
    BY <1>2, <1>3, <1>5, <1>8, <1>10
       DEF decode_command_wal_payload_v2, decode_command_wal_payload_v1, d
  <2> QED BY <1>4, <1>7, <1>8, <1>10, <2>1 DEF Canonical, r, b, p
<1> QED BY <1>9, <1>10

\* A record that decodes is the one its command encodes to.
LEMMA DecodedReencodes ==
  ASSUME NEW r, decode_command_wal_payload_v2(r).status = "Ok"
  PROVE  LET p == decode_command_wal_payload_v2(r).payload
             e == encode_command_wal_payload_v2(p, command_wal_payload_size)
         IN  e.status = "Ok" /\ e.bytes = r.bytes
<1> DEFINE t == TypeOf(CommandTypes, r.bytes[8])
           d == DecodedCommand(t, r.bytes)
           e1 == encode_command_wal_payload_v1(d, command_wal_payload_size)
           e2 == encode_command_wal_payload_v2(d, command_wal_payload_size)
<1>1. d.message.type = t
  BY DEF DecodedCommand, CommandWalPayload, NewLimitOrder, LoadSnapshot, Signal
<1>2. r.size = command_wal_payload_size
  BY DEF decode_command_wal_payload_v2, decode_command_wal_payload_v1, Refused
<1> HIDE DEF t, d
<1>3. CASE t \in {"StartReplay", "StopReplay"}
  <2>1. decode_command_wal_payload_v2(r) = Canonical(r, d, e2)
    BY <1>2, <1>3 DEF decode_command_wal_payload_v2, t, d
  <2> QED BY <2>1 DEF Canonical
<1>4. CASE t \notin {"StartReplay", "StopReplay"}
  <2>1. decode_command_wal_payload_v2(r) = Canonical(r, d, e1)
    BY <1>2, <1>4
       DEF decode_command_wal_payload_v2, decode_command_wal_payload_v1, Refused, t, d
  <2>2. e2 = e1
    BY <1>1, <1>4 DEF encode_command_wal_payload_v2
  <2> QED BY <2>1, <2>2 DEF Canonical
<1> QED BY <1>3, <1>4

\* What an encoder writes, whatever its status.
LEMMA EncodedAs ==
  ASSUME NEW p, NEW n
  PROVE  /\ encode_command_wal_payload_v2(p, n).size = n
         /\ encode_command_wal_payload_v2(p, n).bytes = CommandBytes(p)
BY DEF encode_command_wal_payload_v2, encode_command_wal_payload_v1

\* The command of type that arrives live at seq, and the record of it.
LiveCommand(type, seq) == Command(seq, LivePayload(type, seq), "Live")
IsLiveCommand(c) == \E type \in LiveTypes : c = LiveCommand(type, c.seq)
IsEntry(entry, k) == \E type \in LiveTypes : entry = Recorded(LiveCommand(type, k))

\* A record of the Command WAL is that of the live command it decodes to, which
\* does not end a session.
LEMMA EntryDecodes ==
  ASSUME NEW entry, NEW k, IsEntry(entry, k)
  PROVE  /\ entry.seq = k /\ entry.by = "Live"
         /\ decode_command_wal_payload_v2(entry.record).status = "Ok"
         /\ decode_command_wal_payload_v2(entry.record).payload.client_id \in Nat
         /\ decode_command_wal_payload_v2(entry.record).payload.message.type # "StopReplay"
         /\ \A type \in LiveTypes : entry = Recorded(LiveCommand(type, k)) =>
              Decoded(entry) = LiveCommand(type, k)
<1>1. ASSUME NEW type \in LiveTypes, entry = Recorded(LiveCommand(type, k))
      PROVE  /\ entry.seq = k /\ entry.by = "Live"
             /\ decode_command_wal_payload_v2(entry.record).status = "Ok"
             /\ decode_command_wal_payload_v2(entry.record).payload = LivePayload(type, k)
  <2>1. type \in LiveMessages
    BY ReplayAssumption DEF LiveMessages
  <2>2. entry = [seq |-> k, by |-> "Live",
                 record |-> [size |-> command_wal_payload_size,
                             bytes |-> CommandBytes(LivePayload(type, k))]]
    BY <1>1, EncodedAs DEF Recorded, LiveCommand, Command
  <2>3. entry.record = [size |-> command_wal_payload_size,
                        bytes |-> CommandBytes(LivePayload(type, k))]
    BY <2>2
  <2> QED BY <2>1, <2>2, <2>3, LiveRoundTrip
<1>2. ASSUME NEW type \in LiveTypes
      PROVE  /\ LivePayload(type, k).client_id \in Nat
             /\ LivePayload(type, k).message.type # "StopReplay"
  BY <1>2, ReplayAssumption
     DEF LivePayload, CommandWalPayload, Client, Message, NewLimitOrder, LoadSnapshot, Signal
<1> QED BY <1>1, <1>2 DEF IsEntry, Decoded, LiveCommand

\* The messages of the commands a matcher gets from a WAL.
KnownMessage(m) ==
  \/ m.type = "NewLimit" /\ m.side \in {Bid, Ask}
  \/ \E saved, epoch : m = LoadSnapshot(saved, epoch)
  \/ \E type \in {"SaveSnapshot", "Shutdown", "StartReplay"} : m = Signal(type)

LEMMA EntryKnown ==
  ASSUME NEW entry, NEW k, IsEntry(entry, k)
  PROVE  KnownMessage(decode_command_wal_payload_v2(entry.record).payload.message)
<1>1. PICK type \in LiveTypes : entry = Recorded(LiveCommand(type, k))
  BY DEF IsEntry
<1>2. Decoded(entry) = LiveCommand(type, k)
  BY <1>1, EntryDecodes
<1>3. decode_command_wal_payload_v2(entry.record).payload = LivePayload(type, k)
  BY <1>2 DEF Decoded, LiveCommand, Command
<1>4. decode_command_wal_payload_v2(entry.record).payload.message = Message(type, k)
  BY <1>3 DEF LivePayload, CommandWalPayload
<1>5. KnownMessage(Message(type, k))
  <2>1. type \in {"Bid", "Ask", "SaveSnapshot", "LoadSnapshot", "Shutdown", "StartReplay"}
    BY ReplayAssumption
  <2>2. CASE type \in {"Bid", "Ask"}
    <3>1. /\ Message(type, k).type = "NewLimit" /\ Message(type, k).side \in {Bid, Ask}
      BY <2>2 DEF Message, NewLimitOrder
    <3> QED BY <3>1 DEF KnownMessage
  <2>3. CASE type = "LoadSnapshot"
    BY <2>3 DEF Message, KnownMessage
  <2>4. CASE type \in {"SaveSnapshot", "Shutdown", "StartReplay"}
    <3>1. Message(type, k) = Signal(type)
      BY <2>4 DEF Message
    <3> QED BY <2>4, <3>1 DEF KnownMessage
  <2> QED BY <2>1, <2>2, <2>3, <2>4
<1> QED BY <1>4, <1>5

LEMMA ForeignKnown ==
  ASSUME NEW r \in ForeignRecords, decode_command_wal_payload_v2(r).status = "Ok"
  PROVE  LET p == decode_command_wal_payload_v2(r).payload
         IN  p.client_id \in Nat /\ p.message.type # "StopReplay" /\ KnownMessage(p.message)
<1> DEFINE t == TypeOf(CommandTypes, r.bytes[8])
           d == DecodedCommand(t, r.bytes)
           p == decode_command_wal_payload_v2(r).payload
<1>1. /\ r.bytes \in [0 .. r.size - 1 -> Nat] /\ p.message.type # "StopReplay"
  BY ReplayAssumption
<1>2. r.size = command_wal_payload_size
  BY DEF decode_command_wal_payload_v2, decode_command_wal_payload_v1, Refused
<1>3. /\ p = d /\ t # "None"
      /\ t = "NewLimit" => valid_side(r.bytes[32])
  <2> HIDE DEF t, d
  <2>1. CASE t \in {"StartReplay", "StopReplay"}
    <3>1. decode_command_wal_payload_v2(r)
            = Canonical(r, d, encode_command_wal_payload_v2(d, command_wal_payload_size))
      BY <1>2, <2>1 DEF decode_command_wal_payload_v2, t, d
    <3> QED BY <2>1, <3>1 DEF Canonical
  <2>2. CASE t \notin {"StartReplay", "StopReplay"}
    <3>1. decode_command_wal_payload_v2(r) = decode_command_wal_payload_v1(r)
      BY <2>2 DEF decode_command_wal_payload_v2, t
    <3>2. t # "None" /\ (t = "NewLimit" => valid_side(r.bytes[32]))
      BY <3>1 DEF decode_command_wal_payload_v1, Refused, t
    <3>3. decode_command_wal_payload_v1(r)
            = Canonical(r, d, encode_command_wal_payload_v1(d, command_wal_payload_size))
      BY <1>2, <2>2, <3>2 DEF decode_command_wal_payload_v1, t, d
    <3> QED BY <3>1, <3>2, <3>3 DEF Canonical
  <2> QED BY <2>1, <2>2
<1>4. r.bytes[0] \in Nat /\ r.bytes[32] \in Nat
  BY <1>1, <1>2 DEF command_wal_payload_size
<1>5. t = "NewLimit" => r.bytes[32] \in {Bid, Ask}
  BY <1>3, <1>4 DEF valid_side, Bid, Ask
<1>6. t \in {"NewLimit", "SaveSnapshot", "LoadSnapshot", "Shutdown", "StartReplay",
             "StopReplay", "None"}
  <2>1. \A k \in DOMAIN CommandTypes :
          CommandTypes[k] \in {"NewLimit", "SaveSnapshot", "LoadSnapshot", "Shutdown",
                               "StartReplay", "StopReplay"}
    BY DEF CommandTypes
  <2> QED BY <2>1 DEF TypeOf
<1>7. /\ d.client_id = r.bytes[0] /\ d.message.type = t
      /\ t = "NewLimit" => d.message.side = r.bytes[32]
      /\ t = "LoadSnapshot" => d.message = LoadSnapshot(r.bytes[16], r.bytes[24])
      /\ t \notin {"NewLimit", "LoadSnapshot"} => d.message = Signal(t)
  <2> HIDE DEF t
  <2> QED BY DEF d, DecodedCommand, CommandWalPayload, NewLimitOrder, LoadSnapshot, Signal
<1> HIDE DEF t, d
<1>8. KnownMessage(d.message)
  BY <1>1, <1>3, <1>5, <1>6, <1>7 DEF KnownMessage
<1> QED BY <1>1, <1>3, <1>4, <1>7, <1>8

-----------------------------------------------------------------------------
(* Sequences of anything.                                                    *)

IsStream(s) == \E S : s \in Seq(S)

LEMMA AppendStream ==
  ASSUME NEW s, IsStream(s), NEW e
  PROVE  /\ IsStream(Append(s, e)) /\ Len(Append(s, e)) = Len(s) + 1
         /\ \A k \in 1 .. Len(s) : Append(s, e)[k] = s[k]
         /\ Append(s, e)[Len(s) + 1] = e
<1>1. PICK S : s \in Seq(S)
  BY DEF IsStream
<1>2. s \in Seq(S \cup {e}) /\ e \in S \cup {e}
  BY <1>1
<1>3. Append(s, e) \in Seq(S \cup {e})
  BY <1>2
<1> QED BY <1>2, <1>3 DEF IsStream

LEMMA TailStream ==
  ASSUME NEW s, IsStream(s), Len(s) > 0
  PROVE  /\ IsStream(Tail(s)) /\ Len(Tail(s)) = Len(s) - 1
         /\ \A k \in 1 .. Len(s) - 1 : Tail(s)[k] = s[k + 1]
         /\ Head(s) = s[1]
<1>1. PICK S : s \in Seq(S)
  BY DEF IsStream
<1>2. s # <<>>
  BY <1>1
<1> QED BY <1>1, <1>2 DEF IsStream

LEMMA StreamLength ==
  ASSUME NEW s, IsStream(s)
  PROVE  Len(s) \in Nat /\ DOMAIN s = 1 .. Len(s)
BY DEF IsStream

-----------------------------------------------------------------------------
(* The inductive invariant.                                                  *)

\* The place of a command in a session; live commands before the session are at 0.
Stage(c) == IF c.by = "Live" THEN IF TypeOfCommand(c) = "StartReplay" THEN 1 ELSE 0
            ELSE IF c.by = "Load" THEN 2
            ELSE IF c.by = "Source" THEN 3
            ELSE IF c.by = "Stop" THEN 4 ELSE 5

Follows(s, t) == (s = t /\ s \in {0, 3}) \/ t = s + 1 \/ (s = 2 /\ t = 4)

\* Where a session may go on in a mode of the persistence role; the last command of
\* a producer; the mode when all that a producer has published is dealt with.
Expected(m, s) == IF m = "Live" THEN s \in {0, 1}
                  ELSE IF m = "Replay" THEN s \in {2, 3, 4} ELSE s = 5
Closing(p, s) == IF p = "Live" THEN s = 0 ELSE IF p = "Load" THEN s = 1
                 ELSE IF p = "Open" THEN s = 2 ELSE IF p = "Replay" THEN s \in {2, 3}
                 ELSE IF p = "Restore" THEN s = 4 ELSE s = 5
ModeAfter(p) == IF p \in {"Live", "Wait"} THEN "Live"
                ELSE IF p = "Restore" THEN "Restoring" ELSE "Replay"

\* The kind of a command is that of its publisher.
Labelled(c) == /\ c.by \in {"Load", "Restore"} => TypeOfCommand(c) = "LoadSnapshot"
               /\ c.by = "Stop" <=> TypeOfCommand(c) = "StopReplay"

Waiting == durable + 1 .. Len(ring)
Handling == persistence = "Published"

\* The commands before the persistence role are the rest of at most one session.
SessionInOrder ==
  /\ \A i \in Waiting \ {Len(ring)} : Follows(Stage(ring[i]), Stage(ring[i + 1]))
  /\ Handling => Expected(mode, Stage(copied))
  /\ Handling /\ Waiting # {} => Follows(Stage(copied), Stage(ring[durable + 1]))
  /\ ~Handling /\ Waiting # {} => Expected(mode, Stage(ring[durable + 1]))
  /\ Waiting # {} => Closing(producer, Stage(ring[Len(ring)]))
  /\ Handling /\ Waiting = {} => Closing(producer, Stage(copied))
  /\ ~Handling /\ Waiting = {} => mode = ModeAfter(producer)
  /\ persistence # "Refused" /\ producer # "Closed"
  /\ persistence = "Written" => Waiting # {} /\ copied = ring[durable + 1]

\* The last record of the Command WAL may be that of a command not durable yet.
Handled == IF persistence = "Written" /\ mode = "Live" THEN Len(log) - 1 ELSE Len(log)

\* The live commands among them come first, and continue the Command WAL.
LiveInOrder ==
  /\ \A i, j \in Waiting : i < j /\ Stage(ring[i]) # 0 => ~IsLive(ring[j])
  /\ Handling /\ Stage(copied) # 0 => \A j \in Waiting : ~IsLive(ring[j])
  /\ mode # "Live" => \A j \in Waiting : ~IsLive(ring[j])
  /\ \A i \in Waiting : IsLive(ring[i]) => ring[i].seq = Handled + i - durable
  /\ producer = "Live" => /\ mode = "Live"
                          /\ \A i \in Waiting : Stage(ring[i]) = 0
                          /\ Handling => Stage(copied) = 0
                          /\ nextLive = Handled + Len(ring) - durable + 1
  /\ mode # "Live" => liveResume = Len(log) + 1
  /\ persistence \in {"Written", "Published"} /\ mode = "Live" =>
       IsLive(copied) /\ copied.seq = Len(log)
  /\ producer = "Wait" /\ mode = "Live" /\ Waiting = {} /\ ~Handling =>
       nextLive = Len(log) + 1

\* The durable live commands are the records that the matcher has not got yet.
Delivery ==
  /\ Len(consumed) <= Handled
  /\ \A k \in DOMAIN consumed : consumed[k] = Decoded(log[k])
  /\ \A i \in 1 .. durable : IsLive(ring[i]) =>
       /\ ring[i].seq \in Len(consumed) + 1 .. Handled
       /\ ring[i] = Decoded(log[ring[i].seq])
  /\ \A i, j \in 1 .. durable :
       i < j /\ IsLive(ring[i]) /\ IsLive(ring[j]) => ring[i].seq < ring[j].seq
  /\ \A k \in Len(consumed) + 1 .. Handled :
       \E i \in 1 .. durable : IsLive(ring[i]) /\ ring[i].seq = k
  /\ persistence = "Written" /\ mode = "Live" => copied = Decoded(log[Len(log)])

\* Every live command is one of the live ingress, and every record that of one.
Entries ==
  /\ \A k \in DOMAIN log : IsEntry(log[k], k)
  /\ \A i \in DOMAIN ring : /\ Labelled(ring[i])
                            /\ IsLive(ring[i]) => IsLiveCommand(ring[i])
  /\ Labelled(copied)

\* A command of the source is what the record of its sequence decodes to.
ReadFrom(c) ==
  /\ c.by = "Source" /\ c.seq \in DOMAIN log /\ Decodes(c.seq)
  /\ c.payload = decode_command_wal_payload_v2(RecordAt(c.seq)).payload

SourceInOrder ==
  /\ \A k \in DOMAIN source.foreign : source.foreign[k] \in ForeignRecords
  /\ \A k \in DOMAIN sent : ReadFrom(sent[k]) /\ sent[k].seq = source.first + k - 1
  /\ pending = <<>> => source.failed \/ source.next = source.first + Len(sent)
  /\ pending # <<>> => /\ ReadFrom(pending[1])
                       /\ pending[1].seq = source.first + Len(sent)
                       /\ source.next = pending[1].seq + 1
  /\ source.failed => source.next - 1 \in DOMAIN source.foreign

Types ==
  /\ TypeOK
  /\ IsStream(ring) /\ IsStream(log) /\ IsStream(consumed) /\ IsStream(sent)
  /\ source \in [first : Nat \ {0}, next : Nat, last : Nat, complete : BOOLEAN,
                 foreign : {source.foreign}, failed : BOOLEAN]
  /\ pending = <<>> \/ pending = <<pending[1]>>

TractInv == Types /\ SessionInOrder /\ LiveInOrder /\ Delivery /\ Entries
IInv == TractInv /\ SourceInOrder

\* What a source reads from, in a session and in a verification.
Recording == \A k \in DOMAIN log : IsEntry(log[k], k)
Reading == Types /\ Recording /\ SourceInOrder

-----------------------------------------------------------------------------
(* A command is published.                                                   *)

LEMMA TypedLengths ==
  ASSUME Types
  PROVE  /\ durable \in Nat /\ durable <= Len(ring) /\ Len(ring) \in Nat
         /\ DOMAIN ring = 1 .. Len(ring)
         /\ Len(log) \in Nat /\ DOMAIN log = 1 .. Len(log)
         /\ Len(consumed) \in Nat /\ DOMAIN consumed = 1 .. Len(consumed)
         /\ Len(sent) \in Nat /\ DOMAIN sent = 1 .. Len(sent)
         /\ Handled \in Int /\ Handled <= Len(log)
BY StreamLength DEF Types, TypeOK, Handled

LEMMA Lengths ==
  ASSUME TractInv
  PROVE  /\ durable \in Nat /\ durable <= Len(ring) /\ Len(ring) \in Nat
         /\ DOMAIN ring = 1 .. Len(ring)
         /\ Len(log) \in Nat /\ DOMAIN log = 1 .. Len(log)
         /\ Len(consumed) \in Nat /\ DOMAIN consumed = 1 .. Len(consumed)
         /\ Len(sent) \in Nat /\ DOMAIN sent = 1 .. Len(sent)
         /\ Handled \in Int /\ Handled <= Len(log)
BY TypedLengths DEF TractInv

LEMMA StageOf == \A c : Stage(c) \in 0 .. 5 /\ (Stage(c) \in {0, 1} => IsLive(c))
BY DEF Stage, IsLive

\* What every publication has in common: where the command goes, and that it is the
\* next of the session or, in live mode, the next live command.
LEMMA PublishStep ==
  ASSUME TractInv, NEW c,
         ring' = Append(ring, c),
         UNCHANGED <<durable, persistenceVars, consumed>>,
         Closing(producer', Stage(c)), producer' # "Closed",
         Expected(ModeAfter(producer), Stage(c)),
         \A s \in 0 .. 5 : Closing(producer, s) => Follows(s, Stage(c)),
         Labelled(c), IsLive(c) => IsLiveCommand(c),
         IsLive(c) => producer = "Live" /\ c.seq = nextLive,
         producer' = "Live" =>
           producer = "Live" /\ Stage(c) = 0 /\ nextLive' = nextLive + 1
  PROVE  SessionInOrder' /\ LiveInOrder' /\ Delivery' /\ Entries'
<1>0. /\ durable \in Nat /\ durable <= Len(ring) /\ Len(ring) \in Nat
      /\ Len(log) \in Nat /\ Len(consumed) \in Nat
      /\ Handled \in Int /\ Handled <= Len(log)
  BY Lengths
<1>10. SessionInOrder /\ LiveInOrder /\ Types
  BY DEF TractInv
<1>1. /\ Len(ring') = Len(ring) + 1 /\ ring'[Len(ring) + 1] = c
      /\ \A k \in 1 .. Len(ring) : ring'[k] = ring[k]
      /\ IsStream(ring') /\ DOMAIN ring' = 1 .. Len(ring) + 1
  BY AppendStream, StreamLength DEF TractInv, Types
<1>2. /\ durable' = durable /\ persistence' = persistence /\ copied' = copied
      /\ mode' = mode /\ liveResume' = liveResume /\ log' = log
      /\ consumed' = consumed
  BY DEF persistenceVars
<1>3. Waiting' = durable + 1 .. Len(ring) + 1 /\ (Handling' <=> Handling)
  BY <1>1, <1>2 DEF Waiting, Handling
<1>4. Handled' = Handled
  BY <1>2 DEF Handled
<1>9. \A i \in Waiting' : \/ i \in Waiting /\ ring'[i] = ring[i]
                          \/ i = Len(ring) + 1 /\ ring'[i] = c
  <2>1. \A i \in durable + 1 .. Len(ring) + 1 :
          \/ i \in durable + 1 .. Len(ring) /\ i \in 1 .. Len(ring)
          \/ i = Len(ring) + 1
    BY <1>0
  <2>2. /\ Waiting = durable + 1 .. Len(ring) /\ ring'[Len(ring) + 1] = c
        /\ \A k \in 1 .. Len(ring) : ring'[k] = ring[k]
    BY <1>1 DEF Waiting
  <2>3. \A i \in durable + 1 .. Len(ring) + 1 :
          \/ i \in Waiting /\ ring'[i] = ring[i]
          \/ i = Len(ring) + 1 /\ ring'[i] = c
    <3>1. SUFFICES ASSUME NEW i \in durable + 1 .. Len(ring) + 1
                   PROVE  \/ i \in Waiting /\ ring'[i] = ring[i]
                          \/ i = Len(ring) + 1 /\ ring'[i] = c
      OBVIOUS
    <3>2. CASE i \in durable + 1 .. Len(ring) /\ i \in 1 .. Len(ring)
      BY <2>2, <3>2, Zenon
    <3>3. CASE i = Len(ring) + 1
      BY <2>2, <3>3, Zenon
    <3> QED BY <2>1, <3>2, <3>3, Zenon
  <2> QED BY <1>3, <2>3, Zenon
<1>5. SessionInOrder'
  <2>1. \A i \in Waiting' \ {Len(ring')} : Follows(Stage(ring'[i]), Stage(ring'[i + 1]))
    <3>1. SUFFICES ASSUME NEW i \in durable + 1 .. Len(ring)
                   PROVE  Follows(Stage(ring'[i]), Stage(ring'[i + 1]))
      <4>1. \A i \in durable + 1 .. Len(ring) + 1 :
              i # Len(ring) + 1 => i \in durable + 1 .. Len(ring)
        BY <1>0
      <4>2. Len(ring') = Len(ring) + 1
        BY <1>1
      <4> QED BY <1>3, <4>1, <4>2, Zenon
    <3>2. CASE i < Len(ring)
      <4>1. /\ i \in 1 .. Len(ring) /\ i + 1 \in 1 .. Len(ring)
            /\ i \in durable + 1 .. Len(ring) /\ i # Len(ring)
        BY <3>1, <3>2, <1>0
      <4>2. Follows(Stage(ring[i]), Stage(ring[i + 1]))
        BY <1>10, <4>1, Zenon DEF SessionInOrder, Waiting
      <4>3. ring'[i] = ring[i] /\ ring'[i + 1] = ring[i + 1]
        BY <1>1, <4>1
      <4> QED BY <4>2, <4>3
    <3>3. CASE i = Len(ring)
      <4>1. Closing(producer, Stage(ring[Len(ring)]))
        BY <3>1, <3>3, <1>0, <1>10 DEF SessionInOrder, Waiting
      <4>2. i \in 1 .. Len(ring) /\ i + 1 = Len(ring) + 1
        BY <3>1, <3>3, <1>0
      <4>3. ring'[i] = ring[Len(ring)] /\ ring'[i + 1] = c
        BY <1>1, <3>3, <4>2
      <4>4. Follows(Stage(ring[Len(ring)]), Stage(c))
        BY <4>1, StageOf
      <4> QED BY <4>3, <4>4, Zenon
    <3>4. durable \in Nat /\ Len(ring) \in Nat
      BY <1>0
    <3>5. i < Len(ring) \/ i = Len(ring)
      BY <3>4
    <3> QED BY <3>2, <3>3, <3>5
  <2>2. Handling => Expected(mode, Stage(copied))
    BY DEF TractInv, SessionInOrder
  <2>3. Handling => Follows(Stage(copied), Stage(ring'[durable + 1]))
    <3>1. CASE durable < Len(ring)
      BY <1>1, <3>1, <1>0, <1>10 DEF SessionInOrder, Waiting
    <3>2. CASE durable = Len(ring)
      BY <1>1, <3>2, <1>0, <1>10, StageOf DEF SessionInOrder, Waiting
    <3>3. durable < Len(ring) \/ durable = Len(ring)
      BY <1>0
    <3> QED BY <3>1, <3>2, <3>3
  <2>4. ~Handling => Expected(mode, Stage(ring'[durable + 1]))
    <3>1. CASE durable < Len(ring)
      BY <1>1, <3>1, <1>0, <1>10 DEF SessionInOrder, Waiting
    <3>2. CASE durable = Len(ring)
      BY <1>1, <3>2, <1>0, <1>10 DEF SessionInOrder, Waiting
    <3>3. durable < Len(ring) \/ durable = Len(ring)
      BY <1>0
    <3> QED BY <3>1, <3>2, <3>3
  <2>5. persistence = "Written" => copied = ring'[durable + 1]
    BY <1>1, <1>0, <1>10 DEF SessionInOrder, Waiting
  <2>6. Waiting' # {}
    <3>1. durable + 1 \in Waiting'
      BY <1>3, <1>0
    <3> QED BY <3>1
  <2>7. persistence # "Refused"
    BY DEF TractInv, SessionInOrder
  <2> QED BY <1>1, <1>2, <1>3, <2>1, <2>2, <2>3, <2>4, <2>5, <2>6, <2>7
          DEF SessionInOrder
<1>6. LiveInOrder'
  <2>1. IsLive(c) => \A i \in Waiting : Stage(ring[i]) = 0
    BY DEF TractInv, LiveInOrder
  <2>2. \A i, j \in Waiting' : i < j /\ Stage(ring'[i]) # 0 => ~IsLive(ring'[j])
    <3>1. \A i, j \in Waiting : i < j /\ Stage(ring[i]) # 0 => ~IsLive(ring[j])
      BY <1>10 DEF LiveInOrder
    <3>2. \A j \in Waiting' : Len(ring) + 1 < j => FALSE
      BY <1>0, <1>3
    <3> QED BY <1>9, <2>1, <3>1, <3>2
  <2>3. Handling /\ Stage(copied) # 0 => \A j \in Waiting' : ~IsLive(ring'[j])
    BY <1>1, <1>3, <1>0, <1>10 DEF LiveInOrder, Waiting
  <2>4. mode # "Live" => \A j \in Waiting' : ~IsLive(ring'[j])
    BY <1>1, <1>3, <1>0, <1>10 DEF LiveInOrder, Waiting
  <2>5. \A i \in Waiting' : IsLive(ring'[i]) => ring'[i].seq = Handled + i - durable
    <3>1. IsLive(c) => c.seq = Handled + (Len(ring) + 1) - durable
      <4>1. producer = "Live" => nextLive = Handled + Len(ring) - durable + 1
        BY DEF TractInv, LiveInOrder
      <4> QED BY <4>1, <1>0
    <3>2. \A i \in Waiting : IsLive(ring[i]) => ring[i].seq = Handled + i - durable
      BY DEF TractInv, LiveInOrder
    <3>3. SUFFICES ASSUME NEW i \in durable + 1 .. Len(ring) + 1, IsLive(ring'[i])
                   PROVE  ring'[i].seq = Handled + i - durable
      BY <1>3
    <3>4. CASE i \in durable + 1 .. Len(ring)
      <4>1. ring'[i] = ring[i] /\ i \in Waiting
        BY <1>1, <3>4, <1>0 DEF Waiting
      <4> QED BY <3>2, <3>3, <4>1
    <3>5. CASE i = Len(ring) + 1
      BY <1>1, <3>1, <3>3, <3>5
    <3>6. i \in durable + 1 .. Len(ring) \/ i = Len(ring) + 1
      BY <1>0
    <3> QED BY <3>4, <3>5, <3>6
  <2>6. producer' = "Live" => /\ mode = "Live"
                              /\ \A i \in Waiting' : Stage(ring'[i]) = 0
                              /\ Handling => Stage(copied) = 0
                              /\ nextLive' = Handled + Len(ring') - durable + 1
    <3>1. producer = "Live" => nextLive = Handled + Len(ring) - durable + 1
      BY DEF TractInv, LiveInOrder
    <3>2. producer' = "Live" => nextLive' = Handled + Len(ring') - durable + 1
      BY <1>1, <3>1, <1>0
    <3>3. producer = "Live" => /\ mode = "Live" /\ \A i \in Waiting : Stage(ring[i]) = 0
                               /\ Handling => Stage(copied) = 0
      BY DEF TractInv, LiveInOrder
    <3> QED BY <1>9, <3>2, <3>3
  <2>7. Waiting' # {}
    <3>1. durable + 1 \in Waiting'
      BY <1>3, <1>0
    <3> QED BY <3>1
  <2>8. /\ mode # "Live" => liveResume = Len(log) + 1
        /\ persistence \in {"Written", "Published"} /\ mode = "Live" =>
             IsLive(copied) /\ copied.seq = Len(log)
    BY DEF TractInv, LiveInOrder
  <2> QED BY <1>2, <1>3, <1>4, <2>2, <2>3, <2>4, <2>5, <2>6, <2>7, <2>8 DEF LiveInOrder
<1>7. Delivery'
  <2>1. \A i \in 1 .. durable : ring'[i] = ring[i]
    BY <1>1, <1>0
  <2>2. Delivery
    BY DEF TractInv
  <2>3. Handled' = Handled /\ consumed' = consumed /\ durable' = durable /\ log' = log
    BY <1>2, <1>4
  <2>4. /\ mode' = mode /\ persistence' = persistence /\ copied' = copied
        /\ \A entry : Decoded(entry)' = Decoded(entry)
    BY <1>2 DEF Decoded
  <2>5. /\ Len(consumed) <= Handled
        /\ \A k \in DOMAIN consumed : consumed[k] = Decoded(log[k])
        /\ persistence = "Written" /\ mode = "Live" => copied = Decoded(log[Len(log)])
    BY <2>2, Zenon DEF Delivery
  <2>6. \A i \in 1 .. durable : IsLive(ring'[i]) =>
          /\ ring'[i].seq \in Len(consumed) + 1 .. Handled
          /\ ring'[i] = Decoded(log[ring'[i].seq])
    BY <2>1, <2>2, Zenon DEF Delivery
  <2>7. /\ \A i, j \in 1 .. durable :
             i < j /\ IsLive(ring'[i]) /\ IsLive(ring'[j]) => ring'[i].seq < ring'[j].seq
        /\ \A k \in Len(consumed) + 1 .. Handled :
             \E i \in 1 .. durable : IsLive(ring'[i]) /\ ring'[i].seq = k
    BY <2>1, <2>2, Zenon DEF Delivery
  <2> QED BY <2>3, <2>4, <2>5, <2>6, <2>7 DEF Delivery
<1>8. Entries'
  <2>1. Entries
    BY DEF TractInv
  <2> QED BY <1>1, <1>2, <2>1, <1>0 DEF Entries
<1> QED BY <1>5, <1>6, <1>7, <1>8
\* The commands of the producer.
LEMMA ProducedCommand ==
  ASSUME NEW type \in LiveMessages \cup {"StopReplay"}, NEW seq, NEW by
  PROVE  LET c == Command(seq, LivePayload(type, seq), by)
         IN  /\ c.seq = seq /\ c.by = by /\ c.payload.client_id \in Nat
             /\ TypeOfCommand(c) = IF type \in {"Bid", "Ask"} THEN "NewLimit" ELSE type
<1> DEFINE c == Command(seq, LivePayload(type, seq), by)
<1>1. /\ c.seq = seq /\ c.by = by /\ c.payload = LivePayload(type, seq)
  BY DEF Command
<1>2. /\ LivePayload(type, seq).client_id = 17
      /\ LivePayload(type, seq).message = Message(type, seq)
  BY DEF LivePayload, CommandWalPayload, Client
<1>3. Message(type, seq).type = IF type \in {"Bid", "Ask"} THEN "NewLimit" ELSE type
  BY DEF LiveMessages, Message, NewLimitOrder, LoadSnapshot, Signal
<1> QED BY <1>1, <1>2, <1>3 DEF TypeOfCommand

LEMMA IngressSteps ==
  ASSUME TractInv, NEW type \in LiveTypes, Ingress(type)
  PROVE  SessionInOrder' /\ LiveInOrder' /\ Delivery' /\ Entries'
<1> DEFINE c == LiveCommand(type, nextLive)
<1>1. type \in LiveMessages
  BY ReplayAssumption DEF LiveMessages
<1>2. /\ ring' = Append(ring, c) /\ nextLive' = nextLive + 1
      /\ UNCHANGED <<durable, persistenceVars, consumed>>
      /\ producer = "Live"
      /\ producer' = IF type = "StartReplay" THEN "Load" ELSE "Live"
  BY DEF Ingress, TryPublish, LiveCommand, LivePayload
<1>3. /\ c.seq = nextLive /\ c.by = "Live" /\ IsLive(c) /\ IsLiveCommand(c)
      /\ TypeOfCommand(c) = IF type \in {"Bid", "Ask"} THEN "NewLimit" ELSE type
  BY <1>1, ProducedCommand DEF LiveCommand, IsLive, IsLiveCommand
<1> HIDE DEF c
<1>4. /\ Stage(c) = IF type = "StartReplay" THEN 1 ELSE 0
      /\ Labelled(c)
  BY <1>1, <1>3 DEF Stage, Labelled, LiveMessages
<1>5. /\ Closing(producer', Stage(c)) /\ producer' # "Closed"
      /\ Expected(ModeAfter(producer), Stage(c))
      /\ \A s \in 0 .. 5 : Closing(producer, s) => Follows(s, Stage(c))
      /\ producer' = "Live" => Stage(c) = 0
  BY <1>2, <1>4 DEF Closing, Expected, ModeAfter, Follows
<1> QED BY <1>2, <1>3, <1>4, <1>5, PublishStep

LEMMA ControlSteps ==
  ASSUME TractInv, LoadReplaySnapshot \/ Stop \/ Restore
  PROVE  SessionInOrder' /\ LiveInOrder' /\ Delivery' /\ Entries'
<1>1. ASSUME NEW type \in {"LoadSnapshot", "StopReplay"}, NEW by, TryPublish(type, by),
             \/ /\ producer = "Load" /\ type = "LoadSnapshot" /\ by = "Load"
                /\ producer' = "Open"
             \/ /\ producer = "Replay" /\ type = "StopReplay" /\ by = "Stop"
                /\ producer' = "Restore"
             \/ /\ producer = "Restore" /\ type = "LoadSnapshot" /\ by = "Restore"
                /\ producer' = "Wait"
      PROVE  SessionInOrder' /\ LiveInOrder' /\ Delivery' /\ Entries'
  <2> DEFINE c == Command(nextLive, LivePayload(type, nextLive), by)
  <2>1. type \in LiveMessages \cup {"StopReplay"}
    BY DEF LiveMessages
  <2>2. /\ ring' = Append(ring, c)
        /\ UNCHANGED <<durable, persistenceVars, consumed>>
    BY <1>1 DEF TryPublish, LivePayload
  <2>3. c.by = by /\ TypeOfCommand(c) = type
    BY <2>1, ProducedCommand
  <2> HIDE DEF c
  <2>4. /\ Stage(c) = IF producer = "Load" THEN 2 ELSE IF producer = "Replay" THEN 4 ELSE 5
        /\ Labelled(c) /\ ~IsLive(c) /\ producer' # "Live"
    BY <1>1, <2>3 DEF Stage, Labelled, IsLive
  <2>5. /\ Closing(producer', Stage(c)) /\ producer' # "Closed"
        /\ Expected(ModeAfter(producer), Stage(c))
        /\ \A s \in 0 .. 5 : Closing(producer, s) => Follows(s, Stage(c))
    BY <1>1, <2>4 DEF Closing, Expected, ModeAfter, Follows
  <2> QED BY <2>2, <2>4, <2>5, PublishStep
<1>2. CASE LoadReplaySnapshot
  BY <1>1, <1>2 DEF LoadReplaySnapshot
<1>3. CASE Stop
  BY <1>1, <1>3 DEF Stop
<1>4. CASE Restore
  BY <1>1, <1>4 DEF Restore
<1> QED BY <1>2, <1>3, <1>4

\* A record the source can offer, and the command it decodes to.
LEMMA OfferedCommand ==
  ASSUME Reading, NEW c, ReadFrom(c)
  PROVE  /\ IsCommand(c) /\ TypeOfCommand(c) # "StopReplay" /\ c.by = "Source"
         /\ KnownMessage(c.payload.message)
<1> DEFINE d == decode_command_wal_payload_v2(RecordAt(c.seq))
<1>1. d.status = "Ok" /\ c.payload = d.payload /\ c.seq \in DOMAIN log /\ c.by = "Source"
  BY DEF ReadFrom, Decodes
<1>2. /\ d.payload.client_id \in Nat /\ d.payload.message.type # "StopReplay"
      /\ KnownMessage(d.payload.message)
  <2>1. CASE c.seq \in DOMAIN source.foreign
    <3>1. RecordAt(c.seq) \in ForeignRecords
      BY <2>1 DEF Reading, SourceInOrder, RecordAt
    <3> QED BY <1>1, <3>1, ForeignKnown
  <2>2. CASE c.seq \notin DOMAIN source.foreign
    <3>1. RecordAt(c.seq) = log[c.seq].record /\ IsEntry(log[c.seq], c.seq)
      BY <1>1, <2>2 DEF Reading, Recording, RecordAt
    <3> QED BY <3>1, EntryDecodes, EntryKnown
  <2> QED BY <2>1, <2>2
<1>3. c.seq \in Nat
  BY <1>1, TypedLengths DEF Reading
<1> QED BY <1>1, <1>2, <1>3 DEF IsCommand, TypeOfCommand

\* Without a record in hand, the one the source offers is that of its next sequence.
LEMMA OfferedIsRead ==
  ASSUME Reading, SourcePublishes, pending # <<>> \/ Decodes(source.next)
  PROVE  /\ ReadFrom(Offered) /\ NextRead = Offered.seq + 1
         /\ Offered.seq = source.first + Len(sent)
<1>1. CASE pending # <<>>
  BY <1>1 DEF Reading, SourceInOrder, Offered, NextRead
<1>2. CASE pending = <<>>
  <2>1. source.next = source.first + Len(sent) /\ source.next <= Len(log)
    BY <1>2 DEF SourcePublishes, Reading, SourceInOrder
  <2>2. source.next \in DOMAIN log /\ source.next \in Nat
    BY <2>1, TypedLengths DEF Reading, Types
  <2>3. /\ Offered.seq = source.next /\ Offered.by = "Source"
        /\ Offered.payload = decode_command_wal_payload_v2(RecordAt(source.next)).payload
        /\ NextRead = source.next + 1
    BY <1>2 DEF Offered, Command, NextRead
  <2> QED BY <1>2, <2>1, <2>2, <2>3 DEF ReadFrom
<1> QED BY <1>1, <1>2

LEMMA SessionReads == IInv => Reading
BY DEF IInv, TractInv, Entries, Reading, Recording

LEMMA PublishedStep ==
  ASSUME IInv, PublishNext, Published, pending # <<>> \/ Decodes(source.next)
  PROVE  SessionInOrder' /\ LiveInOrder' /\ Delivery' /\ Entries'
<1>1. /\ IsCommand(Offered) /\ TypeOfCommand(Offered) # "StopReplay"
      /\ Offered.by = "Source"
  BY SessionReads, OfferedIsRead, OfferedCommand DEF PublishNext
<1>2. PICK c : c = Offered
  OBVIOUS
<1>3. /\ Stage(c) = 3 /\ Labelled(c) /\ ~IsLive(c)
  BY <1>1, <1>2 DEF Stage, Labelled, IsLive
<1>4. /\ ring' = Append(ring, c) /\ producer = "Replay" /\ producer' = producer
      /\ UNCHANGED <<durable, persistenceVars, consumed>>
  BY <1>2 DEF PublishNext, SourcePublishes, Published
<1>5. /\ Closing(producer', Stage(c)) /\ producer' # "Closed"
      /\ Expected(ModeAfter(producer), Stage(c))
      /\ \A s \in 0 .. 5 : Closing(producer, s) => Follows(s, Stage(c))
      /\ producer' # "Live"
  BY <1>3, <1>4 DEF Closing, Expected, ModeAfter, Follows
<1> QED BY <1>3, <1>4, <1>5, PublishStep DEF IInv

\* Steps of the producer and the source that publish nothing.
LEMMA QuietStep ==
  ASSUME TractInv, UNCHANGED <<ring, durable, persistenceVars, consumed, nextLive>>,
         \/ producer' = producer
         \/ producer = "Open" /\ producer' = "Replay"
  PROVE  SessionInOrder' /\ LiveInOrder' /\ Delivery' /\ Entries'
<1>1. /\ ring' = ring /\ durable' = durable /\ persistence' = persistence
      /\ copied' = copied /\ mode' = mode /\ liveResume' = liveResume
      /\ log' = log /\ consumed' = consumed /\ nextLive' = nextLive
  BY DEF persistenceVars
<1>2. Waiting' = Waiting /\ (Handling' <=> Handling) /\ Handled' = Handled
  BY <1>1 DEF Waiting, Handling, Handled
<1>3. SessionInOrder'
  <2>1. /\ \A s \in 0 .. 5 : Closing(producer, s) => Closing(producer', s)
        /\ ModeAfter(producer') = ModeAfter(producer)
        /\ producer # "Closed" => producer' # "Closed"
    BY DEF Closing, ModeAfter
  <2>2. SessionInOrder
    BY DEF TractInv
  <2> QED BY <1>1, <1>2, <2>1, <2>2, StageOf DEF SessionInOrder
<1>4. LiveInOrder'
  <2>1. LiveInOrder
    BY DEF TractInv
  <2> QED BY <1>1, <1>2, <2>1 DEF LiveInOrder
<1>5. Delivery'
  <2>1. Delivery
    BY DEF TractInv
  <2> QED BY <1>1, <1>2, <2>1 DEF Delivery
<1>6. Entries'
  <2>1. Entries
    BY DEF TractInv
  <2> QED BY <1>1, <2>1 DEF Entries
<1> QED BY <1>3, <1>4, <1>5, <1>6

LEMMA ResumeStep ==
  ASSUME TractInv, Resume
  PROVE  SessionInOrder' /\ LiveInOrder' /\ Delivery' /\ Entries'
<1>1. /\ ring' = ring /\ durable' = durable /\ persistence' = persistence
      /\ copied' = copied /\ mode' = mode /\ liveResume' = liveResume
      /\ log' = log /\ consumed' = consumed /\ nextLive' = nextLive
      /\ producer = "Wait" /\ producer' = "Live" /\ mode = "Live"
      /\ durable = Len(ring) /\ persistence = "Idle"
  BY DEF Resume, pipelineVars, persistenceVars
<1>2. /\ Waiting' = Waiting /\ (Handling' <=> Handling) /\ Handled' = Handled
      /\ Waiting = {} /\ ~Handling /\ Handled = Len(log)
  BY <1>1, Lengths DEF Waiting, Handling, Handled
<1>3. SessionInOrder'
  <2>1. ModeAfter(producer') = "Live"
    BY <1>1 DEF ModeAfter
  <2> QED BY <1>1, <1>2, <2>1 DEF SessionInOrder
<1>4. LiveInOrder'
  <2>1. nextLive = Len(log) + 1
    BY <1>1, <1>2 DEF TractInv, LiveInOrder
  <2>2. nextLive' = Handled' + Len(ring') - durable' + 1
    BY <1>1, <1>2, <2>1, Lengths
  <2> QED BY <1>1, <1>2, <2>2 DEF LiveInOrder
<1>5. Delivery'
  <2>1. Delivery
    BY DEF TractInv
  <2> QED BY <1>1, <1>2, <2>1 DEF Delivery
<1>6. Entries'
  <2>1. Entries
    BY DEF TractInv
  <2> QED BY <1>1, <2>1 DEF Entries
<1> QED BY <1>3, <1>4, <1>5, <1>6

-----------------------------------------------------------------------------
(* The persistence role.                                                     *)

LEMMA PersistStep ==
  ASSUME TractInv, Persist
  PROVE  SessionInOrder' /\ LiveInOrder' /\ Delivery' /\ Entries'
<1> DEFINE c == ring[durable + 1]
<1>0. /\ durable \in Nat /\ durable <= Len(ring) /\ Len(ring) \in Nat
      /\ Len(log) \in Nat /\ Len(consumed) \in Nat
      /\ Handled \in Int /\ Handled <= Len(log)
  BY Lengths
<1>1. /\ ring' = ring /\ durable' = durable /\ mode' = mode /\ liveResume' = liveResume
      /\ consumed' = consumed /\ nextLive' = nextLive /\ producer' = producer
      /\ persistence = "Idle" /\ persistence' = "Written" /\ durable < Len(ring)
      /\ copied' = c
      /\ log' = IF mode = "Live" THEN Append(log, Recorded(c)) ELSE log
  BY DEF Persist, PersistenceElse, Records
<1>2. /\ Waiting' = Waiting /\ ~Handling /\ ~Handling' /\ durable + 1 \in Waiting
      /\ Handled = Len(log)
  BY <1>1, <1>0 DEF Waiting, Handling, Handled
<1>3. /\ Labelled(c) /\ durable + 1 \in DOMAIN ring
      /\ IsLive(c) => IsLiveCommand(c) /\ c.seq = Len(log) + 1
  <2>1. durable + 1 \in DOMAIN ring
    BY <1>1, <1>0
  <2>2. IsLive(c) => c.seq = Handled + (durable + 1) - durable
    BY <1>2 DEF TractInv, LiveInOrder
  <2> QED BY <1>2, <2>1, <2>2, <1>0 DEF TractInv, Entries
<1>4. mode = "Live" => IsLive(c)
  <2>1. Expected(mode, Stage(c))
    BY <1>2 DEF TractInv, SessionInOrder
  <2> QED BY <2>1, StageOf DEF Expected
<1>5. /\ mode = "Live" => /\ Len(log') = Len(log) + 1 /\ log'[Len(log) + 1] = Recorded(c)
                          /\ DOMAIN log' = 1 .. Len(log) + 1
      /\ mode # "Live" => log' = log
      /\ \A k \in 1 .. Len(log) : log'[k] = log[k]
  BY <1>1, AppendStream, StreamLength DEF TractInv, Types
<1>6. Handled' = Len(log)
  <2>1. Handled' = IF mode = "Live" THEN Len(log') - 1 ELSE Len(log')
    BY <1>1 DEF Handled
  <2>2. Len(log) \in Nat
    BY <1>0
  <2>3. CASE mode = "Live"
    BY <1>5, <2>1, <2>2, <2>3
  <2>4. CASE mode # "Live"
    BY <1>5, <2>1, <2>4
  <2> QED BY <2>3, <2>4
<1>7. SessionInOrder'
  <2>1. SessionInOrder
    BY DEF TractInv
  <2> QED BY <1>1, <1>2, <2>1 DEF SessionInOrder
<1>8. LiveInOrder'
  <2>1. LiveInOrder
    BY DEF TractInv
  <2>2. mode # "Live" => liveResume = Len(log') + 1
    BY <1>5, <2>1 DEF LiveInOrder
  <2>3. mode = "Live" => IsLive(c) /\ c.seq = Len(log')
    BY <1>3, <1>4, <1>5
  <2>4. producer = "Live" => nextLive = Handled' + Len(ring) - durable + 1
    BY <1>2, <1>6, <2>1 DEF LiveInOrder
  <2>5. \A i \in Waiting : IsLive(ring[i]) => ring[i].seq = Handled' + i - durable
    BY <1>2, <1>6, <2>1 DEF LiveInOrder
  <2> QED BY <1>1, <1>2, <2>1, <2>2, <2>3, <2>4, <2>5 DEF LiveInOrder
<1>9. mode = "Live" => /\ IsEntry(Recorded(c), Len(log) + 1)
                       /\ Decoded(Recorded(c)) = c
  <2>1. SUFFICES ASSUME mode = "Live" PROVE IsEntry(Recorded(c), Len(log) + 1)
                                            /\ Decoded(Recorded(c)) = c
    OBVIOUS
  <2>2. PICK type \in LiveTypes : c = LiveCommand(type, Len(log) + 1)
    BY <1>3, <1>4, <2>1 DEF IsLiveCommand
  <2>3. IsEntry(Recorded(c), Len(log) + 1)
    BY <2>2 DEF IsEntry
  <2> QED BY <2>2, <2>3, EntryDecodes
<1>10. Delivery'
  <2>1. Delivery
    BY DEF TractInv
  <2>2. mode = "Live" => copied' = Decoded(log'[Len(log')])
    BY <1>1, <1>5, <1>9
  <2>3. \A k \in DOMAIN consumed : k \in 1 .. Len(log) /\ log'[k] = log[k]
    BY <1>2, <1>5, <2>1, <1>0 DEF Delivery
  <2>4. \A i \in 1 .. durable : IsLive(ring[i]) =>
          /\ ring[i].seq \in Len(consumed) + 1 .. Handled'
          /\ ring[i] = Decoded(log'[ring[i].seq])
    BY <1>2, <1>5, <1>6, <2>1, <1>0 DEF Delivery
  <2>5. Handled' = Handled
    BY <1>2, <1>6
  <2> QED BY <1>1, <2>1, <2>2, <2>3, <2>4, <2>5 DEF Delivery
<1>11. Entries'
  <2>1. Entries
    BY DEF TractInv
  <2>2. \A k \in DOMAIN log' : IsEntry(log'[k], k)
    <3>1. CASE mode = "Live"
      <4>1. \A k \in 1 .. Len(log) : IsEntry(log[k], k)
        BY <2>1, <1>0 DEF Entries
      <4> QED BY <1>5, <1>9, <3>1, <4>1, <1>0
    <3>2. CASE mode # "Live"
      BY <1>5, <2>1, <3>2 DEF Entries
    <3> QED BY <3>1, <3>2
  <2>3. Labelled(copied')
    BY <1>1, <1>3
  <2> QED BY <1>1, <2>1, <2>2, <2>3 DEF Entries
<1> QED BY <1>7, <1>8, <1>10, <1>11

LEMMA PublishDurableStep ==
  ASSUME TractInv, PublishDurable
  PROVE  SessionInOrder' /\ LiveInOrder' /\ Delivery' /\ Entries'
<1> DEFINE c == ring[durable + 1]
<1>1. /\ ring' = ring /\ durable' = durable + 1 /\ mode' = mode
      /\ liveResume' = liveResume /\ consumed' = consumed /\ nextLive' = nextLive
      /\ producer' = producer /\ copied' = copied /\ log' = log
      /\ persistence = "Written" /\ persistence' = "Published"
  BY DEF PublishDurable, PersistenceElse
<1>0. /\ durable \in Nat /\ durable <= Len(ring) /\ Len(ring) \in Nat
      /\ Len(log) \in Nat /\ Len(consumed) \in Nat
      /\ Handled \in Int /\ Handled <= Len(log)
  BY Lengths
<1>2. /\ ~Handling /\ Handling' /\ Waiting # {} /\ copied = c
      /\ Waiting' = durable + 2 .. Len(ring)
  <2>1. (durable + 1) + 1 = durable + 2
    BY <1>0
  <2>2. Waiting' = durable + 2 .. Len(ring)
    BY <1>1, <2>1 DEF Waiting
  <2> QED BY <1>1, <2>2 DEF Handling, TractInv, SessionInOrder
<1>3. durable < Len(ring) /\ durable + 1 \in Waiting /\ Waiting' \subseteq Waiting
  <2>1. durable < Len(ring)
    BY <1>0, <1>2 DEF Waiting
  <2>2. durable + 1 \in Waiting
    BY <1>0, <2>1 DEF Waiting
  <2>3. Waiting = durable + 1 .. Len(ring)
    BY DEF Waiting
  <2> QED BY <1>0, <1>2, <2>1, <2>2, <2>3
<1>4. /\ Handled = IF mode = "Live" THEN Len(log) - 1 ELSE Len(log)
      /\ Handled' = Len(log)
  BY <1>1 DEF Handled
<1>5. SessionInOrder'
  <2>1. SessionInOrder
    BY DEF TractInv
  <2>2. \A i \in Waiting' \ {Len(ring)} : Follows(Stage(ring[i]), Stage(ring[i + 1]))
    BY <1>3, <2>1 DEF SessionInOrder
  <2>3. Expected(mode, Stage(copied))
    BY <1>2, <2>1 DEF SessionInOrder
  <2>4. Waiting' # {} => Follows(Stage(copied), Stage(ring[durable + 2]))
    <3>1. Waiting' # {} => durable + 1 # Len(ring)
      BY <1>2, <1>0
    <3>2. (durable + 1) + 1 = durable + 2
      BY <1>0
    <3> QED BY <1>2, <1>3, <2>1, <3>1, <3>2 DEF SessionInOrder
  <2>5. Closing(producer, Stage(ring[Len(ring)]))
    BY <1>2, <2>1 DEF SessionInOrder
  <2>6. Waiting' = {} => Closing(producer, Stage(copied))
    <3>1. Waiting' = {} => durable + 1 = Len(ring)
      <4>1. durable + 2 <= Len(ring) => durable + 2 \in Waiting'
        BY <1>2, <1>0
      <4> QED BY <1>3, <4>1, <1>0
    <3> QED BY <1>2, <2>5, <3>1
  <2>7. durable' + 1 = durable + 2
    BY <1>1, <1>0
  <2> QED BY <1>1, <1>2, <2>1, <2>2, <2>3, <2>4, <2>5, <2>6, <2>7 DEF SessionInOrder
<1>6. LiveInOrder'
  <2>1. LiveInOrder
    BY DEF TractInv
  <2>2. \A i, j \in Waiting' : i < j /\ Stage(ring[i]) # 0 => ~IsLive(ring[j])
    BY <1>3, <2>1 DEF LiveInOrder
  <2>3. Stage(copied) # 0 => \A j \in Waiting' : ~IsLive(ring[j])
    <3>1. \A j \in Waiting' : durable + 1 < j /\ j \in Waiting
      BY <1>2, <1>3, <1>0
    <3> QED BY <1>2, <1>3, <2>1, <3>1 DEF LiveInOrder
  <2>4. mode # "Live" => \A j \in Waiting' : ~IsLive(ring[j])
    BY <1>3, <2>1 DEF LiveInOrder
  <2>5. \A i \in Waiting' : IsLive(ring[i]) => ring[i].seq = Len(log) + i - (durable + 1)
    <3>1. SUFFICES ASSUME NEW i \in Waiting', IsLive(ring[i])
                   PROVE  ring[i].seq = Len(log) + i - (durable + 1)
      OBVIOUS
    <3>2. mode = "Live" /\ ring[i].seq = Handled + i - durable /\ i \in Int
      BY <1>2, <1>3, <2>1, <3>1, <1>0 DEF LiveInOrder
    <3>3. Handled = Len(log) - 1
      BY <1>4, <3>2
    <3> QED BY <1>0, <3>2, <3>3
  <2>6. producer = "Live" => /\ mode = "Live"
                             /\ \A i \in Waiting' : Stage(ring[i]) = 0
                             /\ Stage(copied) = 0
                             /\ nextLive = Len(log) + Len(ring) - (durable + 1) + 1
    <3>1. producer = "Live" => /\ mode = "Live"
                               /\ \A i \in Waiting : Stage(ring[i]) = 0
                               /\ nextLive = Handled + Len(ring) - durable + 1
      BY <2>1 DEF LiveInOrder
    <3>2. producer = "Live" => nextLive = Len(log) + Len(ring) - (durable + 1) + 1
      <4>1. producer = "Live" => Handled = Len(log) - 1
        BY <1>4, <3>1
      <4> QED BY <1>0, <3>1, <4>1
    <3> QED BY <1>2, <1>3, <3>1, <3>2
  <2>7. /\ mode # "Live" => liveResume = Len(log) + 1
        /\ mode = "Live" => IsLive(copied) /\ copied.seq = Len(log)
    BY <1>1, <2>1 DEF LiveInOrder
  <2> QED BY <1>1, <1>2, <1>4, <2>2, <2>3, <2>4, <2>5, <2>6, <2>7 DEF LiveInOrder
<1>7. Delivery'
  <2>1. Delivery
    BY DEF TractInv
  <2>2. CASE mode = "Live"
    <3>1. c.seq = Len(log) /\ c = Decoded(log[Len(log)]) /\ IsLive(c)
      BY <1>1, <1>2, <2>1, <2>2 DEF TractInv, LiveInOrder, Delivery
    <3>2. Handled = Len(log) - 1 /\ Len(consumed) <= Len(log) - 1
      BY <1>4, <2>1, <2>2 DEF Delivery
    <3>3. \A i \in 1 .. durable + 1 : IsLive(ring[i]) =>
            /\ ring[i].seq \in Len(consumed) + 1 .. Len(log)
            /\ ring[i] = Decoded(log[ring[i].seq])
      <4>1. \A i \in 1 .. durable : IsLive(ring[i]) =>
              /\ ring[i].seq \in Len(consumed) + 1 .. Len(log)
              /\ ring[i] = Decoded(log[ring[i].seq])
        BY <2>1, <3>2, <1>0 DEF Delivery
      <4>2. Len(log) \in Len(consumed) + 1 .. Len(log)
        BY <1>0, <3>2
      <4>3. \A i \in 1 .. durable + 1 : i \in 1 .. durable \/ i = durable + 1
        BY <1>0
      <4> QED BY <3>1, <4>1, <4>2, <4>3
    <3>4. \A i, j \in 1 .. durable + 1 :
            i < j /\ IsLive(ring[i]) /\ IsLive(ring[j]) => ring[i].seq < ring[j].seq
      <4>1. SUFFICES ASSUME NEW i \in 1 .. durable + 1, NEW j \in 1 .. durable + 1,
                            i < j, IsLive(ring[i]), IsLive(ring[j])
                     PROVE  ring[i].seq < ring[j].seq
        OBVIOUS
      <4>2. i \in 1 .. durable
        BY <4>1, <1>0
      <4>3. ring[i].seq \in Len(consumed) + 1 .. Len(log) - 1
        BY <2>1, <3>2, <4>1, <4>2 DEF Delivery
      <4>4. CASE j = durable + 1
        BY <3>1, <4>3, <4>4, <1>0
      <4>5. CASE j \in 1 .. durable
        BY <2>1, <4>1, <4>2, <4>5 DEF Delivery
      <4> QED BY <4>1, <4>4, <4>5, <1>0
    <3>5. \A k \in Len(consumed) + 1 .. Len(log) :
            \E i \in 1 .. durable + 1 : IsLive(ring[i]) /\ ring[i].seq = k
      <4>1. SUFFICES ASSUME NEW k \in Len(consumed) + 1 .. Len(log)
                     PROVE  \E i \in 1 .. durable + 1 : IsLive(ring[i]) /\ ring[i].seq = k
        OBVIOUS
      <4>2. CASE k = Len(log)
        BY <3>1, <4>2, <1>0
      <4>3. CASE k # Len(log)
        <5>1. k \in Len(consumed) + 1 .. Len(log) - 1
          BY <1>0, <4>1, <4>3
        <5>2. PICK i \in 1 .. durable : IsLive(ring[i]) /\ ring[i].seq = k
          BY <2>1, <3>2, <5>1 DEF Delivery
        <5> QED BY <5>2, <1>0
      <4> QED BY <4>2, <4>3
    <3>6. Len(consumed) <= Len(log)
      BY <3>2, <1>0
    <3> QED BY <1>1, <1>4, <2>1, <3>3, <3>4, <3>5, <3>6 DEF Delivery
  <2>3. CASE mode # "Live"
    <3>1. ~IsLive(c) /\ Handled' = Handled
      BY <1>3, <1>4, <2>3 DEF TractInv, LiveInOrder
    <3>2. \A i \in 1 .. durable + 1 : IsLive(ring[i]) => i \in 1 .. durable
      BY <3>1, <1>0
    <3>3. 1 .. durable \subseteq 1 .. durable + 1
      BY <1>0
    <3>4. \A k \in Len(consumed) + 1 .. Handled :
            \E i \in 1 .. durable + 1 : IsLive(ring[i]) /\ ring[i].seq = k
      BY <2>1, <3>3 DEF Delivery
    <3> QED BY <1>1, <2>1, <2>3, <3>1, <3>2, <3>4 DEF Delivery
  <2> QED BY <2>2, <2>3
<1>8. Entries'
  BY <1>1 DEF TractInv, Entries
<1> QED BY <1>5, <1>6, <1>7, <1>8

\* The mode after a command of a session.
NextMode(m, s) == IF m = "Live" /\ s = 1 THEN "Replay"
                  ELSE IF m = "Replay" /\ s = 4 THEN "Restoring"
                  ELSE IF m = "Restoring" /\ s = 5 THEN "Live" ELSE m

\* What on_durable makes of the command: it never meets one out of order.
LEMMA Transition ==
  ASSUME TractInv, OnDurable
  PROVE  /\ persistence' = "Idle" /\ mode' = NextMode(mode, Stage(copied))
         /\ Expected(mode, Stage(copied))
         /\ liveResume' = IF mode = "Live" /\ mode' = "Replay" THEN copied.seq + 1
                          ELSE liveResume
         /\ nextLive' = IF mode = "Restoring" THEN liveResume ELSE nextLive
<1>1. /\ persistence = "Published" /\ Expected(mode, Stage(copied))
      /\ mode \in {"Live", "Replay", "Restoring"}
  BY DEF OnDurable, Handling, TractInv, SessionInOrder, Types, TypeOK
<1>2. /\ mode = "Live" => (TypeOfCommand(copied) = "StartReplay" <=> Stage(copied) = 1)
      /\ mode = "Replay" => (TypeOfCommand(copied) = "StopReplay" <=> Stage(copied) = 4)
      /\ mode = "Restoring" => /\ TypeOfCommand(copied) = "LoadSnapshot"
                               /\ Stage(copied) = 5
  <2>1. Labelled(copied) /\ copied.by \in {"Live", "Load", "Source", "Stop", "Restore"}
    BY DEF TractInv, Entries, Types, TypeOK, IsCommand
  <2> QED BY <1>1, <2>1 DEF Labelled, Stage, Expected
<1>3. CASE StartsReplay
  BY <1>1, <1>2, <1>3 DEF StartsReplay, NextMode
<1>4. CASE StopsReplay
  BY <1>1, <1>2, <1>4 DEF StopsReplay, NextMode
<1>5. CASE RestoresLive
  BY <1>1, <1>2, <1>5 DEF RestoresLive, NextMode
<1>6. CASE Refuses
  BY <1>1, <1>2, <1>6 DEF Refuses
<1>7. CASE Passes
  BY <1>1, <1>2, <1>7 DEF Passes, NextMode
<1> QED BY <1>3, <1>4, <1>5, <1>6, <1>7 DEF OnDurable

LEMMA OnDurableStep ==
  ASSUME TractInv, OnDurable
  PROVE  SessionInOrder' /\ LiveInOrder' /\ Delivery' /\ Entries'
<1>1. /\ ring' = ring /\ durable' = durable /\ consumed' = consumed
      /\ producer' = producer /\ copied' = copied /\ log' = log
      /\ persistence = "Published" /\ persistence' = "Idle"
      /\ mode \in {"Live", "Replay", "Restoring"}
  BY Transition DEF OnDurable, PersistenceElse, TractInv, Types, TypeOK
<1>2. /\ Waiting' = Waiting /\ Handling /\ ~Handling'
      /\ Handled = Len(log) /\ Handled' = Len(log)
  BY <1>1 DEF Waiting, Handling, Handled
<1>3. /\ mode' = NextMode(mode, Stage(copied)) /\ Expected(mode, Stage(copied))
      /\ Stage(copied) \in 0 .. 5
  BY Transition, StageOf
<1>4. SessionInOrder'
  <2>1. SessionInOrder
    BY DEF TractInv
  <2>2. Waiting # {} => Expected(mode', Stage(ring[durable + 1]))
    <3>1. Waiting # {} => Follows(Stage(copied), Stage(ring[durable + 1]))
      BY <1>2, <2>1 DEF SessionInOrder
    <3>2. Stage(ring[durable + 1]) \in 0 .. 5
      BY StageOf
    <3> QED BY <1>1, <1>3, <3>1, <3>2 DEF Expected, Follows, NextMode
  <2>3. Waiting = {} => mode' = ModeAfter(producer)
    <3>1. Waiting = {} => Closing(producer, Stage(copied))
      BY <1>2, <2>1 DEF SessionInOrder
    <3>2. producer \in {"Live", "Load", "Open", "Replay", "Restore", "Wait"}
      BY <2>1 DEF TractInv, Types, TypeOK, SessionInOrder
    <3> QED BY <1>1, <1>3, <3>1, <3>2 DEF Expected, Closing, NextMode, ModeAfter
  <2> QED BY <1>1, <1>2, <2>1, <2>2, <2>3 DEF SessionInOrder
<1>5. LiveInOrder'
  <2>1. LiveInOrder
    BY DEF TractInv
  <2>2. mode' # "Live" => \A j \in Waiting : ~IsLive(ring[j])
    <3>1. mode' # "Live" => mode # "Live" \/ Stage(copied) # 0
      BY <1>1, <1>3 DEF NextMode
    <3> QED BY <1>2, <2>1, <3>1 DEF LiveInOrder
  <2>3. producer = "Live" => mode' = "Live" /\ nextLive' = nextLive
    <3>1. producer = "Live" => mode = "Live" /\ Stage(copied) = 0
      BY <1>2, <2>1 DEF LiveInOrder
    <3> QED BY <1>3, <3>1, Transition DEF NextMode
  <2>4. mode' # "Live" => liveResume' = Len(log) + 1
    <3>1. mode = "Live" => copied.seq = Len(log)
      BY <1>1, <2>1 DEF LiveInOrder
    <3>2. mode # "Live" => liveResume = Len(log) + 1
      BY <2>1 DEF LiveInOrder
    <3>3. mode = "Live" /\ mode' # "Live" => mode' = "Replay"
      BY <1>3 DEF NextMode
    <3> QED BY <3>1, <3>2, <3>3, Transition
  <2>5. producer = "Wait" /\ mode' = "Live" /\ Waiting = {} => nextLive' = Len(log) + 1
    <3>1. SUFFICES ASSUME producer = "Wait", Waiting = {}
                   PROVE  nextLive' = Len(log) + 1
      OBVIOUS
    <3>2. Closing(producer, Stage(copied))
      BY <1>2, <3>1 DEF TractInv, SessionInOrder
    <3>3. mode = "Restoring"
      BY <1>1, <1>3, <3>1, <3>2 DEF Closing, Expected
    <3> QED BY <2>1, <3>3, Transition DEF LiveInOrder
  <2> QED BY <1>1, <1>2, <2>1, <2>2, <2>3, <2>4, <2>5 DEF LiveInOrder
<1>6. Delivery'
  BY <1>1, <1>2 DEF TractInv, Delivery
<1>7. Entries'
  BY <1>1 DEF TractInv, Entries
<1> QED BY <1>4, <1>5, <1>6, <1>7

-----------------------------------------------------------------------------
(* The matcher.                                                              *)

LEMMA ConsumeStep ==
  ASSUME TractInv, Consume
  PROVE  SessionInOrder' /\ LiveInOrder' /\ Delivery' /\ Entries'
<1>0. durable \in Nat /\ Len(ring) \in Nat /\ Len(log) \in Nat /\ Len(consumed) \in Nat
  BY Lengths
<1>1. /\ ring' = Tail(ring) /\ durable' = durable - 1 /\ durable > 0
      /\ consumed' = IF IsLive(ring[1]) THEN Append(consumed, ring[1]) ELSE consumed
      /\ persistence' = persistence /\ copied' = copied /\ mode' = mode
      /\ liveResume' = liveResume /\ log' = log
      /\ producer' = producer /\ nextLive' = nextLive
  BY Lengths, TailStream DEF Consume, persistenceVars, TractInv, Types
<1>2. /\ Len(ring') = Len(ring) - 1 /\ DOMAIN ring' = 1 .. Len(ring) - 1
      /\ \A i \in 1 .. Len(ring) - 1 : ring'[i] = ring[i + 1]
  <2>1. IsStream(ring) /\ Len(ring) > 0
    BY <1>0, <1>1, Lengths DEF TractInv, Types
  <2> QED BY <1>1, <2>1, TailStream, StreamLength
<1>3. /\ Waiting' = durable .. Len(ring) - 1 /\ (Handling' <=> Handling)
      /\ Handled' = Handled
  <2>1. (durable - 1) + 1 = durable
    BY <1>0
  <2> QED BY <1>1, <1>2, <2>1 DEF Waiting, Handling, Handled
<1>4. \A i \in Waiting' : /\ i \in Nat /\ i + 1 \in Waiting /\ ring'[i] = ring[i + 1]
                          /\ i \in DOMAIN ring'
  BY <1>0, <1>1, <1>2, <1>3 DEF Waiting
<1>5. Waiting = {} <=> Waiting' = {}
  <2>1. durable < Len(ring) => durable \in Waiting'
    BY <1>0, <1>3
  <2>2. ~(durable < Len(ring)) => Waiting = {}
    BY <1>0 DEF Waiting
  <2> QED BY <1>4, <2>1, <2>2
<1>6. Waiting # {} => /\ ring'[durable] = ring[durable + 1]
                      /\ ring'[Len(ring')] = ring[Len(ring)]
  <2>1. Waiting # {} => durable < Len(ring)
    BY <1>0 DEF Waiting
  <2>2. Waiting # {} => /\ durable \in 1 .. Len(ring) - 1
                        /\ Len(ring) - 1 \in 1 .. Len(ring) - 1
                        /\ (Len(ring) - 1) + 1 = Len(ring)
    BY <1>0, <1>1, <2>1
  <2> QED BY <1>2, <2>2
<1>7. SessionInOrder'
  <2>1. SessionInOrder
    BY DEF TractInv
  <2>2. \A i \in Waiting' \ {Len(ring')} : Follows(Stage(ring'[i]), Stage(ring'[i + 1]))
    <3>1. SUFFICES ASSUME NEW i \in Waiting' \ {Len(ring')}
                   PROVE  Follows(Stage(ring'[i]), Stage(ring'[i + 1]))
      OBVIOUS
    <3>2. /\ i \in durable .. Len(ring) - 1 /\ i # Len(ring) - 1
          /\ i + 1 \in Waiting
      BY <1>2, <1>3, <1>4
    <3>3. i + 1 \in durable .. Len(ring) - 1 /\ i + 1 # Len(ring)
      BY <1>0, <3>2
    <3> QED BY <1>3, <1>4, <2>1, <3>2, <3>3 DEF SessionInOrder
  <2>3. (durable - 1) + 1 = durable
    BY <1>0
  <2> QED BY <1>1, <1>3, <1>5, <1>6, <2>1, <2>2, <2>3 DEF SessionInOrder
<1>8. LiveInOrder'
  <2>1. LiveInOrder
    BY DEF TractInv
  <2>2. \A i, j \in Waiting' : i < j /\ Stage(ring'[i]) # 0 => ~IsLive(ring'[j])
    <3>1. \A i, j \in Waiting' : i < j => i + 1 < j + 1
      BY <1>4
    <3> QED BY <1>4, <2>1, <3>1 DEF LiveInOrder
  <2>3. /\ Handling /\ Stage(copied) # 0 => \A j \in Waiting' : ~IsLive(ring'[j])
        /\ mode # "Live" => \A j \in Waiting' : ~IsLive(ring'[j])
    BY <1>4, <2>1 DEF LiveInOrder
  <2>4. \A i \in Waiting' : IsLive(ring'[i]) =>
          ring'[i].seq = Handled + i - (durable - 1)
    <3>1. SUFFICES ASSUME NEW i \in Waiting', IsLive(ring'[i])
                   PROVE  ring'[i].seq = Handled + i - (durable - 1)
      OBVIOUS
    <3>2. ring'[i].seq = Handled + (i + 1) - durable
      BY <1>4, <2>1, <3>1 DEF LiveInOrder
    <3>3. i \in Nat /\ Handled \in Int
      BY <1>4, Lengths
    <3> QED BY <1>0, <3>2, <3>3
  <2>5. producer = "Live" => /\ mode = "Live"
                             /\ \A i \in Waiting' : Stage(ring'[i]) = 0
                             /\ Handling => Stage(copied) = 0
                             /\ nextLive = Handled + Len(ring') - (durable - 1) + 1
    <3>1. producer = "Live" => nextLive = Handled + Len(ring) - durable + 1
      BY <2>1 DEF LiveInOrder
    <3>2. Handled \in Int
      BY Lengths
    <3>3. producer = "Live" => nextLive = Handled + Len(ring') - (durable - 1) + 1
      BY <1>0, <1>2, <3>1, <3>2
    <3> QED BY <1>4, <2>1, <3>3 DEF LiveInOrder
  <2> QED BY <1>1, <1>3, <1>5, <2>1, <2>2, <2>3, <2>4, <2>5 DEF LiveInOrder
<1>9. Delivery'
  <2>1. Delivery
    BY DEF TractInv
  <2>2. \A i \in 1 .. durable - 1 : i \in Nat /\ i + 1 \in 1 .. durable
                                    /\ ring'[i] = ring[i + 1]
    BY <1>0, <1>1, <1>2, Lengths
  <2>3. 1 \in 1 .. durable
    BY <1>0, <1>1
  <2>4. \A i, j \in 1 .. durable - 1 :
          i < j /\ IsLive(ring'[i]) /\ IsLive(ring'[j]) => ring'[i].seq < ring'[j].seq
    <3>1. \A i, j \in 1 .. durable - 1 : i < j => i + 1 < j + 1
      BY <2>2
    <3> QED BY <2>1, <2>2, <3>1 DEF Delivery
  <2>5. CASE ~IsLive(ring[1])
    <3>1. consumed' = consumed
      BY <1>1, <2>5
    <3>2. \A k \in Len(consumed) + 1 .. Handled :
            \E i \in 1 .. durable - 1 : IsLive(ring'[i]) /\ ring'[i].seq = k
      <4>1. SUFFICES ASSUME NEW k \in Len(consumed) + 1 .. Handled
                     PROVE  \E i \in 1 .. durable - 1 : IsLive(ring'[i]) /\ ring'[i].seq = k
        OBVIOUS
      <4>2. PICK i \in 1 .. durable : IsLive(ring[i]) /\ ring[i].seq = k
        BY <2>1 DEF Delivery
      <4>3. i # 1
        BY <2>5, <4>2
      <4>4. i - 1 \in 1 .. durable - 1 /\ (i - 1) + 1 = i
        BY <1>0, <4>3
      <4> QED BY <2>2, <4>2, <4>4
    <3>3. \A i \in 1 .. durable - 1 : IsLive(ring'[i]) =>
            /\ ring'[i].seq \in Len(consumed) + 1 .. Handled
            /\ ring'[i] = Decoded(log[ring'[i].seq])
      BY <2>1, <2>2 DEF Delivery
    <3> QED BY <1>1, <1>3, <2>1, <2>4, <3>1, <3>2, <3>3 DEF Delivery
  <2>6. CASE IsLive(ring[1])
    <3> DEFINE n == Len(consumed) + 1
    <3>1. /\ consumed' = Append(consumed, ring[1]) /\ IsStream(consumed)
      BY <1>1, <2>6 DEF TractInv, Types
    <3>2. /\ Len(consumed') = n /\ consumed'[n] = ring[1] /\ DOMAIN consumed' = 1 .. n
          /\ \A k \in 1 .. Len(consumed) : consumed'[k] = consumed[k]
      BY <3>1, AppendStream, StreamLength
    <3>3. /\ ring[1].seq \in n .. Handled /\ ring[1] = Decoded(log[ring[1].seq])
          /\ Handled \in Int
      BY <2>1, <2>3, <2>6, Lengths DEF Delivery
    <3>4. ring[1].seq = n
      <4>1. n \in n .. Handled
        BY <1>0, <3>3
      <4>2. PICK i \in 1 .. durable : IsLive(ring[i]) /\ ring[i].seq = n
        BY <2>1, <4>1 DEF Delivery
      <4>3. CASE i = 1
        BY <4>2, <4>3
      <4>4. CASE i # 1
        <5>1. 1 < i
          BY <1>0, <4>4
        <5>2. ring[1].seq < n
          BY <2>1, <2>3, <2>6, <4>2, <5>1 DEF Delivery
        <5> QED BY <1>0, <3>3, <5>2
      <4> QED BY <4>3, <4>4
    <3>5. \A i \in 1 .. durable - 1 : IsLive(ring'[i]) =>
            /\ ring'[i].seq \in n + 1 .. Handled
            /\ ring'[i] = Decoded(log[ring'[i].seq])
      <4>1. SUFFICES ASSUME NEW i \in 1 .. durable - 1, IsLive(ring'[i])
                     PROVE  /\ ring'[i].seq \in n + 1 .. Handled
                            /\ ring'[i] = Decoded(log[ring'[i].seq])
        OBVIOUS
      <4>2. /\ ring'[i] = ring[i + 1] /\ i + 1 \in 1 .. durable /\ 1 < i + 1
        BY <2>2
      <4>3. ring[i + 1].seq > n
        BY <2>1, <2>3, <2>6, <3>4, <4>1, <4>2 DEF Delivery
      <4>4. /\ ring[i + 1].seq \in n .. Handled
            /\ ring[i + 1] = Decoded(log[ring[i + 1].seq])
        BY <2>1, <4>1, <4>2 DEF Delivery
      <4> QED BY <1>0, <3>3, <4>2, <4>3, <4>4
    <3>6. \A k \in n + 1 .. Handled :
            \E i \in 1 .. durable - 1 : IsLive(ring'[i]) /\ ring'[i].seq = k
      <4>1. SUFFICES ASSUME NEW k \in n + 1 .. Handled
                     PROVE  \E i \in 1 .. durable - 1 : IsLive(ring'[i]) /\ ring'[i].seq = k
        OBVIOUS
      <4>2. k \in n .. Handled /\ k # n
        BY <1>0, <3>3
      <4>3. PICK i \in 1 .. durable : IsLive(ring[i]) /\ ring[i].seq = k
        BY <2>1, <4>2 DEF Delivery
      <4>4. i # 1
        BY <3>4, <4>2, <4>3
      <4>5. i - 1 \in 1 .. durable - 1 /\ (i - 1) + 1 = i
        BY <1>0, <4>4
      <4> QED BY <2>2, <4>3, <4>5
    <3>7. \A k \in 1 .. n : consumed'[k] = Decoded(log[k])
      <4>1. \A k \in 1 .. Len(consumed) : consumed[k] = Decoded(log[k])
        BY <2>1, Lengths DEF Delivery
      <4>2. consumed'[n] = Decoded(log[n])
        BY <3>2, <3>3, <3>4
      <4>3. \A k \in 1 .. n : k = n \/ k \in 1 .. Len(consumed)
        BY <1>0
      <4> QED BY <3>2, <4>1, <4>2, <4>3
    <3>8. n <= Handled
      BY <1>0, <3>3
    <3> HIDE DEF n
    <3> QED BY <1>1, <1>3, <2>1, <2>4, <3>2, <3>5, <3>6, <3>7, <3>8 DEF Delivery
  <2> QED BY <2>5, <2>6
<1>10. Entries'
  <2>1. Entries
    BY DEF TractInv
  <2>2. \A i \in DOMAIN ring' : i + 1 \in DOMAIN ring /\ ring'[i] = ring[i + 1]
    BY <1>0, <1>2, Lengths
  <2> QED BY <1>1, <2>1, <2>2 DEF Entries
<1> QED BY <1>7, <1>8, <1>9, <1>10

-----------------------------------------------------------------------------
(* Types.                                                                    *)

LEMMA PublishTypes ==
  ASSUME Types, NEW c, IsCommand(c), ring' = Append(ring, c), ~Full,
         UNCHANGED <<durable, failed, persistenceVars, consumed>>
  PROVE  /\ \A k \in DOMAIN ring' : IsCommand(ring'[k])
         /\ Len(ring') <= Capacity /\ durable' \in 0 .. Len(ring') /\ IsStream(ring')
<1>1. /\ Len(ring') = Len(ring) + 1 /\ ring'[Len(ring) + 1] = c
      /\ \A k \in 1 .. Len(ring) : ring'[k] = ring[k]
      /\ IsStream(ring') /\ DOMAIN ring' = 1 .. Len(ring) + 1
  BY AppendStream, StreamLength DEF Types
<1>2. /\ \A k \in 1 .. Len(ring) : IsCommand(ring[k])
      /\ Len(ring) <= Capacity /\ durable \in 0 .. Len(ring) /\ Capacity \in Nat
      /\ Len(ring) # Capacity /\ Len(ring) \in Nat /\ durable' = durable
  BY TypedLengths, ReplayAssumption DEF Types, TypeOK, Full
<1>3. Len(ring') <= Capacity /\ durable' \in 0 .. Len(ring')
  BY <1>1, <1>2
<1>4. \A k \in DOMAIN ring' : IsCommand(ring'[k])
  <2>1. \A k \in DOMAIN ring' : k = Len(ring) + 1 \/ k \in 1 .. Len(ring)
    BY <1>1, <1>2
  <2> QED BY <1>1, <1>2, <2>1
<1> QED BY <1>1, <1>3, <1>4

LEMMA TypesOfTheProducer ==
  ASSUME TractInv, NEW type \in LiveMessages \cup {"StopReplay"}, NEW by,
         by \in {"Live", "Load", "Stop", "Restore"},
         TryPublish(type, by), UNCHANGED sourceVars,
         producer' \in {"Live", "Load", "Open", "Replay", "Restore", "Wait"}
  PROVE  Types'
<1> DEFINE c == Command(nextLive, LivePayload(type, nextLive), by)
<1>1. /\ ring' = Append(ring, c) /\ nextLive' = nextLive + 1 /\ ~Full
      /\ UNCHANGED <<durable, failed, persistenceVars, consumed>>
  BY DEF TryPublish, LivePayload
<1>2. IsCommand(c)
  <2>1. nextLive \in Nat
    BY DEF TractInv, Types, TypeOK
  <2> QED BY <2>1, ProducedCommand DEF IsCommand
<1> HIDE DEF c
<1>3. /\ \A k \in DOMAIN ring' : IsCommand(ring'[k])
      /\ Len(ring') <= Capacity /\ durable' \in 0 .. Len(ring') /\ IsStream(ring')
  BY <1>1, <1>2, PublishTypes DEF TractInv
<1>4. Types
  BY DEF TractInv
<1>5. nextLive' \in Nat \ {0}
  BY <1>1, <1>4 DEF Types, TypeOK
<1> QED BY <1>1, <1>3, <1>4, <1>5 DEF Types, TypeOK, persistenceVars, sourceVars

LEMMA TypesOfTheSession ==
  ASSUME TractInv, Resume \/ \E first, last \in Nat \ {0} :
                      \E foreign : OpenSource(first, last, foreign)
  PROVE  Types'
<1>1. Types
  BY DEF TractInv
<1>2. UNCHANGED <<ring, durable, nextLive, failed, persistence, copied, mode,
                  liveResume, log, consumed>>
  BY DEF Resume, OpenSource, pipelineVars, persistenceVars
<1>3. /\ producer' \in {"Live", "Replay"} /\ pending' = <<>> /\ sent' = <<>>
      /\ source' \in [first : Nat \ {0}, next : Nat, last : Nat, complete : BOOLEAN,
                      foreign : {source'.foreign}, failed : BOOLEAN]
  <2>1. CASE Resume
    BY <2>1 DEF Resume, NoSource
  <2>2. ASSUME NEW first \in Nat \ {0}, NEW last \in Nat \ {0}, NEW foreign,
               OpenSource(first, last, foreign)
        PROVE  /\ producer' \in {"Live", "Replay"} /\ pending' = <<>> /\ sent' = <<>>
               /\ source' \in [first : Nat \ {0}, next : Nat, last : Nat,
                               complete : BOOLEAN, foreign : {source'.foreign},
                               failed : BOOLEAN]
    BY <2>2 DEF OpenSource, Source
  <2> QED BY <2>1, <2>2
<1>4. IsStream(sent') /\ Len(pending') <= 1
  <2>1. sent' \in Seq({})
    BY <1>3
  <2> QED BY <1>3, <2>1 DEF IsStream
<1>5. source'.next \in Nat /\ source'.complete \in BOOLEAN /\ source'.failed \in BOOLEAN
  BY <1>3
<1> QED BY <1>1, <1>2, <1>3, <1>4, <1>5 DEF Types, TypeOK

LEMMA TypesOfTheSource ==
  ASSUME Reading, SourcePublishes
  PROVE  Types'
<1>1. Types
  BY DEF Reading
<1>2. UNCHANGED <<durable, nextLive, failed, producer, persistence, copied, mode,
                  liveResume, log, consumed>>
  BY DEF SourcePublishes, persistenceVars
<1>3. pending # <<>> \/ Decodes(source.next) => IsCommand(Offered) /\ Offered.seq \in Nat
  BY OfferedIsRead, OfferedCommand DEF IsCommand
<1>4. NextRead \in Nat
  BY <1>1 DEF Types, NextRead
<1>5. CASE DecodeFails /\ ~(pending # <<>> \/ Decodes(source.next))
  <2>1. /\ source' \in [first : Nat \ {0}, next : Nat, last : Nat, complete : BOOLEAN,
                        foreign : {source'.foreign}, failed : BOOLEAN]
    BY <1>1, <1>4, <1>5 DEF DecodeFails, Types
  <2>2. source'.next \in Nat /\ source'.complete \in BOOLEAN /\ source'.failed \in BOOLEAN
    BY <2>1
  <2> QED BY <1>1, <1>2, <1>5, <2>1, <2>2 DEF DecodeFails, Types, TypeOK
<1>6. CASE Backpressure /\ (pending # <<>> \/ Decodes(source.next))
  <2>1. /\ source' \in [first : Nat \ {0}, next : Nat, last : Nat, complete : BOOLEAN,
                        foreign : {source'.foreign}, failed : BOOLEAN]
    BY <1>1, <1>4, <1>6 DEF Backpressure, Types
  <2>2. source'.next \in Nat /\ source'.complete \in BOOLEAN /\ source'.failed \in BOOLEAN
    BY <2>1
  <2>3. pending' = <<pending'[1]>> /\ Len(pending') <= 1
    BY <1>6 DEF Backpressure
  <2> QED BY <1>1, <1>2, <1>6, <2>1, <2>2, <2>3 DEF Backpressure, Types, TypeOK
<1>7. CASE Published /\ (pending # <<>> \/ Decodes(source.next))
  <2>1. /\ source' \in [first : Nat \ {0}, next : Nat, last : Nat, complete : BOOLEAN,
                        foreign : {source'.foreign}, failed : BOOLEAN]
    BY <1>1, <1>4, <1>7 DEF Published, Types
  <2>2. source'.next \in Nat /\ source'.complete \in BOOLEAN /\ source'.failed \in BOOLEAN
    BY <2>1
  <2>3. pending' = <<>> /\ Len(pending') <= 1 /\ IsStream(sent')
    BY <1>1, <1>7, AppendStream DEF Published, Types
  <2>4. PICK c : c = Offered
    OBVIOUS
  <2>5. /\ IsCommand(c) /\ ring' = Append(ring, c) /\ ~Full
        /\ UNCHANGED <<durable, failed, persistenceVars, consumed>>
    BY <1>3, <1>7, <2>4 DEF Published, SourcePublishes
  <2>6. /\ \A k \in DOMAIN ring' : IsCommand(ring'[k])
        /\ Len(ring') <= Capacity /\ durable' \in 0 .. Len(ring') /\ IsStream(ring')
    BY <1>1, <2>5, PublishTypes
  <2> QED BY <1>1, <1>2, <2>1, <2>2, <2>3, <2>6 DEF Types, TypeOK
<1> QED BY <1>5, <1>6, <1>7 DEF SourcePublishes

LEMMA TypesOfPersistence ==
  ASSUME TractInv, Persistence
  PROVE  Types'
<1>1. Types
  BY DEF TractInv
<1>2. CASE Persist
  <2>1. /\ copied' = ring[durable + 1] /\ durable + 1 \in DOMAIN ring
        /\ persistence' = "Written"
        /\ UNCHANGED <<durable, nextLive, failed, mode, liveResume, ring, producer,
                       source, pending, sent, consumed>>
    BY <1>2, Lengths DEF Persist, PersistenceElse, sourceVars
  <2>2. IsCommand(copied')
    BY <1>1, <2>1 DEF Types, TypeOK
  <2>3. IsStream(log')
    BY <1>1, <1>2, AppendStream DEF Persist, Types
  <2> QED BY <1>1, <2>1, <2>2, <2>3 DEF Types, TypeOK
<1>3. CASE PersistFails
  <2>1. /\ failed' = TRUE
        /\ UNCHANGED <<durable, nextLive, persistence, copied, mode, liveResume, log,
                       ring, producer, source, pending, sent, consumed>>
    BY <1>3 DEF PersistFails, PersistenceElse, sourceVars, persistenceVars
  <2> QED BY <1>1, <2>1 DEF Types, TypeOK
<1>4. CASE PublishDurable
  <2>1. /\ durable' = durable + 1 /\ persistence = "Written"
        /\ persistence' = "Published"
        /\ UNCHANGED <<failed, nextLive, copied, mode, liveResume, log,
                       ring, producer, source, pending, sent, consumed>>
    BY <1>4 DEF PublishDurable, PersistenceElse, sourceVars
  <2>2. durable < Len(ring)
    BY <2>1, Lengths DEF TractInv, SessionInOrder, Waiting
  <2>3. durable' \in 0 .. Len(ring')
    BY <2>1, <2>2, Lengths
  <2> QED BY <1>1, <2>1, <2>3 DEF Types, TypeOK
<1>5. CASE OnDurable
  <2>1. UNCHANGED <<failed, durable, copied, log, ring, producer, source, pending, sent,
                    consumed>>
    BY <1>5 DEF OnDurable, PersistenceElse, sourceVars
  <2>2. /\ persistence' = "Idle" /\ mode' \in {"Live", "Replay", "Restoring"}
    BY <1>1, <1>5, Transition DEF NextMode, Types, TypeOK
  <2>3. liveResume' \in Nat
    BY <1>1, <1>5, Transition DEF Types, TypeOK, IsCommand
  <2>4. nextLive' \in Nat \ {0}
    <3>1. mode = "Restoring" => liveResume = Len(log) + 1
      BY DEF TractInv, LiveInOrder
    <3> QED BY <1>1, <1>5, <3>1, Transition, Lengths DEF Types, TypeOK
  <2> QED BY <1>1, <2>1, <2>2, <2>3, <2>4 DEF Types, TypeOK
<1> QED BY <1>2, <1>3, <1>4, <1>5 DEF Persistence

LEMMA TypesOfConsume ==
  ASSUME TractInv, Consume
  PROVE  Types'
<1>1. Types
  BY DEF TractInv
<1>2. /\ ring' = Tail(ring) /\ durable' = durable - 1 /\ durable > 0
      /\ consumed' = IF IsLive(Head(ring)) THEN Append(consumed, Head(ring)) ELSE consumed
      /\ UNCHANGED <<nextLive, failed, producer, source, pending, sent, persistence,
                     copied, mode, liveResume, log>>
  BY DEF Consume, sourceVars, persistenceVars
<1>3. /\ Len(ring') = Len(ring) - 1 /\ DOMAIN ring' = 1 .. Len(ring) - 1
      /\ \A k \in 1 .. Len(ring) - 1 : ring'[k] = ring[k + 1]
      /\ IsStream(ring')
  <2>1. IsStream(ring) /\ Len(ring) > 0
    BY <1>1, <1>2, Lengths DEF Types
  <2> QED BY <1>2, <2>1, TailStream, StreamLength
<1>4. \A k \in DOMAIN ring' : IsCommand(ring'[k])
  <2>1. \A k \in 1 .. Len(ring) : IsCommand(ring[k])
    BY <1>1, TypedLengths DEF Types, TypeOK
  <2>2. Len(ring) \in Nat
    BY Lengths
  <2>3. \A k \in 1 .. Len(ring) - 1 : k + 1 \in 1 .. Len(ring)
    BY <2>2
  <2> QED BY <1>3, <2>1, <2>3
<1>5. IsStream(consumed')
  BY <1>1, <1>2, AppendStream DEF Types
<1>6. durable' \in 0 .. Len(ring') /\ Len(ring') <= Capacity
  <2>1. /\ durable \in Nat /\ durable <= Len(ring) /\ Len(ring) \in Nat
        /\ Len(ring) <= Capacity /\ Capacity \in Nat
    BY <1>1, Lengths, ReplayAssumption DEF Types, TypeOK
  <2> QED BY <1>2, <1>3, <2>1
<1> QED BY <1>1, <1>2, <1>3, <1>4, <1>5, <1>6 DEF Types, TypeOK

-----------------------------------------------------------------------------
(* The source.                                                               *)

\* What has been read stays what it is when the Command WAL grows.
LEMMA ReadStays ==
  ASSUME NEW c, ReadFrom(c), source'.foreign = source.foreign,
         DOMAIN log \subseteq DOMAIN log', \A k \in DOMAIN log : log'[k] = log[k]
  PROVE  ReadFrom(c)'
<1>1. c.seq \in DOMAIN log
  BY DEF ReadFrom
<1>2. RecordAt(c.seq)' = RecordAt(c.seq)
  BY <1>1 DEF RecordAt
<1> QED BY <1>1, <1>2 DEF ReadFrom, Decodes

LEMMA SourceKept ==
  ASSUME IInv, UNCHANGED sourceVars,
         DOMAIN log \subseteq DOMAIN log', \A k \in DOMAIN log : log'[k] = log[k]
  PROVE  SourceInOrder'
<1>1. source' = source /\ pending' = pending /\ sent' = sent
  BY DEF sourceVars
<1>2. \A c : ReadFrom(c) => ReadFrom(c)'
  BY <1>1, ReadStays
<1>3. SourceInOrder
  BY DEF IInv
<1> QED BY <1>1, <1>2, <1>3 DEF SourceInOrder

LEMMA ForeignElements ==
  ASSUME NEW first, NEW last, NEW foreign \in ForeignAmong(first, last)
  PROVE  \A k \in DOMAIN foreign : foreign[k] \in ForeignRecords
<1>1. CASE foreign = <<>>
  <2>1. DOMAIN foreign = {}
    BY <1>1
  <2> QED BY <2>1
<1>2. CASE foreign # <<>>
  <2>1. PICK k \in first .. last : foreign \in [{k} -> ForeignRecords]
    BY <1>2 DEF ForeignAmong
  <2> QED BY <2>1
<1> QED BY <1>1, <1>2

LEMMA OpenedSource ==
  ASSUME IInv,
         \/ Resume
         \/ \E last \in 1 .. MaxCommands : \E first \in 1 .. last :
              \E foreign \in ForeignAmong(first, last) : OpenSource(first, last, foreign)
  PROVE  SourceInOrder'
<1>1. /\ pending' = <<>> /\ sent' = <<>> /\ source'.next = source'.first
      /\ source'.first \in Nat /\ source'.failed = FALSE
      /\ \A k \in DOMAIN source'.foreign : source'.foreign[k] \in ForeignRecords
  <2>1. CASE Resume
    BY <2>1 DEF Resume, NoSource
  <2>2. ASSUME NEW last \in 1 .. MaxCommands, NEW first \in 1 .. last,
               NEW foreign \in ForeignAmong(first, last), OpenSource(first, last, foreign)
        PROVE  /\ pending' = <<>> /\ sent' = <<>> /\ source'.next = source'.first
               /\ source'.first \in Nat /\ source'.failed = FALSE
               /\ \A k \in DOMAIN source'.foreign : source'.foreign[k] \in ForeignRecords
    <3>1. \A k \in DOMAIN foreign : foreign[k] \in ForeignRecords
      BY ForeignElements
    <3>2. /\ pending' = <<>> /\ sent' = <<>> /\ source' = Source(first, last, foreign)
      BY <2>2 DEF OpenSource
    <3> QED BY <3>1, <3>2 DEF Source
  <2> QED BY <2>1, <2>2
<1>2. Len(sent') = 0 /\ DOMAIN sent' = {}
  BY <1>1
<1> QED BY <1>1, <1>2 DEF SourceInOrder

LEMMA SourceSteps ==
  ASSUME Reading, SourcePublishes
  PROVE  SourceInOrder'
<1>1. /\ log' = log /\ ~source.failed /\ SourceInOrder
      /\ source \in [first : Nat \ {0}, next : Nat, last : Nat, complete : BOOLEAN,
                     foreign : {source.foreign}, failed : BOOLEAN]
      /\ Len(sent) \in Nat /\ DOMAIN sent = 1 .. Len(sent) /\ IsStream(sent)
  BY TypedLengths DEF Reading, Types, SourcePublishes, persistenceVars
<1>2. SourcePublishes
  OBVIOUS
<1>3. ASSUME source'.foreign = source.foreign, NEW c, ReadFrom(c) PROVE ReadFrom(c)'
  BY <1>1, <1>3, ReadStays
<1>4. CASE DecodeFails /\ ~(pending # <<>> \/ Decodes(source.next))
  <2>1. /\ source' = [source EXCEPT !.next = NextRead, !.failed = TRUE]
        /\ pending' = pending /\ sent' = sent /\ pending = <<>>
        /\ NextRead = source.next + 1
    BY <1>4 DEF DecodeFails, NextRead
  <2>2. /\ source'.foreign = source.foreign /\ source'.first = source.first
        /\ source'.next = source.next + 1 /\ source'.failed = TRUE
    BY <1>1, <2>1
  <2>3. source.next \in DOMAIN source.foreign
    <3>1. SUFFICES ASSUME source.next \notin DOMAIN source.foreign PROVE FALSE
      OBVIOUS
    <3>2. source.next = source.first + Len(sent) /\ source.next <= Len(log)
      BY <1>1, <1>2, <2>1 DEF SourcePublishes, SourceInOrder
    <3>3. source.next \in DOMAIN log
      BY <1>1, <3>2, TypedLengths DEF Reading
    <3>4. /\ IsEntry(log[source.next], source.next)
          /\ RecordAt(source.next) = log[source.next].record
      BY <3>1, <3>3 DEF Reading, Recording, RecordAt
    <3> QED BY <1>4, <3>4, EntryDecodes DEF Decodes
  <2>4. \A c : ReadFrom(c) => ReadFrom(c)'
    BY <1>3, <2>2
  <2>5. source'.next - 1 = source.next
    BY <1>1, <2>2
  <2> QED BY <1>1, <2>1, <2>2, <2>3, <2>4, <2>5 DEF SourceInOrder
<1>5. PICK o : o = Offered
  OBVIOUS
<1>6. CASE Backpressure /\ (pending # <<>> \/ Decodes(source.next))
  <2>1. /\ source' = [source EXCEPT !.next = NextRead]
        /\ pending' = <<o>> /\ sent' = sent
    BY <1>5, <1>6 DEF Backpressure
  <2>2. ReadFrom(o) /\ NextRead = o.seq + 1 /\ o.seq = source.first + Len(sent)
    BY <1>2, <1>5, <1>6, OfferedIsRead
  <2>3. /\ source'.foreign = source.foreign /\ source'.first = source.first
        /\ source'.next = o.seq + 1 /\ source'.failed = source.failed
    BY <1>1, <2>1, <2>2
  <2>4. \A c : ReadFrom(c) => ReadFrom(c)'
    BY <1>3, <2>3
  <2>5. pending' # <<>> /\ pending'[1] = o
    BY <2>1
  <2> QED BY <1>1, <2>1, <2>2, <2>3, <2>4, <2>5 DEF SourceInOrder
<1>7. CASE Published /\ (pending # <<>> \/ Decodes(source.next))
  <2>1. /\ source' = [source EXCEPT !.next = NextRead,
                                    !.complete = Offered.seq = source.last]
        /\ pending' = <<>> /\ sent' = Append(sent, o)
    BY <1>5, <1>7 DEF Published
  <2>2. ReadFrom(o) /\ NextRead = o.seq + 1 /\ o.seq = source.first + Len(sent)
    BY <1>2, <1>5, <1>7, OfferedIsRead
  <2>3. /\ source'.foreign = source.foreign /\ source'.first = source.first
        /\ source'.next = o.seq + 1 /\ source'.failed = source.failed
    BY <1>1, <2>1, <2>2
  <2>4. \A c : ReadFrom(c) => ReadFrom(c)'
    BY <1>3, <2>3
  <2>5. /\ Len(sent') = Len(sent) + 1 /\ DOMAIN sent' = 1 .. Len(sent) + 1
        /\ sent'[Len(sent) + 1] = o /\ \A k \in 1 .. Len(sent) : sent'[k] = sent[k]
    BY <1>1, <2>1, AppendStream, StreamLength
  <2>6. \A k \in DOMAIN sent' : ReadFrom(sent'[k])
                                /\ sent'[k].seq = source.first + k - 1
    <3>1. o.seq = source.first + (Len(sent) + 1) - 1
      BY <1>1, <2>2
    <3>2. \A k \in 1 .. Len(sent) + 1 : k = Len(sent) + 1 \/ k \in 1 .. Len(sent)
      BY <1>1
    <3>3. \A k \in 1 .. Len(sent) : ReadFrom(sent[k])
                                    /\ sent[k].seq = source.first + k - 1
      BY <1>1 DEF SourceInOrder
    <3> QED BY <2>2, <2>5, <3>1, <3>2, <3>3
  <2>7. source'.next = source.first + Len(sent')
    BY <1>1, <2>2, <2>3, <2>5
  <2> QED BY <1>1, <2>1, <2>3, <2>4, <2>6, <2>7 DEF SourceInOrder
<1> QED BY <1>4, <1>6, <1>7 DEF SourcePublishes

-----------------------------------------------------------------------------
(* The invariant.                                                            *)

LEMMA InitInv == Init => IInv
<1> SUFFICES ASSUME Init PROVE IInv
  OBVIOUS
<1>1. /\ ring = <<>> /\ sent = <<>> /\ log = <<>> /\ consumed = <<>> /\ pending = <<>>
      /\ durable = 0 /\ nextLive = 1 /\ failed = FALSE /\ producer = "Live"
      /\ source = NoSource /\ persistence = "Idle" /\ copied = NoCommand
      /\ mode = "Live" /\ liveResume = 0
  BY DEF Init
<1>2. /\ IsStream(<<>>) /\ Len(<<>>) = 0 /\ DOMAIN <<>> = {}
  <2>1. <<>> \in Seq({})
    OBVIOUS
  <2>2. IsStream(<<>>)
    BY <2>1 DEF IsStream
  <2> QED BY <2>2
<1>3. /\ NoCommand.seq = 0 /\ NoCommand.by = "Live" /\ TypeOfCommand(NoCommand) = "None"
      /\ NoCommand.payload.client_id = 0
  BY DEF NoCommand, Command, CommandWalPayload, Signal, TypeOfCommand
<1>4. /\ source \in [first : Nat \ {0}, next : Nat, last : Nat, complete : BOOLEAN,
                     foreign : {source.foreign}, failed : BOOLEAN]
      /\ source.first = 1 /\ source.next = 1 /\ source.failed = FALSE
      /\ source.complete = TRUE /\ source.foreign = <<>>
  BY <1>1 DEF NoSource
<1>5. Types
  <2>1. IsCommand(copied)
    BY <1>1, <1>3 DEF IsCommand
  <2>2. /\ \A k \in DOMAIN ring : IsCommand(ring[k])
        /\ Len(ring) <= Capacity /\ durable \in 0 .. Len(ring)
        /\ Len(pending) <= 1
    BY <1>1, <1>2, ReplayAssumption
  <2>3. TypeOK
    BY <1>1, <1>4, <2>1, <2>2 DEF TypeOK
  <2>4. IsStream(ring) /\ IsStream(log) /\ IsStream(consumed) /\ IsStream(sent)
    BY <1>1, <1>2
  <2> QED BY <1>1, <1>4, <2>3, <2>4 DEF Types
<1>6. Waiting = {} /\ ~Handling /\ Handled = 0
  BY <1>1, <1>2 DEF Waiting, Handling, Handled
<1>7. SessionInOrder
  BY <1>1, <1>6 DEF SessionInOrder, ModeAfter
<1>8. LiveInOrder
  BY <1>1, <1>2, <1>6 DEF LiveInOrder
<1>9. Delivery
  BY <1>1, <1>2, <1>6 DEF Delivery
<1>10. Entries
  BY <1>1, <1>2, <1>3 DEF Entries, Labelled
<1>11. SourceInOrder
  BY <1>1, <1>2, <1>4 DEF SourceInOrder
<1> QED BY <1>5, <1>7, <1>8, <1>9, <1>10, <1>11 DEF IInv, TractInv

LEMMA StepInv == IInv /\ [Next]_vars => IInv'
<1> SUFFICES ASSUME IInv, [Next]_vars PROVE IInv'
  OBVIOUS
<1>1. TractInv
  BY DEF IInv
<1>2. ASSUME SessionInOrder', LiveInOrder', Delivery', Entries', Types', SourceInOrder'
      PROVE  IInv'
  BY <1>2 DEF IInv, TractInv
<1>3. ASSUME NEW type \in LiveTypes, Ingress(type) PROVE IInv'
  <2>1. /\ type \in LiveMessages \cup {"StopReplay"} /\ TryPublish(type, "Live")
        /\ UNCHANGED sourceVars /\ log' = log
        /\ producer' \in {"Live", "Load", "Open", "Replay", "Restore", "Wait"}
    BY <1>3, ReplayAssumption DEF Ingress, TryPublish, LiveMessages, persistenceVars
  <2>2. Types'
    BY <1>1, <2>1, TypesOfTheProducer
  <2>3. SourceInOrder'
    BY <2>1, SourceKept
  <2> QED BY <1>1, <1>2, <1>3, <2>2, <2>3, IngressSteps
<1>4. CASE LoadReplaySnapshot \/ Stop \/ Restore
  <2>1. PICK type \in {"LoadSnapshot", "StopReplay"}, by \in {"Load", "Stop", "Restore"} :
          TryPublish(type, by)
    BY <1>4 DEF LoadReplaySnapshot, Stop, Restore
  <2>2. /\ type \in LiveMessages \cup {"StopReplay"} /\ by \in {"Live", "Load", "Stop", "Restore"}
        /\ UNCHANGED sourceVars /\ log' = log
        /\ producer' \in {"Live", "Load", "Open", "Replay", "Restore", "Wait"}
    BY <1>4, <2>1 DEF LoadReplaySnapshot, Stop, Restore, TryPublish, LiveMessages,
                      persistenceVars
  <2>3. Types'
    BY <1>1, <2>1, <2>2, TypesOfTheProducer
  <2>4. SourceInOrder'
    BY <2>2, SourceKept
  <2> QED BY <1>1, <1>2, <1>4, <2>3, <2>4, ControlSteps
<1>5. CASE Resume
  BY <1>1, <1>2, <1>5, TypesOfTheSession, OpenedSource, ResumeStep
<1>6. CASE PublishNext
  <2>1. Types' /\ SourceInOrder'
    BY <1>6, SessionReads, TypesOfTheSource, SourceSteps DEF PublishNext
  <2>2. SessionInOrder' /\ LiveInOrder' /\ Delivery' /\ Entries'
    <3>1. CASE Published /\ (pending # <<>> \/ Decodes(source.next))
      BY <1>6, <3>1, PublishedStep
    <3>2. CASE DecodeFails \/ Backpressure
      <4>1. /\ UNCHANGED <<ring, durable, persistenceVars, consumed, nextLive>>
            /\ producer' = producer
        BY <1>6, <3>2 DEF PublishNext, SourcePublishes, DecodeFails, Backpressure
      <4> QED BY <1>1, <4>1, QuietStep
    <3> QED BY <1>6, <3>1, <3>2 DEF PublishNext, SourcePublishes
  <2> QED BY <1>2, <2>1, <2>2
<1>7. ASSUME NEW last \in 1 .. MaxCommands, NEW first \in 1 .. last,
             NEW foreign \in ForeignAmong(first, last), OpenSource(first, last, foreign)
      PROVE  IInv'
  <2>1. first \in Nat \ {0} /\ last \in Nat \ {0}
    BY ReplayAssumption
  <2>2. Types'
    BY <1>1, <1>7, <2>1, TypesOfTheSession
  <2>3. SourceInOrder'
    BY <1>7, OpenedSource
  <2>4. /\ UNCHANGED <<ring, durable, persistenceVars, consumed, nextLive>>
        /\ producer = "Open" /\ producer' = "Replay"
    BY <1>7 DEF OpenSource, pipelineVars
  <2> QED BY <1>1, <1>2, <2>2, <2>3, <2>4, QuietStep
<1>8. CASE Persistence
  <2>1. Types'
    BY <1>1, <1>8, TypesOfPersistence
  <2>2. UNCHANGED sourceVars
    BY <1>8 DEF Persistence, Persist, PersistFails, PublishDurable, OnDurable,
                PersistenceElse
  <2>3. /\ DOMAIN log \subseteq DOMAIN log'
        /\ \A k \in DOMAIN log : log'[k] = log[k]
    <3>1. log' = log \/ \E e : log' = Append(log, e)
      BY <1>8 DEF Persistence, Persist, PersistFails, PublishDurable, OnDurable,
                  persistenceVars
    <3>2. CASE log' = log
      BY <3>2
    <3>3. ASSUME NEW e, log' = Append(log, e)
          PROVE  /\ DOMAIN log \subseteq DOMAIN log'
                 /\ \A k \in DOMAIN log : log'[k] = log[k]
      BY <1>1, <3>3, AppendStream, StreamLength DEF TractInv, Types
    <3> QED BY <3>1, <3>2, <3>3
  <2>4. SourceInOrder'
    BY <2>2, <2>3, SourceKept
  <2>5. CASE Persist
    BY <1>1, <1>2, <2>1, <2>4, <2>5, PersistStep
  <2>6. CASE PersistFails
    <3>1. UNCHANGED <<ring, durable, persistenceVars, consumed, nextLive, producer>>
      BY <2>6 DEF PersistFails, PersistenceElse
    <3> QED BY <1>1, <1>2, <2>1, <2>4, <3>1, QuietStep
  <2>7. CASE PublishDurable
    BY <1>1, <1>2, <2>1, <2>4, <2>7, PublishDurableStep
  <2>8. CASE OnDurable
    BY <1>1, <1>2, <2>1, <2>4, <2>8, OnDurableStep
  <2> QED BY <1>8, <2>5, <2>6, <2>7, <2>8 DEF Persistence
<1>9. CASE Consume
  <2>1. Types'
    BY <1>1, <1>9, TypesOfConsume
  <2>2. UNCHANGED sourceVars /\ log' = log
    BY <1>9 DEF Consume, persistenceVars
  <2>3. SourceInOrder'
    BY <2>2, SourceKept
  <2> QED BY <1>1, <1>2, <1>9, <2>1, <2>3, ConsumeStep
<1>10. CASE UNCHANGED vars
  <2>1. UNCHANGED <<ring, durable, persistenceVars, consumed, nextLive, failed, producer,
                    sourceVars>>
    BY <1>10 DEF vars, pipelineVars
  <2>2. SourceInOrder'
    <3>1. log' = log
      BY <2>1 DEF persistenceVars
    <3> QED BY <2>1, <3>1, SourceKept
  <2>3. Types'
    BY <1>1, <2>1 DEF TractInv, Types, TypeOK, persistenceVars, sourceVars
  <2> QED BY <1>1, <1>2, <2>1, <2>2, <2>3, QuietStep
<1> QED BY <1>3, <1>4, <1>5, <1>6, <1>7, <1>8, <1>9, <1>10 DEF Next, Session

\* The records, the sessions and the live cursor fit together in every state.
THEOREM TractInvariant == Spec => []IInv
<1> QED BY InitInv, StepInv, PTL DEF Spec

-----------------------------------------------------------------------------
(* The properties.                                                           *)

LEMMA RecordedGapless == Reading => CommandWalExact
<1> SUFFICES ASSUME Reading PROVE CommandWalExact
  OBVIOUS
<1>1. TypeOK
  BY DEF Reading, Types
<1>2. \A k \in DOMAIN log : IsEntry(log[k], k)
  BY DEF Reading, Recording
<1>3. \A k \in DOMAIN log : log[k].seq = k /\ log[k].by = "Live"
  BY <1>2, EntryDecodes
<1> QED BY <1>1, <1>3 DEF CommandWalExact

\* CommandWalExact: the Command WAL is the gapless record of the live commands,
\* with any number of sessions, whatever the capacity of the pipeline.
THEOREM CommandWalExactAlways == Spec => []CommandWalExact
BY TractInvariant, SessionReads, RecordedGapless, PTL

LEMMA DeliveredOnce == IInv => LiveDeliveredOnce
<1> SUFFICES ASSUME IInv PROVE LiveDeliveredOnce
  OBVIOUS
<1> DEFINE d == [k \in DOMAIN log |-> Decoded(log[k])]
           n == Len(consumed)
<1>1. /\ n \in Nat /\ DOMAIN consumed = 1 .. n /\ Len(log) \in Nat
      /\ DOMAIN log = 1 .. Len(log) /\ IsStream(consumed)
      /\ Handled <= Len(log) /\ Handled \in Int /\ n <= Handled
  BY Lengths DEF IInv, TractInv, Types, Delivery
<1>2. Len(d) = Len(log) /\ n <= Len(d)
  BY <1>1
<1>3. \A k \in 1 .. n : consumed[k] = d[k]
  BY <1>1 DEF IInv, TractInv, Delivery
<1>4. PICK S : consumed \in Seq(S)
  BY <1>1 DEF IsStream
<1> HIDE DEF d
<1>5. SubSeq(consumed, 1, n) = SubSeq(d, 1, n)
  BY <1>1, <1>2, <1>3, <1>4
<1>6. IsPrefix(consumed, d)
  BY <1>2, <1>5 DEF IsPrefix
<1> QED BY <1>6, SessionReads, RecordedGapless DEF LiveDeliveredOnce, d

\* LiveDeliveredOnce: the matcher gets every recorded live command exactly once and
\* in order, whatever the sessions between them.
THEOREM LiveDeliveredOnceAlways == Spec => []LiveDeliveredOnce
BY TractInvariant, DeliveredOnce, PTL

LEMMA ReplayedExactly == Reading => ReplayExact
<1> SUFFICES ASSUME Reading PROVE ReplayExact
  OBVIOUS
<1>1. SourceInOrder
  BY DEF Reading
<1>2. ASSUME NEW k \in DOMAIN sent
      PROVE  /\ sent[k].seq = source.first + k - 1 /\ sent[k].by = "Source"
             /\ LET encoded == encode_command_wal_payload_v2(sent[k].payload,
                                                             command_wal_payload_size)
                IN  /\ encoded.status = "Ok"
                    /\ encoded.bytes = RecordAt(sent[k].seq).bytes
  <2>1. ReadFrom(sent[k]) /\ sent[k].seq = source.first + k - 1
    BY <1>1 DEF SourceInOrder
  <2>2. /\ decode_command_wal_payload_v2(RecordAt(sent[k].seq)).status = "Ok"
        /\ sent[k].payload = decode_command_wal_payload_v2(RecordAt(sent[k].seq)).payload
    BY <2>1 DEF ReadFrom, Decodes
  <2> QED BY <2>1, <2>2, DecodedReencodes DEF ReadFrom
<1> QED BY <1>1, <1>2 DEF ReplayExact, SourceInOrder

\* ReplayExact: whatever other programs have written, a source publishes the records
\* of its range in order, and only what encodes to the bytes it has read.
THEOREM ReplayExactAlways == Spec => []ReplayExact
BY TractInvariant, SessionReads, ReplayedExactly, PTL

-----------------------------------------------------------------------------
(* The codec of events.                                                     *)

\* The byte of a type of event stands for it.
LEMMA EventTypeCodes ==
  \A k \in 1 .. 11 : /\ CodeOf(EventTypes, EventTypes[k]) = k
                     /\ TypeOf(EventTypes, k) = EventTypes[k]
<1>1. /\ DOMAIN EventTypes = 1 .. 11
      /\ EventTypes[1] = "OrderAccepted" /\ EventTypes[2] = "OrderRejected"
      /\ EventTypes[3] = "Trade" /\ EventTypes[4] = "OrderRested"
      /\ EventTypes[5] = "OrderDone" /\ EventTypes[6] = "SaveSnapshot"
      /\ EventTypes[7] = "LoadSnapshot" /\ EventTypes[8] = "Shutdown"
      /\ EventTypes[9] = "MatcherFatal" /\ EventTypes[10] = "StartReplay"
      /\ EventTypes[11] = "StopReplay"
  BY DEF EventTypes
<1>2. \A j, k \in 1 .. 11 : EventTypes[j] = EventTypes[k] => j = k
  BY <1>1
<1>3. ASSUME NEW k \in 1 .. 11
      PROVE  CodeOf(EventTypes, EventTypes[k]) = k
  <2>1. (CHOOSE j \in DOMAIN EventTypes : EventTypes[j] = EventTypes[k]) = k
    BY <1>1, <1>2
  <2> QED BY <1>1, <2>1, Zenon DEF CodeOf
<1> QED BY <1>1, <1>3 DEF TypeOf

\* The messages an event may carry: those with an enumerator in every field that is one.
WellFormed(m) ==
  \/ \E type \in {"OrderAccepted", "OrderDone"} : \E id : m = OrderEvent(type, id)
  \/ \E reason \in 0 .. 3 : \E id : m = OrderRejected(id, reason)
  \/ \E taker, maker, takerOwner, makerOwner, price, quantity :
       m = Trade(taker, maker, takerOwner, makerOwner, price, quantity)
  \/ \E side \in {Bid, Ask} : \E id, owner, price, left :
       m = OrderRested(id, owner, side, price, left)
  \/ \E saved, epoch : m = LoadSnapshot(saved, epoch)
  \/ \E reason \in 0 .. 10 : \E offending, last : m = MatcherFatal(reason, offending, last)
  \/ \E type \in {"SaveSnapshot", "Shutdown", "StartReplay", "StopReplay"} : m = Signal(type)

IsEvent(p) ==
  /\ p = EventWalPayload(p.client_id, p.caused_by_command_sequence, p.index_in_command,
                         p.is_last_for_command, p.message)
  /\ p.is_last_for_command \in BOOLEAN /\ WellFormed(p.message)

\* Every field is at its offset, and no other.
LEMMA EventFieldBytes ==
  ASSUME NEW p
  PROVE  /\ EventBytes(p)[0] = p.client_id
         /\ EventBytes(p)[8] = p.caused_by_command_sequence
         /\ EventBytes(p)[16] = p.index_in_command
         /\ EventBytes(p)[20] = (IF p.is_last_for_command THEN 1 ELSE 0)
         /\ EventBytes(p)[21] = CodeOf(EventTypes, p.message.type)
         /\ p.message.type \in {"OrderAccepted", "OrderDone"} =>
              EventBytes(p)[24] = p.message.id
         /\ p.message.type = "OrderRejected" =>
              EventBytes(p)[24] = p.message.id /\ EventBytes(p)[32] = p.message.reason
         /\ p.message.type = "Trade" =>
              /\ EventBytes(p)[24] = p.message.taker_order_id
              /\ EventBytes(p)[32] = p.message.maker_order_id
              /\ EventBytes(p)[40] = p.message.taker_owner_id
              /\ EventBytes(p)[48] = p.message.maker_owner_id
              /\ EventBytes(p)[56] = p.message.price
              /\ EventBytes(p)[60] = p.message.quantity
         /\ p.message.type = "OrderRested" =>
              /\ EventBytes(p)[24] = p.message.id
              /\ EventBytes(p)[32] = p.message.owner_id
              /\ EventBytes(p)[40] = p.message.side
              /\ EventBytes(p)[44] = p.message.price
              /\ EventBytes(p)[48] = p.message.remaining
         /\ p.message.type = "LoadSnapshot" =>
              /\ EventBytes(p)[24] = p.message.save_snapshot_command_sequence
              /\ EventBytes(p)[32] = p.message.snapshot_epoch_id
         /\ p.message.type = "MatcherFatal" =>
              /\ EventBytes(p)[24] = p.message.reason
              /\ EventBytes(p)[32] = p.message.offending_order_id
              /\ EventBytes(p)[40] = p.message.last_order_id
<1> DEFINE m == p.message
           flag == IF p.is_last_for_command THEN 1 ELSE 0
           h == [Zeros(event_wal_payload_size) EXCEPT
                   ![0] = p.client_id,
                   ![8] = p.caused_by_command_sequence,
                   ![16] = p.index_in_command,
                   ![20] = IF p.is_last_for_command THEN 1 ELSE 0,
                   ![21] = CodeOf(EventTypes, m.type)]
<1>1. /\ DOMAIN h = 0 .. 63
      /\ h[0] = p.client_id /\ h[8] = p.caused_by_command_sequence
      /\ h[16] = p.index_in_command /\ h[20] = flag
      /\ h[21] = CodeOf(EventTypes, m.type)
  <2>1. PICK f : f = flag
    OBVIOUS
  <2>2. h = [Zeros(event_wal_payload_size) EXCEPT
                   ![0] = p.client_id,
                   ![8] = p.caused_by_command_sequence,
                   ![16] = p.index_in_command,
                   ![20] = f,
                   ![21] = CodeOf(EventTypes, m.type)]
    BY <2>1, Zenon
  <2> HIDE DEF flag, h
  <2> QED BY <2>1, <2>2, SMT DEF Zeros, event_wal_payload_size
<1>2. EventBytes(p) =
        CASE m.type \in {"OrderAccepted", "OrderDone"} -> [h EXCEPT ![24] = m.id]
        [] m.type = "OrderRejected" ->
             [h EXCEPT ![24] = m.id, ![32] = m.reason]
        [] m.type = "Trade" ->
             [h EXCEPT ![24] = m.taker_order_id, ![32] = m.maker_order_id,
                            ![40] = m.taker_owner_id, ![48] = m.maker_owner_id,
                            ![56] = m.price, ![60] = m.quantity]
        [] m.type = "OrderRested" ->
             [h EXCEPT ![24] = m.id, ![32] = m.owner_id, ![40] = m.side,
                            ![44] = m.price, ![48] = m.remaining]
        [] m.type = "LoadSnapshot" ->
             [h EXCEPT ![24] = m.save_snapshot_command_sequence,
                            ![32] = m.snapshot_epoch_id]
        [] m.type = "MatcherFatal" ->
             [h EXCEPT ![24] = m.reason, ![32] = m.offending_order_id,
                            ![40] = m.last_order_id]
        [] OTHER -> h
  BY Zenon DEF EventBytes
<1>3. flag = (IF p.is_last_for_command THEN 1 ELSE 0)
  OBVIOUS
<1> HIDE DEF h, flag
<1>4. CASE m.type \in {"OrderAccepted", "OrderDone"}
  <2>1. EventBytes(p) = [h EXCEPT ![24] = m.id]
    BY <1>2, <1>4
  <2>2. /\ EventBytes(p)[0] = h[0] /\ EventBytes(p)[8] = h[8] /\ EventBytes(p)[16] = h[16]
        /\ EventBytes(p)[20] = h[20] /\ EventBytes(p)[21] = h[21]
        /\ EventBytes(p)[24] = m.id
    BY <1>1, <2>1, SMT
  <2> QED BY <1>1, <1>3, <1>4, <2>2, SMT
<1>5. CASE m.type = "OrderRejected"
  <2>1. EventBytes(p) = [h EXCEPT ![24] = m.id, ![32] = m.reason]
    BY <1>2, <1>5
  <2>2. /\ EventBytes(p)[0] = h[0] /\ EventBytes(p)[8] = h[8] /\ EventBytes(p)[16] = h[16]
        /\ EventBytes(p)[20] = h[20] /\ EventBytes(p)[21] = h[21]
        /\ EventBytes(p)[24] = m.id /\ EventBytes(p)[32] = m.reason
    BY <1>1, <2>1, SMT
  <2> QED BY <1>1, <1>3, <1>5, <2>2, SMT
<1>6. CASE m.type = "Trade"
  <2>1. EventBytes(p) =
          [h EXCEPT ![24] = m.taker_order_id, ![32] = m.maker_order_id,
                    ![40] = m.taker_owner_id, ![48] = m.maker_owner_id,
                    ![56] = m.price, ![60] = m.quantity]
    BY <1>2, <1>6
  <2>2. /\ EventBytes(p)[0] = h[0] /\ EventBytes(p)[8] = h[8] /\ EventBytes(p)[16] = h[16]
        /\ EventBytes(p)[20] = h[20] /\ EventBytes(p)[21] = h[21]
        /\ EventBytes(p)[24] = m.taker_order_id /\ EventBytes(p)[32] = m.maker_order_id
        /\ EventBytes(p)[40] = m.taker_owner_id /\ EventBytes(p)[48] = m.maker_owner_id
        /\ EventBytes(p)[56] = m.price /\ EventBytes(p)[60] = m.quantity
    BY <1>1, <2>1, SMT
  <2> QED BY <1>1, <1>3, <1>6, <2>2, SMT
<1>7. CASE m.type = "OrderRested"
  <2>1. EventBytes(p) = [h EXCEPT ![24] = m.id, ![32] = m.owner_id, ![40] = m.side,
                                  ![44] = m.price, ![48] = m.remaining]
    BY <1>2, <1>7
  <2>2. /\ EventBytes(p)[0] = h[0] /\ EventBytes(p)[8] = h[8] /\ EventBytes(p)[16] = h[16]
        /\ EventBytes(p)[20] = h[20] /\ EventBytes(p)[21] = h[21]
        /\ EventBytes(p)[24] = m.id /\ EventBytes(p)[32] = m.owner_id
        /\ EventBytes(p)[40] = m.side /\ EventBytes(p)[44] = m.price
        /\ EventBytes(p)[48] = m.remaining
    BY <1>1, <2>1, SMT
  <2> QED BY <1>1, <1>3, <1>7, <2>2, SMT
<1>8. CASE m.type = "LoadSnapshot"
  <2>1. EventBytes(p) = [h EXCEPT ![24] = m.save_snapshot_command_sequence,
                                  ![32] = m.snapshot_epoch_id]
    BY <1>2, <1>8
  <2>2. /\ EventBytes(p)[0] = h[0] /\ EventBytes(p)[8] = h[8] /\ EventBytes(p)[16] = h[16]
        /\ EventBytes(p)[20] = h[20] /\ EventBytes(p)[21] = h[21]
        /\ EventBytes(p)[24] = m.save_snapshot_command_sequence
        /\ EventBytes(p)[32] = m.snapshot_epoch_id
    BY <1>1, <2>1, SMT
  <2> QED BY <1>1, <1>3, <1>8, <2>2, SMT
<1>9. CASE m.type = "MatcherFatal"
  <2>1. EventBytes(p) = [h EXCEPT ![24] = m.reason, ![32] = m.offending_order_id,
                                  ![40] = m.last_order_id]
    BY <1>2, <1>9
  <2>2. /\ EventBytes(p)[0] = h[0] /\ EventBytes(p)[8] = h[8] /\ EventBytes(p)[16] = h[16]
        /\ EventBytes(p)[20] = h[20] /\ EventBytes(p)[21] = h[21]
        /\ EventBytes(p)[24] = m.reason /\ EventBytes(p)[32] = m.offending_order_id
        /\ EventBytes(p)[40] = m.last_order_id
    BY <1>1, <2>1, SMT
  <2> QED BY <1>1, <1>3, <1>9, <2>2, SMT
<1>10. CASE m.type \notin {"OrderAccepted", "OrderDone", "OrderRejected", "Trade",
                           "OrderRested", "LoadSnapshot", "MatcherFatal"}
  <2>1. EventBytes(p) = h
    BY <1>2, <1>10
  <2> QED BY <1>1, <1>3, <1>10, <2>1, SMT
<1> QED BY <1>4, <1>5, <1>6, <1>7, <1>8, <1>9, <1>10, Zenon

\* A well-formed message is that of its type with its own fields.
MadeOfFields(m) ==
  /\ m.type \in {"OrderAccepted", "OrderDone", "OrderRejected", "Trade", "OrderRested",
                "LoadSnapshot", "MatcherFatal", "SaveSnapshot", "Shutdown",
                "StartReplay", "StopReplay"}
  /\ m.type \in {"OrderAccepted", "OrderDone"} => m = OrderEvent(m.type, m.id)
  /\ m.type = "OrderRejected" => m = OrderRejected(m.id, m.reason) /\ m.reason \in 0 .. 3
  /\ m.type = "Trade" =>
       m = Trade(m.taker_order_id, m.maker_order_id, m.taker_owner_id,
                 m.maker_owner_id, m.price, m.quantity)
  /\ m.type = "OrderRested" =>
       /\ m = OrderRested(m.id, m.owner_id, m.side, m.price, m.remaining)
       /\ m.side \in {Bid, Ask}
  /\ m.type = "LoadSnapshot" =>
       m = LoadSnapshot(m.save_snapshot_command_sequence, m.snapshot_epoch_id)
  /\ m.type = "MatcherFatal" =>
       /\ m = MatcherFatal(m.reason, m.offending_order_id, m.last_order_id)
       /\ m.reason \in 0 .. 10
  /\ m.type \notin {"OrderAccepted", "OrderDone", "OrderRejected", "Trade",
                    "OrderRested", "LoadSnapshot", "MatcherFatal"} =>
       m = Signal(m.type)

LEMMA WellFormedIs ==
  ASSUME NEW m, WellFormed(m)
  PROVE  MadeOfFields(m)
<1>1. ASSUME NEW type \in {"OrderAccepted", "OrderDone"}, NEW id, m = OrderEvent(type, id)
      PROVE  MadeOfFields(m)
  BY <1>1 DEF MadeOfFields, OrderEvent
<1>2. ASSUME NEW reason \in 0 .. 3, NEW id, m = OrderRejected(id, reason)
      PROVE  MadeOfFields(m)
  BY <1>2 DEF MadeOfFields, OrderRejected
<1>3. ASSUME NEW taker, NEW maker, NEW takerOwner, NEW makerOwner, NEW price, NEW quantity,
             m = Trade(taker, maker, takerOwner, makerOwner, price, quantity)
      PROVE  MadeOfFields(m)
  BY <1>3 DEF MadeOfFields, Trade
<1>4. ASSUME NEW side \in {Bid, Ask}, NEW id, NEW owner, NEW price, NEW left,
             m = OrderRested(id, owner, side, price, left)
      PROVE  MadeOfFields(m)
  BY <1>4 DEF MadeOfFields, OrderRested
<1>5. ASSUME NEW saved, NEW epoch, m = LoadSnapshot(saved, epoch)
      PROVE  MadeOfFields(m)
  BY <1>5 DEF MadeOfFields, LoadSnapshot
<1>6. ASSUME NEW reason \in 0 .. 10, NEW offending, NEW last,
             m = MatcherFatal(reason, offending, last)
      PROVE  MadeOfFields(m)
  BY <1>6 DEF MadeOfFields, MatcherFatal
<1>7. ASSUME NEW type \in {"SaveSnapshot", "Shutdown", "StartReplay", "StopReplay"},
             m = Signal(type)
      PROVE  MadeOfFields(m)
  BY <1>7 DEF MadeOfFields, Signal
<1> QED BY <1>1, <1>2, <1>3, <1>4, <1>5, <1>6, <1>7, Zenon DEF WellFormed

\* The type of a well-formed message is one of the event types.
LEMMA WellFormedType ==
  ASSUME NEW m, WellFormed(m)
  PROVE  TypeOf(EventTypes, CodeOf(EventTypes, m.type)) = m.type
<1>1. \E k \in 1 .. 11 : m.type = EventTypes[k]
  BY WellFormedIs DEF MadeOfFields, EventTypes
<1> QED BY <1>1, EventTypeCodes

\* What is decoded from the bytes of an event is the event.
LEMMA EventDecodes ==
  ASSUME NEW p, IsEvent(p)
  PROVE  DecodedEvent(p.message.type, EventBytes(p)) = p
<1> DEFINE m == p.message
           b == EventBytes(p)
           w == EventWalPayload(b[0], b[8], b[16], b[20] # 0, m)
<1>0. MadeOfFields(m)
  BY WellFormedIs DEF IsEvent
<1>2. w = p
  <2>1. /\ b[0] = p.client_id /\ b[8] = p.caused_by_command_sequence
        /\ b[16] = p.index_in_command
        /\ b[20] = (IF p.is_last_for_command THEN 1 ELSE 0)
    BY EventFieldBytes
  <2>2. (b[20] # 0) = p.is_last_for_command
    <3>1. p.is_last_for_command \in BOOLEAN
      BY DEF IsEvent
    <3> HIDE DEF b
    <3>2. p.is_last_for_command => b[20] # 0
      BY <2>1
    <3>3. ~p.is_last_for_command => b[20] = 0
      BY <2>1
    <3>4. ~p.is_last_for_command => ~(b[20] # 0)
      BY <3>3
    <3> QED BY <3>1, <3>2, <3>4, Zenon
  <2> HIDE DEF b
  <2>3. w = EventWalPayload(p.client_id, p.caused_by_command_sequence, p.index_in_command,
                            p.is_last_for_command, m)
    BY <2>1, <2>2, Zenon
  <2> QED BY <2>3, Zenon DEF IsEvent
<1> HIDE DEF b
<1>3. CASE m.type \in {"OrderAccepted", "OrderDone"}
  <2>1. b[24] = m.id
    BY <1>3, EventFieldBytes DEF b
  <2>2. m = OrderEvent(m.type, m.id)
    BY <1>0, <1>3 DEF MadeOfFields
  <2>3. DecodedEvent(m.type, b)
          = EventWalPayload(b[0], b[8], b[16], b[20] # 0, OrderEvent(m.type, b[24]))
    BY <1>3, Zenon DEF DecodedEvent
  <2> HIDE DEF m
  <2> QED BY <1>2, <2>1, <2>2, <2>3, Zenon DEF b, m
<1>4. CASE m.type = "OrderRejected"
  <2>1. b[24] = m.id /\ b[32] = m.reason
    BY <1>4, EventFieldBytes DEF b
  <2>2. m = OrderRejected(m.id, m.reason)
    BY <1>0, <1>4 DEF MadeOfFields
  <2>3. DecodedEvent(m.type, b)
          = EventWalPayload(b[0], b[8], b[16], b[20] # 0, OrderRejected(b[24], b[32]))
    BY <1>4 DEF DecodedEvent
  <2> HIDE DEF m
  <2> QED BY <1>2, <2>1, <2>2, <2>3, Zenon DEF b, m
<1>5. CASE m.type = "Trade"
  <2>1. /\ b[24] = m.taker_order_id /\ b[32] = m.maker_order_id
        /\ b[40] = m.taker_owner_id /\ b[48] = m.maker_owner_id
        /\ b[56] = m.price /\ b[60] = m.quantity
    BY <1>5, EventFieldBytes DEF b
  <2>2. m = Trade(m.taker_order_id, m.maker_order_id, m.taker_owner_id, m.maker_owner_id,
                  m.price, m.quantity)
    BY <1>0, <1>5 DEF MadeOfFields
  <2>3. DecodedEvent(m.type, b)
          = EventWalPayload(b[0], b[8], b[16], b[20] # 0,
                            Trade(b[24], b[32], b[40], b[48], b[56], b[60]))
    BY <1>5 DEF DecodedEvent
  <2> HIDE DEF m
  <2> QED BY <1>2, <2>1, <2>2, <2>3, Zenon DEF b, m
<1>6. CASE m.type = "OrderRested"
  <2>1. /\ b[24] = m.id /\ b[32] = m.owner_id /\ b[40] = m.side
        /\ b[44] = m.price /\ b[48] = m.remaining
    BY <1>6, EventFieldBytes DEF b
  <2>2. m = OrderRested(m.id, m.owner_id, m.side, m.price, m.remaining)
    BY <1>0, <1>6 DEF MadeOfFields
  <2>3. DecodedEvent(m.type, b)
          = EventWalPayload(b[0], b[8], b[16], b[20] # 0,
                            OrderRested(b[24], b[32], b[40], b[44], b[48]))
    BY <1>6 DEF DecodedEvent
  <2> HIDE DEF m
  <2> QED BY <1>2, <2>1, <2>2, <2>3, Zenon DEF b, m
<1>7. CASE m.type = "LoadSnapshot"
  <2>1. b[24] = m.save_snapshot_command_sequence /\ b[32] = m.snapshot_epoch_id
    BY <1>7, EventFieldBytes DEF b
  <2>2. m = LoadSnapshot(m.save_snapshot_command_sequence, m.snapshot_epoch_id)
    BY <1>0, <1>7 DEF MadeOfFields
  <2>3. DecodedEvent(m.type, b)
          = EventWalPayload(b[0], b[8], b[16], b[20] # 0, LoadSnapshot(b[24], b[32]))
    BY <1>7 DEF DecodedEvent
  <2> HIDE DEF m
  <2> QED BY <1>2, <2>1, <2>2, <2>3, Zenon DEF b, m
<1>8. CASE m.type = "MatcherFatal"
  <2>1. b[24] = m.reason /\ b[32] = m.offending_order_id /\ b[40] = m.last_order_id
    BY <1>8, EventFieldBytes DEF b
  <2>2. m = MatcherFatal(m.reason, m.offending_order_id, m.last_order_id)
    BY <1>0, <1>8 DEF MadeOfFields
  <2>3. DecodedEvent(m.type, b)
          = EventWalPayload(b[0], b[8], b[16], b[20] # 0,
                            MatcherFatal(b[24], b[32], b[40]))
    BY <1>8 DEF DecodedEvent
  <2> HIDE DEF m
  <2> QED BY <1>2, <2>1, <2>2, <2>3, Zenon DEF b, m
<1>9. CASE m.type \notin {"OrderAccepted", "OrderDone", "OrderRejected", "Trade",
                          "OrderRested", "LoadSnapshot", "MatcherFatal"}
  <2>2. m = Signal(m.type)
    BY <1>0, <1>9 DEF MadeOfFields
  <2>3. DecodedEvent(m.type, b)
          = EventWalPayload(b[0], b[8], b[16], b[20] # 0, Signal(m.type))
    BY <1>9 DEF DecodedEvent
  <2> HIDE DEF m
  <2> QED BY <1>2, <2>2, <2>3, Zenon DEF b, m
<1> QED BY <1>3, <1>4, <1>5, <1>6, <1>7, <1>8, <1>9, Zenon DEF b

\* The enumerators of a well-formed message are known ones.
LEMMA EnumeratorsValid ==
  ASSUME NEW p, IsEvent(p)
  PROVE  LET m == p.message
             b == EventBytes(p)
         IN  /\ b[20] \in {0, 1}
             /\ m.type # "None"
             /\ m.type = "OrderRejected" =>
                  valid_reject_reason(m.reason) /\ valid_reject_reason(b[32])
             /\ m.type = "OrderRested" => valid_side(m.side) /\ valid_side(b[40])
             /\ m.type = "MatcherFatal" =>
                  valid_fatal_reason(m.reason) /\ valid_fatal_reason(b[24])
<1> DEFINE m == p.message
           b == EventBytes(p)
<1>0. MadeOfFields(m)
  BY WellFormedIs DEF IsEvent
<1>2. b[20] \in {0, 1}
  <2>1. b[20] = (IF p.is_last_for_command THEN 1 ELSE 0)
    BY EventFieldBytes
  <2> HIDE DEF b
  <2> QED BY <2>1
<1>3. m.type # "None"
  BY <1>0 DEF MadeOfFields
<1>4. m.type = "OrderRejected" => m.reason \in 0 .. 3 /\ b[32] = m.reason
  <2>1. m.type = "OrderRejected" => m.reason \in 0 .. 3
    BY <1>0 DEF MadeOfFields
  <2>2. m.type = "OrderRejected" => b[32] = m.reason
    BY EventFieldBytes
  <2> QED BY <2>1, <2>2
<1>5. m.type = "OrderRested" => m.side \in {Bid, Ask} /\ b[40] = m.side
  <2>1. m.type = "OrderRested" => m.side \in {Bid, Ask}
    BY <1>0 DEF MadeOfFields
  <2>2. m.type = "OrderRested" => b[40] = m.side
    BY EventFieldBytes
  <2> QED BY <2>1, <2>2
<1>6. m.type = "MatcherFatal" => m.reason \in 0 .. 10 /\ b[24] = m.reason
  <2>1. m.type = "MatcherFatal" => m.reason \in 0 .. 10
    BY <1>0 DEF MadeOfFields
  <2>2. m.type = "MatcherFatal" => b[24] = m.reason
    BY EventFieldBytes
  <2> QED BY <2>1, <2>2
<1> HIDE DEF m, b
<1>7. \A side \in {Bid, Ask} : valid_side(side)
  BY DEF valid_side, Bid, Ask
<1>8. \A reason \in 0 .. 3 : valid_reject_reason(reason)
  BY DEF valid_reject_reason, UnknownCommand
<1>9. \A reason \in 0 .. 10 : valid_fatal_reason(reason)
  BY DEF valid_fatal_reason, SnapshotLoadInvalid
<1> QED BY <1>2, <1>3, <1>4, <1>5, <1>6, <1>7, <1>8, <1>9, Zenon DEF m, b

\* A record with the bytes of an event decodes to it, and the event encodes to them.
LEMMA EventRoundTrip ==
  ASSUME NEW p, IsEvent(p), NEW r,
         r.size = event_wal_payload_size, r.bytes = EventBytes(p)
  PROVE  /\ decode_event_wal_payload_v2(r).status = "Ok"
         /\ decode_event_wal_payload_v2(r).payload = p
         /\ encode_event_wal_payload_v2(p, event_wal_payload_size).status = "Ok"
         /\ encode_event_wal_payload_v2(p, event_wal_payload_size).bytes = EventBytes(p)
         /\ encode_event_wal_payload_v2(p, event_wal_payload_size).size
              = event_wal_payload_size
<1> DEFINE m == p.message
           b == EventBytes(p)
           t == TypeOf(EventTypes, r.bytes[21])
           d == DecodedEvent(t, r.bytes)
           e1 == encode_event_wal_payload_v1(p, event_wal_payload_size)
           e2 == encode_event_wal_payload_v2(p, event_wal_payload_size)
<1>1. t = m.type
  <2>1. b[21] = CodeOf(EventTypes, m.type)
    BY EventFieldBytes
  <2>2. r.bytes[21] = CodeOf(EventTypes, m.type)
    BY <2>1
  <2>3. WellFormed(m)
    BY DEF IsEvent
  <2> QED BY <2>2, <2>3, WellFormedType
<1>2. d = p
  BY <1>1, EventDecodes
<1>3. /\ b[20] \in {0, 1} /\ m.type # "None"
      /\ m.type = "OrderRejected" =>
           valid_reject_reason(m.reason) /\ valid_reject_reason(b[32])
      /\ m.type = "OrderRested" => valid_side(m.side) /\ valid_side(b[40])
      /\ m.type = "MatcherFatal" =>
           valid_fatal_reason(m.reason) /\ valid_fatal_reason(b[24])
  BY EnumeratorsValid
<1>4. e2.status = "Ok" /\ e2.bytes = b /\ e2.size = event_wal_payload_size
  <2> HIDE DEF m, b
  <2> QED BY <1>3 DEF encode_event_wal_payload_v2, encode_event_wal_payload_v1, m, b
<1>5. m.type \notin {"StartReplay", "StopReplay"} => e1.status = "Ok" /\ e1.bytes = b
  BY <1>3 DEF encode_event_wal_payload_v1
<1>6. r.bytes = b /\ r.bytes[20] <= 1 /\ ~(r.bytes[20] > 1)
  BY <1>3
<1> HIDE DEF d, t, b, m, e1, e2
<1>7. CASE m.type \in {"StartReplay", "StopReplay"}
  <2>1. decode_event_wal_payload_v2(r)
          = Canonical(r, d, encode_event_wal_payload_v2(d, event_wal_payload_size))
    BY <1>1, <1>6, <1>7 DEF decode_event_wal_payload_v2, d, t
  <2>2. decode_event_wal_payload_v2(r) = Canonical(r, p, e2)
    BY <1>2, <2>1 DEF e2
  <2> QED BY <1>4, <1>6, <2>2 DEF Canonical, b, e2
<1>8. CASE m.type \notin {"StartReplay", "StopReplay"}
  <2>1. decode_event_wal_payload_v2(r) = decode_event_wal_payload_v1(r)
    BY <1>1, <1>8 DEF decode_event_wal_payload_v2, t
  <2>2. decode_event_wal_payload_v1(r)
          = Canonical(r, d, encode_event_wal_payload_v1(d, event_wal_payload_size))
    <3>1. ~(\/ t = "OrderRejected" /\ ~valid_reject_reason(r.bytes[32])
            \/ t = "OrderRested" /\ ~valid_side(r.bytes[40])
            \/ t = "MatcherFatal" /\ ~valid_fatal_reason(r.bytes[24]))
      BY <1>1, <1>3, <1>6
    <3>2. t \notin {"StartReplay", "StopReplay", "None"}
      BY <1>1, <1>3, <1>8
    <3> QED BY <1>6, <3>1, <3>2 DEF decode_event_wal_payload_v1, d, t
  <2>3. decode_event_wal_payload_v2(r) = Canonical(r, p, e1)
    BY <1>2, <2>1, <2>2 DEF e1
  <2> QED BY <1>4, <1>5, <1>6, <1>8, <2>3 DEF Canonical, b, e2
<1> QED BY <1>7, <1>8

-----------------------------------------------------------------------------
(* The sequences that FlattenSeq joins.                                     *)

\* Every set of numbers that is not empty has a least one.
LEMMA Least ==
  ASSUME NEW T, T \subseteq Nat, T # {}
  PROVE  \E m \in T : \A n \in T : m <= n
<1> DEFINE U == {1 .. n : n \in T}
           R == StrictSubsetOrdering(Nat)
           F == FiniteSubsetsOf(Nat)
<1>1. IsWellFoundedOn(R, F)
  BY FS_StrictSubsetOrderingWellFounded
<1>2. U \subseteq F
  BY FS_Interval DEF FiniteSubsetsOf
<1>3. PICK u \in U : \A v \in U : ~(<<v, u>> \in R)
  <2>1. U # {}
    OBVIOUS
  <2> HIDE DEF U, R, F
  <2> QED BY <1>1, <1>2, <2>1, WFMin
<1>4. PICK m \in T : u = 1 .. m
  BY <1>3
<1>5. ASSUME NEW n \in T, n < m PROVE FALSE
  <2>1. 1 .. n \subseteq 1 .. m /\ 1 .. n # 1 .. m
    <3>1. m \in 1 .. m /\ m \notin 1 .. n
      BY <1>5
    <3> QED BY <1>5, <3>1
  <2>2. <<1 .. n, 1 .. m>> \in R
    BY <2>1 DEF StrictSubsetOrdering
  <2> QED BY <1>3, <1>4, <2>2
<1> QED BY <1>5

\* What a loop that joins n sequences has joined after each of them.
Joins(f, n, join) ==
  /\ join[1] = f[1]
  /\ \A k \in 2 .. n : join[k] = join[k - 1] \o f[k]

LEMMA JoinsUnique ==
  ASSUME NEW n \in Nat, NEW f, NEW g, NEW h, Joins(f, n, g), Joins(f, n, h)
  PROVE  \A k \in 1 .. n : g[k] = h[k]
<1> SUFFICES ASSUME NEW j \in 1 .. n, g[j] # h[j] PROVE FALSE
  OBVIOUS
<1> DEFINE T == {k \in 1 .. n : g[k] # h[k]}
<1>1. PICK m \in T : \A k \in T : m <= k
  <2> T \subseteq Nat /\ T # {}
    OBVIOUS
  <2> HIDE DEF T
  <2> QED BY Least
<1>2. m \in 2 .. n /\ m - 1 \in 1 .. n
  <2>1. m # 1
    BY <1>1 DEF Joins
  <2> QED BY <2>1
<1>3. g[m - 1] = h[m - 1]
  <2>1. ~(m <= m - 1)
    BY <1>2
  <2> QED BY <1>1, <1>2, <2>1
<1> QED BY <1>1, <1>2, <1>3 DEF Joins

LEMMA JoinsExist ==
  ASSUME NEW n \in Nat \ {0}, NEW S, NEW f \in [1 .. n -> Seq(S)]
  PROVE  \E join \in [1 .. n -> Seq(S)] : Joins(f, n, join)
<1> DEFINE Has(m) == \E join \in [1 .. m -> Seq(S)] : Joins(f, m, join)
           T == {m \in 1 .. n : ~Has(m)}
<1> SUFFICES ASSUME n \in T PROVE FALSE
  OBVIOUS
<1>1. PICK m \in T : \A k \in T : m <= k
  <2> T \subseteq Nat /\ T # {}
    OBVIOUS
  <2> HIDE DEF T
  <2> QED BY Least
<1>2. m # 1
  <2>1. Has(1)
    <3>1. f[1] \in Seq(S)
      OBVIOUS
    <3>2. PICK join : join = [k \in 1 .. 1 |-> f[1]]
      OBVIOUS
    <3>3. join \in [1 .. 1 -> Seq(S)] /\ join[1] = f[1]
      BY <3>1, <3>2
    <3>4. \A k : k \notin 2 .. 1
      OBVIOUS
    <3>5. Joins(f, 1, join)
      BY <3>3, <3>4 DEF Joins
    <3> QED BY <3>3, <3>5
  <2> QED BY <2>1
<1>3. m - 1 \in 1 .. n /\ m - 1 \notin T
  <2>1. m \in 1 .. n /\ m - 1 \in 1 .. n /\ ~(m <= m - 1)
    BY <1>2
  <2> QED BY <1>1, <2>1
<1>4. PICK join \in [1 .. m - 1 -> Seq(S)] : Joins(f, m - 1, join)
  BY <1>3
<1>5. PICK last : last = join[m - 1] \o f[m]
  OBVIOUS
<1>6. last \in Seq(S)
  <2>1. m \in 1 .. n /\ m - 1 \in 1 .. m - 1
    BY <1>3
  <2>2. join[m - 1] \in Seq(S) /\ f[m] \in Seq(S)
    BY <2>1
  <2> QED BY <1>5, <2>2
<1>7. PICK longer : longer = [k \in 1 .. m |-> IF k = m THEN last ELSE join[k]]
  OBVIOUS
<1>8. longer \in [1 .. m -> Seq(S)]
  <2>1. ASSUME NEW k \in 1 .. m, k # m PROVE join[k] \in Seq(S)
    <3>1. k \in 1 .. m - 1
      BY <1>3, <2>1
    <3> QED BY <3>1
  <2> QED BY <1>6, <1>7, <2>1
<1>9. Joins(f, m, longer)
  <2>1. longer[m] = last /\ \A k \in 1 .. m - 1 : longer[k] = join[k]
    BY <1>3, <1>7
  <2>2. longer[1] = f[1]
    BY <1>2, <1>3, <1>4, <2>1 DEF Joins
  <2>3. ASSUME NEW k \in 2 .. m PROVE longer[k] = longer[k - 1] \o f[k]
    <3>1. k - 1 \in 1 .. m - 1
      BY <1>3
    <3>2. CASE k = m
      BY <1>5, <2>1, <3>1, <3>2
    <3>3. CASE k # m
      <4>1. k \in 2 .. m - 1 /\ k \in 1 .. m - 1
        BY <1>3, <3>3
      <4> QED BY <1>4, <2>1, <3>1, <4>1 DEF Joins
    <3> QED BY <3>2, <3>3
  <2> QED BY <2>2, <2>3 DEF Joins
<1> QED BY <1>8, <1>9

\* FlattenSeq is the last of the joins.
LEMMA FlattenIs ==
  ASSUME NEW n \in Nat \ {0}, NEW S, NEW f \in [1 .. n -> Seq(S)],
         NEW join, Joins(f, n, join)
  PROVE  FlattenSeq(f) = join[n] /\ FlattenSeq(f) \in Seq(S)
<1>1. f \in Seq(Seq(S)) /\ Len(f) = n
  OBVIOUS
<1>2. PICK t \in [1 .. n -> Seq(S)] : Joins(f, n, t)
  BY JoinsExist
<1> DEFINE Rec(g) == g = [i \in 1 .. n |-> IF i = 1 THEN f[i] ELSE g[i - 1] \o f[i]]
           chosen == CHOOSE g : Rec(g)
<1>3. Rec(t)
  <2>1. \A k \in 1 .. n : t[k] = IF k = 1 THEN f[k] ELSE t[k - 1] \o f[k]
    <3> SUFFICES ASSUME NEW k \in 1 .. n
                 PROVE  t[k] = IF k = 1 THEN f[k] ELSE t[k - 1] \o f[k]
      OBVIOUS
    <3>1. k # 1 => k \in 2 .. n
      OBVIOUS
    <3> QED BY <1>2, <3>1 DEF Joins
  <2> QED BY <2>1
<1>4. Rec(chosen)
  BY <1>3
<1>5. Joins(f, n, chosen)
  <2> HIDE DEF chosen
  <2>1. \A k \in 1 .. n : chosen[k] = IF k = 1 THEN f[k] ELSE chosen[k - 1] \o f[k]
    BY <1>4
  <2>2. \A k \in 2 .. n : k \in 1 .. n /\ k # 1
    OBVIOUS
  <2>3. 1 \in 1 .. n
    OBVIOUS
  <2> QED BY <2>1, <2>2, <2>3 DEF Joins
<1>6. FlattenSeq(f) = chosen[n]
  BY <1>1 DEF FlattenSeq
<1> HIDE DEF chosen
<1>7. chosen[n] = join[n] /\ chosen[n] = t[n]
  BY <1>2, <1>5, JoinsUnique
<1> QED BY <1>6, <1>7


\* The first n of the sequences that E holds, joined.
UpTo(E, n) == FlattenSeq([k \in 1 .. n |-> E[k]])

LEMMA UpToZero == ASSUME NEW E PROVE UpTo(E, 0) = <<>>
<1>1. [k \in 1 .. 0 |-> E[k]] = <<>> /\ Len(<<>>) = 0
  OBVIOUS
<1> QED BY <1>1 DEF UpTo, FlattenSeq

LEMMA UpToNext ==
  ASSUME NEW S, NEW N \in Nat, NEW E \in [1 .. N -> Seq(S)], NEW n \in Nat, n + 1 <= N
  PROVE  /\ UpTo(E, n) \in Seq(S) /\ UpTo(E, n + 1) \in Seq(S)
         /\ UpTo(E, n + 1) = UpTo(E, n) \o E[n + 1]
<1>1. PICK m : m = n + 1
  OBVIOUS
<1>2. PICK f : f = [k \in 1 .. n |-> E[k]]
  OBVIOUS
<1>3. PICK g : g = [k \in 1 .. m |-> E[k]]
  OBVIOUS
<1>4. UpTo(E, n) = FlattenSeq(f) /\ UpTo(E, m) = FlattenSeq(g)
  BY <1>2, <1>3 DEF UpTo
<1>5. /\ m \in Nat \ {0} /\ m - 1 = n /\ m <= N
      /\ f \in [1 .. n -> Seq(S)] /\ g \in [1 .. m -> Seq(S)]
      /\ g[m] = E[m] /\ E[m] \in Seq(S)
  BY <1>1, <1>2, <1>3
<1>6. PICK join \in [1 .. m -> Seq(S)] : Joins(g, m, join)
  BY <1>5, JoinsExist
<1>7. FlattenSeq(g) = join[m] /\ FlattenSeq(g) \in Seq(S)
  BY <1>5, <1>6, FlattenIs
<1>8. CASE n = 0
  <2>1. UpTo(E, n) = <<>>
    BY <1>8, UpToZero
  <2>2. m = 1 /\ join[m] = g[m]
    BY <1>1, <1>6, <1>8 DEF Joins
  <2>3. <<>> \o E[m] = E[m] /\ <<>> \in Seq(S)
    BY <1>5
  <2> QED BY <1>1, <1>4, <1>5, <1>7, <2>1, <2>2, <2>3
<1>9. CASE n # 0
  <2>1. PICK before : before = [k \in 1 .. n |-> join[k]]
    OBVIOUS
  <2>2. before \in [1 .. n -> Seq(S)] /\ before[n] = join[n]
    BY <1>1, <1>6, <1>9, <2>1
  <2>3. Joins(f, n, before)
    <3>1. before[1] = f[1]
      BY <1>1, <1>2, <1>3, <1>6, <1>9, <2>1 DEF Joins
    <3>2. ASSUME NEW k \in 2 .. n PROVE before[k] = before[k - 1] \o f[k]
      <4>1. k \in 2 .. m /\ k \in 1 .. n /\ k - 1 \in 1 .. n /\ k \in 1 .. m
        BY <1>1
      <4>2. join[k] = join[k - 1] \o g[k]
        BY <1>6, <4>1 DEF Joins
      <4>3. g[k] = f[k]
        BY <1>2, <1>3, <4>1
      <4> QED BY <2>1, <4>1, <4>2, <4>3
    <3> QED BY <3>1, <3>2 DEF Joins
  <2>4. n \in Nat \ {0}
    BY <1>9
  <2>5. FlattenSeq(f) = before[n] /\ FlattenSeq(f) \in Seq(S)
    BY <1>5, <2>2, <2>3, <2>4, FlattenIs
  <2>6. join[m] = join[m - 1] \o g[m]
    <3>1. m \in 2 .. m
      BY <1>1, <1>9
    <3> QED BY <1>6, <3>1 DEF Joins
  <2> QED BY <1>1, <1>4, <1>5, <1>7, <2>2, <2>5, <2>6
<1> QED BY <1>8, <1>9

\* What has been joined stays at the front of what is joined later.
FrontOf(s, t) == Len(s) <= Len(t) /\ \A k \in 1 .. Len(s) : t[k] = s[k]

LEMMA UpToFront ==
  ASSUME NEW S, NEW N \in Nat, NEW E \in [1 .. N -> Seq(S)],
         NEW n \in 0 .. N, NEW m \in n .. N
  PROVE  UpTo(E, m) \in Seq(S) /\ FrontOf(UpTo(E, n), UpTo(E, m))
<1> DEFINE Holds(l) == UpTo(E, l) \in Seq(S) /\ FrontOf(UpTo(E, n), UpTo(E, l))
           T == {l \in n .. N : ~Holds(l)}
<1> SUFFICES ASSUME m \in T PROVE FALSE
  OBVIOUS
<1>1. PICK l \in T : \A k \in T : l <= k
  <2>1. T \subseteq Nat
    OBVIOUS
  <2>2. T # {}
    OBVIOUS
  <2> HIDE DEF T
  <2> QED BY <2>1, <2>2, Least
<1>2. l \in n .. N /\ ~Holds(l)
  OBVIOUS
<1>3. UpTo(E, n) \in Seq(S)
  <2>1. CASE n = 0
    <3>1. UpTo(E, n) = <<>>
      BY <2>1, UpToZero
    <3> QED BY <3>1
  <2>2. CASE n # 0
    <3>1. PICK j : j = n - 1
      OBVIOUS
    <3>2. j \in Nat /\ j + 1 <= N /\ j + 1 = n
      BY <2>2, <3>1
    <3>3. UpTo(E, j + 1) \in Seq(S)
      BY <3>2, UpToNext
    <3> QED BY <3>2, <3>3
  <2> QED BY <2>1, <2>2
<1>4. l # n
  <2>1. FrontOf(UpTo(E, n), UpTo(E, n))
    <3>1. PICK s : s = UpTo(E, n)
      OBVIOUS
    <3>2. FrontOf(s, s)
      <4>1. s \in Seq(S)
        BY <1>3, <3>1
      <4> QED BY <4>1 DEF FrontOf
    <3> QED BY <3>1, <3>2
  <2> QED BY <1>2, <1>3, <2>1
<1>5. PICK j : j = l - 1
  OBVIOUS
<1>6. j \in n .. N /\ j \in Nat /\ j + 1 <= N /\ j + 1 = l /\ ~(l <= j)
  BY <1>2, <1>4, <1>5
<1>7. j \notin T
  BY <1>1, <1>6
<1>8. Holds(j)
  BY <1>6, <1>7
<1> HIDE DEF T
<1>9. /\ UpTo(E, j + 1) \in Seq(S) /\ UpTo(E, j + 1) = UpTo(E, j) \o E[j + 1]
  BY <1>6, UpToNext
<1>10. PICK s, t, e : s = UpTo(E, n) /\ t = UpTo(E, j) /\ e = E[l]
  OBVIOUS
<1>11. s \in Seq(S) /\ t \in Seq(S) /\ e \in Seq(S) /\ FrontOf(s, t)
  <2>1. l \in 1 .. N
    BY <1>6
  <2> QED BY <1>3, <1>8, <1>10, <2>1
<1>12. FrontOf(s, t \o e)
  BY <1>11 DEF FrontOf
<1>13. UpTo(E, l) = t \o e
  BY <1>6, <1>9, <1>10
<1> QED BY <1>2, <1>6, <1>9, <1>10, <1>12, <1>13

-----------------------------------------------------------------------------
(* The events of the recorded commands.                                     *)

\* What an encoder of events writes, whatever its status.
LEMMA EventRecorded ==
  ASSUME NEW p
  PROVE  EventRecord(p) = [size |-> event_wal_payload_size, bytes |-> EventBytes(p)]
<1>1. /\ encode_event_wal_payload_v2(p, event_wal_payload_size).size = event_wal_payload_size
      /\ encode_event_wal_payload_v2(p, event_wal_payload_size).bytes = EventBytes(p)
  BY DEF encode_event_wal_payload_v2, encode_event_wal_payload_v1
<1> QED BY <1>1, Zenon DEF EventRecord

\* The events of a command carry its messages.
LEMMA CausedShape ==
  ASSUME NEW c, NEW S, NEW messages \in Seq(S),
         \A k \in DOMAIN messages : WellFormed(messages[k])
  PROVE  /\ IsStream(Caused(c, messages))
         /\ \A k \in DOMAIN Caused(c, messages) : IsEvent(Caused(c, messages)[k])
<1> DEFINE event(k) == EventWalPayload(c.payload.client_id, c.seq, k - 1,
                                       k = Len(messages), messages[k])
           events == [k \in 1 .. Len(messages) |-> event(k)]
           E == {event(k) : k \in 1 .. Len(messages)}
<1>1. DOMAIN messages = 1 .. Len(messages) /\ Len(messages) \in Nat
  OBVIOUS
<1>2. Caused(c, messages) = events
  BY <1>1, Zenon DEF Caused
<1>3. ASSUME NEW k \in DOMAIN messages PROVE IsEvent(event(k))
  <2>1. PICK m, b : m = messages[k] /\ b = (k = Len(messages))
    OBVIOUS
  <2>2. event(k) = EventWalPayload(c.payload.client_id, c.seq, k - 1, b, m)
    BY <2>1, Zenon
  <2>3. b \in BOOLEAN
    BY <2>1, Zenon
  <2>4. WellFormed(m)
    BY <2>1
  <2>5. PICK e : e = event(k)
    OBVIOUS
  <2>6. e = EventWalPayload(c.payload.client_id, c.seq, k - 1, b, m)
    BY <2>2, <2>5
  <2>7. /\ e = EventWalPayload(e.client_id, e.caused_by_command_sequence,
                               e.index_in_command, e.is_last_for_command, e.message)
        /\ e.message = m /\ e.is_last_for_command = b
    BY <2>6, Zenon DEF EventWalPayload
  <2>8. IsEvent(e)
    BY <2>3, <2>4, <2>7, Zenon DEF IsEvent
  <2> QED BY <2>5, <2>8
<1>4. events \in [1 .. Len(messages) -> E]
  OBVIOUS
<1>5. events \in Seq(E)
  <2> HIDE DEF events, E
  <2> QED BY <1>1, <1>4
<1>6. DOMAIN events = DOMAIN messages /\ \A k \in DOMAIN messages : events[k] = event(k)
  BY <1>1
<1> HIDE DEF events, E, event
<1> QED BY <1>2, <1>3, <1>5, <1>6 DEF IsStream

\* The messages of the events of a message, of a book with prices from low to high.
MessagesOf(m, low, high) ==
  CASE m.type = "NewLimit" /\ m.price \notin low .. high ->
         <<OrderEvent("OrderAccepted", m.id), OrderRejected(m.id, 2)>>
    [] m.type = "NewLimit" /\ m.side = Bid ->
         <<OrderEvent("OrderAccepted", m.id),
           OrderRested(m.id, m.owner_id, m.side, m.price, m.quantity)>>
    [] m.type = "NewLimit" /\ m.side = Ask ->
         <<OrderEvent("OrderAccepted", m.id),
           Trade(m.id, 90, m.owner_id, 13, m.price, m.quantity),
           OrderEvent("OrderDone", m.id)>>
    [] m.type = "SaveSnapshot" -> <<MatcherFatal(8, 0, 90)>>
    [] OTHER -> <<m>>

LEMMA EventsAre ==
  ASSUME NEW c, NEW book
  PROVE  EventsOf(c, book) = Caused(c, MessagesOf(c.payload.message, book.min_price_tick,
                                                  book.max_price_tick))
BY Zenon DEF EventsOf, MessagesOf

WellFormedAll(s) == \E S : s \in Seq(S) /\ \A k \in DOMAIN s : WellFormed(s[k])

LEMMA WellFormedTuples ==
  ASSUME NEW x, WellFormed(x), NEW y, WellFormed(y), NEW z, WellFormed(z)
  PROVE  WellFormedAll(<<x>>) /\ WellFormedAll(<<x, y>>) /\ WellFormedAll(<<x, y, z>>)
<1>1. <<x>> \in Seq({x}) /\ \A k \in DOMAIN <<x>> : <<x>>[k] = x
  OBVIOUS
<1>2. <<x, y>> \in Seq({x, y}) /\ \A k \in DOMAIN <<x, y>> : <<x, y>>[k] \in {x, y}
  OBVIOUS
<1>3. /\ <<x, y, z>> \in Seq({x, y, z})
      /\ \A k \in DOMAIN <<x, y, z>> : <<x, y, z>>[k] \in {x, y, z}
  OBVIOUS
<1> QED BY <1>1, <1>2, <1>3 DEF WellFormedAll

\* The messages of a known message are well-formed.
LEMMA MessagesWellFormed ==
  ASSUME NEW m, KnownMessage(m), NEW low, NEW high
  PROVE  WellFormedAll(MessagesOf(m, low, high))
<1> DEFINE accepted == OrderEvent("OrderAccepted", m.id)
           done == OrderEvent("OrderDone", m.id)
           rejected == OrderRejected(m.id, 2)
           trade == Trade(m.id, 90, m.owner_id, 13, m.price, m.quantity)
           rested == OrderRested(m.id, m.owner_id, m.side, m.price, m.quantity)
           fatal == MatcherFatal(8, 0, 90)
<1>1. /\ WellFormed(accepted) /\ WellFormed(done) /\ WellFormed(rejected)
      /\ WellFormed(trade) /\ WellFormed(fatal)
      /\ m.side \in {Bid, Ask} => WellFormed(rested)
  <2>1. 2 \in 0 .. 3 /\ 8 \in 0 .. 10
    OBVIOUS
  <2> QED BY <2>1, Zenon DEF WellFormed
<1>2. PICK few, rests, trades, stops, same :
        /\ few = <<accepted, rejected>> /\ rests = <<accepted, rested>>
        /\ trades = <<accepted, trade, done>> /\ stops = <<fatal>> /\ same = <<m>>
  OBVIOUS
<1>3. PICK outside \in BOOLEAN : outside = (m.price \notin low .. high)
  OBVIOUS
<1>4. MessagesOf(m, low, high) =
        CASE m.type = "NewLimit" /\ outside -> few
          [] m.type = "NewLimit" /\ m.side = Bid -> rests
          [] m.type = "NewLimit" /\ m.side = Ask -> trades
          [] m.type = "SaveSnapshot" -> stops
          [] OTHER -> same
  BY <1>2, <1>3, Zenon DEF MessagesOf
<1> HIDE DEF accepted, done, rejected, trade, rested, fatal
<1>5. CASE m.type = "NewLimit" /\ m.side \in {Bid, Ask}
  <2>1. MessagesOf(m, low, high) \in {few, rests, trades}
    BY <1>4, <1>5, SMT DEF Bid, Ask
  <2>2. WellFormedAll(few) /\ WellFormedAll(rests) /\ WellFormedAll(trades)
    BY <1>1, <1>2, <1>5, WellFormedTuples, Zenon
  <2> QED BY <2>1, <2>2
<1>6. CASE m = Signal("SaveSnapshot")
  <2>1. m.type = "SaveSnapshot"
    BY <1>6 DEF Signal
  <2>2. MessagesOf(m, low, high) = stops
    BY <1>4, <2>1, SMT
  <2>3. WellFormedAll(stops)
    BY <1>1, <1>2, WellFormedTuples, Zenon
  <2> QED BY <2>2, <2>3
<1>7. ASSUME m.type \in {"LoadSnapshot", "Shutdown", "StartReplay"}, WellFormed(m)
      PROVE  WellFormedAll(MessagesOf(m, low, high))
  <2>1. MessagesOf(m, low, high) = same
    BY <1>4, <1>7, SMT
  <2>2. WellFormedAll(same)
    BY <1>2, <1>7, WellFormedTuples, Zenon
  <2> QED BY <2>1, <2>2
<1>8. ASSUME NEW saved, NEW epoch, m = LoadSnapshot(saved, epoch)
      PROVE  m.type = "LoadSnapshot" /\ WellFormed(m)
  <2>1. m.type = "LoadSnapshot"
    BY <1>8 DEF LoadSnapshot
  <2> QED BY <1>8, <2>1, Zenon DEF WellFormed
<1>9. ASSUME NEW type \in {"Shutdown", "StartReplay"}, m = Signal(type)
      PROVE  m.type \in {"Shutdown", "StartReplay"} /\ WellFormed(m)
  <2>1. m.type = type
    BY <1>9 DEF Signal
  <2>2. type \in {"SaveSnapshot", "Shutdown", "StartReplay", "StopReplay"}
    BY <1>9
  <2>3. WellFormed(m)
    BY <1>9, <2>2, Zenon DEF WellFormed
  <2> QED BY <2>1, <2>3
<1> QED BY <1>5, <1>6, <1>7, <1>8, <1>9 DEF KnownMessage

\* The events of a command that a matcher may get.
LEMMA EventsShape ==
  ASSUME NEW c, NEW book, KnownMessage(c.payload.message)
  PROVE  /\ IsStream(EventsOf(c, book))
         /\ \A k \in DOMAIN EventsOf(c, book) : IsEvent(EventsOf(c, book)[k])
<1>1. PICK s : s = MessagesOf(c.payload.message, book.min_price_tick, book.max_price_tick)
  OBVIOUS
<1>2. WellFormedAll(s)
  BY <1>1, MessagesWellFormed
<1>3. EventsOf(c, book) = Caused(c, s)
  BY <1>1, EventsAre
<1> QED BY <1>2, <1>3, CausedShape DEF WellFormedAll

\* The events of a command are those of its record.
LEMMA SameEvents ==
  ASSUME NEW c, NEW d, c.payload = d.payload, c.seq = d.seq,
         NEW book, NEW config, book.min_price_tick = config.min_price_tick,
         book.max_price_tick = config.max_price_tick
  PROVE  EventsOf(c, book) = EventsOf(d, config)
<1>1. \A s : Caused(c, s) = Caused(d, s)
  BY Zenon DEF Caused
<1> QED BY <1>1, EventsAre, Zenon

\* The events of the k-th command of the Command WAL.
RecordedOf(k) == EventsOf(Decoded(log[k]), RecordedBook)

LEMMA RecordedShape ==
  ASSUME Reading, NEW k \in 1 .. Len(log)
  PROVE  IsStream(RecordedOf(k))
<1>1. IsEntry(log[k], k)
  BY TypedLengths DEF Reading, Recording
<1>2. PICK c : c = Decoded(log[k])
  OBVIOUS
<1>3. c.payload = decode_command_wal_payload_v2(log[k].record).payload
  BY <1>2 DEF Decoded, Command
<1>4. KnownMessage(c.payload.message)
  BY <1>1, <1>3, EntryKnown
<1> QED BY <1>2, <1>4, EventsShape DEF RecordedOf

\* The recorded events of the first n commands begin those of all of them, and are
\* followed by those of the next one.
LEMMA RecordedEvents ==
  ASSUME Reading, NEW n \in 0 .. Len(log)
  PROVE  /\ IsStream(EventsUpTo(n)) /\ FrontOf(EventsUpTo(n), EventsUpTo(Len(log)))
         /\ n < Len(log) =>
              /\ EventsUpTo(n + 1) = EventsUpTo(n) \o RecordedOf(n + 1)
              /\ \E S : /\ EventsUpTo(n) \in Seq(S) /\ EventsUpTo(n + 1) \in Seq(S)
                        /\ RecordedOf(n + 1) \in Seq(S)
<1>1. PICK N \in Nat : N = Len(log)
  BY TypedLengths DEF Reading
<1>2. PICK S : \A k \in 1 .. N : \A i \in Nat : RecordedOf(k)[i] \in S
  <2> DEFINE T == UNION {{RecordedOf(k)[i] : i \in Nat} : k \in 1 .. N}
  <2>1. \A k \in 1 .. N : \A i \in Nat : RecordedOf(k)[i] \in T
    OBVIOUS
  <2> HIDE DEF T
  <2> QED BY <2>1
<1>3. PICK E : E = [k \in 1 .. N |-> RecordedOf(k)]
  OBVIOUS
<1>4. ASSUME NEW k \in 1 .. N PROVE RecordedOf(k) \in Seq(S)
  <2>1. PICK s : s = RecordedOf(k)
    OBVIOUS
  <2>2. IsStream(s)
    BY <1>1, <1>4, <2>1, RecordedShape
  <2>3. PICK T : s \in Seq(T)
    BY <2>2 DEF IsStream
  <2>4. /\ Len(s) \in Nat /\ s = [i \in 1 .. Len(s) |-> s[i]]
    BY <2>3
  <2>5. \A i \in 1 .. Len(s) : s[i] \in S
    BY <1>2, <1>4, <2>1, <2>4
  <2>6. s \in [1 .. Len(s) -> S]
    BY <2>4, <2>5
  <2> QED BY <2>1, <2>4, <2>6
<1>5. E \in [1 .. N -> Seq(S)] /\ \A k \in 1 .. N : E[k] = RecordedOf(k)
  BY <1>3, <1>4
<1>6. ASSUME NEW m \in 0 .. N PROVE EventsUpTo(m) = UpTo(E, m)
  <2>1. [k \in 1 .. m |-> RecordedOf(k)] = [k \in 1 .. m |-> E[k]]
    <3>1. \A k \in 1 .. m : k \in 1 .. N
      BY <1>1, <1>6
    <3> QED BY <1>5, <3>1, Zenon
  <2>2. EventsUpTo(m) = FlattenSeq([k \in 1 .. m |-> RecordedOf(k)])
    BY Zenon DEF EventsUpTo, RecordedOf
  <2> QED BY <2>1, <2>2, Zenon DEF UpTo
<1>7. n \in 0 .. N /\ N \in n .. N /\ n \in n .. N /\ N \in 0 .. N
  BY <1>1
<1>8. UpTo(E, n) \in Seq(S) /\ FrontOf(UpTo(E, n), UpTo(E, N))
  BY <1>1, <1>5, <1>7, UpToFront
<1>9. EventsUpTo(n) = UpTo(E, n) /\ EventsUpTo(N) = UpTo(E, N)
  BY <1>6, <1>7
<1>10. ASSUME n < N
       PROVE  /\ EventsUpTo(n + 1) = EventsUpTo(n) \o RecordedOf(n + 1)
              /\ EventsUpTo(n) \in Seq(S) /\ EventsUpTo(n + 1) \in Seq(S)
              /\ RecordedOf(n + 1) \in Seq(S)
  <2>1. n \in Nat /\ n + 1 <= N /\ n + 1 \in 0 .. N /\ n + 1 \in 1 .. N
    BY <1>7, <1>10
  <2>2. /\ UpTo(E, n + 1) \in Seq(S) /\ UpTo(E, n + 1) = UpTo(E, n) \o E[n + 1]
    BY <1>5, <2>1, UpToNext
  <2>3. EventsUpTo(n + 1) = UpTo(E, n + 1) /\ E[n + 1] = RecordedOf(n + 1)
    BY <1>5, <1>6, <2>1
  <2> QED BY <1>4, <1>8, <1>9, <2>1, <2>2, <2>3
<1>11. IsStream(EventsUpTo(n))
  BY <1>8, <1>9 DEF IsStream
<1> QED BY <1>1, <1>8, <1>9, <1>10, <1>11

\* What the n-th command adds to the events.
LEMMA RecordedNext ==
  ASSUME Reading, NEW n \in 0 .. Len(log), n < Len(log)
  PROVE  /\ Len(EventsUpTo(n)) \in Nat /\ Len(RecordedOf(n + 1)) \in Nat
         /\ Len(EventsUpTo(n + 1)) = Len(EventsUpTo(n)) + Len(RecordedOf(n + 1))
         /\ \A k \in 1 .. Len(RecordedOf(n + 1)) :
              EventsUpTo(Len(log))[Len(EventsUpTo(n)) + k] = RecordedOf(n + 1)[k]
<1>1. PICK s, t, e, w : /\ s = EventsUpTo(n) /\ t = EventsUpTo(n + 1)
                        /\ e = RecordedOf(n + 1) /\ w = EventsUpTo(Len(log))
  OBVIOUS
<1>2. t = s \o e /\ \E S : s \in Seq(S) /\ t \in Seq(S) /\ e \in Seq(S)
  BY <1>1, RecordedEvents
<1>3. n + 1 \in 0 .. Len(log)
  BY TypedLengths DEF Reading
<1>4. FrontOf(t, w)
  BY <1>1, <1>3, RecordedEvents
<1>5. PICK S : s \in Seq(S) /\ t \in Seq(S) /\ e \in Seq(S)
  BY <1>2
<1>6. /\ Len(s) \in Nat /\ Len(e) \in Nat /\ Len(t) = Len(s) + Len(e)
      /\ \A k \in 1 .. Len(e) : t[Len(s) + k] = e[k]
  BY <1>2, <1>5
<1>7. \A k \in 1 .. Len(e) : Len(s) + k \in 1 .. Len(t)
  BY <1>6
<1>8. \A k \in 1 .. Len(e) : w[Len(s) + k] = e[k]
  BY <1>4, <1>6, <1>7 DEF FrontOf
<1> QED BY <1>1, <1>6, <1>8

-----------------------------------------------------------------------------
(* Verification: the invariant.                                              *)

\* The k-th published event is the recorded one, in the range.
Agrees(k) == /\ comparator.first + k - 1 <= comparator.last
             /\ comparator.first + k - 1 \in DOMAIN eventLog
             /\ EventBytes(emitted[k]) = eventLog[comparator.first + k - 1].bytes

\* What a verification has.
Tidy ==
  /\ IsStream(emitted) /\ IsStream(eventLog) /\ IsStream(outgoing)
  /\ \A k \in DOMAIN outgoing : IsEvent(outgoing[k])
  /\ \A k \in DOMAIN eventLog : eventLog[k].size = event_wal_payload_size
  /\ \A k \in DOMAIN ring : KnownMessage(ring[k].payload.message)
  /\ comparator \in [first : Nat \ {0}, next : Nat, last : Nat,
                     status : {"Ok", "Complete", "UnexpectedEvent",
                               "ExpectedEventMissing", "EventMismatch"}, at : Nat]
  /\ bookConfig.min_price_tick = RecordedBook.min_price_tick
  /\ bookConfig.max_price_tick = RecordedBook.max_price_tick
Refuted == comparator.status \notin {"Ok", "Complete"}

\* The last event published is the first that is not the recorded one.
StoppedThere ==
  /\ Refuted /\ Len(emitted) >= 1 /\ ~Agrees(Len(emitted))
  /\ \A k \in 1 .. Len(emitted) - 1 : Agrees(k)
AllAgree == \A k \in 1 .. Len(emitted) : Agrees(k)
WholeRange == Len(emitted) = comparator.last - comparator.first + 1

Ongoing == \/ comparator.status = "Ok" /\ comparator.next = NextEvent /\ AllAgree
           \/ StoppedThere
Settled == \/ comparator.status = "Complete" /\ WholeRange /\ AllAgree
           \/ Refuted /\ ~WholeRange /\ AllAgree
           \/ StoppedThere

\* The events of all recorded commands.
AllEvents == EventsUpTo(Len(log))

\* The verifying matcher is past n of the recorded commands.
PastCommand(n) ==
  /\ n = source.next - 1 - Len(pending) - Len(ring)
  /\ \A i \in DOMAIN ring : /\ ring[i].seq = n + i
                            /\ ring[i].payload = Decoded(log[n + i]).payload
  /\ comparator.first - 1 + Len(emitted) + Len(outgoing) = Len(EventsUpTo(n))

\* A verification of what nobody has changed meets the recorded commands and events.
SourceOnTrack ==
  /\ source.foreign = <<>> /\ source.last = Len(log) /\ source.next <= Len(log) + 1
  /\ source.complete => pending = <<>> /\ source.next = Len(log) + 1
EventsOnTrack ==
  /\ comparator.status = "Ok" /\ comparator.last = Len(AllEvents)
  /\ \A k \in comparator.first .. Len(AllEvents) :
       k \in DOMAIN eventLog /\ eventLog[k] = EventRecord(AllEvents[k])
  /\ \A k \in DOMAIN outgoing :
       outgoing[k] = AllEvents[comparator.first - 1 + Len(emitted) + k]
OnTrack == SourceOnTrack /\ EventsOnTrack /\ \E n \in 0 .. Len(log) : PastCommand(n)

Checking == Reading /\ consumed = <<>> /\ Tidy
Running == verifier = "Running" /\ Checking /\ Ongoing /\ (intact => OnTrack)
Finished == verifier = "Finished" /\ Checking /\ Settled
            /\ (intact => comparator.status = "Complete")

VInv == (verifier = "Off" /\ IInv) \/ Running \/ Finished

-----------------------------------------------------------------------------
(* Verification: what its steps leave alone.                                 *)

LEMMA EventsStay ==
  ASSUME log' = log
  PROVE  AllEvents' = AllEvents /\ \A n : EventsUpTo(n)' = EventsUpTo(n)
BY Zenon DEF AllEvents, EventsUpTo

LEMMA ReadingStays ==
  ASSUME Reading, Types', UNCHANGED <<source, pending, sent, log>>
  PROVE  Reading'
<1>1. source' = source /\ pending' = pending /\ sent' = sent /\ log' = log
  OBVIOUS
<1>2. \A c : ReadFrom(c) => ReadFrom(c)'
  BY <1>1, ReadStays
<1>3. SourceInOrder'
  BY <1>1, <1>2 DEF Reading, SourceInOrder
<1>4. Recording'
  BY <1>1 DEF Reading, Recording
<1> QED BY <1>3, <1>4 DEF Reading

LEMMA OngoingStays ==
  ASSUME Ongoing, UNCHANGED <<comparator, eventLog, emitted>>
  PROVE  Ongoing'
<1>1. comparator' = comparator /\ eventLog' = eventLog /\ emitted' = emitted
  OBVIOUS
<1>2. \A k : Agrees(k)' <=> Agrees(k)
  BY <1>1 DEF Agrees
<1> QED BY <1>1, <1>2 DEF Ongoing, StoppedThere, Refuted, AllAgree, NextEvent

-----------------------------------------------------------------------------
(* Verification: its start.                                                  *)

AllRecords == [k \in DOMAIN AllEvents |-> EventRecord(AllEvents[k])]
FirstEvent(first) == Len(EventsUpTo(first - 1)) + 1

IsRecord(r) == r = [size |-> event_wal_payload_size, bytes |-> r.bytes]
IsEventLog(l) == IsStream(l) /\ \A k \in DOMAIN l : l[k].size = event_wal_payload_size

\* An Event WAL without its end, or with another field, is one.
LEMMA EventLogsShape ==
  ASSUME NEW records, IsStream(records), \A k \in DOMAIN records : IsRecord(records[k]),
         NEW l \in EventLogs(records)
  PROVE  IsEventLog(l)
<1>1. PICK N \in Nat : N = Len(records) /\ DOMAIN records = 1 .. N
  BY StreamLength
<1>2. PICK S : records \in Seq(S)
  BY DEF IsStream
<1>3. \A k \in 1 .. N : records[k].size = event_wal_payload_size
  <2>1. ASSUME NEW r, IsRecord(r) PROVE r.size = event_wal_payload_size
    BY <2>1 DEF IsRecord
  <2> QED BY <1>1, <2>1
<1>4. CASE l = records
  BY <1>1, <1>3, <1>4 DEF IsEventLog
<1>5. ASSUME NEW n \in 0 .. N - 1, l = SubSeq(records, 1, n)
      PROVE  IsEventLog(l)
  <2>1. /\ l \in Seq(S) /\ Len(l) = n /\ DOMAIN l = 1 .. n
        /\ \A k \in 1 .. n : l[k] = records[k]
    BY <1>1, <1>2, <1>5
  <2>2. \A k \in 1 .. n : k \in 1 .. N
    BY <1>1
  <2> QED BY <1>3, <2>1, <2>2 DEF IsEventLog, IsStream
<1>6. ASSUME NEW k \in 1 .. N, NEW at, l = [records EXCEPT ![k] = Altered(@, at)]
      PROVE  IsEventLog(l)
  <2>1. PICK r : r = records[k]
    OBVIOUS
  <2>2. PICK a : a = Altered(r, at)
    OBVIOUS
  <2>3. a.size = r.size
    <3>1. IsRecord(r)
      BY <1>1, <2>1
    <3>2. "size" \in DOMAIN r
      BY <3>1 DEF IsRecord
    <3>3. PICK b : b = [r.bytes EXCEPT ![at] = @ + 1]
      OBVIOUS
    <3>4. Altered(r, at) = [r EXCEPT !.bytes = b]
      BY <3>3 DEF Altered
    <3> QED BY <2>2, <3>2, <3>4
  <2>4. l = [records EXCEPT ![k] = a]
    BY <1>6, <2>1, <2>2
  <2>5. /\ DOMAIN l = 1 .. N /\ l[k] = a
        /\ \A j \in 1 .. N : j # k => l[j] = records[j]
    BY <1>1, <2>4
  <2>6. l \in Seq(S \cup {a})
    <3>1. l \in [1 .. N -> S \cup {a}]
      BY <1>1, <1>2, <2>4
    <3> QED BY <3>1
  <2>7. \A j \in 1 .. N : l[j].size = event_wal_payload_size
    BY <1>3, <2>1, <2>3, <2>5
  <2> QED BY <2>5, <2>6, <2>7 DEF IsEventLog, IsStream
<1>7. \/ l \in {records}
      \/ l \in {SubSeq(records, 1, n) : n \in 0 .. Len(records) - 1}
      \/ l \in {[records EXCEPT ![k] = Altered(@, at)] : k \in DOMAIN records, at \in Offsets}
  <2>1. l \in EventLogs(records)
    OBVIOUS
  <2> QED BY <2>1 DEF EventLogs
<1>8. ASSUME l \in {SubSeq(records, 1, n) : n \in 0 .. Len(records) - 1}
      PROVE  IsEventLog(l)
  <2>1. PICK n \in 0 .. Len(records) - 1 : l = SubSeq(records, 1, n)
    BY <1>8
  <2> QED BY <1>1, <1>5, <2>1
<1>9. ASSUME l \in {[records EXCEPT ![k] = Altered(@, at)] : k \in DOMAIN records, at \in Offsets}
      PROVE  IsEventLog(l)
  <2>1. PICK k \in DOMAIN records, at \in Offsets : l = [records EXCEPT ![k] = Altered(@, at)]
    BY <1>9
  <2> QED BY <1>1, <1>6, <2>1
<1>10. ASSUME l \in {records} PROVE IsEventLog(l)
  BY <1>4, <1>10
<1> QED BY <1>7, <1>8, <1>9, <1>10

LEMMA AllRecordsShape ==
  ASSUME Reading
  PROVE  /\ IsStream(AllEvents) /\ IsStream(AllRecords) /\ Len(AllRecords) = Len(AllEvents)
         /\ DOMAIN AllRecords = 1 .. Len(AllEvents) /\ Len(AllEvents) \in Nat
         /\ \A k \in 1 .. Len(AllEvents) : AllRecords[k] = EventRecord(AllEvents[k])
         /\ \A k \in DOMAIN AllRecords : IsRecord(AllRecords[k])
<1>1. Len(log) \in 0 .. Len(log)
  BY TypedLengths DEF Reading
<1>2. IsStream(AllEvents)
  BY <1>1, RecordedEvents DEF AllEvents
<1>3. PICK N \in Nat : N = Len(AllEvents) /\ DOMAIN AllEvents = 1 .. N
  BY <1>2, StreamLength
<1>4. /\ DOMAIN AllRecords = 1 .. N
      /\ \A k \in 1 .. N : AllRecords[k] = EventRecord(AllEvents[k])
  BY <1>3 DEF AllRecords
<1>5. IsStream(AllRecords)
  <2>1. PICK S : \A k \in 1 .. N : EventRecord(AllEvents[k]) \in S
    <3> DEFINE T == {EventRecord(AllEvents[k]) : k \in 1 .. N}
    <3>1. \A k \in 1 .. N : EventRecord(AllEvents[k]) \in T
      OBVIOUS
    <3> HIDE DEF T
    <3> QED BY <3>1
  <2>2. AllRecords \in [1 .. N -> S]
    BY <1>3, <2>1 DEF AllRecords
  <2>3. AllRecords \in Seq(S)
    BY <2>2
  <2> QED BY <2>3 DEF IsStream
<1>6. \A p : IsRecord(EventRecord(p))
  <2>1. ASSUME NEW p PROVE IsRecord(EventRecord(p))
    <3>1. PICK r : r = EventRecord(p)
      OBVIOUS
    <3>2. r = [size |-> event_wal_payload_size, bytes |-> EventBytes(p)]
      BY <3>1, EventRecorded
    <3>3. IsRecord(r)
      BY <3>2 DEF IsRecord
    <3> QED BY <3>1, <3>3
  <2> QED BY <2>1
<1>7. Len(AllRecords) = N
  BY <1>4, <1>5, StreamLength
<1> QED BY <1>2, <1>3, <1>4, <1>5, <1>6, <1>7

LEMMA DeviationParts ==
  ASSUME NEW records, NEW first, NEW last, NEW d \in Deviation(records, first, last)
  PROVE  /\ d.log \in EventLogs(records) /\ d.foreign \in ForeignAmong(first, last)
         /\ d.late \in {0 - 1, 0, 1}
<1>1. records \in EventLogs(records) /\ <<>> \in ForeignAmong(first, last)
  <2>1. <<>> \in ForeignAmong(first, last)
    BY SMT DEF ForeignAmong
  <2>2. records \in EventLogs(records)
    BY SMT DEF EventLogs
  <2> QED BY <2>1, <2>2
<1>2. ASSUME NEW l \in EventLogs(records), d = [log |-> l, foreign |-> <<>>, late |-> 0]
      PROVE  d.log = l /\ d.foreign = <<>> /\ d.late = 0
  BY <1>2
<1>3. ASSUME NEW f \in ForeignAmong(first, last),
             d = [log |-> records, foreign |-> f, late |-> 0]
      PROVE  d.log = records /\ d.foreign = f /\ d.late = 0
  BY <1>3
<1>4. ASSUME NEW n \in {0 - 1, 1}, d = [log |-> records, foreign |-> <<>>, late |-> n]
      PROVE  d.log = records /\ d.foreign = <<>> /\ d.late = n
  BY <1>4
<1>5. \/ \E l \in EventLogs(records) : d = [log |-> l, foreign |-> <<>>, late |-> 0]
      \/ \E f \in ForeignAmong(first, last) : d = [log |-> records, foreign |-> f, late |-> 0]
      \/ \E n \in {0 - 1, 1} : d = [log |-> records, foreign |-> <<>>, late |-> n]
  BY Zenon DEF Deviation
<1>6. CASE \E l \in EventLogs(records) : d = [log |-> l, foreign |-> <<>>, late |-> 0]
  BY <1>1, <1>2, <1>6, Zenon
<1>7. CASE \E f \in ForeignAmong(first, last) : d = [log |-> records, foreign |-> f, late |-> 0]
  BY <1>1, <1>3, <1>7, Zenon
<1>8. CASE \E n \in {0 - 1, 1} : d = [log |-> records, foreign |-> <<>>, late |-> n]
  BY <1>1, <1>4, <1>8, Zenon
<1> QED BY <1>5, <1>6, <1>7, <1>8

\* What a deviation does to the start.
StartsFrom(first, d) ==
  /\ eventLog' = d.log
  /\ comparator' = [first |-> FirstEvent(first), next |-> FirstEvent(first),
                    last |-> Len(AllRecords) + d.late, status |-> "Ok", at |-> 0]
  /\ FirstEvent(first) <= Len(AllRecords) + d.late
  /\ source' = Source(first, Len(log), d.foreign)
  /\ intact' = (d.foreign = <<>> /\ d.late = 0 /\
                  \A k \in FirstEvent(first) .. Len(AllRecords) :
                    k \in DOMAIN d.log /\ d.log[k] = AllRecords[k])

LEMMA StartFacts ==
  ASSUME NEW first, NEW book, Start(first, book)
  PROVE  /\ ring' = <<>> /\ durable' = 0 /\ nextLive' = 1 /\ consumed' = <<>>
         /\ copied' = NoCommand /\ liveResume' = 0
         /\ UNCHANGED <<failed, persistence, mode, log>>
         /\ pending' = <<>> /\ sent' = <<>> /\ bookConfig' = book /\ outgoing' = <<>>
         /\ emitted' = <<>> /\ producer' = "Closed" /\ verifier' = "Running"
         /\ ManifestHolds(book)
         /\ \E d \in Deviation(AllRecords, first, Len(log)) : StartsFrom(first, d)
<1>1. \E d \in Deviation(AllRecords, first, Len(log)) : StartsFrom(first, d)
  BY Zenon DEF Start, OpenComparator, RangeOk, AllRecords, AllEvents, FirstEvent, StartsFrom
<1>2. /\ ring' = <<>> /\ durable' = 0 /\ nextLive' = 1 /\ consumed' = <<>>
      /\ copied' = NoCommand /\ liveResume' = 0
      /\ UNCHANGED <<failed, persistence, mode, log>>
  BY Zenon DEF Start, FreshTract
<1>3. /\ pending' = <<>> /\ sent' = <<>> /\ bookConfig' = book /\ outgoing' = <<>>
      /\ emitted' = <<>> /\ producer' = "Closed" /\ verifier' = "Running"
      /\ ManifestHolds(book)
  BY Zenon DEF Start
<1> QED BY <1>1, <1>2, <1>3

LEMMA EmptyStream == IsStream(<<>>) /\ Len(<<>>) = 0 /\ DOMAIN <<>> = {}
<1>1. <<>> \in Seq({}) /\ Len(<<>>) = 0 /\ DOMAIN <<>> = {}
  OBVIOUS
<1> QED BY <1>1 DEF IsStream

LEMMA StartReading ==
  ASSUME IInv, NEW first \in DOMAIN log, NEW book, Start(first, book)
  PROVE  Reading'
<1>1. Reading /\ Types
  BY SessionReads DEF Reading
<1>2. PICK d \in Deviation(AllRecords, first, Len(log)) : StartsFrom(first, d)
  BY StartFacts
<1>3. d.foreign \in ForeignAmong(first, Len(log)) /\ source' = Source(first, Len(log), d.foreign)
  BY <1>2, DeviationParts DEF StartsFrom
<1>4. first \in Nat \ {0} /\ Len(log) \in Nat
  BY <1>1, TypedLengths
<1>5. /\ source' \in [first : Nat \ {0}, next : Nat, last : Nat, complete : BOOLEAN,
                      foreign : {source'.foreign}, failed : BOOLEAN]
      /\ source'.first = first /\ source'.next = first /\ source'.failed = FALSE
      /\ source'.complete = FALSE /\ source'.foreign = d.foreign
  BY <1>3, <1>4 DEF Source
<1>6. IsCommand(NoCommand)
  BY DEF IsCommand, NoCommand, Command, CommandWalPayload
<1>7. Types'
  <2>1. TypeOK'
    <3>1. /\ failed' \in BOOLEAN /\ persistence' \in {"Idle", "Written", "Published", "Refused"}
          /\ mode' \in {"Live", "Replay", "Restoring"}
      BY <1>1, StartFacts, Zenon DEF Types, TypeOK
    <3>2. /\ IsCommand(copied') /\ producer' = "Closed" /\ ring' = <<>> /\ pending' = <<>>
          /\ nextLive' = 1 /\ durable' = 0 /\ liveResume' = 0
      BY <1>6, StartFacts
    <3>3. /\ source'.next \in Nat /\ source'.complete \in BOOLEAN
          /\ source'.failed \in BOOLEAN
      BY <1>4, <1>5
    <3>4. /\ Len(ring') = 0 /\ Len(pending') = 0 /\ DOMAIN ring' = {}
      BY <3>2, EmptyStream
    <3>5. Capacity \in Nat
      BY ReplayAssumption
    <3> QED BY <3>1, <3>2, <3>3, <3>4, <3>5 DEF TypeOK
  <2> QED BY <1>1, <1>5, <2>1, StartFacts, EmptyStream DEF Types
<1>8. Recording'
  BY <1>1, StartFacts DEF Reading, Recording
<1>9. SourceInOrder'
  <2>1. \A k \in DOMAIN source'.foreign : source'.foreign[k] \in ForeignRecords
    BY <1>3, <1>5, ForeignElements
  <2>2. source'.next = source'.first + Len(sent')
    BY <1>4, <1>5, StartFacts, EmptyStream
  <2> QED BY <1>5, <2>1, <2>2, StartFacts, EmptyStream DEF SourceInOrder
<1> QED BY <1>7, <1>8, <1>9 DEF Reading

\* A validated manifest is that of the book's configuration.
LEMMA ManifestOfBook ==
  ASSUME NEW book, ManifestHolds(book)
  PROVE  /\ book.min_price_tick = RecordedBook.min_price_tick
         /\ book.max_price_tick = RecordedBook.max_price_tick
<1>1. PICK m, n : /\ m = ReplayManifest(CommandConfig, EventConfig, RecordedBook)
                  /\ n = ReplayManifest(CommandConfig, EventConfig, book)
  OBVIOUS
<1>2. m = n
  BY <1>1, Zenon DEF ManifestHolds, validate_replay_manifest
<1>3. m.configuration_hash = n.configuration_hash
  BY <1>2
<1>4. ASSUME NEW b PROVE ReplayManifest(CommandConfig, EventConfig, b).configuration_hash
                          = hash_order_book_config(b)
  BY DEF ReplayManifest
<1>5. hash_order_book_config(RecordedBook) = hash_order_book_config(book)
  BY <1>1, <1>3, <1>4
<1>6. <<RecordedBook.min_price_tick, RecordedBook.max_price_tick, RecordedBook.max_orders>>
        = <<book.min_price_tick, book.max_price_tick, book.max_orders>>
  BY <1>5, Zenon DEF hash_order_book_config
<1>7. PICK s, t : /\ s = <<RecordedBook.min_price_tick, RecordedBook.max_price_tick,
                           RecordedBook.max_orders>>
                  /\ t = <<book.min_price_tick, book.max_price_tick, book.max_orders>>
  OBVIOUS
<1>8. s = t /\ s[1] = t[1] /\ s[2] = t[2]
  BY <1>6, <1>7
<1>9. /\ s[1] = RecordedBook.min_price_tick /\ s[2] = RecordedBook.max_price_tick
      /\ t[1] = book.min_price_tick /\ t[2] = book.max_price_tick
  BY <1>7
<1> QED BY <1>8, <1>9

LEMMA StartTidy ==
  ASSUME Reading, NEW first \in DOMAIN log, NEW book, Start(first, book)
  PROVE  Tidy' /\ Ongoing'
<1>1. PICK d \in Deviation(AllRecords, first, Len(log)) : StartsFrom(first, d)
  BY StartFacts
<1>2. IsEventLog(eventLog')
  <2>1. d.log \in EventLogs(AllRecords)
    BY <1>1, DeviationParts
  <2> QED BY <1>1, <2>1, AllRecordsShape, EventLogsShape DEF StartsFrom
<1>3. first - 1 \in 0 .. Len(log)
  BY TypedLengths DEF Reading
<1>4. FirstEvent(first) \in Nat \ {0} /\ Len(AllRecords) \in Nat
  <2>1. PICK s : s = EventsUpTo(first - 1)
    OBVIOUS
  <2>2. IsStream(s)
    BY <1>3, <2>1, RecordedEvents
  <2>3. Len(s) \in Nat
    BY <2>2, StreamLength
  <2> QED BY <2>1, <2>3, AllRecordsShape DEF FirstEvent
<1>5. d.late \in {0 - 1, 0, 1}
  BY <1>1, DeviationParts
<1>6. PICK f, l : f = FirstEvent(first) /\ l = Len(AllRecords) + d.late
  OBVIOUS
<1>7. f \in Nat \ {0} /\ l \in Nat
  BY <1>1, <1>4, <1>5, <1>6 DEF StartsFrom
<1>8. comparator' = [first |-> f, next |-> f, last |-> l, status |-> "Ok", at |-> 0]
  BY <1>1, <1>6 DEF StartsFrom
<1>9. Tidy'
  <2>1. comparator' \in [first : Nat \ {0}, next : Nat, last : Nat,
                         status : {"Ok", "Complete", "UnexpectedEvent",
                                   "ExpectedEventMissing", "EventMismatch"}, at : Nat]
    BY <1>7, <1>8
  <2>2. /\ bookConfig'.min_price_tick = RecordedBook.min_price_tick
        /\ bookConfig'.max_price_tick = RecordedBook.max_price_tick
    BY StartFacts, ManifestOfBook
  <2>3. /\ IsStream(emitted') /\ IsStream(outgoing') /\ DOMAIN outgoing' = {}
        /\ DOMAIN ring' = {}
    BY StartFacts, EmptyStream
  <2> QED BY <1>2, <2>1, <2>2, <2>3 DEF Tidy, IsEventLog
<1>10. Ongoing'
  <2>1. Len(emitted') = 0
    BY StartFacts, EmptyStream
  <2>2. comparator'.status = "Ok" /\ comparator'.next = comparator'.first + Len(emitted')
    BY <1>7, <1>8, <2>1
  <2>3. AllAgree'
    <3>1. \A k : k \notin 1 .. 0
      OBVIOUS
    <3> QED BY <2>1, <3>1 DEF AllAgree
  <2> QED BY <2>2, <2>3 DEF Ongoing, NextEvent
<1> QED BY <1>9, <1>10

LEMMA StartOnTrack ==
  ASSUME Reading, NEW first \in DOMAIN log, NEW book, Start(first, book), intact'
  PROVE  OnTrack'
<1>1. PICK d \in Deviation(AllRecords, first, Len(log)) : StartsFrom(first, d)
  BY StartFacts
<1>2. first \in Nat \ {0} /\ first <= Len(log) /\ Len(log) \in Nat
  BY TypedLengths DEF Reading
<1>3. PICK n, N : n = first - 1 /\ N = Len(log)
  OBVIOUS
<1>4. n \in 0 .. Len(log) /\ n + 1 = first /\ N \in Nat
  BY <1>2, <1>3
<1>5. /\ d.foreign = <<>> /\ d.late = 0
      /\ \A k \in FirstEvent(first) .. Len(AllRecords) :
           k \in DOMAIN d.log /\ d.log[k] = AllRecords[k]
  BY <1>1 DEF StartsFrom
<1>6. log' = log /\ AllEvents' = AllEvents /\ \A m : EventsUpTo(m)' = EventsUpTo(m)
  BY StartFacts, EventsStay
<1>7. Len(EventsUpTo(n)) \in Nat /\ FirstEvent(first) = Len(EventsUpTo(n)) + 1
  <2>1. PICK s : s = EventsUpTo(n)
    OBVIOUS
  <2>2. IsStream(s)
    BY <1>4, <2>1, RecordedEvents
  <2>3. Len(s) \in Nat
    BY <2>2, StreamLength
  <2> QED BY <1>3, <2>1, <2>3 DEF FirstEvent
<1>8. /\ Len(AllRecords) = Len(AllEvents) /\ Len(AllEvents) \in Nat
      /\ \A k \in 1 .. Len(AllEvents) : AllRecords[k] = EventRecord(AllEvents[k])
  BY AllRecordsShape
<1>9. PICK f : f = FirstEvent(first)
  OBVIOUS
<1>10. SourceOnTrack'
  <2>1. source' = Source(first, N, <<>>)
    BY <1>1, <1>3, <1>5 DEF StartsFrom
  <2>2. /\ source'.foreign = <<>> /\ source'.last = N /\ source'.next = first
        /\ source'.complete = FALSE
    BY <2>1 DEF Source
  <2> QED BY <1>2, <1>3, <1>6, <2>2 DEF SourceOnTrack
<1>11. comparator' = [first |-> f, next |-> f, last |-> Len(AllEvents), status |-> "Ok", at |-> 0]
  <2>1. Len(AllRecords) + d.late = Len(AllEvents)
    BY <1>5, <1>8
  <2> QED BY <1>1, <1>9, <2>1, Zenon DEF StartsFrom
<1>12. comparator'.first = f /\ comparator'.last = Len(AllEvents) /\ comparator'.status = "Ok"
  BY <1>11
<1>13. EventsOnTrack'
  <2>1. eventLog' = d.log
    BY <1>1 DEF StartsFrom
  <2>2. \A k \in f .. Len(AllEvents) :
          k \in DOMAIN eventLog' /\ eventLog'[k] = EventRecord(AllEvents[k])
    <3>1. \A k \in f .. Len(AllEvents) : k \in 1 .. Len(AllEvents)
      BY <1>7, <1>8, <1>9
    <3> QED BY <1>5, <1>8, <1>9, <2>1, <3>1
  <2>3. DOMAIN outgoing' = {}
    BY StartFacts, EmptyStream
  <2> QED BY <1>6, <1>12, <2>2, <2>3 DEF EventsOnTrack
<1>14. PastCommand(n)'
  <2>1. /\ Len(pending') = 0 /\ Len(ring') = 0 /\ DOMAIN ring' = {} /\ Len(emitted') = 0
        /\ Len(outgoing') = 0
    BY StartFacts, EmptyStream
  <2>2. source'.next = first
    BY <1>1 DEF StartsFrom, Source
  <2>3. n = source'.next - 1 - Len(pending') - Len(ring')
    BY <1>2, <1>3, <2>1, <2>2
  <2>4. comparator'.first - 1 + Len(emitted') + Len(outgoing') = Len(EventsUpTo(n))
    BY <1>7, <1>9, <1>12, <2>1
  <2> QED BY <1>6, <2>1, <2>3, <2>4 DEF PastCommand
<1> QED BY <1>4, <1>6, <1>10, <1>13, <1>14 DEF OnTrack

LEMMA Started ==
  ASSUME IInv, NEW first \in DOMAIN log, NEW book, Start(first, book)
  PROVE  Running'
BY SessionReads, StartReading, StartTidy, StartOnTrack, StartFacts DEF Running, Checking

-----------------------------------------------------------------------------
(* Verification: the source and the durable commands.                        *)

LEMMA SourceStepTidy ==
  ASSUME Running, SourceStep
  PROVE  Reading' /\ Tidy' /\ Ongoing'
<1>1. /\ Reading /\ Tidy /\ Ongoing /\ SourcePublishes /\ Types
      /\ UNCHANGED <<bookConfig, eventLog, comparator, outgoing, emitted, log>>
  BY DEF Running, Checking, Reading, SourceStep, verifierVars, SourcePublishes, persistenceVars
<1>2. Reading'
  <2>1. Types' /\ SourceInOrder'
    BY <1>1, TypesOfTheSource, SourceSteps
  <2>2. Recording'
    BY <1>1 DEF Reading, Recording
  <2> QED BY <2>1, <2>2 DEF Reading
<1>3. \A k \in DOMAIN ring' : KnownMessage(ring'[k].payload.message)
  <2>1. \A k \in DOMAIN ring : KnownMessage(ring[k].payload.message)
    BY <1>1 DEF Tidy
  <2>2. CASE ring' = ring
    BY <2>1, <2>2
  <2>3. CASE ring' # ring
    <3>1. (pending # <<>> \/ Decodes(source.next)) /\ Published
      BY <1>1, <2>3 DEF SourcePublishes, DecodeFails, Backpressure
    <3>2. PICK c : c = Offered
      OBVIOUS
    <3>3. KnownMessage(c.payload.message) /\ ring' = Append(ring, c)
      BY <1>1, <3>1, <3>2, OfferedIsRead, OfferedCommand DEF Published
    <3>4. /\ Len(ring) \in Nat /\ DOMAIN ring = 1 .. Len(ring)
      BY <1>1, TypedLengths
    <3>5. /\ DOMAIN ring' = 1 .. Len(ring) + 1 /\ ring'[Len(ring) + 1] = c
          /\ \A k \in 1 .. Len(ring) : ring'[k] = ring[k]
      BY <1>1, <3>3, AppendStream, StreamLength DEF Types
    <3>6. \A k \in 1 .. Len(ring) + 1 : k \in 1 .. Len(ring) \/ k = Len(ring) + 1
      BY <3>4
    <3> QED BY <2>1, <3>3, <3>4, <3>5, <3>6
  <2> QED BY <2>2, <2>3
<1>4. Tidy'
  BY <1>1, <1>3 DEF Tidy
<1>5. Ongoing'
  BY <1>1, OngoingStays
<1> QED BY <1>2, <1>4, <1>5

\* A source that meets no record of others offers the next of the recorded commands.
LEMMA OfferedOnTrack ==
  ASSUME Reading, SourcePublishes, SourceOnTrack, NEW n \in Nat, PastCommand(n)
  PROVE  /\ pending # <<>> \/ Decodes(source.next)
         /\ Offered.seq = n + Len(ring) + 1 /\ Offered.seq <= Len(log)
         /\ Offered.payload = Decoded(log[Offered.seq]).payload
         /\ NextRead = Offered.seq + 1
<1>1. /\ Types /\ SourceInOrder /\ SourceInOrder' /\ source.foreign = <<>>
      /\ Len(ring) \in Nat /\ source.next \in Nat
  BY SourceSteps, TypedLengths DEF Reading, SourceOnTrack, Types, TypeOK
<1>2. pending # <<>> \/ Decodes(source.next)
  <2>1. SUFFICES ASSUME ~(pending # <<>> \/ Decodes(source.next)) PROVE FALSE
    OBVIOUS
  <2>2. source' = [source EXCEPT !.next = NextRead, !.failed = TRUE]
    BY <2>1 DEF SourcePublishes, DecodeFails
  <2>3. source'.foreign = <<>> /\ source'.failed
    BY <1>1, <2>2 DEF Types
  <2>4. source'.next - 1 \in DOMAIN source'.foreign
    BY <1>1, <2>3 DEF SourceInOrder
  <2> QED BY <2>3, <2>4, EmptyStream
<1>3. ReadFrom(Offered) /\ NextRead = Offered.seq + 1
  BY <1>2, OfferedIsRead
<1>4. PICK c : c = Offered
  OBVIOUS
<1>5. c.seq \in DOMAIN log /\ c.payload = decode_command_wal_payload_v2(RecordAt(c.seq)).payload
  BY <1>3, <1>4 DEF ReadFrom
<1>6. c.seq \in Nat /\ c.seq <= Len(log)
  BY <1>1, <1>5, TypedLengths
<1>7. c.payload = Decoded(log[c.seq]).payload
  <2>1. c.seq \notin DOMAIN source.foreign
    BY <1>1, EmptyStream
  <2>2. RecordAt(c.seq) = log[c.seq].record
    BY <2>1 DEF RecordAt
  <2> QED BY <1>5, <2>2 DEF Decoded, Command
<1>8. c.seq = n + Len(ring) + 1
  <2>1. n = source.next - 1 - Len(pending) - Len(ring)
    BY DEF PastCommand
  <2>2. CASE pending = <<>>
    <3>1. c.seq = source.next /\ Len(pending) = 0
      BY <1>4, <2>2, EmptyStream DEF Offered, Command
    <3> QED BY <1>1, <2>1, <3>1
  <2>3. CASE pending # <<>>
    <3>1. c = pending[1] /\ Len(pending) = 1
      BY <1>1, <1>4, <2>3 DEF Offered, Types
    <3>2. source.next = c.seq + 1
      BY <1>1, <2>3, <3>1 DEF SourceInOrder
    <3> QED BY <1>1, <1>6, <2>1, <3>1, <3>2
  <2> QED BY <2>2, <2>3
<1> QED BY <1>2, <1>3, <1>4, <1>6, <1>7, <1>8

LEMMA SourceStepOnTrack ==
  ASSUME Running, SourceStep, intact
  PROVE  OnTrack'
<1>1. /\ Reading /\ Types /\ SourcePublishes /\ SourceOnTrack /\ EventsOnTrack
      /\ UNCHANGED <<bookConfig, eventLog, comparator, outgoing, emitted, log>>
  BY DEF Running, Checking, Reading, OnTrack, SourceStep, verifierVars, SourcePublishes,
         persistenceVars
<1>2. PICK n \in 0 .. Len(log) : PastCommand(n)
  BY DEF Running, OnTrack
<1>3. n \in Nat /\ Len(ring) \in Nat /\ Len(log) \in Nat /\ source.next \in Nat
  BY <1>1, TypedLengths DEF Types, TypeOK
<1>4. PICK c : c = Offered
  OBVIOUS
<1>5. /\ c.seq = n + Len(ring) + 1 /\ c.seq <= Len(log)
      /\ c.payload = Decoded(log[c.seq]).payload /\ NextRead = c.seq + 1
      /\ pending # <<>> \/ Decodes(source.next)
  BY <1>1, <1>2, <1>3, <1>4, OfferedOnTrack
<1>6. AllEvents' = AllEvents /\ \A m : EventsUpTo(m)' = EventsUpTo(m)
  BY <1>1, EventsStay
<1>7. EventsOnTrack'
  BY <1>1, <1>6 DEF EventsOnTrack
<1>8. source.last = Len(log) /\ source.foreign = <<>> /\ source.complete = FALSE
  BY <1>1 DEF SourceOnTrack, SourcePublishes, Types, TypeOK
<1>9. /\ \A i \in 1 .. Len(ring) :
           ring[i].seq = n + i /\ ring[i].payload = Decoded(log[n + i]).payload
      /\ comparator.first - 1 + Len(emitted) + Len(outgoing) = Len(EventsUpTo(n))
  BY <1>1, <1>2, TypedLengths DEF PastCommand
<1>10. CASE Backpressure
  <2>1. source' = [source EXCEPT !.next = NextRead] /\ pending' = <<c>> /\ ring' = ring
    BY <1>4, <1>10 DEF Backpressure
  <2>2. /\ source'.next = c.seq + 1 /\ source'.last = Len(log) /\ source'.foreign = <<>>
        /\ source'.complete = FALSE /\ Len(pending') = 1
    BY <1>1, <1>5, <1>8, <2>1 DEF Types
  <2>3. SourceOnTrack'
    BY <1>1, <1>3, <1>5, <2>2 DEF SourceOnTrack
  <2>4. PastCommand(n)'
    <3>1. n = source'.next - 1 - Len(pending') - Len(ring')
      BY <1>3, <1>5, <2>1, <2>2
    <3> QED BY <1>1, <1>2, <1>6, <2>1, <3>1 DEF PastCommand
  <2> QED BY <1>1, <1>7, <2>3, <2>4 DEF OnTrack
<1>11. CASE Published
  <2>1. /\ source' = [source EXCEPT !.next = NextRead,
                                    !.complete = Offered.seq = source.last]
        /\ pending' = <<>> /\ ring' = Append(ring, c)
    BY <1>4, <1>11 DEF Published
  <2>2. /\ source'.next = c.seq + 1 /\ source'.last = Len(log) /\ source'.foreign = <<>>
        /\ (source'.complete <=> c.seq = Len(log)) /\ Len(pending') = 0
    BY <1>1, <1>4, <1>5, <1>8, <2>1, EmptyStream DEF Types
  <2>3. SourceOnTrack'
    BY <1>1, <1>3, <1>5, <2>1, <2>2 DEF SourceOnTrack
  <2>4. /\ Len(ring') = Len(ring) + 1 /\ DOMAIN ring' = 1 .. Len(ring) + 1
        /\ ring'[Len(ring) + 1] = c /\ \A k \in 1 .. Len(ring) : ring'[k] = ring[k]
    BY <1>1, <2>1, AppendStream, StreamLength DEF Types
  <2>5. PastCommand(n)'
    <3>1. n = source'.next - 1 - Len(pending') - Len(ring')
      BY <1>3, <1>5, <2>2, <2>4
    <3>2. c.seq = n + (Len(ring) + 1)
      BY <1>3, <1>5
    <3>3. \A i \in 1 .. Len(ring) + 1 : i \in 1 .. Len(ring) \/ i = Len(ring) + 1
      BY <1>3
    <3>4. \A i \in 1 .. Len(ring) + 1 :
            ring'[i].seq = n + i /\ ring'[i].payload = Decoded(log[n + i]).payload
      BY <1>5, <1>9, <2>4, <3>2, <3>3
    <3> QED BY <1>1, <1>6, <1>9, <2>4, <3>1, <3>4 DEF PastCommand
  <2> QED BY <1>1, <1>7, <2>3, <2>5 DEF OnTrack
<1> QED BY <1>1, <1>5, <1>10, <1>11 DEF SourcePublishes

LEMMA SourceStepped ==
  ASSUME Running, SourceStep
  PROVE  Running'
<1>1. verifier' = verifier /\ intact' = intact /\ consumed' = consumed
  BY DEF SourceStep, verifierVars, SourcePublishes
<1> QED BY <1>1, SourceStepTidy, SourceStepOnTrack DEF Running, Checking

LEMMA PassedDurable ==
  ASSUME Running, PassDurable
  PROVE  Running'
<1>1. /\ durable' = durable + 1 /\ durable < Len(ring)
      /\ UNCHANGED <<ring, nextLive, failed, producer, source, pending, sent, persistence,
                     copied, mode, liveResume, log, consumed>>
      /\ UNCHANGED <<verifier, bookConfig, eventLog, comparator, outgoing, emitted, intact>>
  BY DEF PassDurable, sourceVars, persistenceVars, verifierVars
<1>2. Reading /\ Types /\ Tidy /\ Ongoing /\ (intact => OnTrack) /\ consumed = <<>>
  BY DEF Running, Checking, Reading
<1>3. Types'
  <2>1. durable' \in 0 .. Len(ring')
    BY <1>1, <1>2, TypedLengths
  <2> QED BY <1>1, <1>2, <2>1 DEF Types, TypeOK
<1>4. Reading'
  BY <1>1, <1>2, <1>3, ReadingStays
<1>5. Tidy' /\ Ongoing'
  BY <1>1, <1>2, OngoingStays DEF Tidy
<1>6. OnTrack => OnTrack'
  <2>1. AllEvents' = AllEvents /\ \A m : EventsUpTo(m)' = EventsUpTo(m)
    BY <1>1, EventsStay
  <2>2. \A n : PastCommand(n) => PastCommand(n)'
    BY <1>1, <2>1 DEF PastCommand
  <2>3. EventsOnTrack => EventsOnTrack'
    BY <1>1, <2>1 DEF EventsOnTrack
  <2>4. SourceOnTrack => SourceOnTrack'
    BY <1>1 DEF SourceOnTrack
  <2> QED BY <1>1, <2>2, <2>3, <2>4 DEF OnTrack
<1> QED BY <1>1, <1>2, <1>4, <1>5, <1>6 DEF Running, Checking

-----------------------------------------------------------------------------
(* Verification: the matcher and the comparator.                             *)

LEMMA ProcessedCommand ==
  ASSUME Running, ProcessCommand
  PROVE  Running'
<1>1. /\ ring' = Tail(ring) /\ durable' = durable - 1 /\ durable > 0 /\ outgoing = <<>>
      /\ outgoing' = EventsOf(Head(ring), bookConfig) /\ comparator.status = "Ok"
      /\ UNCHANGED <<nextLive, failed, producer, source, pending, sent, persistence,
                     copied, mode, liveResume, log, consumed>>
      /\ UNCHANGED <<verifier, bookConfig, eventLog, comparator, emitted, intact>>
  BY DEF ProcessCommand, Stopped, sourceVars, persistenceVars
<1>2. Reading /\ Types /\ Tidy /\ Ongoing /\ (intact => OnTrack) /\ consumed = <<>>
  BY DEF Running, Checking, Reading
<1>3. /\ IsStream(ring) /\ Len(ring) \in Nat /\ Len(ring) > 0 /\ durable \in Nat
      /\ durable <= Len(ring) /\ DOMAIN ring = 1 .. Len(ring)
  BY <1>1, <1>2, TypedLengths DEF Types
<1>4. /\ Len(ring') = Len(ring) - 1 /\ DOMAIN ring' = 1 .. Len(ring) - 1
      /\ \A k \in 1 .. Len(ring) - 1 : ring'[k] = ring[k + 1]
      /\ IsStream(ring') /\ Head(ring) = ring[1]
  BY <1>1, <1>3, TailStream, StreamLength
<1>5. /\ 1 \in 1 .. Len(ring)
      /\ \A k \in 1 .. Len(ring) - 1 : k + 1 \in 1 .. Len(ring)
  BY <1>3
<1>6. Types'
  <2>1. \A k \in DOMAIN ring' : IsCommand(ring'[k])
    <3>1. \A k \in 1 .. Len(ring) : IsCommand(ring[k])
      BY <1>2, <1>3 DEF Types, TypeOK
    <3> QED BY <1>4, <1>5, <3>1
  <2>2. durable' \in 0 .. Len(ring') /\ Len(ring') <= Capacity
    <3>1. Len(ring) <= Capacity /\ Capacity \in Nat
      BY <1>2, ReplayAssumption DEF Types, TypeOK
    <3> QED BY <1>1, <1>3, <1>4, <3>1
  <2> QED BY <1>1, <1>2, <1>4, <2>1, <2>2 DEF Types, TypeOK
<1>7. Reading'
  BY <1>1, <1>2, <1>6, ReadingStays
<1>8. PICK c : c = Head(ring)
  OBVIOUS
<1>9. KnownMessage(c.payload.message) /\ c = ring[1]
  BY <1>2, <1>3, <1>4, <1>5, <1>8 DEF Tidy
<1>10. IsStream(outgoing') /\ \A k \in DOMAIN outgoing' : IsEvent(outgoing'[k])
  BY <1>1, <1>8, <1>9, EventsShape
<1>11. Tidy'
  <2>1. \A k \in 1 .. Len(ring) : KnownMessage(ring[k].payload.message)
    BY <1>2, <1>3 DEF Tidy
  <2>2. \A k \in DOMAIN ring' : KnownMessage(ring'[k].payload.message)
    BY <1>4, <1>5, <2>1
  <2> QED BY <1>1, <1>2, <1>10, <2>2 DEF Tidy
<1>12. Ongoing'
  BY <1>1, <1>2, OngoingStays
<1>13. ASSUME OnTrack PROVE OnTrack'
  <2>1. PICK n \in 0 .. Len(log) : PastCommand(n)
    BY <1>13 DEF OnTrack
  <2>2. SourceOnTrack /\ EventsOnTrack
    BY <1>13 DEF OnTrack
  <2>3. /\ n \in Nat /\ Len(log) \in Nat /\ source.next \in Nat /\ Len(emitted) \in Nat
        /\ comparator.first \in Nat \ {0} /\ Len(outgoing) = 0
        /\ Len(pending) \in {0, 1}
    <3>1. Len(pending) \in {0, 1}
      BY <1>2, EmptyStream DEF Types
    <3> QED BY <1>1, <1>2, <2>1, <3>1, TypedLengths, StreamLength, EmptyStream
            DEF Types, TypeOK, Tidy
  <2>4. /\ n = source.next - 1 - Len(pending) - Len(ring)
        /\ \A i \in 1 .. Len(ring) : /\ ring[i].seq = n + i
                                     /\ ring[i].payload = Decoded(log[n + i]).payload
        /\ comparator.first - 1 + Len(emitted) + Len(outgoing) = Len(EventsUpTo(n))
    BY <1>3, <2>1 DEF PastCommand
  <2>5. n < Len(log) /\ n + 1 \in 0 .. Len(log)
    <3>1. source.next <= Len(log) + 1
      BY <2>2 DEF SourceOnTrack
    <3>2. n = source.next - 1 - Len(pending) - Len(ring)
      BY <2>4
    <3>3. PICK p, r, l : p = Len(pending) /\ r = Len(ring) /\ l = Len(log)
      OBVIOUS
    <3>4. /\ r > 0 /\ n \in Nat /\ source.next \in Nat
          /\ p \in {0, 1} /\ r \in Nat /\ l \in Nat
      BY <1>3, <2>3, <3>3
    <3>5. source.next <= l + 1 /\ n = source.next - 1 - p - r
      BY <3>1, <3>2, <3>3
    <3>6. n < l
      BY <3>4, <3>5
    <3> QED BY <3>3, <3>4, <3>6
  <2>6. AllEvents' = AllEvents /\ \A m : EventsUpTo(m)' = EventsUpTo(m)
    BY <1>1, EventsStay
  <2>7. outgoing' = RecordedOf(n + 1)
    <3>1. c.seq = n + 1 /\ c.payload = Decoded(log[n + 1]).payload
      BY <1>5, <1>9, <2>4
    <3>2. PICK d : d = Decoded(log[n + 1])
      OBVIOUS
    <3>3. d.seq = n + 1
      <4>1. n + 1 \in DOMAIN log
        BY <1>2, <2>3, <2>5, TypedLengths
      <4>2. IsEntry(log[n + 1], n + 1)
        BY <1>2, <4>1 DEF Reading, Recording
      <4>3. log[n + 1].seq = n + 1
        BY <4>2, EntryDecodes
      <4> QED BY <3>2, <4>3 DEF Decoded, Command
    <3>4. EventsOf(c, bookConfig) = EventsOf(d, RecordedBook)
      BY <1>2, <3>1, <3>2, <3>3, SameEvents DEF Tidy
    <3> QED BY <1>1, <1>8, <3>2, <3>4 DEF RecordedOf
  <2>8. PICK e : e = RecordedOf(n + 1)
    OBVIOUS
  <2>9. /\ Len(EventsUpTo(n)) \in Nat /\ Len(e) \in Nat
        /\ Len(EventsUpTo(n + 1)) = Len(EventsUpTo(n)) + Len(e)
        /\ \A k \in 1 .. Len(e) : AllEvents[Len(EventsUpTo(n)) + k] = e[k]
    BY <1>2, <2>5, <2>8, RecordedNext DEF AllEvents
  <2>10. comparator.first - 1 + Len(emitted) = Len(EventsUpTo(n))
    BY <2>3, <2>4
  <2>11. outgoing' = e /\ DOMAIN outgoing' = 1 .. Len(e)
    BY <1>10, <2>7, <2>8, StreamLength
  <2>12. EventsOnTrack'
    <3>1. \A k \in DOMAIN outgoing' :
            outgoing'[k] = AllEvents[comparator.first - 1 + Len(emitted) + k]
      BY <2>9, <2>10, <2>11
    <3> QED BY <1>1, <2>2, <2>6, <3>1 DEF EventsOnTrack
  <2>13. SourceOnTrack'
    BY <1>1, <2>2 DEF SourceOnTrack
  <2>14. PastCommand(n + 1)'
    <3>1. n + 1 = source.next - 1 - Len(pending) - Len(ring')
      <4>1. PICK p, r, s, m : p = Len(pending) /\ r = Len(ring) /\ s = source.next /\ m = Len(ring')
        OBVIOUS
      <4>2. n = s - 1 - p - r /\ m = r - 1
        BY <1>4, <2>4, <4>1
      <4>3. n \in Nat /\ s \in Nat /\ p \in {0, 1} /\ r \in Nat
        BY <1>3, <2>3, <4>1
      <4>4. n + 1 = s - 1 - p - m
        BY <4>2, <4>3
      <4> QED BY <4>1, <4>4, Zenon
    <3>2. \A i \in 1 .. Len(ring) - 1 : /\ ring'[i].seq = (n + 1) + i
                                        /\ ring'[i].payload = Decoded(log[(n + 1) + i]).payload
      <4>1. \A i \in 1 .. Len(ring) - 1 : n + (i + 1) = (n + 1) + i
        BY <1>3, <2>3
      <4>2. ASSUME NEW i \in 1 .. Len(ring) - 1
            PROVE  /\ ring'[i].seq = (n + 1) + i
                   /\ ring'[i].payload = Decoded(log[(n + 1) + i]).payload
        <5>1. i + 1 \in 1 .. Len(ring) /\ ring'[i] = ring[i + 1]
          BY <1>4, <1>5
        <5>2. /\ ring[i + 1].seq = n + (i + 1)
              /\ ring[i + 1].payload = Decoded(log[n + (i + 1)]).payload
          BY <2>4, <5>1
        <5> QED BY <4>1, <5>1, <5>2
      <4> QED BY <4>2
    <3>3. comparator.first - 1 + Len(emitted) + Len(outgoing') = Len(EventsUpTo(n + 1))
      BY <2>9, <2>10, <2>11
    <3> QED BY <1>1, <1>4, <2>6, <3>1, <3>2, <3>3 DEF PastCommand
  <2> QED BY <1>1, <2>5, <2>12, <2>13, <2>14 DEF OnTrack
<1> QED BY <1>1, <1>2, <1>7, <1>11, <1>12, <1>13 DEF Running, Checking

\* What the comparator looks at says whether the event is the recorded one.
LEMMA SameEventIs ==
  ASSUME Tidy, NEW p, IsEvent(p), comparator.next \in DOMAIN eventLog,
         comparator.next = NextEvent
  PROVE  SameEvent(p) <=> EventBytes(p) = eventLog[comparator.next].bytes
<1>1. PICK r : r = eventLog[comparator.next]
  OBVIOUS
<1>2. r.size = event_wal_payload_size
  BY <1>1 DEF Tidy
<1>3. /\ encode_event_wal_payload_v2(p, event_wal_payload_size).bytes = EventBytes(p)
  BY DEF encode_event_wal_payload_v2, encode_event_wal_payload_v1
<1>4. SameEvent(p) <=>
        /\ decode_event_wal_payload_v2(r).status = "Ok"
        /\ encode_event_wal_payload_v2(p, event_wal_payload_size).status = "Ok"
        /\ comparator.next = NextEvent /\ r.bytes = EventBytes(p)
  BY <1>1, <1>3, Zenon DEF SameEvent
<1>5. r.bytes = EventBytes(p) =>
        /\ decode_event_wal_payload_v2(r).status = "Ok"
        /\ encode_event_wal_payload_v2(p, event_wal_payload_size).status = "Ok"
  BY <1>2, EventRoundTrip
<1> QED BY <1>1, <1>4, <1>5, Zenon

\* The comparator goes on exactly if the event is the recorded one.
LEMMA ComparesExactly ==
  ASSUME Tidy, NEW p, IsEvent(p), comparator.next = NextEvent, comparator.status = "Ok",
         Compare(p)
  PROVE  LET same == /\ comparator.next <= comparator.last
                     /\ comparator.next \in DOMAIN eventLog
                     /\ EventBytes(p) = eventLog[comparator.next].bytes
         IN  /\ comparator' \in [first : Nat \ {0}, next : Nat, last : Nat,
                                 status : {"Ok", "Complete", "UnexpectedEvent",
                                   "ExpectedEventMissing", "EventMismatch"}, at : Nat]
             /\ comparator'.first = comparator.first /\ comparator'.last = comparator.last
             /\ same => comparator'.status = "Ok" /\ comparator'.next = comparator.next + 1
             /\ ~same => comparator'.status \notin {"Ok", "Complete"}
<1> DEFINE same == /\ comparator.next <= comparator.last
                   /\ comparator.next \in DOMAIN eventLog
                   /\ EventBytes(p) = eventLog[comparator.next].bytes
           Type == [first : Nat \ {0}, next : Nat, last : Nat,
                    status : {"Ok", "Complete", "UnexpectedEvent",
                              "ExpectedEventMissing", "EventMismatch"}, at : Nat]
           Halt(s) == [comparator EXCEPT !.status = s, !.at = NextEvent]
<1>1. comparator \in Type /\ IsStream(eventLog) /\ IsStream(emitted)
  BY DEF Tidy
<1>2. Len(eventLog) \in Nat /\ DOMAIN eventLog = 1 .. Len(eventLog)
  BY <1>1, StreamLength
<1>3. NextEvent \in Nat \ {0}
  BY <1>1, StreamLength DEF NextEvent
<1>4. comparator' = IF comparator.next > comparator.last THEN Halt("UnexpectedEvent")
                    ELSE IF comparator.next > Len(eventLog) THEN Halt("ExpectedEventMissing")
                    ELSE IF ~SameEvent(p) THEN Halt("EventMismatch")
                    ELSE [comparator EXCEPT !.next = @ + 1, !.at = NextEvent]
  BY Zenon DEF Compare
<1>5. ASSUME NEW s \in {"UnexpectedEvent", "ExpectedEventMissing", "EventMismatch"},
             comparator' = Halt(s)
      PROVE  /\ comparator' \in Type
             /\ comparator'.first = comparator.first /\ comparator'.last = comparator.last
             /\ comparator'.status = s
  BY <1>1, <1>3, <1>5
<1>6. ASSUME comparator' = [comparator EXCEPT !.next = @ + 1, !.at = NextEvent]
      PROVE  /\ comparator' \in Type
             /\ comparator'.first = comparator.first /\ comparator'.last = comparator.last
             /\ comparator'.status = "Ok" /\ comparator'.next = comparator.next + 1
  <2>1. PICK n, at : n = comparator.next + 1 /\ at = NextEvent
    OBVIOUS
  <2>2. n \in Nat /\ at \in Nat
    BY <1>1, <1>3, <2>1
  <2>3. comparator' = [comparator EXCEPT !.next = n, !.at = at]
    BY <1>6, <2>1
  <2> QED BY <1>1, <2>1, <2>2, <2>3
<1>7. comparator.next \in Nat \ {0} /\ comparator.last \in Nat
  BY <1>1, <1>3
<1>8. CASE comparator.next > comparator.last
  <2>1. comparator' = Halt("UnexpectedEvent")
    BY <1>4, <1>8
  <2>2. ~same
    BY <1>7, <1>8
  <2> QED BY <1>5, <2>1, <2>2
<1>9. CASE ~(comparator.next > comparator.last) /\ comparator.next > Len(eventLog)
  <2>1. comparator' = Halt("ExpectedEventMissing")
    BY <1>4, <1>9
  <2>2. ~same
    BY <1>2, <1>7, <1>9
  <2> QED BY <1>5, <2>1, <2>2
<1>10. CASE ~(comparator.next > comparator.last) /\ ~(comparator.next > Len(eventLog))
  <2>1. comparator.next <= comparator.last /\ comparator.next \in DOMAIN eventLog
    BY <1>2, <1>7, <1>10
  <2>2. SameEvent(p) <=> same
    BY <2>1, SameEventIs
  <2>3. CASE ~SameEvent(p)
    <3>1. comparator' = Halt("EventMismatch")
      BY <1>4, <1>10, <2>3
    <3> QED BY <1>5, <2>2, <2>3, <3>1
  <2>4. CASE SameEvent(p)
    <3>1. comparator' = [comparator EXCEPT !.next = @ + 1, !.at = NextEvent]
      BY <1>4, <1>10, <2>4
    <3> QED BY <1>6, <2>2, <2>4, <3>1
  <2> QED BY <2>3, <2>4
<1> QED BY <1>8, <1>9, <1>10

LEMMA PublishedEvent ==
  ASSUME Running, PublishEvent
  PROVE  Running'
<1>1. /\ comparator.status = "Ok" /\ outgoing # <<>> /\ Compare(Head(outgoing))
      /\ emitted' = Append(emitted, Head(outgoing)) /\ outgoing' = Tail(outgoing)
      /\ UNCHANGED <<ring, durable, nextLive, failed, producer, source, pending, sent,
                     persistence, copied, mode, liveResume, log, consumed>>
      /\ UNCHANGED <<verifier, bookConfig, eventLog, intact>>
  BY DEF PublishEvent, Stopped, vars, pipelineVars, sourceVars, persistenceVars
<1>2. Reading /\ Types /\ Tidy /\ Ongoing /\ (intact => OnTrack) /\ consumed = <<>>
  BY DEF Running, Checking, Reading
<1>3. /\ IsStream(outgoing) /\ Len(outgoing) \in Nat /\ DOMAIN outgoing = 1 .. Len(outgoing)
      /\ IsStream(emitted) /\ Len(emitted) \in Nat
      /\ Len(eventLog) \in Nat /\ DOMAIN eventLog = 1 .. Len(eventLog)
  BY <1>2, StreamLength DEF Tidy
<1>4. Len(outgoing) > 0
  <2>1. PICK S : outgoing \in Seq(S)
    BY <1>3 DEF IsStream
  <2> QED BY <1>1, <1>3, <2>1
<1>5. /\ Len(outgoing') = Len(outgoing) - 1 /\ DOMAIN outgoing' = 1 .. Len(outgoing) - 1
      /\ \A k \in 1 .. Len(outgoing) - 1 : outgoing'[k] = outgoing[k + 1]
      /\ IsStream(outgoing') /\ Head(outgoing) = outgoing[1]
  BY <1>1, <1>3, <1>4, TailStream, StreamLength
<1>6. PICK e : e = Head(outgoing)
  OBVIOUS
<1>7. PICK n : n = Len(emitted)
  OBVIOUS
<1>8. /\ n \in Nat /\ Len(emitted') = n + 1 /\ IsStream(emitted') /\ emitted'[n + 1] = e
      /\ \A k \in 1 .. n : emitted'[k] = emitted[k]
  BY <1>1, <1>3, <1>6, <1>7, AppendStream
<1>9. 1 \in 1 .. Len(outgoing) /\ \A k \in 1 .. Len(outgoing) - 1 : k + 1 \in 1 .. Len(outgoing)
  BY <1>3, <1>4
<1>10. IsEvent(e)
  BY <1>2, <1>3, <1>5, <1>6, <1>9 DEF Tidy
<1>11. comparator.next = NextEvent /\ AllAgree /\ NextEvent = comparator.first + n
  BY <1>1, <1>2, <1>7 DEF Ongoing, StoppedThere, Refuted, NextEvent
<1> DEFINE same == /\ comparator.next <= comparator.last
                   /\ comparator.next \in DOMAIN eventLog
                   /\ EventBytes(e) = eventLog[comparator.next].bytes
<1>12. /\ comparator' \in [first : Nat \ {0}, next : Nat, last : Nat,
                           status : {"Ok", "Complete", "UnexpectedEvent",
                                     "ExpectedEventMissing", "EventMismatch"}, at : Nat]
       /\ comparator'.first = comparator.first /\ comparator'.last = comparator.last
       /\ same => comparator'.status = "Ok" /\ comparator'.next = comparator.next + 1
       /\ ~same => comparator'.status \notin {"Ok", "Complete"}
  BY <1>1, <1>2, <1>6, <1>10, <1>11, ComparesExactly
<1>13. comparator.first \in Nat /\ comparator.next \in Nat /\ comparator.last \in Nat
  BY <1>2 DEF Tidy
<1>14. Types' /\ Reading'
  <2>1. Types'
    BY <1>1, <1>2 DEF Types, TypeOK
  <2> QED BY <1>1, <1>2, <2>1, ReadingStays
<1>15. Tidy'
  <2>1. \A k \in 1 .. Len(outgoing) : IsEvent(outgoing[k])
    BY <1>2, <1>3 DEF Tidy
  <2>2. \A k \in DOMAIN outgoing' : IsEvent(outgoing'[k])
    BY <1>5, <1>9, <2>1
  <2> QED BY <1>1, <1>2, <1>5, <1>8, <1>12, <2>2 DEF Tidy
<1>16. Ongoing'
  <2>1. Agrees(n + 1)' <=> same
    <3>1. PICK m : m = n + 1
      OBVIOUS
    <3>2. comparator.first + m - 1 = comparator.next
      BY <1>8, <1>11, <1>13, <3>1
    <3>3. Agrees(m)' <=>
            /\ comparator.next <= comparator.last /\ comparator.next \in DOMAIN eventLog
            /\ EventBytes(e) = eventLog[comparator.next].bytes
      BY <1>1, <1>8, <1>12, <3>1, <3>2 DEF Agrees
    <3> QED BY <3>1, <3>3
  <2>2. \A k \in 1 .. n : Agrees(k)'
    <3>1. \A k \in 1 .. n : Agrees(k)
      BY <1>7, <1>11 DEF AllAgree
    <3> QED BY <1>1, <1>8, <1>12, <3>1 DEF Agrees
  <2>3. CASE same
    <3>1. comparator'.status = "Ok" /\ comparator'.next = comparator'.first + Len(emitted')
      BY <1>8, <1>11, <1>12, <1>13, <2>3
    <3>2. \A k \in 1 .. n + 1 : k \in 1 .. n \/ k = n + 1
      BY <1>8
    <3>3. AllAgree'
      BY <1>8, <2>1, <2>2, <2>3, <3>2 DEF AllAgree
    <3> QED BY <3>1, <3>3 DEF Ongoing, NextEvent
  <2>4. CASE ~same
    <3>1. Len(emitted') >= 1 /\ Len(emitted') - 1 = n
      BY <1>8
    <3>2. ~Agrees(Len(emitted))'
      BY <1>8, <2>1, <2>4 DEF Agrees
    <3>3. Refuted'
      BY <1>12, <2>4 DEF Refuted
    <3> QED BY <2>2, <3>1, <3>2, <3>3 DEF Ongoing, StoppedThere
  <2> QED BY <2>3, <2>4
<1>17. ASSUME OnTrack PROVE OnTrack'
  <2>1. PICK m \in 0 .. Len(log) : PastCommand(m)
    BY <1>17 DEF OnTrack
  <2>2. SourceOnTrack /\ EventsOnTrack
    BY <1>17 DEF OnTrack
  <2>3. AllEvents' = AllEvents /\ \A j : EventsUpTo(j)' = EventsUpTo(j)
    BY <1>1, EventsStay
  <2>4. comparator.first - 1 + n + Len(outgoing) = Len(EventsUpTo(m))
    BY <1>7, <2>1 DEF PastCommand
  <2>5. Len(EventsUpTo(m)) <= Len(AllEvents) /\ Len(AllEvents) \in Nat
    <3>1. PICK s, t : s = EventsUpTo(m) /\ t = AllEvents
      OBVIOUS
    <3>2. FrontOf(s, t)
      BY <1>2, <3>1, RecordedEvents DEF AllEvents
    <3>3. Len(AllEvents) \in Nat
      BY <1>2, AllRecordsShape
    <3> QED BY <3>1, <3>2, <3>3 DEF FrontOf
  <2>6. comparator.next \in comparator.first .. Len(AllEvents)
    <3>1. PICK f, l, w, u, x : /\ f = comparator.first /\ l = Len(outgoing)
                               /\ w = Len(AllEvents) /\ u = Len(EventsUpTo(m))
                               /\ x = comparator.next
      OBVIOUS
    <3>2. f \in Nat /\ l \in Nat /\ l > 0 /\ w \in Nat /\ n \in Nat
      BY <1>3, <1>4, <1>8, <1>13, <2>5, <3>1
    <3>3. x = f + n /\ f - 1 + n + l = u /\ u <= w
      BY <1>11, <2>4, <2>5, <3>1
    <3>4. x \in f .. w
      BY <3>2, <3>3
    <3> QED BY <3>1, <3>4
  <2>7. e = AllEvents[comparator.next]
    <3>1. comparator.first - 1 + n + 1 = comparator.next
      BY <1>8, <1>11, <1>13
    <3>2. outgoing[1] = AllEvents[comparator.first - 1 + n + 1]
      BY <1>3, <1>7, <1>9, <2>2 DEF EventsOnTrack
    <3> QED BY <1>5, <1>6, <3>1, <3>2
  <2>8. same
    <3>1. comparator.next \in DOMAIN eventLog /\ eventLog[comparator.next] = EventRecord(e)
      BY <2>2, <2>6, <2>7 DEF EventsOnTrack
    <3>2. EventRecord(e).bytes = EventBytes(e)
      <4>1. PICK r : r = EventRecord(e)
        OBVIOUS
      <4>2. r = [size |-> event_wal_payload_size, bytes |-> EventBytes(e)]
        BY <4>1, EventRecorded
      <4> QED BY <4>1, <4>2
    <3>3. comparator.next <= comparator.last
      BY <1>13, <2>2, <2>5, <2>6 DEF EventsOnTrack
    <3> QED BY <3>1, <3>2, <3>3
  <2>9. EventsOnTrack'
    <3>1. \A k \in DOMAIN outgoing' :
            outgoing'[k] = AllEvents[comparator'.first - 1 + Len(emitted') + k]
      <4>1. ASSUME NEW k \in 1 .. Len(outgoing) - 1
            PROVE  outgoing'[k] = AllEvents[comparator.first - 1 + (n + 1) + k]
        <5>1. comparator.first - 1 + n + (k + 1) = comparator.first - 1 + (n + 1) + k
          <6>1. PICK f : f = comparator.first
            OBVIOUS
          <6>2. f \in Nat /\ n \in Nat /\ k \in Int
            BY <1>8, <1>13, <6>1
          <6>3. f - 1 + n + (k + 1) = f - 1 + (n + 1) + k
            BY <6>2
          <6> QED BY <6>1, <6>3
        <5>2. outgoing[k + 1] = AllEvents[comparator.first - 1 + n + (k + 1)]
          BY <1>3, <1>7, <1>9, <2>2 DEF EventsOnTrack
        <5> QED BY <1>5, <5>1, <5>2
      <4> QED BY <1>5, <1>8, <1>12, <4>1
    <3>2. comparator'.status = "Ok" /\ comparator'.last = Len(AllEvents)
      BY <1>12, <2>2, <2>8 DEF EventsOnTrack
    <3>3. \A k \in comparator'.first .. Len(AllEvents) :
            k \in DOMAIN eventLog /\ eventLog[k] = EventRecord(AllEvents[k])
      BY <1>12, <2>2 DEF EventsOnTrack
    <3> QED BY <1>1, <2>3, <3>1, <3>2, <3>3 DEF EventsOnTrack
  <2>10. SourceOnTrack'
    BY <1>1, <2>2 DEF SourceOnTrack
  <2>11. PastCommand(m)'
    <3>1. comparator'.first - 1 + Len(emitted') + Len(outgoing') = Len(EventsUpTo(m))
      <4>1. PICK l : l = Len(outgoing)
        OBVIOUS
      <4>2. l \in Nat /\ Len(outgoing') = l - 1
        BY <1>3, <1>5, <4>1
      <4>3. comparator.first - 1 + n + l = Len(EventsUpTo(m))
        BY <2>4, <4>1
      <4>4. comparator.first - 1 + (n + 1) + (l - 1) = comparator.first - 1 + n + l
        <5>1. PICK f : f = comparator.first
          OBVIOUS
        <5>2. f \in Nat /\ n \in Nat /\ l \in Nat
          BY <1>8, <1>13, <4>2, <5>1
        <5>3. f - 1 + (n + 1) + (l - 1) = f - 1 + n + l
          BY <5>2
        <5> QED BY <5>1, <5>3
      <4> QED BY <1>8, <1>12, <4>2, <4>3, <4>4
    <3> QED BY <1>1, <2>1, <2>3, <3>1 DEF PastCommand
  <2> QED BY <1>1, <2>9, <2>10, <2>11 DEF OnTrack
<1> QED BY <1>1, <1>2, <1>14, <1>15, <1>16, <1>17 DEF Running, Checking

LEMMA FinishedStep ==
  ASSUME Running, Finish
  PROVE  Finished'
<1>1. /\ verifier' = "Finished"
      /\ UNCHANGED <<ring, durable, nextLive, failed, producer, source, pending, sent,
                     persistence, copied, mode, liveResume, log, consumed>>
      /\ UNCHANGED <<bookConfig, eventLog, outgoing, emitted, intact>>
      /\ Stopped \/ ((source.complete \/ source.failed) /\ ring = <<>> /\ outgoing = <<>>)
      /\ comparator' = IF Stopped THEN comparator
                       ELSE IF Missing
                            THEN [comparator EXCEPT !.status = "ExpectedEventMissing",
                                                    !.at = comparator.next]
                       ELSE [comparator EXCEPT !.status = "Complete"]
  BY DEF Finish, vars, pipelineVars, sourceVars, persistenceVars
<1>2. Reading /\ Types /\ Tidy /\ Ongoing /\ (intact => OnTrack) /\ consumed = <<>>
  BY DEF Running, Checking, Reading
<1> DEFINE Type == [first : Nat \ {0}, next : Nat, last : Nat,
                    status : {"Ok", "Complete", "UnexpectedEvent",
                              "ExpectedEventMissing", "EventMismatch"}, at : Nat]
<1>3. comparator \in Type /\ Len(emitted) \in Nat
  BY <1>2, StreamLength DEF Tidy
<1>4. Types' /\ Reading'
  <2>1. Types'
    BY <1>1, <1>2 DEF Types, TypeOK
  <2> QED BY <1>1, <1>2, <2>1, ReadingStays
<1>5. ASSUME comparator' \in Type PROVE Tidy'
  BY <1>1, <1>2, <1>5 DEF Tidy
<1>6. ASSUME comparator'.first = comparator.first, comparator'.last = comparator.last, NEW k
      PROVE  Agrees(k)' <=> Agrees(k)
  BY <1>1, <1>6 DEF Agrees
<1>7. ASSUME OnTrack, ~Stopped PROVE ~Missing
  <2>1. PICK n \in 0 .. Len(log) : PastCommand(n)
    BY <1>7 DEF OnTrack
  <2>2. /\ SourceOnTrack /\ EventsOnTrack /\ ring = <<>> /\ outgoing = <<>>
        /\ source.complete \/ source.failed
    BY <1>1, <1>7 DEF OnTrack
  <2>3. source.complete
    <3>1. SUFFICES ASSUME source.failed PROVE FALSE
      BY <2>2
    <3>2. source.next - 1 \in DOMAIN source.foreign /\ source.foreign = <<>>
      BY <1>2, <2>2, <3>1 DEF Reading, SourceInOrder, SourceOnTrack
    <3> QED BY <3>2, EmptyStream
  <2>4. pending = <<>> /\ source.next = Len(log) + 1
    BY <2>2, <2>3 DEF SourceOnTrack
  <2>5. Len(log) \in Nat /\ Len(ring) = 0 /\ Len(pending) = 0 /\ Len(outgoing) = 0
    BY <1>2, <2>2, <2>4, TypedLengths, EmptyStream
  <2>6. n = Len(log)
    <3>1. n = source.next - 1 - Len(pending) - Len(ring)
      BY <2>1 DEF PastCommand
    <3> QED BY <2>4, <2>5, <3>1
  <2>7. comparator.first - 1 + Len(emitted) + Len(outgoing) = Len(AllEvents)
    BY <2>1, <2>6 DEF PastCommand, AllEvents
  <2>8. comparator.last = Len(AllEvents) /\ comparator.next = comparator.first + Len(emitted)
    BY <1>2, <2>2 DEF EventsOnTrack, Ongoing, StoppedThere, Refuted, NextEvent
  <2>9. comparator.first \in Nat /\ comparator.next = comparator.last + 1
    BY <1>3, <2>5, <2>7, <2>8
  <2> QED BY <2>9 DEF Missing
<1>8. CASE Stopped
  <2>1. comparator' = comparator /\ StoppedThere
    BY <1>1, <1>2, <1>8 DEF Stopped, Ongoing
  <2>2. StoppedThere'
    BY <1>1, <1>6, <2>1 DEF StoppedThere, Refuted
  <2>3. ~intact
    BY <1>2, <1>8 DEF OnTrack, EventsOnTrack, Stopped
  <2>4. Tidy'
    BY <1>3, <1>5, <2>1
  <2> QED BY <1>1, <1>2, <1>4, <2>2, <2>3, <2>4 DEF Finished, Checking, Settled
<1>9. ASSUME ~Stopped PROVE Finished'
  <2>1. comparator.next = comparator.first + Len(emitted) /\ AllAgree
    BY <1>2, <1>9 DEF Stopped, Ongoing, StoppedThere, Refuted, NextEvent
  <2>2. PICK next : next = comparator.next
    OBVIOUS
  <2>3. Missing <=> ~WholeRange
    <3>1. /\ comparator.first \in Nat /\ comparator.last \in Nat
      BY <1>3
    <3> QED BY <1>3, <2>1, <3>1 DEF Missing, WholeRange
  <2>4. CASE Missing
    <3>1. comparator' = [comparator EXCEPT !.status = "ExpectedEventMissing", !.at = next]
      BY <1>1, <1>9, <2>2, <2>4
    <3>2. /\ comparator' \in Type /\ comparator'.first = comparator.first
          /\ comparator'.last = comparator.last
          /\ comparator'.status = "ExpectedEventMissing"
      BY <1>3, <2>2, <3>1
    <3>3. Tidy' /\ Refuted'
      BY <1>5, <3>2 DEF Refuted
    <3>4. ~WholeRange'
      BY <1>1, <2>3, <2>4, <3>2 DEF WholeRange
    <3>5. AllAgree'
      BY <1>1, <1>6, <2>1, <3>2 DEF AllAgree
    <3>6. ~intact
      BY <1>2, <1>7, <1>9, <2>4
    <3> QED BY <1>1, <1>2, <1>4, <3>3, <3>4, <3>5, <3>6 DEF Finished, Checking, Settled
  <2>5. CASE ~Missing
    <3>1. comparator' = [comparator EXCEPT !.status = "Complete"]
      BY <1>1, <1>9, <2>5
    <3>2. /\ comparator' \in Type /\ comparator'.first = comparator.first
          /\ comparator'.last = comparator.last /\ comparator'.status = "Complete"
      BY <1>3, <3>1
    <3>3. Tidy'
      BY <1>5, <3>2
    <3>4. WholeRange'
      BY <1>1, <2>3, <2>5, <3>2 DEF WholeRange
    <3>5. AllAgree'
      BY <1>1, <1>6, <2>1, <3>2 DEF AllAgree
    <3> QED BY <1>1, <1>2, <1>4, <3>2, <3>3, <3>4, <3>5 DEF Finished, Checking, Settled
  <2> QED BY <2>4, <2>5
<1> QED BY <1>8, <1>9

-----------------------------------------------------------------------------
(* Verification: the invariant and the verdict.                              *)

LEMMA VerificationInitInv == VerificationInit => VInv
BY InitInv DEF VerificationInit, VInv

LEMMA ReadingUnchanged ==
  ASSUME Reading, UNCHANGED vars
  PROVE  Reading'
<1>1. UNCHANGED <<ring, durable, nextLive, failed, producer, source, pending, sent,
                  persistence, copied, mode, liveResume, log, consumed>>
  BY DEF vars, pipelineVars, sourceVars, persistenceVars
<1>2. Types'
  BY <1>1 DEF Reading, Types, TypeOK
<1> QED BY <1>1, <1>2, ReadingStays

LEMMA VerificationStutters ==
  ASSUME VInv, UNCHANGED verificationVars
  PROVE  VInv'
<1>1. /\ UNCHANGED vars
      /\ UNCHANGED <<ring, durable, source, pending, sent, log, consumed>>
      /\ UNCHANGED <<verifier, bookConfig, eventLog, comparator, outgoing, emitted, intact>>
  BY DEF verificationVars, verifierVars, vars, pipelineVars, sourceVars, persistenceVars
<1>2. IInv => IInv'
  BY <1>1, StepInv
<1>3. Checking => Checking'
  <2>1. Reading => Reading'
    BY <1>1, ReadingUnchanged
  <2>2. Tidy => Tidy'
    BY <1>1 DEF Tidy
  <2> QED BY <1>1, <2>1, <2>2 DEF Checking
<1>4. \A k : Agrees(k)' <=> Agrees(k)
  BY <1>1 DEF Agrees
<1>5. (Ongoing => Ongoing') /\ (Settled => Settled')
  BY <1>1, <1>4 DEF Ongoing, Settled, StoppedThere, Refuted, AllAgree, WholeRange, NextEvent
<1>6. OnTrack => OnTrack'
  <2>1. AllEvents' = AllEvents /\ \A m : EventsUpTo(m)' = EventsUpTo(m)
    BY <1>1, EventsStay
  <2>2. \A n : PastCommand(n) => PastCommand(n)'
    BY <1>1, <2>1 DEF PastCommand
  <2>3. EventsOnTrack => EventsOnTrack'
    BY <1>1, <2>1 DEF EventsOnTrack
  <2>4. SourceOnTrack => SourceOnTrack'
    BY <1>1 DEF SourceOnTrack
  <2> QED BY <1>1, <2>2, <2>3, <2>4 DEF OnTrack
<1> QED BY <1>1, <1>2, <1>3, <1>5, <1>6 DEF VInv, Running, Finished

LEMMA VerificationStep == VInv /\ [VerificationNext]_verificationVars => VInv'
<1> SUFFICES ASSUME VInv, [VerificationNext]_verificationVars PROVE VInv'
  OBVIOUS
<1>1. CASE UNCHANGED verificationVars
  BY <1>1, VerificationStutters
<1>2. CASE Tract
  <2>1. verifier = "Off" /\ Next /\ verifier' = verifier
    BY <1>2 DEF Tract, Alone, verifierVars
  <2>2. IInv
    BY <2>1 DEF VInv, Running, Finished
  <2> QED BY <2>1, <2>2, StepInv DEF VInv
<1>3. CASE Verify
  <2>1. verifier = "Running"
    BY <1>3 DEF Verify, SourceStep, PassDurable, ProcessCommand, PublishEvent, Finish
  <2>2. Running
    BY <2>1 DEF VInv, Finished
  <2> QED BY <1>3, <2>2, SourceStepped, PassedDurable, ProcessedCommand, PublishedEvent,
             FinishedStep DEF Verify, VInv
<1>4. ASSUME NEW first \in DOMAIN log, NEW book \in BookConfigs, Start(first, book)
      PROVE  VInv'
  <2>1. verifier = "Off"
    BY <1>4 DEF Start
  <2>2. IInv
    BY <2>1 DEF VInv, Running, Finished
  <2> QED BY <1>4, <2>2, Started DEF VInv
<1> QED BY <1>1, <1>2, <1>3, <1>4 DEF VerificationNext

\* Whatever has been changed since the live run, the verification stays in step with
\* the two logs until it stops.
THEOREM VerificationInvariant == VerificationSpec => []VInv
<1> QED BY VerificationInitInv, VerificationStep, PTL DEF VerificationSpec

LEMMA VerdictIsExact == VInv => VerdictExact
<1> SUFFICES ASSUME VInv, verifier = "Finished" PROVE VerdictExact
  BY Zenon DEF VerdictExact
<1> DEFINE Same(k) == /\ comparator.first + k - 1 <= comparator.last
                      /\ comparator.first + k - 1 \in DOMAIN eventLog
                      /\ EventRecord(emitted[k]).bytes
                           = eventLog[comparator.first + k - 1].bytes
<1>1. Finished
  BY DEF VInv, Running
<1>2. \A k : Same(k) <=> Agrees(k)
  <2>1. ASSUME NEW p PROVE EventRecord(p).bytes = EventBytes(p)
    <3>1. PICK r : r = EventRecord(p)
      OBVIOUS
    <3>2. r = [size |-> event_wal_payload_size, bytes |-> EventBytes(p)]
      BY <3>1, EventRecorded
    <3> QED BY <3>1, <3>2
  <2> QED BY <2>1, Zenon DEF Agrees
<1> HIDE DEF Same
<1>3. Len(emitted) \in Nat /\ DOMAIN emitted = 1 .. Len(emitted)
  BY <1>1, StreamLength DEF Finished, Checking, Tidy
<1>4. Settled /\ (intact => comparator.status = "Complete")
  BY <1>1 DEF Finished
<1>5. comparator.status = "Complete" =>
        /\ Len(emitted) = comparator.last - comparator.first + 1
        /\ \A k \in DOMAIN emitted : Same(k)
  BY <1>2, <1>3, <1>4 DEF Settled, StoppedThere, Refuted, WholeRange, AllAgree
<1>6. /\ Len(emitted) = comparator.last - comparator.first + 1
      /\ \A k \in DOMAIN emitted : Same(k)
      => comparator.status = "Complete"
  BY <1>2, <1>3, <1>4 DEF Settled, StoppedThere, WholeRange
<1>7. \A k \in 1 .. Len(emitted) - 1 : Same(k)
  BY <1>2, <1>3, <1>4 DEF Settled, StoppedThere, AllAgree
<1> QED BY <1>4, <1>5, <1>6, <1>7, Zenon DEF VerdictExact, Same

\* VerdictExact: the verification completes exactly if the matcher has published the
\* recorded events of the range, stops at the first that is another, and completes
\* when nobody has changed a log, the range or what the source reads.
THEOREM VerdictExactAlways == VerificationSpec => []VerdictExact
BY VerificationInvariant, VerdictIsExact, PTL

LEMMA SessionsHold == VInv => LiveDeliveredOnce /\ ReplayExact
<1>1. ASSUME IInv PROVE LiveDeliveredOnce /\ ReplayExact
  BY <1>1, SessionReads, DeliveredOnce, ReplayedExactly
<1>2. ASSUME Checking PROVE LiveDeliveredOnce /\ ReplayExact
  <2>1. CommandWalExact /\ ReplayExact
    BY <1>2, RecordedGapless, ReplayedExactly DEF Checking
  <2>2. PICK d : d = [k \in DOMAIN log |-> Decoded(log[k])]
    OBVIOUS
  <2>3. DOMAIN d = 1 .. Len(log) /\ Len(log) \in Nat
    BY <1>2, <2>2, TypedLengths DEF Checking, Reading
  <2>4. Len(d) = Len(log)
    BY <2>3
  <2>5. SubSeq(<<>>, 1, 0) = SubSeq(d, 1, 0)
    BY <2>3, <2>4
  <2>6. IsPrefix(consumed, d)
    BY <1>2, <2>3, <2>4, <2>5, EmptyStream DEF Checking, IsPrefix
  <2> QED BY <2>1, <2>2, <2>6 DEF LiveDeliveredOnce
<1> QED BY <1>1, <1>2 DEF VInv, Running, Finished

\* LiveDeliveredOnce and ReplayExact hold in a verification, too, which replays a range
\* of the same Command WAL into a matcher that gets no live command.
THEOREM SessionsHoldAlways == VerificationSpec => [](LiveDeliveredOnce /\ ReplayExact)
BY VerificationInvariant, SessionsHold, PTL
=============================================================================
