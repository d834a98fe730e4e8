---------------------------- MODULE SnapshotProofs ----------------------------
(* Theorems about the snapshot tract: for every number of records and slots,  *)
(* whatever the bound on faults and crashes, what the modules hold, what a    *)
(* published snapshot says and that a release loses nothing.                  *)
EXTENDS SnapshotTract, TLAPS

-----------------------------------------------------------------------------
(* Application records.                                                      *)

\* What the decoder reads from a record.
LEMMA RecordFields ==
  ASSUME NEW kind, NEW generation_id, NEW data
  PROVE  LET payload == Payload(kind, generation_id, data)
         IN  /\ payload.size = kApplicationPayloadSize
             /\ Get(payload.bytes, 0) = kApplicationMagic
             /\ Get(payload.bytes, 4) = kApplicationVersion
             /\ Get(payload.bytes, 6) = kind
             /\ Get(payload.bytes, 8) = generation_id
             /\ Get(payload.bytes, 16) = data
BY DEF Payload, PutRecord, Get

\* A well-formed record decodes, and says which position it was written for.
LEMMA WellFormedDecodes ==
  ASSUME NEW n \in Nat, NEW payload \in WellFormed(n)
  PROVE  LET decoded == decode_record(payload)
         IN  /\ decoded.status = "Ok"
             /\ decoded.kind = SaveSnapshot => decoded.generation_id = n
             /\ decoded.kind = SaveSnapshot <=> payload = encode_save_snapshot(n)
<1>1. CASE payload = encode_data(1)
  <2>1. decode_record(payload).status = "Ok" /\ decode_record(payload).kind = Data
    BY <1>1, RecordFields DEF encode_data, decode_record, Data, SaveSnapshot
  <2>2. payload # encode_save_snapshot(n)
    BY <1>1, RecordFields DEF encode_data, encode_save_snapshot, Data, SaveSnapshot
  <2> QED BY <2>1, <2>2 DEF Data, SaveSnapshot
<1>2. CASE payload = encode_save_snapshot(n)
  BY <1>2, RecordFields DEF encode_save_snapshot, decode_record, Data, SaveSnapshot
<1> QED BY <1>1, <1>2 DEF WellFormed

\* A malformed record is refused by the decoder or names another position.
LEMMA MalformedRefused ==
  ASSUME NEW n \in Nat, NEW payload \in Malformed(n)
  PROVE  LET decoded == decode_record(payload)
         IN  \/ decoded.status # "Ok"
             \/ decoded.kind = SaveSnapshot /\ decoded.generation_id # n
<1>1. CASE payload = [encode_data(1) EXCEPT !.size = 63]
  BY <1>1 DEF encode_data, Payload, decode_record, kApplicationPayloadSize
<1>2. CASE payload = [encode_data(1) EXCEPT !.bytes[0] = 0]
  BY <1>2 DEF encode_data, Payload, PutRecord, Get, decode_record, kApplicationMagic
<1>3. CASE payload = [encode_data(1) EXCEPT !.bytes[4] = 2]
  BY <1>3 DEF encode_data, Payload, PutRecord, Get, decode_record, kApplicationVersion
<1>4. CASE payload = Payload(3, 0, 1)
  BY <1>4, RecordFields DEF decode_record, Data, SaveSnapshot
<1>5. CASE payload = Payload(Data, 1, 1)
  BY <1>5, RecordFields DEF decode_record, Data, SaveSnapshot
<1>6. CASE payload = Payload(SaveSnapshot, n, 1)
  BY <1>6, RecordFields DEF decode_record, Data, SaveSnapshot
<1>7. CASE payload = encode_save_snapshot(n + 1)
  BY <1>7, RecordFields DEF encode_save_snapshot, decode_record, Data, SaveSnapshot
<1> QED BY <1>1, <1>2, <1>3, <1>4, <1>5, <1>6, <1>7 DEF Malformed

-----------------------------------------------------------------------------
(* Snapshot files.                                                           *)

\* The state of a module after n records, and its capture at a SaveSnapshot.
StateAt(s, n) == IF s = "hash" THEN HashStateAt(n) ELSE BitStateAt(n)

CaptureAt(s, g) ==
  [generation_id |-> g, record_position |-> g, processed_end |-> g + 1,
   sequence |-> Sequence(g), state |-> StateAt(s, g + 1)]

GenerationAt(g) == CaptureGeneration(CaptureAt("hash", g), CaptureAt("bits", g))
DescriptionAt(g) == Description(Identity, GenerationAt(g))

HashFile(g) == serialize_hash_chain_snapshot(CaptureAt("hash", g))
BitsFile(g) == serialize_bit_accumulator_snapshot(CaptureAt("bits", g))
DescriptionFile(g) == serialize_snapshot_description(DescriptionAt(g))

\* What is read from the file of the first module is what was captured.
LEMMA HashFileDecodes ==
  ASSUME NEW g \in Nat
  PROVE  /\ HashFile(g).size = kHashChainSnapshotSize
         /\ deserialize_hash_chain_snapshot(HashFile(g)) = <<CaptureAt("hash", g)>>
<1> DEFINE capture == CaptureAt("hash", g)
           bytes == HashFile(g).bytes
<1>1. \A at \in HeaderOffsets \cup {48, 56} :
        Get(bytes, at) = put_hash_chain(at, capture)
  BY DEF HashFile, serialize_hash_chain_snapshot, File, Get
<1>2. HashFile(g).size = kHashChainSnapshotSize
  BY DEF HashFile, serialize_hash_chain_snapshot, File
<1>3. /\ capture.generation_id = g /\ capture.record_position = g
      /\ capture.processed_end = g + 1 /\ capture.sequence = Sequence(g)
      /\ capture.state = HashStateAt(g + 1)
      /\ capture.state.digest = FoldAt(g + 1) /\ capture.state.failed = FALSE
  BY DEF CaptureAt, StateAt, HashStateAt
<1> HIDE DEF capture, bytes
<1>4. /\ Get(bytes, 0) = hash_snapshot_magic
      /\ Get(bytes, 4) = kSnapshotFormatVersion
      /\ Get(bytes, 6) = kHashChainSchemaVersion
      /\ Get(bytes, 8) = kHashChainModuleId
  BY <1>1 DEF HeaderOffsets, put_hash_chain, CaptureHeader
<1>5. /\ Get(bytes, 16) = g /\ Get(bytes, 24) = g
      /\ Get(bytes, 32) = g + 1 /\ Get(bytes, 40) = Sequence(g)
  BY <1>1, <1>3 DEF HeaderOffsets, put_hash_chain, CaptureHeader
<1>6. Get(bytes, 48) = FoldAt(g + 1) /\ Get(bytes, 56) = 0
  BY <1>1, <1>3 DEF put_hash_chain, Bit
<1>7. ValidHeader(HashFile(g), kHashChainSnapshotSize, hash_snapshot_magic,
                  kHashChainSchemaVersion, kHashChainModuleId)
  BY <1>2, <1>4 DEF ValidHeader, bytes
<1>8. zero_range(bytes, 57, HashFile(g).size)
  <2>1. DOMAIN bytes = {0, 4, 6, 8, 16, 24, 32, 40, 48, 56}
    BY DEF bytes, HashFile, serialize_hash_chain_snapshot, File, HeaderOffsets
  <2>2. \A at \in 57 .. 63 : at \notin DOMAIN bytes
    BY <2>1
  <2> QED BY <1>2, <2>2 DEF zero_range, Get, kHashChainSnapshotSize
<1>9. deserialize_hash_chain_snapshot(HashFile(g)) =
        <<DecodedCapture(bytes, [processed_end |-> g + 1, digest |-> FoldAt(g + 1),
                                 failed |-> FALSE])>>
  <2>1. Get(bytes, 56) <= 1 /\ (Get(bytes, 56) # 0) = FALSE
    BY <1>6
  <2> QED BY <1>5, <1>6, <1>7, <1>8, <2>1, Zenon
      DEF deserialize_hash_chain_snapshot, bytes
<1>10. DecodedCapture(bytes, HashStateAt(g + 1)) = CaptureAt("hash", g)
  BY <1>5 DEF DecodedCapture, CaptureAt, StateAt
<1> QED BY <1>2, <1>9, <1>10 DEF HashStateAt

\* The same of the second module.
LEMMA BitsFileDecodes ==
  ASSUME NEW g \in Nat
  PROVE  /\ BitsFile(g).size = kBitAccumulatorSnapshotSize
         /\ deserialize_bit_accumulator_snapshot(BitsFile(g)) = <<CaptureAt("bits", g)>>
<1> DEFINE capture == CaptureAt("bits", g)
           bytes == BitsFile(g).bytes
<1>1. \A at \in HeaderOffsets \cup {48, 56, 64} :
        Get(bytes, at) = put_bit_accumulator(at, capture)
  BY DEF BitsFile, serialize_bit_accumulator_snapshot, File, Get
<1>2. BitsFile(g).size = kBitAccumulatorSnapshotSize
  BY DEF BitsFile, serialize_bit_accumulator_snapshot, File
<1>3. /\ capture.generation_id = g /\ capture.record_position = g
      /\ capture.processed_end = g + 1 /\ capture.sequence = Sequence(g)
      /\ capture.state = BitStateAt(g + 1)
      /\ capture.state.total_one_bits = g + 1
      /\ capture.state.rolling_bits = FoldAt(g + 1) /\ capture.state.failed = FALSE
  BY DEF CaptureAt, StateAt, BitStateAt
<1> HIDE DEF capture, bytes
<1>4. /\ Get(bytes, 0) = bit_snapshot_magic
      /\ Get(bytes, 4) = kSnapshotFormatVersion
      /\ Get(bytes, 6) = kBitAccumulatorSchemaVersion
      /\ Get(bytes, 8) = kBitAccumulatorModuleId
  BY <1>1 DEF HeaderOffsets, put_bit_accumulator, CaptureHeader
<1>5. /\ Get(bytes, 16) = g /\ Get(bytes, 24) = g
      /\ Get(bytes, 32) = g + 1 /\ Get(bytes, 40) = Sequence(g)
  BY <1>1, <1>3 DEF HeaderOffsets, put_bit_accumulator, CaptureHeader
<1>6. /\ Get(bytes, 48) = g + 1 /\ Get(bytes, 56) = FoldAt(g + 1)
      /\ Get(bytes, 64) = 0
  BY <1>1, <1>3 DEF put_bit_accumulator, Bit
<1>7. ValidHeader(BitsFile(g), kBitAccumulatorSnapshotSize, bit_snapshot_magic,
                  kBitAccumulatorSchemaVersion, kBitAccumulatorModuleId)
  BY <1>2, <1>4 DEF ValidHeader, bytes
<1>8. zero_range(bytes, 65, BitsFile(g).size)
  <2>1. DOMAIN bytes = {0, 4, 6, 8, 16, 24, 32, 40, 48, 56, 64}
    BY DEF bytes, BitsFile, serialize_bit_accumulator_snapshot, File, HeaderOffsets
  <2>2. \A at \in 65 .. 71 : at \notin DOMAIN bytes
    BY <2>1
  <2> QED BY <1>2, <2>2 DEF zero_range, Get, kBitAccumulatorSnapshotSize
<1>9. deserialize_bit_accumulator_snapshot(BitsFile(g)) =
        <<DecodedCapture(bytes, [processed_end |-> g + 1, total_one_bits |-> g + 1,
                                 rolling_bits |-> FoldAt(g + 1), failed |-> FALSE])>>
  <2>1. Get(bytes, 64) <= 1 /\ (Get(bytes, 64) # 0) = FALSE
    BY <1>6
  <2> QED BY <1>5, <1>6, <1>7, <1>8, <2>1, Zenon
      DEF deserialize_bit_accumulator_snapshot, bytes
<1>10. DecodedCapture(bytes, BitStateAt(g + 1)) = CaptureAt("bits", g)
  BY <1>5 DEF DecodedCapture, CaptureAt, StateAt
<1> QED BY <1>2, <1>9, <1>10 DEF BitStateAt

\* A description survives its bytes, whatever it describes.
LEMMA DescriptionDecodes ==
  ASSUME NEW d,
         d = [identity |-> d.identity, generation_id |-> d.generation_id,
              record_position |-> d.record_position,
              processed_end |-> d.processed_end,
              snapshot_sequence |-> d.snapshot_sequence,
              hash_chain |-> d.hash_chain, bit_accumulator |-> d.bit_accumulator],
         d.identity = [stream_kind |-> d.identity.stream_kind,
                       composition_id |-> d.identity.composition_id,
                       stream_id |-> d.identity.stream_id,
                       epoch_id |-> d.identity.epoch_id,
                       manifest_id |-> d.identity.manifest_id],
         d.hash_chain = [module_id |-> d.hash_chain.module_id,
                         schema_version |-> d.hash_chain.schema_version,
                         file_kind |-> HashChain,
                         file_size |-> d.hash_chain.file_size,
                         checksum |-> d.hash_chain.checksum],
         d.bit_accumulator = [module_id |-> d.bit_accumulator.module_id,
                              schema_version |-> d.bit_accumulator.schema_version,
                              file_kind |-> BitAccumulator,
                              file_size |-> d.bit_accumulator.file_size,
                              checksum |-> d.bit_accumulator.checksum],
         d.identity.stream_kind \in StreamKinds
  PROVE  LET file == serialize_snapshot_description(d)
         IN  /\ file.size = kSnapshotDescriptionSize
             /\ deserialize_snapshot_description(file) = <<d>>
<1> DEFINE file == serialize_snapshot_description(d)
           body == [at \in BodyOffsets |-> put_description(at, d)]
           bytes == [at \in BodyOffsets \cup {144} |->
                       IF at = 144 THEN body ELSE body[at]]
<1>1. file.size = kSnapshotDescriptionSize /\ file.bytes = bytes
  BY DEF serialize_snapshot_description, File
<1>2. /\ DOMAIN bytes = BodyOffsets \cup {144} /\ bytes[144] = body
      /\ \A at \in BodyOffsets : bytes[at] = put_description(at, d)
  BY DEF BodyOffsets, HeaderOffsets
<1>3. [at \in {o \in DOMAIN bytes : o < 144} |-> bytes[at]] = body
  <2>1. {o \in DOMAIN bytes : o < 144} = BodyOffsets
    BY <1>2 DEF BodyOffsets, HeaderOffsets
  <2>2. \A at \in BodyOffsets : bytes[at] = body[at]
    BY <1>2
  <2> QED BY <2>1, <2>2
<1> HIDE DEF file, body, bytes
<1>4. \A at \in BodyOffsets : Get(bytes, at) = put_description(at, d)
  BY <1>2 DEF Get
<1>5. /\ Get(bytes, 0) = description_magic
      /\ Get(bytes, 4) = kSnapshotFormatVersion
      /\ Get(bytes, 6) = kSnapshotDescriptionSize
      /\ Get(bytes, 8) = d.identity.composition_id
      /\ Get(bytes, 16) = d.identity.stream_id
      /\ Get(bytes, 24) = d.identity.epoch_id
      /\ Get(bytes, 32) = d.identity.manifest_id
  BY <1>4 DEF put_description, BodyOffsets, HeaderOffsets
<1>6. /\ Get(bytes, 40) = d.generation_id
      /\ Get(bytes, 48) = d.record_position
      /\ Get(bytes, 56) = d.processed_end
      /\ Get(bytes, 64) = d.snapshot_sequence
      /\ Get(bytes, 72) = required_module_count
      /\ Get(bytes, 76) = d.identity.stream_kind
  BY <1>4 DEF put_description, BodyOffsets, HeaderOffsets
<1>7. get_module_description(bytes, 80) = d.hash_chain
  <2>1. /\ Get(bytes, 80) = put_module_description(0, d.hash_chain)
        /\ Get(bytes, 88) = put_module_description(8, d.hash_chain)
        /\ Get(bytes, 92) = put_module_description(12, d.hash_chain)
        /\ Get(bytes, 96) = put_module_description(16, d.hash_chain)
        /\ Get(bytes, 104) = put_module_description(24, d.hash_chain)
    BY <1>4 DEF put_description, BodyOffsets, HeaderOffsets
  <2>2. /\ Get(bytes, 80) = d.hash_chain.module_id
        /\ Get(bytes, 88) = d.hash_chain.schema_version
        /\ Get(bytes, 92) = d.hash_chain.file_kind
        /\ Get(bytes, 96) = d.hash_chain.file_size
        /\ Get(bytes, 104) = d.hash_chain.checksum
    BY <2>1 DEF put_module_description
  <2> QED BY <2>2 DEF get_module_description
<1>8. get_module_description(bytes, 112) = d.bit_accumulator
  <2>1. /\ Get(bytes, 112) = put_module_description(0, d.bit_accumulator)
        /\ Get(bytes, 120) = put_module_description(8, d.bit_accumulator)
        /\ Get(bytes, 124) = put_module_description(12, d.bit_accumulator)
        /\ Get(bytes, 128) = put_module_description(16, d.bit_accumulator)
        /\ Get(bytes, 136) = put_module_description(24, d.bit_accumulator)
    BY <1>4 DEF put_description, BodyOffsets, HeaderOffsets
  <2>2. /\ Get(bytes, 112) = d.bit_accumulator.module_id
        /\ Get(bytes, 120) = d.bit_accumulator.schema_version
        /\ Get(bytes, 124) = d.bit_accumulator.file_kind
        /\ Get(bytes, 128) = d.bit_accumulator.file_size
        /\ Get(bytes, 136) = d.bit_accumulator.checksum
    BY <2>1 DEF put_module_description
  <2> QED BY <2>2 DEF get_module_description
<1>9. Get(bytes, 144) = [at \in {o \in DOMAIN bytes : o < 144} |-> bytes[at]]
  BY <1>2, <1>3 DEF Get
<1>10. \A at \in ReservedOffsets : Get(bytes, at) = 0
  <2>1. \A at \in ReservedOffsets : at \notin DOMAIN bytes
    BY <1>2 DEF ReservedOffsets, BodyOffsets, HeaderOffsets
  <2> QED BY <2>1 DEF Get
<1>11. deserialize_snapshot_description(file) = <<d>>
  BY <1>1, <1>5, <1>6, <1>7, <1>8, <1>9, <1>10
     DEF deserialize_snapshot_description
<1> QED BY <1>1, <1>11 DEF file

LEMMA DescriptionFileDecodes ==
  ASSUME NEW g \in Nat
  PROVE  /\ DescriptionFile(g).size = kSnapshotDescriptionSize
         /\ deserialize_snapshot_description(DescriptionFile(g))
              = <<DescriptionAt(g)>>
         /\ DescriptionAt(g).identity = Identity
         /\ DescriptionAt(g).generation_id = g
         /\ DescriptionAt(g).record_position = g
         /\ DescriptionAt(g).processed_end = g + 1
         /\ DescriptionAt(g).snapshot_sequence = Sequence(g)
         /\ DescriptionAt(g).hash_chain.module_id = kHashChainModuleId
         /\ DescriptionAt(g).hash_chain.schema_version = kHashChainSchemaVersion
         /\ DescriptionAt(g).hash_chain.file_kind = HashChain
         /\ DescriptionAt(g).hash_chain.file_size = kHashChainSnapshotSize
         /\ DescriptionAt(g).hash_chain.checksum = HashFile(g)
         /\ DescriptionAt(g).bit_accumulator.module_id = kBitAccumulatorModuleId
         /\ DescriptionAt(g).bit_accumulator.schema_version
              = kBitAccumulatorSchemaVersion
         /\ DescriptionAt(g).bit_accumulator.file_kind = BitAccumulator
         /\ DescriptionAt(g).bit_accumulator.file_size = kBitAccumulatorSnapshotSize
         /\ DescriptionAt(g).bit_accumulator.checksum = BitsFile(g)
<1> DEFINE d == DescriptionAt(g)
<1>1. /\ GenerationAt(g).generation_id = g /\ GenerationAt(g).record_position = g
      /\ GenerationAt(g).processed_end = g + 1
      /\ GenerationAt(g).sequence = Sequence(g)
      /\ GenerationAt(g).hash_chain = CaptureAt("hash", g)
      /\ GenerationAt(g).bit_accumulator = CaptureAt("bits", g)
  BY DEF GenerationAt, CaptureGeneration, CaptureAt
<1>2. d = [identity |-> Identity, generation_id |-> g, record_position |-> g,
           processed_end |-> g + 1, snapshot_sequence |-> Sequence(g),
           hash_chain |-> ModuleDescription(kHashChainModuleId,
                            kHashChainSchemaVersion, HashChain, HashFile(g)),
           bit_accumulator |-> ModuleDescription(kBitAccumulatorModuleId,
                                 kBitAccumulatorSchemaVersion, BitAccumulator,
                                 BitsFile(g))]
  BY <1>1 DEF DescriptionAt, Description, HashFile, BitsFile
<1>3. /\ ModuleDescription(kHashChainModuleId, kHashChainSchemaVersion, HashChain,
                           HashFile(g))
           = [module_id |-> kHashChainModuleId,
              schema_version |-> kHashChainSchemaVersion, file_kind |-> HashChain,
              file_size |-> kHashChainSnapshotSize, checksum |-> HashFile(g)]
      /\ ModuleDescription(kBitAccumulatorModuleId, kBitAccumulatorSchemaVersion,
                           BitAccumulator, BitsFile(g))
           = [module_id |-> kBitAccumulatorModuleId,
              schema_version |-> kBitAccumulatorSchemaVersion,
              file_kind |-> BitAccumulator,
              file_size |-> kBitAccumulatorSnapshotSize, checksum |-> BitsFile(g)]
  BY HashFileDecodes, BitsFileDecodes DEF ModuleDescription, crc32_bytes
<1> HIDE DEF d
<1>4. /\ d.identity = Identity /\ d.generation_id = g
      /\ d.record_position = g /\ d.processed_end = g + 1
      /\ d.snapshot_sequence = Sequence(g)
      /\ d.hash_chain =
              [module_id |-> kHashChainModuleId,
               schema_version |-> kHashChainSchemaVersion, file_kind |-> HashChain,
               file_size |-> kHashChainSnapshotSize, checksum |-> HashFile(g)]
      /\ d.bit_accumulator =
              [module_id |-> kBitAccumulatorModuleId,
               schema_version |-> kBitAccumulatorSchemaVersion,
               file_kind |-> BitAccumulator,
               file_size |-> kBitAccumulatorSnapshotSize, checksum |-> BitsFile(g)]
  BY <1>2, <1>3
<1>5. d = [identity |-> d.identity, generation_id |-> d.generation_id,
           record_position |-> d.record_position,
           processed_end |-> d.processed_end,
           snapshot_sequence |-> d.snapshot_sequence,
           hash_chain |-> d.hash_chain, bit_accumulator |-> d.bit_accumulator]
  BY <1>2
<1>6. /\ d.identity.stream_kind \in StreamKinds
      /\ d.identity = [stream_kind |-> d.identity.stream_kind,
                       composition_id |-> d.identity.composition_id,
                       stream_id |-> d.identity.stream_id,
                       epoch_id |-> d.identity.epoch_id,
                       manifest_id |-> d.identity.manifest_id]
  BY <1>4 DEF Identity, StreamKinds
<1>7. /\ d.hash_chain = [module_id |-> d.hash_chain.module_id,
                         schema_version |-> d.hash_chain.schema_version,
                         file_kind |-> HashChain,
                         file_size |-> d.hash_chain.file_size,
                         checksum |-> d.hash_chain.checksum]
      /\ d.bit_accumulator = [module_id |-> d.bit_accumulator.module_id,
                              schema_version |-> d.bit_accumulator.schema_version,
                              file_kind |-> BitAccumulator,
                              file_size |-> d.bit_accumulator.file_size,
                              checksum |-> d.bit_accumulator.checksum]
  BY <1>4
<1>8. /\ serialize_snapshot_description(d).size = kSnapshotDescriptionSize
      /\ deserialize_snapshot_description(serialize_snapshot_description(d)) = <<d>>
  BY <1>5, <1>6, <1>7, DescriptionDecodes
<1> QED BY <1>4, <1>8 DEF d, DescriptionFile

\* The three files of a generation.
FilesAt(g) ==
  [name \in {"hash", "bits", "description"} |->
     CASE name = "hash" -> HashFile(g) [] name = "bits" -> BitsFile(g)
       [] name = "description" -> DescriptionFile(g)]

\* With the description of a generation only its own files are accepted.
LEMMA ModulesLoad ==
  ASSUME NEW g \in Nat, NEW directory,
         LoadModules(directory, DescriptionAt(g)).status = "Ok"
  PROVE  LoadModules(directory, DescriptionAt(g)).prepared =
           <<[description |-> DescriptionAt(g), hash_chain |-> HashStateAt(g + 1),
              bit_accumulator |-> BitStateAt(g + 1)]>>
<1> DEFINE d == DescriptionAt(g)
<1>1. d.hash_chain.checksum = HashFile(g) /\ d.bit_accumulator.checksum = BitsFile(g)
  BY DescriptionFileDecodes
<1> HIDE DEF d
<1>2. directory["hash"] = HashFile(g) /\ directory["bits"] = BitsFile(g)
  BY <1>1 DEF LoadModules, Refused, crc32_bytes, d
<1>3. /\ deserialize_hash_chain_snapshot(directory["hash"]) = <<CaptureAt("hash", g)>>
      /\ deserialize_bit_accumulator_snapshot(directory["bits"])
           = <<CaptureAt("bits", g)>>
  BY <1>2, HashFileDecodes, BitsFileDecodes
<1>4. /\ CaptureAt("hash", g).state = HashStateAt(g + 1)
      /\ CaptureAt("bits", g).state = BitStateAt(g + 1)
  BY DEF CaptureAt, StateAt
<1> QED BY <1>3, <1>4 DEF LoadModules, Refused, d

\* They are.
LEMMA FilesLoad ==
  ASSUME NEW g \in Positions
  PROVE  Load(FilesAt(g), Identity, g).status = "Ok"
<1> DEFINE f == FilesAt(g)
           d == DescriptionAt(g)
<1>1. g \in Nat /\ g # MaxPosition
  BY TractAssumption DEF Positions
<1>2. /\ DOMAIN f = {"hash", "bits", "description"} /\ f["hash"] = HashFile(g)
      /\ f["bits"] = BitsFile(g) /\ f["description"] = DescriptionFile(g)
  BY DEF FilesAt
<1> HIDE DEF f, d
<1>3. /\ read_fixed_file(f, "description", kSnapshotDescriptionSize) = "Ok"
      /\ read_fixed_file(f, "hash", kHashChainSnapshotSize) = "Ok"
      /\ read_fixed_file(f, "bits", kBitAccumulatorSnapshotSize) = "Ok"
  BY <1>1, <1>2, DescriptionFileDecodes, HashFileDecodes, BitsFileDecodes
  DEF read_fixed_file
<1>4. deserialize_snapshot_description(f["description"]) = <<d>>
  BY <1>1, <1>2, DescriptionFileDecodes DEF d
<1>5. ValidIdentity(Identity)
  BY DEF ValidIdentity, Identity, StreamKinds
<1>6. /\ valid_description_boundary(d, g) /\ valid_module_descriptions(d)
      /\ d.identity = Identity
      /\ d.hash_chain.file_size = kHashChainSnapshotSize
      /\ d.bit_accumulator.file_size = kBitAccumulatorSnapshotSize
      /\ d.hash_chain.checksum = HashFile(g) /\ d.bit_accumulator.checksum = BitsFile(g)
  BY <1>1, DescriptionFileDecodes DEF valid_description_boundary,
     valid_module_descriptions, d
<1>7. LoadModules(f, d).status = "Ok"
  <2>1. /\ deserialize_hash_chain_snapshot(f["hash"]) = <<CaptureAt("hash", g)>>
        /\ deserialize_bit_accumulator_snapshot(f["bits"]) = <<CaptureAt("bits", g)>>
    BY <1>1, <1>2, HashFileDecodes, BitsFileDecodes
  <2>2. captures_match_description(d, {CaptureAt("hash", g), CaptureAt("bits", g)})
    BY <1>1, DescriptionFileDecodes
    DEF captures_match_description, CaptureAt, StateAt, HashStateAt, BitStateAt, d
  <2>3. ~CaptureAt("hash", g).state.failed /\ ~CaptureAt("bits", g).state.failed
    BY DEF CaptureAt, StateAt, HashStateAt, BitStateAt
  <2> QED BY <1>2, <1>3, <1>6, <2>1, <2>2, <2>3 DEF LoadModules, crc32_bytes
<1> QED BY <1>3, <1>4, <1>5, <1>6, <1>7 DEF Load, f

-----------------------------------------------------------------------------
(* What the loader accepts.                                                  *)

\* The checks of the loader up to the first module file.
Accepted(file, g) ==
  /\ file.size = kSnapshotDescriptionSize
  /\ deserialize_snapshot_description(file) # <<>>
  /\ LET d == deserialize_snapshot_description(file)[1]
     IN  /\ d.identity = Identity
         /\ valid_description_boundary(d, g) /\ valid_module_descriptions(d)

LEMMA LoadAccepts ==
  ASSUME NEW g, NEW directory, Load(directory, Identity, g).status = "Ok"
  PROVE  LET file == directory["description"]
         IN  /\ "description" \in DOMAIN directory /\ Accepted(file, g)
             /\ Load(directory, Identity, g) =
                  LoadModules(directory, deserialize_snapshot_description(file)[1])
BY DEF Load, Refused, read_fixed_file, Accepted

\* The first g + 1 records can be folded, and the last is the SaveSnapshot of g.
Saved(g) == /\ g < Len(log) /\ log[g + 1] = encode_save_snapshot(g)
            /\ \A k \in 1 .. g + 1 : log[k] \in WellFormed(k - 1)

IsFile(file) == file = [size |-> file.size, bytes |-> file.bytes]

\* Whatever was done to it, the loader takes it for the description of g only if
\* save wrote it for g.
Genuine(file) ==
  /\ IsFile(file)
  /\ \A g \in Positions : Accepted(file, g) => file = DescriptionFile(g) /\ Saved(g)

\* A directory that loads holds the state after the records of its position.
LEMMA LoadedExact ==
  ASSUME NEW g \in Positions, NEW directory,
         "description" \in DOMAIN directory => Genuine(directory["description"]),
         Load(directory, Identity, g).status = "Ok"
  PROVE  /\ Saved(g)
         /\ Load(directory, Identity, g).prepared =
              <<[description |-> DescriptionAt(g), hash_chain |-> HashStateAt(g + 1),
                 bit_accumulator |-> BitStateAt(g + 1)]>>
<1> DEFINE file == directory["description"]
           d == deserialize_snapshot_description(file)[1]
<1>1. /\ "description" \in DOMAIN directory /\ Accepted(file, g)
      /\ Load(directory, Identity, g) = LoadModules(directory, d)
  BY LoadAccepts, Zenon
<1>2. file = DescriptionFile(g) /\ Saved(g)
  BY <1>1 DEF Genuine
<1>3. g \in Nat
  BY TractAssumption DEF Positions
<1>4. d = DescriptionAt(g)
  BY <1>2, <1>3, DescriptionFileDecodes
<1> HIDE DEF d, file
<1>5. LoadModules(directory, DescriptionAt(g)).status = "Ok"
  BY <1>1, <1>4
<1> QED BY <1>1, <1>2, <1>3, <1>4, <1>5, ModulesLoad

\* What save writes is genuine.
LEMMA DescriptionGenuine ==
  ASSUME NEW h \in Positions, Saved(h)
  PROVE  Genuine(DescriptionFile(h))
<1>1. h \in Nat
  BY TractAssumption DEF Positions
<1>2. IsFile(DescriptionFile(h))
  BY DEF IsFile, DescriptionFile, serialize_snapshot_description, File
<1>3. ASSUME NEW g \in Positions, Accepted(DescriptionFile(h), g) PROVE g = h
  <2>1. valid_description_boundary(DescriptionAt(h), g)
    BY <1>1, <1>3, DescriptionFileDecodes DEF Accepted
  <2> QED BY <1>1, <2>1, DescriptionFileDecodes DEF valid_description_boundary
<1> QED BY <1>2, <1>3 DEF Genuine

-----------------------------------------------------------------------------
(* The inductive invariant.                                                  *)

Payloads == UNION {WellFormed(n) \cup Malformed(n) : n \in Positions}

LogOK ==
  /\ log \in Seq(Payloads) /\ Len(log) <= MaxRecords
  /\ \A k \in 1 .. Len(log) : log[k] \in WellFormed(k - 1) \cup Malformed(k - 1)

\* Each stage has folded records that can be folded, and published no more.
ProgressOK ==
  /\ current \in [Stages -> Nat] /\ frontier \in [Stages -> Nat]
  /\ \A s \in Stages :
       /\ frontier[s] <= current[s] /\ current[s] <= Len(log)
       /\ \A k \in 1 .. current[s] : log[k] \in WellFormed(k - 1)

Flagged(s, n, flag) ==
  IF s = "hash"
  THEN [processed_end |-> n, digest |-> FoldAt(n), failed |-> flag]
  ELSE [processed_end |-> n, total_one_bits |-> n, rolling_bits |-> FoldAt(n),
        failed |-> flag]
FailedAt(s, n) == Flagged(s, n, TRUE)

\* The state of a module is that after current[s] records; it fails only at one
\* that cannot be folded.
StateOK(s) ==
  \/ module[s].state = StateAt(s, current[s])
  \/ /\ module[s].state = FailedAt(s, current[s])
     /\ current[s] < Len(log) /\ log[current[s] + 1] \notin WellFormed(current[s])

\* What a module holds is its capture of a SaveSnapshot it has folded.
CaptureOK(s) ==
  \/ module[s].capture = <<>>
  \/ \E g \in Positions : /\ g < current[s] /\ Saved(g)
                          /\ module[s].capture = <<CaptureAt(s, g)>>

ModulesOK ==
  /\ DOMAIN module = Stages /\ module = [s \in Stages |-> module[s]]
  /\ \A s \in Stages :
       /\ module[s] = [state |-> module[s].state, capture |-> module[s].capture]
       /\ StateOK(s) /\ CaptureOK(s)

\* The generation is of one position, and both captures of it are still held.
GenerationOf(g) == /\ generation = <<GenerationAt(g)>> /\ Saved(g)
                   /\ \A s \in Stages : module[s].capture = <<CaptureAt(s, g)>>
GenerationOK == generation = <<>> \/ \E g \in Positions : GenerationOf(g)

\* The staging directory holds these files, which are those of generation g.
Staged(g, names) ==
  /\ staging.files = [name \in DOMAIN staging.files |-> staging.files[name]]
  /\ DOMAIN staging.files = names
  /\ "hash" \in names => staging.files["hash"] = HashFile(g)
  /\ "bits" \in names => staging.files["bits"] = BitsFile(g)
  /\ "pending" \in names => staging.files["pending"] = DescriptionFile(g)

\* Every call of save leaves the staging directory as the next one needs it.
SinkOK ==
  /\ staging = [files |-> staging.files, synced |-> staging.synced]
  /\ sink # "Idle" =>
       /\ generation # <<>>
       /\ published[Pending].there <=> sink = "SyncRoot"
  /\ sink = "WriteHash" => Staged(Pending, {})
  /\ sink = "WriteBits" => Staged(Pending, {"hash"})
  /\ sink = "WriteDescription" => Staged(Pending, {"hash", "bits"})
  /\ sink = "RenameDescription" => Staged(Pending, {"hash", "bits", "pending"})
  /\ sink \in {"SyncStaging", "RenameStaging"} => staging.files = FilesAt(Pending)
  /\ sink = "RenameStaging" => staging.synced = TRUE

\* A directory is published with all its files, synced.  Of a damaged one the
\* description is still what protects it.
DirectoryOK(directory, g) ==
  \/ directory = NoDirectory
  \/ /\ directory = [there |-> TRUE, durable |-> directory.durable,
                     files |-> directory.files, synced |-> TRUE,
                     damaged |-> directory.damaged]
     /\ directory.durable \in BOOLEAN
     /\ directory.files = [name \in DOMAIN directory.files |-> directory.files[name]]
     /\ ~directory.damaged => directory.files = FilesAt(g) /\ Saved(g)
     /\ "description" \in DOMAIN directory.files =>
          Genuine(directory.files["description"])

PublishedOK ==
  /\ published = [g \in Positions |-> published[g]]
  /\ \A g \in Positions : DirectoryOK(published[g], g)

\* What was released is durable, and what was not is still held.
ReleasedOK ==
  /\ \A g \in released :
       g \in Positions /\ published[g].there /\ published[g].durable
  /\ phase = "Live" =>
       \A s \in Stages : \A g \in 0 .. current[s] - 1 :
         log[g + 1] = encode_save_snapshot(g) =>
           g \in released \/ module[s].capture = <<CaptureAt(s, g)>>

DownOK == phase = "Down" => sink = "Idle" /\ generation = <<>>

IInv == /\ LogOK /\ ProgressOK /\ ModulesOK /\ GenerationOK /\ SinkOK
        /\ PublishedOK /\ ReleasedOK /\ DownOK

-----------------------------------------------------------------------------
(* What a step that leaves the variables of a conjunct alone preserves.      *)

LEMMA SavedFrame ==
  ASSUME UNCHANGED log
  PROVE  /\ \A g : Saved(g)' <=> Saved(g)
         /\ \A file : Genuine(file)' <=> Genuine(file)
         /\ \A directory, g : DirectoryOK(directory, g)' <=> DirectoryOK(directory, g)
<1>1. ASSUME NEW g PROVE Saved(g)' <=> Saved(g)
  BY DEF Saved
<1>2. ASSUME NEW file PROVE Genuine(file)' <=> Genuine(file)
  BY <1>1 DEF Genuine
<1>3. ASSUME NEW directory, NEW g
      PROVE  DirectoryOK(directory, g)' <=> DirectoryOK(directory, g)
  BY <1>1, <1>2 DEF DirectoryOK
<1> QED BY <1>1, <1>2, <1>3

LEMMA LogFrame ==
  ASSUME LogOK, ProgressOK, UNCHANGED <<log, current, frontier>>
  PROVE  LogOK' /\ ProgressOK'
BY DEF LogOK, ProgressOK

LEMMA ModulesFrame ==
  ASSUME ModulesOK, UNCHANGED <<log, current, module>>
  PROVE  ModulesOK'
BY SavedFrame DEF ModulesOK, StateOK, CaptureOK

LEMMA GenerationFrame ==
  ASSUME GenerationOK, UNCHANGED <<log, module, generation>>
  PROVE  GenerationOK'
BY SavedFrame DEF GenerationOK, GenerationOf

LEMMA SinkFrame ==
  ASSUME SinkOK, UNCHANGED <<generation, sink, staging, published>>
  PROVE  SinkOK'
BY DEF SinkOK, Staged, Pending

LEMMA PublishedFrame ==
  ASSUME PublishedOK, UNCHANGED <<log, published>>
  PROVE  PublishedOK'
BY SavedFrame DEF PublishedOK

LEMMA ReleasedFrame ==
  ASSUME ReleasedOK, UNCHANGED <<log, phase, current, module, published, released>>
  PROVE  ReleasedOK'
BY DEF ReleasedOK

LEMMA DownFrame ==
  ASSUME DownOK, UNCHANGED <<phase, generation, sink>>
  PROVE  DownOK'
BY DEF DownOK

-----------------------------------------------------------------------------
(* Initial states.                                                           *)

LEMMA InitHolds == Init => IInv
<1> SUFFICES ASSUME Init PROVE IInv
  OBVIOUS
<1> USE DEF Init
<1>1. LogOK
  BY TractAssumption DEF LogOK
<1>2. ProgressOK
  BY <1>1 DEF ProgressOK, Stages, LogOK
<1>3. ModulesOK
  <2>1. FoldAt(0) = <<>>
    BY DEF FoldAt
  <2>2. DOMAIN module = Stages /\ module = [s \in Stages |-> module[s]]
    BY DEF NewModules
  <2>3. ASSUME NEW s \in Stages
        PROVE  /\ module[s] = [state |-> module[s].state,
                               capture |-> module[s].capture]
               /\ StateOK(s) /\ CaptureOK(s)
    <3>1. current[s] = 0
      OBVIOUS
    <3>2. /\ module[s] = [state |-> module[s].state, capture |-> module[s].capture]
          /\ module[s].state = StateAt(s, 0) /\ module[s].capture = <<>>
      BY <2>1 DEF NewModules, Module, HashChainState, BitAccumulatorState, StateAt,
         HashStateAt, BitStateAt, Stages
    <3> QED BY <3>1, <3>2 DEF StateOK, CaptureOK
  <2> QED BY <2>2, <2>3 DEF ModulesOK
<1>4. GenerationOK
  BY DEF GenerationOK
<1>5. SinkOK
  BY DEF SinkOK, NoStaging
<1>6. PublishedOK
  BY DEF PublishedOK, DirectoryOK
<1>7. ReleasedOK /\ DownOK
  BY <1>2 DEF ReleasedOK, DownOK, Stages
<1> QED BY <1>1, <1>2, <1>3, <1>4, <1>5, <1>6, <1>7 DEF IInv

-----------------------------------------------------------------------------
(* Records.                                                                  *)

\* What was saved stays saved when the log grows.
LEMMA SavedGrows ==
  ASSUME LogOK, NEW payload \in Payloads, log' = Append(log, payload)
  PROVE  /\ \A g \in Positions : Saved(g) => Saved(g)'
         /\ \A file : Genuine(file) => Genuine(file)'
         /\ \A directory : \A g \in Positions :
              DirectoryOK(directory, g) => DirectoryOK(directory, g)'
<1>1. /\ Len(log') = Len(log) + 1 /\ Len(log) \in Nat
      /\ \A k \in 1 .. Len(log) : log'[k] = log[k]
  BY DEF LogOK
<1>2. ASSUME NEW g \in Positions, Saved(g) PROVE Saved(g)'
  <2>1. g \in Nat
    BY TractAssumption DEF Positions
  <2> QED BY <1>1, <1>2, <2>1 DEF Saved
<1>3. ASSUME NEW file, Genuine(file) PROVE Genuine(file)'
  BY <1>2, <1>3 DEF Genuine
<1>4. ASSUME NEW directory, NEW g \in Positions, DirectoryOK(directory, g)
      PROVE  DirectoryOK(directory, g)'
  BY <1>2, <1>3, <1>4 DEF DirectoryOK
<1> QED BY <1>2, <1>3, <1>4

LEMMA ProduceStep ==
  ASSUME IInv, NEW payload \in WellFormed(Len(log)) \cup Malformed(Len(log)),
         Produce(payload)
  PROVE  IInv'
<1> USE DEF IInv
<1>1. /\ phase = "Live" /\ Len(log) < MaxRecords /\ log' = Append(log, payload)
      /\ UNCHANGED <<phase, module, current, frontier, generation, sink, staging,
                     published, released>>
  BY DEF Produce, tractVars, diskVars
<1>2. Len(log) \in Positions /\ payload \in Payloads
  BY <1>1, TractAssumption DEF LogOK, Positions, Payloads
<1>3. /\ Len(log') = Len(log) + 1 /\ Len(log) \in Nat
      /\ log' \in Seq(Payloads)
      /\ \A k \in 1 .. Len(log) : log'[k] = log[k]
      /\ log'[Len(log) + 1] = payload
  BY <1>1, <1>2 DEF LogOK
<1>4. LogOK'
  <2>1. ASSUME NEW k \in 1 .. Len(log')
        PROVE  log'[k] \in WellFormed(k - 1) \cup Malformed(k - 1)
    <3>1. CASE k \in 1 .. Len(log)
      BY <1>3, <3>1 DEF LogOK
    <3>2. CASE k = Len(log) + 1
      <4>1. k - 1 = Len(log)
        BY <1>3, <3>2
      <4> QED BY <1>3, <3>2, <4>1
    <3> QED BY <1>3, <3>1, <3>2
  <2> QED BY <1>1, <1>3, <2>1, TractAssumption DEF LogOK
<1>5. ProgressOK'
  BY <1>1, <1>3 DEF ProgressOK
<1>6. ModulesOK'
  <2>1. ASSUME NEW s \in Stages PROVE StateOK(s)' /\ CaptureOK(s)'
    <3>1. current[s] \in Nat
      BY DEF ProgressOK
    <3>2. StateOK(s)'
      BY <1>1, <1>3, <3>1 DEF ModulesOK, StateOK
    <3>3. CaptureOK(s)'
      BY <1>1, <1>2, SavedGrows DEF ModulesOK, CaptureOK
    <3> QED BY <3>2, <3>3
  <2> QED BY <1>1, <2>1 DEF ModulesOK
<1>7. GenerationOK'
  BY <1>1, <1>2, SavedGrows DEF GenerationOK, GenerationOf
<1>8. SinkOK' /\ DownOK'
  BY <1>1, SinkFrame, DownFrame
<1>9. PublishedOK'
  BY <1>1, <1>2, SavedGrows DEF PublishedOK
<1>10. ReleasedOK'
  <2>1. ASSUME NEW s \in Stages, NEW g \in 0 .. current[s] - 1,
               log'[g + 1] = encode_save_snapshot(g)
        PROVE  g \in released \/ module[s].capture = <<CaptureAt(s, g)>>
    <3>1. g + 1 \in 1 .. Len(log)
      BY <1>3 DEF ProgressOK
    <3> QED BY <1>1, <1>3, <2>1, <3>1 DEF ReleasedOK
  <2> QED BY <1>1, <2>1 DEF ReleasedOK
<1> QED BY <1>4, <1>5, <1>6, <1>7, <1>8, <1>9, <1>10

-----------------------------------------------------------------------------
(* The modules.                                                              *)

\* Folding the next record leads to the state after it.
LEMMA FoldStep ==
  ASSUME NEW n \in Nat
  PROVE  /\ HashFold(HashStateAt(n), n) = HashStateAt(n + 1)
         /\ BitFold(BitStateAt(n), n) = BitStateAt(n + 1)
<1>1. Append(FoldAt(n), n) = FoldAt(n + 1)
  BY DEF FoldAt
<1>2. HashFold(HashStateAt(n), n) = HashStateAt(n + 1)
  BY <1>1 DEF HashFold, HashStateAt
<1>3. BitFold(BitStateAt(n), n) = BitStateAt(n + 1)
  BY <1>1 DEF BitFold, BitStateAt
<1> QED BY <1>2, <1>3

\* The fields of a state, failed or not.
LEMMA StateFields ==
  ASSUME NEW s, NEW n
  PROVE  /\ StateAt(s, n).processed_end = n /\ StateAt(s, n).failed = FALSE
         /\ FailedAt(s, n).failed = TRUE
BY DEF StateAt, FailedAt, Flagged, HashStateAt, BitStateAt

\* A module that fails keeps the rest of its state.
LEMMA FlagSet ==
  ASSUME NEW s, NEW n, NEW state, state \in {StateAt(s, n), FailedAt(s, n)}, NEW flag
  PROVE  [state EXCEPT !.failed = flag] = Flagged(s, n, flag)
<1>1. CASE s = "hash"
  <2>1. /\ state = [processed_end |-> state.processed_end,
                    digest |-> state.digest, failed |-> state.failed]
        /\ state.processed_end = n /\ state.digest = FoldAt(n)
    BY <1>1 DEF StateAt, FailedAt, Flagged, HashStateAt
  <2>2. [state EXCEPT !.failed = flag]
          = [processed_end |-> state.processed_end, digest |-> state.digest,
             failed |-> flag]
    BY <2>1
  <2> QED BY <1>1, <2>1, <2>2 DEF Flagged
<1>2. CASE s # "hash"
  <2>1. /\ state = [processed_end |-> state.processed_end,
                    total_one_bits |-> state.total_one_bits,
                    rolling_bits |-> state.rolling_bits, failed |-> state.failed]
        /\ state.processed_end = n /\ state.total_one_bits = n
        /\ state.rolling_bits = FoldAt(n)
    BY <1>2 DEF StateAt, FailedAt, Flagged, BitStateAt
  <2>2. [state EXCEPT !.failed = flag]
          = [processed_end |-> state.processed_end,
             total_one_bits |-> state.total_one_bits,
             rolling_bits |-> state.rolling_bits, failed |-> flag]
    BY <2>1
  <2> QED BY <1>2, <2>1, <2>2 DEF Flagged
<1> QED BY <1>1, <1>2

LEMMA FailedState ==
  ASSUME NEW s, NEW n, NEW state, state \in {StateAt(s, n), FailedAt(s, n)}
  PROVE  /\ [state EXCEPT !.failed = TRUE] = FailedAt(s, n)
         /\ [state EXCEPT !.failed = FALSE] = StateAt(s, n)
<1>1. FailedAt(s, n) = Flagged(s, n, TRUE) /\ StateAt(s, n) = Flagged(s, n, FALSE)
  BY DEF Flagged, FailedAt, StateAt, HashStateAt, BitStateAt
<1>2. \A flag : [state EXCEPT !.failed = flag] = Flagged(s, n, flag)
  BY FlagSet
<1>3. /\ [state EXCEPT !.failed = TRUE] = Flagged(s, n, TRUE)
      /\ [state EXCEPT !.failed = FALSE] = Flagged(s, n, FALSE)
  <2> HIDE DEF Flagged
  <2> QED BY <1>2
<1> QED BY <1>1, <1>3

\* A step of process: the record cannot be folded and the module fails, or it is
\* folded, and a SaveSnapshot is captured into a slot that was free.
LEMMA ProcessOutcome ==
  ASSUME IInv, NEW s \in Stages, Process(s)
  PROVE  LET n == current[s]
         IN  /\ n \in Nat /\ n < Len(log)
             /\ UNCHANGED <<log, phase, frontier, generation, sink, staging,
                            published, released>>
             /\ \A t \in Stages \ {s} : /\ module'[t] = module[t]
                                        /\ current'[t] = current[t]
             /\ DOMAIN module' = Stages /\ module' = [t \in Stages |-> module'[t]]
             /\ current' \in [Stages -> Nat]
             /\ module[s].state = StateAt(s, n)
             /\ module'[s] = [state |-> module'[s].state,
                              capture |-> module'[s].capture]
             /\ \/ /\ log[n + 1] \notin WellFormed(n)
                   /\ module'[s].state = FailedAt(s, n) /\ current'[s] = n
                   /\ module'[s].capture = module[s].capture
                \/ /\ log[n + 1] \in WellFormed(n)
                   /\ log[n + 1] # encode_save_snapshot(n)
                   /\ module'[s].state = StateAt(s, n + 1) /\ current'[s] = n + 1
                   /\ module'[s].capture = module[s].capture
                \/ /\ log[n + 1] \in WellFormed(n)
                   /\ log[n + 1] = encode_save_snapshot(n)
                   /\ module'[s].state = StateAt(s, n + 1) /\ current'[s] = n + 1
                   /\ module[s].capture = <<>>
                   /\ module'[s].capture = <<CaptureAt(s, n)>>
<1> DEFINE n == current[s]
           m == module[s]
           payload == log[n + 1]
           decoded == decode_record(payload)
           fold == IF s = "hash" THEN HashFold(m.state, n) ELSE BitFold(m.state, n)
           processed == Processed(m, n, payload, fold)
<1>1. /\ n < Upstream(s) /\ processed # m
      /\ module' = [module EXCEPT ![s] = processed]
      /\ current' = [current EXCEPT ![s] =
                       IF processed.state.failed THEN @ ELSE @ + 1]
      /\ UNCHANGED <<log, phase, frontier, generation, sink, staging, published,
                     released>>
  BY DEF Process, HashProcess, BitProcess, diskVars
<1>2. n \in Nat /\ n < Len(log)
  BY <1>1 DEF IInv, LogOK, ProgressOK, Upstream, Stages
<1>3. /\ DOMAIN module = Stages
      /\ m = [state |-> m.state, capture |-> m.capture] /\ StateOK(s)
  BY DEF IInv, ModulesOK
<1>4. payload \in WellFormed(n) \cup Malformed(n)
  <2>1. n + 1 \in 1 .. Len(log) /\ (n + 1) - 1 = n
    BY <1>2
  <2> QED BY <2>1 DEF IInv, LogOK
<1>5. current' \in [Stages -> Nat] /\ DOMAIN module' = Stages
      /\ module' = [t \in Stages |-> module'[t]]
      /\ \A t \in Stages \ {s} : module'[t] = module[t] /\ current'[t] = current[t]
      /\ module'[s] = processed
      /\ current'[s] = IF processed.state.failed THEN n ELSE n + 1
  <2> HIDE DEF processed
  <2>1. DOMAIN module' = Stages /\ module' = [t \in Stages |-> module'[t]]
        /\ module'[s] = processed /\ \A t \in Stages \ {s} : module'[t] = module[t]
    BY <1>1, <1>3
  <2>2. current \in [Stages -> Nat]
    BY DEF IInv, ProgressOK
  <2>3. \A t \in Stages : current'[t] =
          IF t = s /\ ~processed.state.failed THEN current[t] + 1 ELSE current[t]
    BY <1>1, <2>2
  <2>4. current' \in [Stages -> Nat]
    BY <1>1, <2>2
  <2> QED BY <2>1, <2>3, <2>4
<1> HIDE DEF n, m, payload, fold, processed, decoded
<1>6. m.state = StateAt(s, n)
  <2>1. SUFFICES ASSUME m.state = FailedAt(s, n) PROVE FALSE
    BY <1>3 DEF StateOK, m, n
  <2>2. Unprocessable(m, n, payload)
    <3>1. FailedAt(s, n).failed = TRUE
      BY StateFields
    <3>2. m.state.failed = TRUE
      BY <2>1, <3>1, Zenon
    <3> QED BY <3>2, Zenon DEF Unprocessable
  <2>3. processed = [m EXCEPT !.state.failed = TRUE]
    BY <2>2 DEF Processed, processed
  <2>4. [m.state EXCEPT !.failed = TRUE] = m.state
    BY <1>2, <2>1, FailedState
  <2>5. [m EXCEPT !.state.failed = TRUE] = m
    BY <1>3, <2>4
  <2> QED BY <1>1, <2>3, <2>5
<1>7. CASE payload \notin WellFormed(n)
  <2>1. Unprocessable(m, n, payload)
    BY <1>2, <1>4, <1>7, MalformedRefused DEF Unprocessable
  <2>2. processed = [m EXCEPT !.state.failed = TRUE]
    BY <2>1 DEF Processed, processed
  <2>3. processed = [state |-> FailedAt(s, n), capture |-> m.capture]
    <3>1. [m.state EXCEPT !.failed = TRUE] = FailedAt(s, n)
      BY <1>6, FailedState
    <3> QED BY <1>3, <2>2, <3>1
  <2>4. processed.state.failed
    BY <1>2, <2>3, StateFields
  <2> QED BY <1>1, <1>2, <1>5, <1>6, <1>7, <2>3, <2>4 DEF n, m, payload
<1>8. CASE payload \in WellFormed(n)
  <2>1. /\ decoded.status = "Ok"
        /\ decoded.kind = SaveSnapshot => decoded.generation_id = n
        /\ decoded.kind = SaveSnapshot <=> payload = encode_save_snapshot(n)
    BY <1>2, <1>8, WellFormedDecodes DEF decoded
  <2>2. ~Unprocessable(m, n, payload)
    <3>1. StateAt(s, n).failed = FALSE /\ StateAt(s, n).processed_end = n
      BY StateFields
    <3>2. m.state.failed = FALSE /\ m.state.processed_end = n
      BY <1>6, <3>1, Zenon
    <3> QED BY <2>1, <3>2, Zenon DEF Unprocessable, decoded
  <2>3. ~SlotOccupied(m, payload)
    BY <1>1, <2>2 DEF Processed, processed
  <2>4. fold = StateAt(s, n + 1)
    BY <1>2, <1>6, FoldStep DEF fold, StateAt
  <2>5. /\ fold.processed_end = n + 1 /\ fold.failed = FALSE
    BY <1>2, <2>4, StateFields
  <2>6. processed = [state |-> fold,
                     capture |-> IF decoded.kind = SaveSnapshot
                                 THEN <<[generation_id |-> decoded.generation_id,
                                         record_position |-> n,
                                         processed_end |-> fold.processed_end,
                                         sequence |-> Sequence(n), state |-> fold]>>
                                 ELSE m.capture]
    BY <2>2, <2>3 DEF Processed, processed, decoded
  <2>7. ~processed.state.failed
    BY <2>5, <2>6
  <2>8. CASE decoded.kind = SaveSnapshot
    <3>1. m.capture = <<>>
      BY <2>3, <2>8 DEF SlotOccupied, decoded
    <3>2. processed = [state |-> StateAt(s, n + 1), capture |-> <<CaptureAt(s, n)>>]
      BY <2>1, <2>4, <2>5, <2>6, <2>8 DEF CaptureAt
    <3> QED BY <1>1, <1>2, <1>5, <1>6, <1>8, <2>1, <2>7, <2>8, <3>1, <3>2
            DEF n, m, payload
  <2>9. CASE decoded.kind # SaveSnapshot
    <3>1. processed = [state |-> StateAt(s, n + 1), capture |-> m.capture]
      BY <2>4, <2>6, <2>9
    <3> QED BY <1>1, <1>2, <1>5, <1>6, <1>8, <2>1, <2>7, <2>9, <3>1
            DEF n, m, payload
  <2> QED BY <2>8, <2>9
<1> QED BY <1>7, <1>8

LEMMA ProcessStep ==
  ASSUME IInv, NEW s \in Stages, Process(s)
  PROVE  IInv'
<1>0. PICK n \in Nat : n = current[s]
  BY ProcessOutcome, Zenon
<1> USE DEF IInv
<1>1. /\ n \in Nat /\ n < Len(log) /\ Len(log) \in Nat /\ n \in Positions
      /\ UNCHANGED <<log, phase, frontier, generation, sink, staging, published,
                     released>>
      /\ \A t \in Stages \ {s} : module'[t] = module[t] /\ current'[t] = current[t]
      /\ DOMAIN module' = Stages /\ module' = [t \in Stages |-> module'[t]]
      /\ current' \in [Stages -> Nat] /\ module[s].state = StateAt(s, n)
  <2>1. n \in Nat /\ n < Len(log) /\ Len(log) \in Nat
    <3>1. n \in Nat /\ n < Len(log)
      BY <1>0, ProcessOutcome, Zenon
    <3>2. Len(log) \in Nat
      BY DEF LogOK
    <3> QED BY <3>1, <3>2
  <2>2. n \in Positions
    BY <2>1, TractAssumption DEF LogOK, Positions
  <2> QED BY <1>0, <2>1, <2>2, ProcessOutcome, Zenon
<1>2. \/ log[n + 1] \notin WellFormed(n) /\ current'[s] = n
      \/ log[n + 1] \in WellFormed(n) /\ current'[s] = n + 1
  BY <1>0, ProcessOutcome, Zenon
<1>3. /\ module'[s] = [state |-> module'[s].state, capture |-> module'[s].capture]
      /\ \/ /\ module'[s].state = FailedAt(s, n) /\ current'[s] = n
            /\ log[n + 1] \notin WellFormed(n)
         \/ module'[s].state = StateAt(s, n + 1) /\ current'[s] = n + 1
  BY <1>0, ProcessOutcome, Zenon
<1>4. \/ /\ module'[s].capture = module[s].capture
         /\ current'[s] = n + 1 => log[n + 1] # encode_save_snapshot(n)
      \/ /\ module[s].capture = <<>> /\ module'[s].capture = <<CaptureAt(s, n)>>
         /\ log[n + 1] = encode_save_snapshot(n) /\ current'[s] = n + 1
         /\ log[n + 1] \in WellFormed(n)
  <2>1. n # n + 1
    BY <1>1
  <2> QED BY <1>0, <2>1, ProcessOutcome, Zenon
<1>5. LogOK'
  BY <1>1 DEF LogOK
<1>6. ProgressOK'
  <2>1. ASSUME NEW t \in Stages
        PROVE  /\ frontier[t] <= current'[t] /\ current'[t] <= Len(log)
               /\ \A k \in 1 .. current'[t] : log[k] \in WellFormed(k - 1)
    <3>1. CASE t # s
      BY <1>1, <3>1 DEF ProgressOK
    <3>2. CASE t = s /\ current'[s] = n
      BY <1>0, <1>1, <3>2 DEF ProgressOK
    <3>3. CASE t = s /\ current'[s] = n + 1
      <4>1. log[n + 1] \in WellFormed(n)
        BY <1>1, <1>2, <3>3
      <4>2. \A k \in 1 .. n + 1 : k \in 1 .. n \/ (k = n + 1 /\ k - 1 = n)
        BY <1>1
      <4>3. \A k \in 1 .. n : log[k] \in WellFormed(k - 1)
        BY <1>0 DEF ProgressOK
      <4>4. \A k \in 1 .. n + 1 : log[k] \in WellFormed(k - 1)
        BY <4>1, <4>2, <4>3
      <4> QED BY <1>0, <1>1, <3>3, <4>4 DEF ProgressOK
    <3> QED BY <1>2, <3>1, <3>2, <3>3
  <2> QED BY <1>1, <2>1 DEF ProgressOK
<1>7. ASSUME NEW g \in Positions, Saved(g) PROVE Saved(g)'
  BY <1>1, <1>7, SavedFrame
<1>8. ModulesOK'
  <2>1. ASSUME NEW t \in Stages, t # s
        PROVE  /\ module'[t] = [state |-> module'[t].state,
                                capture |-> module'[t].capture]
               /\ StateOK(t)' /\ CaptureOK(t)'
    <3>1. /\ module'[t] = module[t] /\ current'[t] = current[t]
          /\ StateOK(t) /\ CaptureOK(t)
          /\ module[t] = [state |-> module[t].state, capture |-> module[t].capture]
      BY <1>1, <2>1 DEF ModulesOK
    <3>2. StateOK(t)'
      BY <1>1, <3>1 DEF StateOK
    <3>3. CaptureOK(t)'
      BY <1>7, <3>1 DEF CaptureOK
    <3> QED BY <3>1, <3>2, <3>3
  <2>2. StateOK(s)'
    BY <1>0, <1>1, <1>3 DEF StateOK
  <2>3. CaptureOK(s)'
    <3>1. CASE module'[s].capture = module[s].capture
      <4>1. current'[s] \in Nat /\ n <= current'[s]
        BY <1>1, <1>2
      <4>2. CASE module[s].capture = <<>>
        BY <3>1, <4>2 DEF CaptureOK
      <4>3. CASE module[s].capture # <<>>
        <5>1. PICK g \in Positions : /\ g < n /\ Saved(g)
                                     /\ module[s].capture = <<CaptureAt(s, g)>>
          BY <1>0, <4>3 DEF ModulesOK, CaptureOK
        <5>2. g < current'[s] /\ Saved(g)'
          BY <1>1, <1>7, <4>1, <5>1, TractAssumption DEF Positions
        <5> QED BY <3>1, <5>1, <5>2 DEF CaptureOK
      <4> QED BY <4>2, <4>3
    <3>2. CASE /\ module'[s].capture = <<CaptureAt(s, n)>>
               /\ log[n + 1] = encode_save_snapshot(n) /\ current'[s] = n + 1
      <4>1. Saved(n)'
        BY <1>1, <1>6, <3>2 DEF Saved, ProgressOK
      <4>2. n < current'[s]
        BY <1>1, <3>2
      <4> QED BY <1>1, <3>2, <4>1, <4>2 DEF CaptureOK
    <3> QED BY <1>4, <3>1, <3>2
  <2> QED BY <1>1, <1>3, <2>1, <2>2, <2>3 DEF ModulesOK
<1>9. GenerationOK'
  <2>1. CASE generation = <<>>
    BY <1>1, <2>1 DEF GenerationOK
  <2>2. CASE generation # <<>>
    <3>1. PICK g \in Positions : GenerationOf(g)
      BY <2>2 DEF GenerationOK
    <3>2. module[s].capture # <<>>
      BY <3>1 DEF GenerationOf
    <3>3. \A t \in Stages : module'[t].capture = module[t].capture
      BY <1>1, <1>4, <3>2
    <3> QED BY <1>1, <1>7, <3>1, <3>3 DEF GenerationOK, GenerationOf
  <2> QED BY <2>1, <2>2
<1>10. SinkOK' /\ DownOK' /\ PublishedOK'
  BY <1>1, SinkFrame, DownFrame, PublishedFrame
<1>11. ReleasedOK'
  <2>1. ASSUME phase = "Live", NEW t \in Stages, NEW g \in 0 .. current'[t] - 1,
               log[g + 1] = encode_save_snapshot(g)
        PROVE  g \in released \/ module'[t].capture = <<CaptureAt(t, g)>>
    <3>1. CASE t # s
      BY <1>1, <2>1, <3>1 DEF ReleasedOK
    <3>2. CASE t = s /\ g \in 0 .. n - 1
      <4>1. g \in released \/ module[s].capture = <<CaptureAt(s, g)>>
        BY <1>0, <2>1, <3>2 DEF ReleasedOK
      <4> QED BY <1>4, <3>2, <4>1
    <3>3. CASE t = s /\ g = n /\ current'[s] = n + 1
      BY <1>4, <2>1, <3>3
    <3> QED BY <1>1, <1>2, <2>1, <3>1, <3>2, <3>3
  <2> QED BY <1>1, <2>1 DEF ReleasedOK
<1> QED BY <1>5, <1>6, <1>8, <1>9, <1>10, <1>11

\* OnePositionPublish, the tail and a restart without a snapshot touch little.
LEMMA SmallSteps ==
  ASSUME IInv, (\E s \in Stages : Publish(s)) \/ Reclaim \/ StartFresh
  PROVE  IInv'
<1> USE DEF IInv
<1>1. /\ UNCHANGED <<log, module, current, generation, sink, staging, published,
                     released>>
      /\ phase' = phase \/ phase' = "Replay"
  BY DEF Publish, Reclaim, StartFresh, tractVars, diskVars
<1>2. ModulesOK' /\ GenerationOK' /\ SinkOK' /\ PublishedOK'
  BY <1>1, ModulesFrame, GenerationFrame, SinkFrame, PublishedFrame
<1>3. ReleasedOK' /\ DownOK'
  BY <1>1 DEF ReleasedOK, DownOK
<1>4. LogOK' /\ ProgressOK'
  <2>1. CASE \E s \in Stages : Publish(s)
    <3>1. PICK s \in Stages : Publish(s)
      BY <2>1
    <3>2. frontier' = [frontier EXCEPT ![s] = current[s]]
      BY <3>1 DEF Publish
    <3>3. /\ frontier' \in [Stages -> Nat]
          /\ \A t \in Stages : frontier'[t] \in {frontier[t], current[t]}
      BY <3>2 DEF ProgressOK
    <3>4. ASSUME NEW t \in Stages PROVE frontier'[t] <= current[t]
      <4>1. frontier'[t] \in {frontier[t], current[t]}
        BY <3>3, <3>4
      <4>2. frontier[t] <= current[t] /\ current[t] \in Nat
        BY <3>4 DEF ProgressOK
      <4> QED BY <4>1, <4>2
    <3> QED BY <1>1, <3>3, <3>4 DEF LogOK, ProgressOK
  <2>2. CASE UNCHANGED frontier
    BY <1>1, <2>2, LogFrame
  <2> QED BY <2>1, <2>2 DEF Reclaim, StartFresh, tractVars
<1> QED BY <1>2, <1>3, <1>4

-----------------------------------------------------------------------------
(* The coordinator and the sink.                                             *)

\* The captures that agree are of one position.
LEMMA CollectStep ==
  ASSUME IInv, Collect
  PROVE  IInv'
<1> USE DEF IInv
<1> DEFINE hash == module["hash"].capture[1]
           bits == module["bits"].capture[1]
<1>1. /\ generation = <<>> /\ generation' = <<CaptureGeneration(hash, bits)>>
      /\ \A s \in Stages : module[s].capture # <<>>
      /\ hash.generation_id = bits.generation_id
      /\ UNCHANGED <<log, phase, module, current, frontier, sink, staging,
                     published, released>>
      /\ phase # "Down"
  BY DEF Collect, Agree, tractVars, diskVars
<1>2. "hash" \in Stages /\ "bits" \in Stages
  BY DEF Stages
<1>3. PICK g \in Positions :
        Saved(g) /\ module["hash"].capture = <<CaptureAt("hash", g)>>
  BY <1>1, <1>2 DEF ModulesOK, CaptureOK
<1>4. PICK h \in Positions :
        Saved(h) /\ module["bits"].capture = <<CaptureAt("bits", h)>>
  BY <1>1, <1>2 DEF ModulesOK, CaptureOK
<1>5. g = h
  BY <1>1, <1>3, <1>4 DEF CaptureAt
<1>6. GenerationOK'
  <2>1. generation' = <<GenerationAt(g)>>
    BY <1>1, <1>3, <1>4, <1>5 DEF GenerationAt
  <2>2. \A s \in Stages : module[s].capture = <<CaptureAt(s, g)>>
    BY <1>3, <1>4, <1>5 DEF Stages
  <2>3. Saved(g)'
    BY <1>1, <1>3, SavedFrame
  <2> QED BY <1>1, <2>1, <2>2, <2>3 DEF GenerationOK, GenerationOf
<1>7. SinkOK'
  BY <1>1 DEF SinkOK
<1>8. DownOK'
  BY <1>1 DEF DownOK
<1> QED BY <1>1, <1>6, <1>7, <1>8, LogFrame, ModulesFrame, PublishedFrame,
           ReleasedFrame

\* While save runs the generation is one of a saved position.
LEMMA SavingGeneration ==
  ASSUME IInv, sink # "Idle"
  PROVE  \E g \in Positions : /\ GenerationOf(g) /\ Pending = g
                              /\ generation[1].hash_chain = CaptureAt("hash", g)
                              /\ generation[1].bit_accumulator = CaptureAt("bits", g)
                              /\ generation[1] = GenerationAt(g)
<1>1. PICK g \in Positions : GenerationOf(g)
  BY DEF IInv, SinkOK, GenerationOK
<1>2. generation[1] = GenerationAt(g)
  BY <1>1 DEF GenerationOf
<1> QED BY <1>1, <1>2 DEF GenerationAt, CaptureGeneration, CaptureAt, Pending

\* A call of save that writes in the staging directory only.
LEMMA SaveFrame ==
  ASSUME IInv, SinkElse, UNCHANGED <<module, generation, published, released>>,
         phase # "Down" \/ sink # "Idle", SinkOK'
  PROVE  IInv'
<1>1. UNCHANGED <<log, phase, current, frontier>>
  BY DEF SinkElse
<1>2. DownOK'
  BY <1>1 DEF IInv, DownOK
<1> QED BY <1>1, <1>2, LogFrame, ModulesFrame, GenerationFrame, PublishedFrame,
           ReleasedFrame DEF IInv

LEMMA BeginSaveStep ==
  ASSUME IInv, BeginSave
  PROVE  IInv'
<1>1. /\ phase # "Down" /\ generation # <<>> /\ ~published[Pending].there
      /\ sink' = "Stage"
      /\ UNCHANGED <<module, generation, staging, published, released>> /\ SinkElse
  BY DEF BeginSave, diskVars
<1>2. SinkOK'
  BY <1>1 DEF IInv, SinkOK, Pending
<1> QED BY <1>1, <1>2, SaveFrame

LEMMA StageStep ==
  ASSUME IInv, Stage
  PROVE  IInv'
<1>1. /\ sink = "Stage" /\ staging' = NoStaging /\ sink' = "WriteHash"
      /\ UNCHANGED <<module, generation, published, released>> /\ SinkElse
  BY DEF Stage
<1>2. /\ staging' = [files |-> staging'.files, synced |-> staging'.synced]
      /\ staging'.files = NoFiles
  BY <1>1 DEF NoStaging
<1>3. Staged(Pending, {})'
  BY <1>2 DEF Staged, NoFiles
<1>4. SinkOK'
  BY <1>1, <1>2, <1>3 DEF IInv, SinkOK, Pending
<1> QED BY <1>1, <1>4, SaveFrame

LEMMA SaveFailsStep ==
  ASSUME IInv, SaveFails
  PROVE  IInv'
<1>1. /\ sink # "Idle" /\ sink' = "Idle"
      /\ UNCHANGED <<module, generation, staging, published, released>> /\ SinkElse
  BY DEF SaveFails, diskVars
<1>2. SinkOK'
  BY <1>1 DEF IInv, SinkOK
<1> QED BY <1>1, <1>2, SaveFrame

\* write_and_sync_file leaves everything but the staging directory and the sink.
LEMMA WriteFileOutcome ==
  ASSUME IInv, NEW from, NEW name, NEW file, NEW to, from # "Idle",
         WriteFile(from, name, file, to)
  PROVE  /\ staging' = [files |-> staging'.files, synced |-> staging'.synced]
         /\ staging'.files = WithFile(staging.files, name, file)
         /\ sink = from /\ sink' = to /\ Pending' = Pending
         /\ UNCHANGED <<module, generation, published, released>> /\ SinkElse
<1>1. staging = [files |-> staging.files, synced |-> staging.synced]
  BY DEF IInv, SinkOK
<1>2. PICK files : files = WithFile(staging.files, name, file)
  OBVIOUS
<1>3. staging' = [staging EXCEPT !.files = files]
  BY <1>2 DEF WriteFile
<1>4. staging' = [files |-> files, synced |-> staging.synced]
  BY <1>1, <1>3
<1>5. /\ sink = from /\ sink' = to
      /\ UNCHANGED <<module, generation, published, released>> /\ SinkElse
  BY DEF WriteFile
<1> QED BY <1>2, <1>4, <1>5 DEF Pending

\* The next file is staged.
LEMMA StagedMore ==
  ASSUME NEW g, NEW names, Staged(g, names), NEW name, NEW file,
         staging'.files = WithFile(staging.files, name, file),
         name = "hash" => file = HashFile(g),
         name = "bits" => file = BitsFile(g),
         name = "pending" => file = DescriptionFile(g)
  PROVE  Staged(g, names \cup {name})'
<1> DEFINE after == staging'.files
<1>1. /\ DOMAIN after = names \cup {name} /\ after = [n \in DOMAIN after |-> after[n]]
      /\ after[name] = file /\ \A n \in names \ {name} : after[n] = staging.files[n]
  <2>1. DOMAIN staging.files = names
    BY DEF Staged
  <2>2. /\ DOMAIN after = DOMAIN staging.files \cup {name}
        /\ after = [n \in DOMAIN after |-> after[n]] /\ after[name] = file
        /\ \A n \in DOMAIN staging.files \ {name} : after[n] = staging.files[n]
    BY DEF WithFile
  <2> QED BY <2>1, <2>2
<1> HIDE DEF after
<1>2. /\ "hash" \in names \cup {name} => after["hash"] = HashFile(g)
      /\ "bits" \in names \cup {name} => after["bits"] = BitsFile(g)
      /\ "pending" \in names \cup {name} => after["pending"] = DescriptionFile(g)
  BY <1>1 DEF Staged
<1> QED BY <1>1, <1>2 DEF Staged, after

LEMMA WriteStep ==
  ASSUME IInv, WriteHash \/ WriteBits \/ WriteDescription
  PROVE  IInv'
<1>1. sink # "Idle"
  BY DEF WriteHash, WriteBits, WriteDescription, WriteFile
<1>2. PICK g \in Positions : /\ GenerationOf(g) /\ Pending = g
                             /\ generation[1].hash_chain = CaptureAt("hash", g)
                             /\ generation[1].bit_accumulator = CaptureAt("bits", g)
                             /\ generation[1] = GenerationAt(g)
  BY <1>1, SavingGeneration
<1>3. /\ UNCHANGED <<module, generation, published, released>> /\ SinkElse
      /\ Pending' = g
  BY <1>2 DEF WriteHash, WriteBits, WriteDescription, WriteFile, Pending
<1>4. CASE WriteHash
  <2>1. WriteFile("WriteHash", "hash", HashFile(g), "WriteBits")
    BY <1>2, <1>4 DEF WriteHash, HashFile
  <2>2. /\ staging' = [files |-> staging'.files, synced |-> staging'.synced]
        /\ staging'.files = WithFile(staging.files, "hash", HashFile(g))
        /\ sink = "WriteHash" /\ sink' = "WriteBits"
    BY <2>1, WriteFileOutcome
  <2>3. Staged(g, {})
    BY <1>2, <2>2 DEF IInv, SinkOK
  <2>4. Staged(g, {"hash"})'
    <3>1. Staged(g, {} \cup {"hash"})'
      BY <2>2, <2>3, StagedMore
    <3>2. {} \cup {"hash"} = {"hash"}
      OBVIOUS
    <3> QED BY <3>1, <3>2, Zenon
  <2>5. SinkOK'
    BY <1>3, <2>2, <2>4 DEF IInv, SinkOK, Pending
  <2> QED BY <1>1, <1>3, <2>5, SaveFrame
<1>5. CASE WriteBits
  <2>1. WriteFile("WriteBits", "bits", BitsFile(g), "WriteDescription")
    BY <1>2, <1>5 DEF WriteBits, BitsFile
  <2>2. /\ staging' = [files |-> staging'.files, synced |-> staging'.synced]
        /\ staging'.files = WithFile(staging.files, "bits", BitsFile(g))
        /\ sink = "WriteBits" /\ sink' = "WriteDescription"
    BY <2>1, WriteFileOutcome
  <2>3. Staged(g, {"hash"})
    BY <1>2, <2>2 DEF IInv, SinkOK
  <2>4. Staged(g, {"hash", "bits"})'
    <3>1. Staged(g, {"hash"} \cup {"bits"})'
      BY <2>2, <2>3, StagedMore
    <3>2. {"hash"} \cup {"bits"} = {"hash", "bits"}
      OBVIOUS
    <3> QED BY <3>1, <3>2, Zenon
  <2>5. SinkOK'
    BY <1>3, <2>2, <2>4 DEF IInv, SinkOK, Pending
  <2> QED BY <1>1, <1>3, <2>5, SaveFrame
<1>6. CASE WriteDescription
  <2>1. WriteFile("WriteDescription", "pending", DescriptionFile(g),
                  "RenameDescription")
    BY <1>2, <1>6 DEF WriteDescription, DescriptionFile, DescriptionAt
  <2>2. /\ staging' = [files |-> staging'.files, synced |-> staging'.synced]
        /\ staging'.files = WithFile(staging.files, "pending", DescriptionFile(g))
        /\ sink = "WriteDescription" /\ sink' = "RenameDescription"
    BY <2>1, WriteFileOutcome
  <2>3. Staged(g, {"hash", "bits"})
    BY <1>2, <2>2 DEF IInv, SinkOK
  <2>4. Staged(g, {"hash", "bits", "pending"})'
    <3>1. Staged(g, {"hash", "bits"} \cup {"pending"})'
      BY <2>2, <2>3, StagedMore
    <3>2. {"hash", "bits"} \cup {"pending"} = {"hash", "bits", "pending"}
      OBVIOUS
    <3> QED BY <3>1, <3>2, Zenon
  <2>5. SinkOK'
    BY <1>3, <2>2, <2>4 DEF IInv, SinkOK, Pending
  <2> QED BY <1>1, <1>3, <2>5, SaveFrame
<1> QED BY <1>4, <1>5, <1>6

\* The directory holds the three files of the generation.
LEMMA RenameDescriptionStep ==
  ASSUME IInv, RenameDescription
  PROVE  IInv'
<1>1. sink = "RenameDescription" /\ sink' = "SyncStaging"
      /\ UNCHANGED <<module, generation, published, released>> /\ SinkElse
  BY DEF RenameDescription
<1>2. PICK g \in Positions : GenerationOf(g) /\ Pending = g
  BY <1>1, SavingGeneration
<1>3. Pending' = g
  BY <1>1, <1>2 DEF Pending
<1>4. PICK files : files = WithFile(Restrict(staging.files,
                             DOMAIN staging.files \ {"pending"}),
                           "description", staging.files["pending"])
  OBVIOUS
<1>5. staging' = [staging EXCEPT !.files = files]
  BY <1>4 DEF RenameDescription
<1>6. staging' = [files |-> files, synced |-> staging.synced]
  BY <1>5 DEF IInv, SinkOK
<1>7. Staged(g, {"hash", "bits", "pending"})
  BY <1>1, <1>2 DEF IInv, SinkOK
<1>8. files = FilesAt(g)
  <2> DEFINE old == Restrict(staging.files, DOMAIN staging.files \ {"pending"})
  <2>1. /\ DOMAIN old = {"hash", "bits"} /\ old["hash"] = HashFile(g)
        /\ old["bits"] = BitsFile(g)
    BY <1>7 DEF Staged, Restrict
  <2>2. staging.files["pending"] = DescriptionFile(g)
    BY <1>7 DEF Staged
  <2> HIDE DEF old
  <2>3. files = WithFile(old, "description", DescriptionFile(g))
    BY <1>4, <2>2 DEF old
  <2> QED BY <2>1, <2>3 DEF WithFile, FilesAt
<1>9. SinkOK'
  BY <1>1, <1>2, <1>3, <1>6, <1>8 DEF IInv, SinkOK, Pending
<1> QED BY <1>1, <1>9, SaveFrame

LEMMA SyncStagingStep ==
  ASSUME IInv, SyncStaging
  PROVE  IInv'
<1>1. sink = "SyncStaging" /\ sink' = "RenameStaging"
      /\ staging' = [staging EXCEPT !.synced = TRUE]
      /\ UNCHANGED <<module, generation, published, released>> /\ SinkElse
  BY DEF SyncStaging
<1>2. staging' = [files |-> staging.files, synced |-> TRUE]
  BY <1>1 DEF IInv, SinkOK
<1>3. staging'.files = staging.files /\ staging'.synced = TRUE
  BY <1>2
<1>4. SinkOK'
  BY <1>1, <1>2, <1>3 DEF IInv, SinkOK, Pending
<1> QED BY <1>1, <1>4, SaveFrame

\* A directory of records and flags, as save moves it into place.
LEMMA PublishedRecord ==
  ASSUME NEW files, NEW synced
  PROVE  [NoDirectory EXCEPT !.there = TRUE, !.files = files, !.synced = synced]
           = [there |-> TRUE, durable |-> FALSE, files |-> files,
              synced |-> synced, damaged |-> FALSE]
<1>1. PICK d : d = NoDirectory
  OBVIOUS
<1>2. /\ d = [there |-> d.there, durable |-> d.durable, files |-> d.files,
              synced |-> d.synced, damaged |-> d.damaged]
      /\ d.durable = FALSE /\ d.damaged = FALSE
  BY <1>1 DEF NoDirectory
<1>3. PICK e : e = [d EXCEPT !.there = TRUE]
  OBVIOUS
<1>4. e = [there |-> TRUE, durable |-> FALSE, files |-> d.files,
           synced |-> d.synced, damaged |-> FALSE]
  BY <1>2, <1>3
<1>5. PICK f : f = [e EXCEPT !.files = files]
  OBVIOUS
<1>6. f = [there |-> TRUE, durable |-> FALSE, files |-> files,
           synced |-> d.synced, damaged |-> FALSE]
  BY <1>4, <1>5
<1>7. /\ f = [there |-> f.there, durable |-> f.durable, files |-> f.files,
              synced |-> f.synced, damaged |-> f.damaged]
      /\ f.there = TRUE /\ f.durable = FALSE /\ f.files = files
      /\ f.damaged = FALSE
  BY <1>6
<1>8. [f EXCEPT !.synced = synced] =
        [there |-> f.there, durable |-> f.durable, files |-> f.files,
         synced |-> synced, damaged |-> f.damaged]
  BY <1>7
<1>9. [NoDirectory EXCEPT !.there = TRUE, !.files = files, !.synced = synced]
        = [f EXCEPT !.synced = synced]
  BY <1>1, <1>3, <1>5, Zenon
<1> QED BY <1>7, <1>8, <1>9

LEMMA RenameStagingStep ==
  ASSUME IInv, RenameStaging
  PROVE  IInv'
<1> DEFINE new == [there |-> TRUE, durable |-> FALSE, files |-> FilesAt(Pending),
                   synced |-> TRUE, damaged |-> FALSE]
<1>1. sink = "RenameStaging" /\ sink' = "SyncRoot" /\ staging' = NoStaging
      /\ UNCHANGED <<module, generation, released, log, phase, current, frontier>>
  BY DEF RenameStaging, SinkElse
<1>2. PICK g \in Positions : GenerationOf(g) /\ Pending = g
  BY <1>1, SavingGeneration
<1>3. Pending' = g
  BY <1>1, <1>2 DEF Pending
<1>4. staging.files = FilesAt(g) /\ staging.synced = TRUE
      /\ ~published[g].there
  BY <1>1, <1>2 DEF IInv, SinkOK
<1>5. PICK d : d = [there |-> TRUE, durable |-> FALSE, files |-> FilesAt(g),
                    synced |-> TRUE, damaged |-> FALSE]
  OBVIOUS
<1>6. published' = [published EXCEPT ![g] = d]
  <2>1. published' = [published EXCEPT ![g] =
          [NoDirectory EXCEPT !.there = TRUE, !.files = FilesAt(g),
                              !.synced = TRUE]]
    BY <1>2, <1>4, Zenon DEF RenameStaging
  <2>2. [NoDirectory EXCEPT !.there = TRUE, !.files = FilesAt(g), !.synced = TRUE]
          = [there |-> TRUE, durable |-> FALSE, files |-> FilesAt(g),
             synced |-> TRUE, damaged |-> FALSE]
    BY PublishedRecord, Zenon
  <2> QED BY <1>5, <2>1, <2>2, Zenon
<1>7. /\ published' = [h \in Positions |-> published'[h]] /\ published'[g] = d
      /\ \A h \in Positions \ {g} : published'[h] = published[h]
  BY <1>6 DEF IInv, PublishedOK
<1>8. d.there = TRUE /\ d.files = FilesAt(g) /\ d.synced = TRUE
      /\ d.durable = FALSE /\ d.damaged = FALSE
  BY <1>5
<1>9. Saved(g)
  BY <1>2 DEF GenerationOf
<1>10. DirectoryOK(d, g)
  <2>1. FilesAt(g) = [name \in DOMAIN FilesAt(g) |-> FilesAt(g)[name]]
    BY DEF FilesAt
  <2>2. FilesAt(g)["description"] = DescriptionFile(g)
    BY DEF FilesAt
  <2>3. Genuine(DescriptionFile(g))
    BY <1>9, DescriptionGenuine
  <2> QED BY <1>5, <1>8, <1>9, <2>1, <2>2, <2>3 DEF DirectoryOK
<1>11. PublishedOK'
  <2>1. ASSUME NEW h \in Positions PROVE DirectoryOK(published[h], h)
    BY DEF IInv, PublishedOK
  <2>2. ASSUME NEW h \in Positions PROVE DirectoryOK(published'[h], h)
    BY <1>7, <1>10, <2>1
  <2>3. ASSUME NEW h \in Positions PROVE DirectoryOK(published[h], h)'
    BY <1>1, <2>2, SavedFrame
  <2> QED BY <1>7, <2>3 DEF PublishedOK
<1>12. SinkOK'
  <2>1. staging' = [files |-> staging'.files, synced |-> staging'.synced]
    BY <1>1 DEF NoStaging
  <2>2. generation' # <<>>
    BY <1>1, <1>2 DEF GenerationOf
  <2> QED BY <1>1, <1>3, <1>7, <1>8, <2>1, <2>2 DEF SinkOK
<1>13. ReleasedOK'
  <2>1. g \notin released
    BY <1>4 DEF IInv, ReleasedOK
  <2> QED BY <1>1, <1>7, <2>1 DEF IInv, ReleasedOK
<1>14. DownOK'
  BY <1>1 DEF IInv, DownOK
<1> QED BY <1>1, <1>11, <1>12, <1>13, <1>14, LogFrame, ModulesFrame,
           GenerationFrame DEF IInv

\* The generation is durable when its captures are given up.
LEMMA SyncRootStep ==
  ASSUME IInv, SyncRoot
  PROVE  IInv'
<1>1. /\ sink = "SyncRoot" /\ sink' = "Idle" /\ generation' = <<>>
      /\ released' = released \cup {Pending}
      /\ published' = [published EXCEPT ![Pending].durable = TRUE]
      /\ module' = [s \in Stages |-> [module[s] EXCEPT !.capture = <<>>]]
      /\ UNCHANGED <<staging, log, phase, current, frontier>>
  BY DEF SyncRoot, SinkElse, ReleaseGeneration
<1>2. PICK g \in Positions : GenerationOf(g) /\ Pending = g
  BY <1>1, SavingGeneration
<1>3. PICK d : d = published[g]
  OBVIOUS
<1>4. published[g].there
  BY <1>1, <1>2 DEF IInv, SinkOK
<1>5. /\ d = [there |-> TRUE, durable |-> d.durable, files |-> d.files,
              synced |-> TRUE, damaged |-> d.damaged]
      /\ DirectoryOK(d, g) /\ d # NoDirectory
  BY <1>3, <1>4 DEF IInv, PublishedOK, DirectoryOK, NoDirectory
<1>6. PICK e : e = [d EXCEPT !.durable = TRUE]
  OBVIOUS
<1>7. /\ e = [there |-> TRUE, durable |-> TRUE, files |-> d.files,
              synced |-> TRUE, damaged |-> d.damaged]
  <2>1. /\ d = [there |-> d.there, durable |-> d.durable, files |-> d.files,
                synced |-> d.synced, damaged |-> d.damaged]
        /\ d.there = TRUE /\ d.synced = TRUE
    BY <1>5
  <2>2. e = [there |-> d.there, durable |-> TRUE, files |-> d.files,
             synced |-> d.synced, damaged |-> d.damaged]
    BY <1>6, <2>1
  <2> QED BY <2>1, <2>2
<1>8. e.there = TRUE /\ e.durable = TRUE /\ e.files = d.files
      /\ e.damaged = d.damaged
  BY <1>7
<1>9. published' = [published EXCEPT ![g] = e]
  BY <1>1, <1>2, <1>3, <1>6
<1>10. /\ published' = [h \in Positions |-> published'[h]] /\ published'[g] = e
       /\ \A h \in Positions \ {g} : published'[h] = published[h]
  BY <1>9 DEF IInv, PublishedOK
<1>11. PublishedOK'
  <2>1. DirectoryOK(e, g)
    BY <1>5, <1>7, <1>8 DEF DirectoryOK
  <2>2. ASSUME NEW h \in Positions PROVE DirectoryOK(published[h], h)
    BY DEF IInv, PublishedOK
  <2>3. ASSUME NEW h \in Positions PROVE DirectoryOK(published'[h], h)
    BY <1>10, <2>1, <2>2
  <2>4. ASSUME NEW h \in Positions PROVE DirectoryOK(published[h], h)'
    BY <1>1, <2>3, SavedFrame
  <2> QED BY <1>10, <2>4 DEF PublishedOK
<1>12. /\ DOMAIN module' = Stages /\ module' = [s \in Stages |-> module'[s]]
       /\ \A s \in Stages : module'[s] = [state |-> module[s].state, capture |-> <<>>]
  <2>1. ASSUME NEW s \in Stages
        PROVE  [module[s] EXCEPT !.capture = <<>>]
                 = [state |-> module[s].state, capture |-> <<>>]
    BY DEF IInv, ModulesOK
  <2> QED BY <1>1, <2>1
<1>13. ModulesOK'
  <2>1. ASSUME NEW s \in Stages
        PROVE  /\ module'[s].state = module[s].state /\ module'[s].capture = <<>>
               /\ module'[s] = [state |-> module'[s].state,
                                capture |-> module'[s].capture]
    BY <1>12
  <2>2. ASSUME NEW s \in Stages PROVE StateOK(s)' /\ CaptureOK(s)'
    BY <1>1, <2>1 DEF IInv, ModulesOK, StateOK, CaptureOK
  <2> QED BY <1>12, <2>1, <2>2 DEF ModulesOK
<1>14. ReleasedOK'
  <2>1. ASSUME NEW h \in released'
        PROVE  h \in Positions /\ published'[h].there /\ published'[h].durable
    BY <1>1, <1>2, <1>8, <1>10, <2>1 DEF IInv, ReleasedOK
  <2>2. ASSUME phase = "Live", NEW s \in Stages, NEW h \in 0 .. current[s] - 1,
               log[h + 1] = encode_save_snapshot(h)
        PROVE  h \in released'
    <3>1. h \in released \/ module[s].capture = <<CaptureAt(s, h)>>
      BY <2>2 DEF IInv, ReleasedOK
    <3>2. module[s].capture = <<CaptureAt(s, g)>>
      BY <1>2 DEF GenerationOf
    <3>3. CaptureAt(s, h).generation_id = h /\ CaptureAt(s, g).generation_id = g
      BY DEF CaptureAt
    <3> QED BY <1>1, <1>2, <3>1, <3>2, <3>3
  <2> QED BY <1>1, <2>1, <2>2 DEF ReleasedOK
<1>15. GenerationOK' /\ SinkOK' /\ DownOK'
  BY <1>1 DEF IInv, GenerationOK, SinkOK, DownOK
<1> QED BY <1>1, <1>11, <1>13, <1>14, <1>15, LogFrame DEF IInv

-----------------------------------------------------------------------------
(* Crash, damage and restart.                                                *)

\* Of a published directory a crash leaves all files or, if the root was not
\* synced, no directory.
LEMMA RemainsOK ==
  ASSUME NEW directory, NEW g, DirectoryOK(directory, g),
         NEW left \in Remains(directory)
  PROVE  /\ DirectoryOK(left, g)
         /\ left.there => left.files = directory.files
                          /\ left.damaged = directory.damaged
         /\ directory.there /\ directory.durable => left.there /\ left.durable
<1>1. CASE directory = NoDirectory
  <2>1. left = NoDirectory /\ ~directory.there
    BY <1>1 DEF Remains, NoDirectory
  <2> QED BY <1>1, <2>1 DEF DirectoryOK
<1>2. CASE directory # NoDirectory
  <2>1. /\ directory = [there |-> TRUE, durable |-> directory.durable,
                        files |-> directory.files, synced |-> TRUE,
                        damaged |-> directory.damaged]
        /\ directory.durable \in BOOLEAN
        /\ directory.files = [name \in DOMAIN directory.files |->
                                directory.files[name]]
    BY <1>2 DEF DirectoryOK
  <2>2. directory.there = TRUE /\ directory.synced = TRUE
    BY <2>1
  <2>3. CASE left = NoDirectory
    <3>1. ~directory.durable
      <4>1. ASSUME directory.durable PROVE FALSE
        <5>1. PICK kept : left = [directory EXCEPT !.files = Restrict(@, kept),
                                            !.synced = TRUE, !.durable = TRUE]
          BY <2>2, <4>1 DEF Remains
        <5>2. PICK a : a = [directory EXCEPT !.files = Restrict(@, kept)]
          OBVIOUS
        <5>3. PICK b : b = [a EXCEPT !.synced = TRUE]
          OBVIOUS
        <5>4. left = [b EXCEPT !.durable = TRUE]
          BY <5>1, <5>2, <5>3, Zenon
        <5>5. directory = [there |-> directory.there, durable |-> directory.durable,
                           files |-> directory.files, synced |-> directory.synced,
                           damaged |-> directory.damaged]
          BY <2>1
        <5>6. a = [there |-> directory.there, durable |-> directory.durable,
                   files |-> a.files, synced |-> directory.synced,
                   damaged |-> directory.damaged]
          BY <5>2, <5>5
        <5>7. b = [there |-> a.there, durable |-> a.durable, files |-> a.files,
                   synced |-> TRUE, damaged |-> a.damaged]
          BY <5>3, <5>6
        <5>8. left.there = directory.there
          BY <5>4, <5>6, <5>7
        <5> QED BY <2>2, <2>3, <5>8 DEF NoDirectory
      <4> QED BY <4>1
    <3> QED BY <2>3, <3>1 DEF DirectoryOK, NoDirectory
  <2>4. CASE left # NoDirectory
    <3>1. left = [directory EXCEPT !.files = Restrict(@, DOMAIN directory.files),
                                   !.synced = TRUE, !.durable = TRUE]
      BY <2>2, <2>4 DEF Remains
    <3>2. Restrict(directory.files, DOMAIN directory.files) = directory.files
      BY <2>1 DEF Restrict
    <3>3. directory = [there |-> directory.there, durable |-> directory.durable,
                       files |-> directory.files, synced |-> directory.synced,
                       damaged |-> directory.damaged]
      BY <2>1
    <3>4. PICK a : a = [directory EXCEPT !.files =
                          Restrict(@, DOMAIN directory.files)]
      OBVIOUS
    <3>5. PICK b : b = [a EXCEPT !.synced = TRUE]
      OBVIOUS
    <3>6. left = [b EXCEPT !.durable = TRUE]
      BY <3>1, <3>4, <3>5, Zenon
    <3>7. a = [there |-> directory.there, durable |-> directory.durable,
               files |-> directory.files, synced |-> directory.synced,
               damaged |-> directory.damaged]
      <4>1. PICK files : files = Restrict(directory.files, DOMAIN directory.files)
        OBVIOUS
      <4>2. a = [directory EXCEPT !.files = files]
        BY <3>4, <4>1, Zenon
      <4>3. a = [there |-> directory.there, durable |-> directory.durable,
                 files |-> files, synced |-> directory.synced,
                 damaged |-> directory.damaged]
        BY <3>3, <4>2
      <4> QED BY <3>2, <4>1, <4>3
    <3>8. b = [there |-> a.there, durable |-> a.durable, files |-> a.files,
               synced |-> TRUE, damaged |-> a.damaged]
      BY <3>5, <3>7
    <3>9. left = [there |-> b.there, durable |-> TRUE, files |-> b.files,
                  synced |-> b.synced, damaged |-> b.damaged]
      BY <3>6, <3>8
    <3>10. left = [there |-> TRUE, durable |-> TRUE, files |-> directory.files,
                   synced |-> TRUE, damaged |-> directory.damaged]
      BY <2>2, <3>7, <3>8, <3>9
    <3> QED BY <1>2, <3>10 DEF DirectoryOK
  <2> QED BY <2>3, <2>4
<1> QED BY <1>1, <1>2

\* New modules have folded nothing.
LEMMA NewModulesOK ==
  ASSUME NEW s \in Stages
  PROVE  /\ NewModules[s] = [state |-> StateAt(s, 0), capture |-> <<>>]
         /\ DOMAIN NewModules = Stages
         /\ NewModules = [t \in Stages |-> NewModules[t]]
<1>1. FoldAt(0) = <<>>
  BY DEF FoldAt
<1> QED BY <1>1 DEF NewModules, Module, HashChainState, BitAccumulatorState,
           StateAt, HashStateAt, BitStateAt, Stages

LEMMA CrashStep ==
  ASSUME IInv, Crash
  PROVE  IInv'
<1>1. PICK left \in [Positions -> UNION {Remains(published[g]) : g \in Positions}] :
        /\ \A g \in Positions : left[g] \in Remains(published[g])
        /\ published' = left
  BY DEF Crash
<1>2. /\ phase' = "Down" /\ sink' = "Idle" /\ staging' = NoStaging
      /\ generation' = <<>> /\ module' = NewModules
      /\ current' = [s \in Stages |-> 0] /\ frontier' = [s \in Stages |-> 0]
      /\ UNCHANGED <<log, released>>
  BY DEF Crash
<1>3. /\ published' = [g \in Positions |-> published'[g]]
      /\ \A g \in Positions : published'[g] \in Remains(published[g])
  BY <1>1
<1>4. ASSUME NEW g \in Positions
      PROVE  /\ DirectoryOK(published'[g], g)
             /\ published[g].there /\ published[g].durable =>
                  published'[g].there /\ published'[g].durable
  <2>1. DirectoryOK(published[g], g)
    BY DEF IInv, PublishedOK
  <2> QED BY <1>3, <2>1, RemainsOK
<1>5. PublishedOK'
  <2>1. ASSUME NEW g \in Positions PROVE DirectoryOK(published[g], g)'
    BY <1>2, <1>4, SavedFrame
  <2> QED BY <1>3, <2>1 DEF PublishedOK
<1>6. ReleasedOK'
  BY <1>2, <1>4 DEF IInv, ReleasedOK
<1>7. LogOK' /\ ProgressOK'
  BY <1>2 DEF IInv, LogOK, ProgressOK
<1>8. ModulesOK'
  <2>1. ASSUME NEW s \in Stages
        PROVE  /\ module'[s] = [state |-> module'[s].state,
                                capture |-> module'[s].capture]
               /\ StateOK(s)' /\ CaptureOK(s)'
    <3>1. module'[s] = [state |-> StateAt(s, 0), capture |-> <<>>]
      BY <1>2, NewModulesOK
    <3>2. module'[s].state = StateAt(s, 0) /\ module'[s].capture = <<>>
          /\ current'[s] = 0
      BY <1>2, <3>1
    <3> QED BY <3>1, <3>2 DEF StateOK, CaptureOK
  <2>2. DOMAIN module' = Stages /\ module' = [s \in Stages |-> module'[s]]
    BY <1>2, NewModulesOK DEF Stages
  <2> QED BY <2>1, <2>2 DEF ModulesOK
<1>9. GenerationOK' /\ SinkOK' /\ DownOK'
  BY <1>2 DEF GenerationOK, SinkOK, DownOK, NoStaging
<1> QED BY <1>5, <1>6, <1>7, <1>8, <1>9 DEF IInv

\* A restored generation leaves the modules where direct execution had them.
LEMMA RestoreStep ==
  ASSUME IInv, NEW g \in Positions, RestoreSnapshot(g)
  PROVE  IInv'
<1> DEFINE loaded == Load(published[g].files, Identity, g)
           prepared == loaded.prepared[1]
<1>1. /\ published[g].there /\ loaded.status = "Ok"
      /\ module' = [s \in Stages |->
           Module(IF s = "hash" THEN prepared.hash_chain
                  ELSE prepared.bit_accumulator)]
      /\ current' = [s \in Stages |-> prepared.description.processed_end]
      /\ frontier' = [s \in Stages |-> prepared.description.processed_end]
      /\ phase = "Down" /\ phase' = "Replay"
      /\ UNCHANGED <<log, generation, sink, staging, published, released>>
  BY DEF RestoreSnapshot, ResumePosition, diskVars
<1>2. /\ Saved(g)
      /\ loaded.prepared =
           <<[description |-> DescriptionAt(g), hash_chain |-> HashStateAt(g + 1),
              bit_accumulator |-> BitStateAt(g + 1)]>>
  <2>1. DirectoryOK(published[g], g)
    BY DEF IInv, PublishedOK
  <2>2. "description" \in DOMAIN published[g].files =>
          Genuine(published[g].files["description"])
    BY <1>1, <2>1 DEF DirectoryOK, NoDirectory
  <2> QED BY <1>1, <2>2, LoadedExact
<1>3. g \in Nat /\ g + 1 \in Nat
  BY TractAssumption DEF Positions
<1>4. /\ prepared.description.processed_end = g + 1
      /\ prepared.hash_chain = HashStateAt(g + 1)
      /\ prepared.bit_accumulator = BitStateAt(g + 1)
  BY <1>2, <1>3, DescriptionFileDecodes
<1> HIDE DEF prepared, loaded
<1>5. /\ current' = [s \in Stages |-> g + 1] /\ frontier' = [s \in Stages |-> g + 1]
      /\ DOMAIN module' = Stages /\ module' = [s \in Stages |-> module'[s]]
      /\ \A s \in Stages : module'[s] = [state |-> StateAt(s, g + 1), capture |-> <<>>]
  BY <1>1, <1>4 DEF Module, StateAt
<1>6. LogOK' /\ ProgressOK'
  <2>1. g + 1 <= Len(log) /\ \A k \in 1 .. g + 1 : log[k] \in WellFormed(k - 1)
    BY <1>2, <1>3 DEF Saved, IInv, LogOK
  <2> QED BY <1>1, <1>3, <1>5, <2>1 DEF IInv, LogOK, ProgressOK
<1>7. ModulesOK'
  <2>1. ASSUME NEW s \in Stages
        PROVE  /\ module'[s] = [state |-> module'[s].state,
                                capture |-> module'[s].capture]
               /\ StateOK(s)' /\ CaptureOK(s)'
    <3>1. /\ module'[s].state = StateAt(s, g + 1) /\ module'[s].capture = <<>>
          /\ current'[s] = g + 1
      BY <1>5
    <3> QED BY <1>5, <3>1 DEF StateOK, CaptureOK
  <2> QED BY <1>5, <2>1 DEF ModulesOK
<1>8. GenerationOK' /\ SinkOK' /\ ReleasedOK' /\ DownOK'
  BY <1>1 DEF IInv, DownOK, GenerationOK, SinkOK, ReleasedOK, Pending
<1> QED BY <1>1, <1>6, <1>7, <1>8, PublishedFrame DEF IInv

-----------------------------------------------------------------------------
(* Damage.                                                                   *)

\* The files of another composition, or of another schema, are never accepted.
LEMMA ForeignRefused ==
  ASSUME NEW g \in Positions, NEW h \in Positions, NEW identity, NEW schema,
         \/ identity = [Identity EXCEPT !.composition_id = 2] /\ schema = 1
         \/ identity = Identity /\ schema = 2
  PROVE  LET files == Foreign(g, identity, schema)
         IN  /\ DOMAIN files = {"hash", "bits", "description"}
             /\ IsFile(files["description"])
             /\ ~Accepted(files["description"], h)
<1> DEFINE state == [processed_end |-> g + 1, digest |-> <<>>, total_one_bits |-> 0,
                     rolling_bits |-> <<>>, failed |-> FALSE]
           capture == [generation_id |-> g, record_position |-> g,
                       processed_end |-> g + 1, sequence |-> Sequence(g),
                       state |-> state]
           described == Description(identity,
             [generation_id |-> g, record_position |-> g, processed_end |-> g + 1,
              sequence |-> Sequence(g), hash_chain |-> capture,
              bit_accumulator |-> capture])
           stamped == [described EXCEPT !.hash_chain.schema_version = schema]
           file == serialize_snapshot_description(stamped)
<1>1. /\ DOMAIN Foreign(g, identity, schema) = {"hash", "bits", "description"}
      /\ Foreign(g, identity, schema)["description"] = file
  BY DEF Foreign
<1>2. IsFile(file)
  BY DEF IsFile, serialize_snapshot_description, File
<1>3. /\ identity = [stream_kind |-> identity.stream_kind,
                     composition_id |-> identity.composition_id,
                     stream_id |-> identity.stream_id,
                     epoch_id |-> identity.epoch_id,
                     manifest_id |-> identity.manifest_id]
      /\ identity.stream_kind \in StreamKinds
      /\ identity # Identity \/ schema # 1
  <2>1. CASE identity = Identity /\ schema = 2
    BY <2>1 DEF Identity, StreamKinds
  <2>2. CASE identity = [Identity EXCEPT !.composition_id = 2]
    <3>1. PICK id : id = Identity
      OBVIOUS
    <3>2. /\ id = [stream_kind |-> id.stream_kind, stream_id |-> id.stream_id,
                   epoch_id |-> id.epoch_id, manifest_id |-> id.manifest_id,
                   composition_id |-> id.composition_id]
          /\ id.stream_kind = "Command" /\ id.composition_id = 1
      BY <3>1 DEF Identity
    <3>3. identity = [id EXCEPT !.composition_id = 2]
      BY <2>2, <3>1, Zenon
    <3>4. identity = [stream_kind |-> id.stream_kind, stream_id |-> id.stream_id,
                      epoch_id |-> id.epoch_id, manifest_id |-> id.manifest_id,
                      composition_id |-> 2]
      BY <3>2, <3>3
    <3> QED BY <3>1, <3>2, <3>4 DEF StreamKinds
  <2> QED BY <2>1, <2>2
<1>4. PICK hash_file, bits_file :
        /\ hash_file = serialize_hash_chain_snapshot(capture)
        /\ bits_file = serialize_bit_accumulator_snapshot(capture)
  OBVIOUS
<1>5. PICK d : d = described
  OBVIOUS
<1>6. /\ d = [identity |-> d.identity, generation_id |-> d.generation_id,
              record_position |-> d.record_position,
              processed_end |-> d.processed_end,
              snapshot_sequence |-> d.snapshot_sequence,
              hash_chain |-> d.hash_chain, bit_accumulator |-> d.bit_accumulator]
      /\ d.identity = identity
      /\ d.hash_chain = ModuleDescription(kHashChainModuleId,
                          kHashChainSchemaVersion, HashChain, hash_file)
      /\ d.bit_accumulator = ModuleDescription(kBitAccumulatorModuleId,
                               kBitAccumulatorSchemaVersion, BitAccumulator,
                               bits_file)
  <2>1. d = [identity |-> identity, generation_id |-> g, record_position |-> g,
             processed_end |-> g + 1, snapshot_sequence |-> Sequence(g),
             hash_chain |-> ModuleDescription(kHashChainModuleId,
                              kHashChainSchemaVersion, HashChain, hash_file),
             bit_accumulator |-> ModuleDescription(kBitAccumulatorModuleId,
                                   kBitAccumulatorSchemaVersion, BitAccumulator,
                                   bits_file)]
    <3> HIDE DEF capture
    <3> QED BY <1>4, <1>5 DEF Description
  <2> QED BY <2>1
<1>7. PICK module_description : module_description = d.hash_chain
  OBVIOUS
<1>8. /\ module_description =
           [module_id |-> module_description.module_id,
            schema_version |-> module_description.schema_version,
            file_kind |-> HashChain, file_size |-> module_description.file_size,
            checksum |-> module_description.checksum]
      /\ d.bit_accumulator =
           [module_id |-> d.bit_accumulator.module_id,
            schema_version |-> d.bit_accumulator.schema_version,
            file_kind |-> BitAccumulator, file_size |-> d.bit_accumulator.file_size,
            checksum |-> d.bit_accumulator.checksum]
  BY <1>6, <1>7 DEF ModuleDescription
<1>9. PICK after : after = [module_description EXCEPT !.schema_version = schema]
  OBVIOUS
<1>10. after = [module_id |-> module_description.module_id,
                schema_version |-> schema, file_kind |-> HashChain,
                file_size |-> module_description.file_size,
                checksum |-> module_description.checksum]
  BY <1>8, <1>9
<1>11. PICK s : s = stamped
  OBVIOUS
<1>12. s = [d EXCEPT !.hash_chain = after]
  <2>1. s = [d EXCEPT !.hash_chain.schema_version = schema]
    <3> HIDE DEF described
    <3> QED BY <1>5, <1>11, Zenon
  <2>2. [d EXCEPT !.hash_chain.schema_version = schema]
          = [d EXCEPT !.hash_chain = [d.hash_chain EXCEPT !.schema_version = schema]]
    OBVIOUS
  <2> QED BY <1>7, <1>9, <2>1, <2>2, Zenon
<1>13. s = [identity |-> d.identity, generation_id |-> d.generation_id,
            record_position |-> d.record_position,
            processed_end |-> d.processed_end,
            snapshot_sequence |-> d.snapshot_sequence,
            hash_chain |-> after, bit_accumulator |-> d.bit_accumulator]
  BY <1>6, <1>12
<1>14. /\ s = [identity |-> s.identity, generation_id |-> s.generation_id,
               record_position |-> s.record_position,
               processed_end |-> s.processed_end,
               snapshot_sequence |-> s.snapshot_sequence,
               hash_chain |-> s.hash_chain, bit_accumulator |-> s.bit_accumulator]
       /\ s.identity = identity /\ s.hash_chain = after
       /\ s.bit_accumulator = d.bit_accumulator
  BY <1>6, <1>13
<1>15. /\ s.hash_chain = [module_id |-> s.hash_chain.module_id,
                          schema_version |-> s.hash_chain.schema_version,
                          file_kind |-> HashChain,
                          file_size |-> s.hash_chain.file_size,
                          checksum |-> s.hash_chain.checksum]
       /\ s.hash_chain.schema_version = schema
  BY <1>10, <1>14
<1>16. deserialize_snapshot_description(file) = <<s>>
  <2>1. file = serialize_snapshot_description(s)
    BY <1>11
  <2> HIDE DEF file, stamped
  <2>2. /\ s.identity = [stream_kind |-> s.identity.stream_kind,
                         composition_id |-> s.identity.composition_id,
                         stream_id |-> s.identity.stream_id,
                         epoch_id |-> s.identity.epoch_id,
                         manifest_id |-> s.identity.manifest_id]
        /\ s.identity.stream_kind \in StreamKinds
    BY <1>3, <1>14
  <2>3. s.bit_accumulator = [module_id |-> s.bit_accumulator.module_id,
                             schema_version |-> s.bit_accumulator.schema_version,
                             file_kind |-> BitAccumulator,
                             file_size |-> s.bit_accumulator.file_size,
                             checksum |-> s.bit_accumulator.checksum]
    BY <1>8, <1>14
  <2> QED BY <1>14, <1>15, <2>1, <2>2, <2>3, DescriptionDecodes
<1> HIDE DEF file, stamped, described
<1>17. ~Accepted(file, h)
  BY <1>3, <1>14, <1>15, <1>16 DEF Accepted, valid_module_descriptions,
     kHashChainSchemaVersion
<1> QED BY <1>1, <1>2, <1>17

\* Of an undamaged or damaged directory the description stays genuine.
LEMMA DamagedGenuine ==
  ASSUME IInv, NEW g \in Positions, published[g].there, NEW files \in Damaged(g)
  PROVE  /\ files = [name \in DOMAIN files |-> files[name]]
         /\ "description" \in DOMAIN files => Genuine(files["description"])
<1> DEFINE old == published[g].files
           Ok(f) == /\ f = [name \in DOMAIN f |-> f[name]]
                    /\ "description" \in DOMAIN f => Genuine(f["description"])
<1>1. ASSUME NEW h \in Positions, published[h].there
      PROVE  Ok(published[h].files)
  <2>1. DirectoryOK(published[h], h)
    BY DEF IInv, PublishedOK
  <2> QED BY <1>1, <2>1 DEF DirectoryOK, NoDirectory
<1>2. Ok(old)
  BY <1>1
<1>3. CASE \E name \in DOMAIN old : files = Restrict(old, DOMAIN old \ {name})
  BY <1>2, <1>3 DEF Restrict
<1>4. CASE \E name \in DOMAIN old : files = [old EXCEPT ![name].size = 0]
  <2>1. PICK name \in DOMAIN old : files = [old EXCEPT ![name].size = 0]
    BY <1>4
  <2>2. PICK file : file = [old[name] EXCEPT !.size = 0]
    OBVIOUS
  <2> HIDE DEF old
  <2>3. files = [old EXCEPT ![name] = file]
    BY <2>1, <2>2
  <2>4. /\ DOMAIN files = DOMAIN old /\ files[name] = file
        /\ files = [n \in DOMAIN files |-> files[n]]
        /\ \A n \in DOMAIN old \ {name} : files[n] = old[n]
    BY <1>2, <2>3
  <2>5. CASE name = "description"
    <3>1. PICK before : before = old["description"]
      OBVIOUS
    <3>2. before = [size |-> before.size, bytes |-> before.bytes]
      BY <1>2, <2>5, <3>1 DEF Genuine, IsFile
    <3>3. file = [size |-> 0, bytes |-> before.bytes]
      <4>1. file = [before EXCEPT !.size = 0]
        BY <2>2, <2>5, <3>1
      <4> QED BY <3>2, <4>1
    <3>4. IsFile(file) /\ file.size = 0
      BY <3>3 DEF IsFile
    <3>5. Genuine(file)
      BY <3>4 DEF Genuine, Accepted, kSnapshotDescriptionSize
    <3> QED BY <2>4, <2>5, <3>5
  <2>6. CASE name # "description"
    BY <1>2, <2>4, <2>6
  <2> QED BY <2>5, <2>6
<1>5. CASE \/ files = [old EXCEPT !["hash"].bytes[48] = <<>>]
           \/ files = [old EXCEPT !["bits"].bytes[48] = 0]
  <2>1. \E name \in {"hash", "bits"} : \E file : files = [old EXCEPT ![name] = file]
    <3> HIDE DEF old
    <3>1. CASE files = [old EXCEPT !["hash"].bytes[48] = <<>>]
      <4>1. PICK file : file = [old["hash"] EXCEPT !.bytes[48] = <<>>]
        OBVIOUS
      <4>2. files = [old EXCEPT !["hash"] = file]
        BY <3>1, <4>1
      <4> QED BY <4>2
    <3>2. CASE files = [old EXCEPT !["bits"].bytes[48] = 0]
      <4>1. PICK file : file = [old["bits"] EXCEPT !.bytes[48] = 0]
        OBVIOUS
      <4>2. files = [old EXCEPT !["bits"] = file]
        BY <3>2, <4>1
      <4> QED BY <4>2
    <3> QED BY <1>5, <3>1, <3>2
  <2> HIDE DEF old
  <2>3. PICK name \in {"hash", "bits"} : \E file : files = [old EXCEPT ![name] = file]
    BY <2>1
  <2>4. PICK file : files = [old EXCEPT ![name] = file]
    BY <2>3
  <2>2. /\ DOMAIN files = DOMAIN old /\ files = [n \in DOMAIN files |-> files[n]]
        /\ "description" \in DOMAIN old => files["description"] = old["description"]
    BY <1>2, <2>4
  <2> QED BY <1>2, <2>2
<1>6. CASE files = [old EXCEPT !["description"].bytes[56] = 0]
  <2> HIDE DEF old
  <2>1. PICK before : before = old["description"]
    OBVIOUS
  <2>2. PICK bytes : bytes = [before.bytes EXCEPT ![56] = 0]
    OBVIOUS
  <2>3. PICK file : file = [before EXCEPT !.bytes = bytes]
    OBVIOUS
  <2>4. files = [old EXCEPT !["description"] = file]
    BY <1>6, <2>1, <2>2, <2>3
  <2>5. /\ DOMAIN files = DOMAIN old /\ files = [n \in DOMAIN files |-> files[n]]
        /\ "description" \in DOMAIN old => files["description"] = file
    BY <1>2, <2>4
  <2>6. ASSUME "description" \in DOMAIN old PROVE Genuine(file)
    <3>1. before = [size |-> before.size, bytes |-> before.bytes]
      BY <1>2, <2>1, <2>6 DEF Genuine, IsFile
    <3>2. file = [size |-> before.size, bytes |-> bytes]
      BY <2>3, <3>1
    <3>3. IsFile(file) /\ file.bytes = bytes
      BY <3>2 DEF IsFile
    <3>4. Get(bytes, 56) = 0
      BY <2>2 DEF Get
    <3>5. ASSUME NEW h \in Positions, Accepted(file, h) PROVE FALSE
      <4>1. deserialize_snapshot_description(file)[1].processed_end = 0
        BY <3>3, <3>4, <3>5 DEF Accepted, deserialize_snapshot_description
      <4>2. h \in Nat
        BY TractAssumption DEF Positions
      <4> QED BY <3>5, <4>1, <4>2 DEF Accepted, valid_description_boundary
    <3> QED BY <3>3, <3>5 DEF Genuine
  <2> QED BY <2>5, <2>6
<1>7. CASE \E h \in Positions : /\ published[h].there
                               /\ \/ files = published[h].files
                                  \/ files = [old EXCEPT !["hash"] =
                                                published[h].files["hash"]]
  <2>1. PICK h \in Positions : /\ published[h].there
                               /\ \/ files = published[h].files
                                  \/ files = [old EXCEPT !["hash"] =
                                                published[h].files["hash"]]
    BY <1>7
  <2>2. CASE files = published[h].files
    BY <1>1, <2>1, <2>2
  <2>3. CASE files = [old EXCEPT !["hash"] = published[h].files["hash"]]
    <3>1. PICK file : file = published[h].files["hash"]
      OBVIOUS
    <3> HIDE DEF old
    <3>2. files = [old EXCEPT !["hash"] = file]
      BY <2>3, <3>1
    <3>3. /\ DOMAIN files = DOMAIN old /\ files = [n \in DOMAIN files |-> files[n]]
          /\ "description" \in DOMAIN old =>
               files["description"] = old["description"]
      BY <1>2, <3>2
    <3> QED BY <1>2, <3>3
  <2> QED BY <2>1, <2>2, <2>3
<1>8. CASE \/ files = Foreign(g, [Identity EXCEPT !.composition_id = 2], 1)
           \/ files = Foreign(g, Identity, 2)
  <2>1. /\ DOMAIN files = {"hash", "bits", "description"}
        /\ IsFile(files["description"])
        /\ \A h \in Positions : ~Accepted(files["description"], h)
    <3>1. PICK identity, schema :
            /\ files = Foreign(g, identity, schema)
            /\ \/ identity = [Identity EXCEPT !.composition_id = 2] /\ schema = 1
               \/ identity = Identity /\ schema = 2
      BY <1>8, Zenon
    <3> QED BY <3>1, ForeignRefused
  <2>2. files = [name \in DOMAIN files |-> files[name]]
    BY <1>8 DEF Foreign
  <2> QED BY <2>1, <2>2 DEF Genuine
<1>9. CASE files = [old EXCEPT !["description"].bytes = ReservedSet(@)]
  <2> HIDE DEF old
  <2>1. PICK before : before = old["description"]
    OBVIOUS
  <2>2. PICK bytes : bytes = ReservedSet(before.bytes)
    OBVIOUS
  <2>3. PICK file : file = [before EXCEPT !.bytes = bytes]
    OBVIOUS
  <2>4. files = [old EXCEPT !["description"] = file]
    BY <1>9, <2>1, <2>2, <2>3
  <2>5. /\ DOMAIN files = DOMAIN old /\ files = [n \in DOMAIN files |-> files[n]]
        /\ "description" \in DOMAIN old => files["description"] = file
    BY <1>2, <2>4
  <2>6. ASSUME "description" \in DOMAIN old PROVE Genuine(file)
    <3>1. before = [size |-> before.size, bytes |-> before.bytes]
      BY <1>2, <2>1, <2>6 DEF Genuine, IsFile
    <3>2. file = [size |-> before.size, bytes |-> bytes]
      BY <2>3, <3>1
    <3>3. IsFile(file) /\ file.bytes = bytes
      BY <3>2 DEF IsFile
    <3>4. Get(bytes, 148) = 1
      BY <2>2 DEF Get, ReservedSet
    <3>5. deserialize_snapshot_description(file) = <<>>
      <4>1. ~(\A at \in ReservedOffsets : Get(file.bytes, at) = 0)
        BY <3>3, <3>4 DEF ReservedOffsets
      <4> QED BY <4>1, Zenon DEF deserialize_snapshot_description
    <3> QED BY <3>3, <3>5 DEF Genuine, Accepted
  <2> QED BY <2>5, <2>6
<1>10. \/ \E name \in DOMAIN old : files = Restrict(old, DOMAIN old \ {name})
       \/ \E name \in DOMAIN old : files = [old EXCEPT ![name].size = 0]
       \/ \/ files = [old EXCEPT !["hash"].bytes[48] = <<>>]
          \/ files = [old EXCEPT !["bits"].bytes[48] = 0]
       \/ files = [old EXCEPT !["description"].bytes[56] = 0]
       \/ files = [old EXCEPT !["description"].bytes = ReservedSet(@)]
       \/ \E h \in Positions : /\ published[h].there
                               /\ \/ files = published[h].files
                                  \/ files = [old EXCEPT !["hash"] =
                                                published[h].files["hash"]]
       \/ \/ files = Foreign(g, [Identity EXCEPT !.composition_id = 2], 1)
          \/ files = Foreign(g, Identity, 2)
  <2> DEFINE lost == {Restrict(old, DOMAIN old \ {name}) : name \in DOMAIN old}
             cut == {[old EXCEPT ![name].size = 0] : name \in DOMAIN old}
             hash == [old EXCEPT !["hash"].bytes[48] = <<>>]
             bits == [old EXCEPT !["bits"].bytes[48] = 0]
             description == [old EXCEPT !["description"].bytes[56] = 0]
             reserved == [old EXCEPT !["description"].bytes = ReservedSet(@)]
             Others == {h \in Positions \ {g} : published[h].there}
             Swapped(h) == [old EXCEPT !["hash"] = published[h].files["hash"]]
             swapped == UNION {{published[h].files, Swapped(h)} : h \in Others}
             composition == Foreign(g, [Identity EXCEPT !.composition_id = 2], 1)
             schema == Foreign(g, Identity, 2)
  <2>1. Damaged(g) = lost \cup cut \cup {hash, bits, description, reserved}
                       \cup {composition, schema} \cup swapped
    BY Zenon DEF Damaged
  <2>2. files \in lost => \E name \in DOMAIN old :
                            files = Restrict(old, DOMAIN old \ {name})
    OBVIOUS
  <2>3. files \in cut => \E name \in DOMAIN old : files = [old EXCEPT ![name].size = 0]
    BY Zenon
  <2>4. files \in swapped => \E h \in Positions :
                               /\ published[h].there
                               /\ files = published[h].files \/ files = Swapped(h)
    <3> HIDE DEF Swapped
    <3> QED OBVIOUS
  <2>5. \/ files \in lost \/ files \in cut \/ files \in swapped
        \/ files \in {hash, bits, description, reserved, composition, schema}
    <3> HIDE DEF lost, cut, hash, bits, description, reserved, swapped,
                 composition, schema
    <3> QED BY <2>1
  <2> HIDE DEF lost, cut, swapped
  <2> QED BY <2>2, <2>3, <2>4, <2>5, Zenon
<1> QED BY <1>3, <1>4, <1>5, <1>6, <1>7, <1>8, <1>9, <1>10

LEMMA DamageStep ==
  ASSUME IInv, NEW g \in Positions, Damage(g)
  PROVE  IInv'
<1>1. PICK files \in Damaged(g) :
        published' = [published EXCEPT ![g].files = files, ![g].damaged = TRUE]
  BY DEF Damage
<1>2. /\ published[g].there
      /\ UNCHANGED <<log, phase, module, current, frontier, generation, sink,
                     staging, released>>
      /\ phase = "Down"
  BY DEF Damage, tractVars
<1>3. /\ files = [name \in DOMAIN files |-> files[name]]
      /\ "description" \in DOMAIN files => Genuine(files["description"])
  BY <1>2, DamagedGenuine
<1>4. PICK d : d = published[g]
  OBVIOUS
<1>5. /\ d = [there |-> d.there, durable |-> d.durable, files |-> d.files,
              synced |-> d.synced, damaged |-> d.damaged]
      /\ d.there = TRUE /\ d.synced = TRUE /\ d.durable \in BOOLEAN
  <2>1. DirectoryOK(d, g)
    BY <1>4 DEF IInv, PublishedOK
  <2> QED BY <1>2, <1>4, <2>1 DEF DirectoryOK, NoDirectory
<1>6. PICK e : e = [d EXCEPT !.files = files]
  OBVIOUS
<1>7. PICK f : f = [e EXCEPT !.damaged = TRUE]
  OBVIOUS
<1>8. e = [there |-> d.there, durable |-> d.durable, files |-> files,
           synced |-> d.synced, damaged |-> d.damaged]
  BY <1>5, <1>6
<1>9. f = [there |-> e.there, durable |-> e.durable, files |-> e.files,
           synced |-> e.synced, damaged |-> TRUE]
  BY <1>7, <1>8
<1>10. f = [there |-> TRUE, durable |-> d.durable, files |-> files,
            synced |-> TRUE, damaged |-> TRUE]
  BY <1>5, <1>8, <1>9
<1>11. f.there = TRUE /\ f.durable = d.durable /\ f.files = files
       /\ f.damaged = TRUE
  BY <1>10
<1>12. /\ published' = [h \in Positions |-> published'[h]] /\ published'[g] = f
       /\ \A h \in Positions \ {g} : published'[h] = published[h]
  <2>1. PICK between : between = [published EXCEPT ![g].files = files]
    OBVIOUS
  <2>2. published' = [between EXCEPT ![g].damaged = TRUE]
    BY <1>1, <2>1, Zenon
  <2>3. published = [h \in Positions |-> published[h]]
    BY DEF IInv, PublishedOK
  <2>4. between = [published EXCEPT ![g] = e]
    BY <1>4, <1>6, <2>1
  <2>5. between[g] = e
    BY <2>3, <2>4
  <2>6. published' = [between EXCEPT ![g] = f]
    BY <1>7, <2>2, <2>5
  <2> QED BY <2>3, <2>4, <2>6
<1>13. PublishedOK'
  <2>1. DirectoryOK(f, g)
    BY <1>3, <1>5, <1>10, <1>11 DEF DirectoryOK
  <2>2. ASSUME NEW h \in Positions PROVE DirectoryOK(published[h], h)
    BY DEF IInv, PublishedOK
  <2>3. ASSUME NEW h \in Positions PROVE DirectoryOK(published'[h], h)
    BY <1>12, <2>1, <2>2
  <2>4. ASSUME NEW h \in Positions PROVE DirectoryOK(published[h], h)'
    BY <1>2, <2>3, SavedFrame
  <2> QED BY <1>12, <2>4 DEF PublishedOK
<1>14. ReleasedOK'
  <2>1. ASSUME NEW h \in released
        PROVE  h \in Positions /\ published'[h].there /\ published'[h].durable
    BY <1>4, <1>5, <1>11, <1>12, <2>1 DEF IInv, ReleasedOK
  <2> QED BY <1>2, <2>1 DEF ReleasedOK
<1>15. SinkOK'
  BY <1>2 DEF IInv, DownOK, SinkOK
<1> QED BY <1>2, <1>13, <1>14, <1>15, LogFrame, ModulesFrame, GenerationFrame,
           DownFrame DEF IInv

-----------------------------------------------------------------------------
(* The theorems.                                                             *)

LEMMA Remaining ==
  ASSUME IInv, NEW g \in Positions, NEW directory \in Remains(published[g]),
         directory.there
  PROVE  /\ directory.files = FilesAt(g) \/ directory.damaged
         /\ "description" \in DOMAIN directory.files =>
              Genuine(directory.files["description"])
<1>1. DirectoryOK(published[g], g)
  BY DEF IInv, PublishedOK
<1>2. DirectoryOK(directory, g)
  BY <1>1, RemainsOK
<1> QED BY <1>2 DEF DirectoryOK, NoDirectory

LEMMA IInvPublishedExact == IInv => PublishedExact
<1> SUFFICES ASSUME IInv, NEW g \in Positions,
                    NEW directory \in Remains(published[g]), directory.there
             PROVE  LET loaded == Load(directory.files, Identity, g)
                    IN  /\ loaded.status = "Ok" \/ directory.damaged
                        /\ loaded.status = "Ok" =>
                             /\ log[g + 1] = encode_save_snapshot(g)
                             /\ loaded.prepared[1].hash_chain = HashStateAt(g + 1)
                             /\ loaded.prepared[1].bit_accumulator
                                  = BitStateAt(g + 1)
  BY DEF PublishedExact
<1> DEFINE loaded == Load(directory.files, Identity, g)
<1>1. loaded.status = "Ok" \/ directory.damaged
  BY Remaining, FilesLoad
<1>2. ASSUME loaded.status = "Ok"
      PROVE  /\ log[g + 1] = encode_save_snapshot(g)
             /\ loaded.prepared[1].hash_chain = HashStateAt(g + 1)
             /\ loaded.prepared[1].bit_accumulator = BitStateAt(g + 1)
  <2>1. /\ Saved(g)
        /\ loaded.prepared =
             <<[description |-> DescriptionAt(g), hash_chain |-> HashStateAt(g + 1),
                bit_accumulator |-> BitStateAt(g + 1)]>>
    BY <1>2, Remaining, LoadedExact
  <2> HIDE DEF loaded
  <2> QED BY <2>1 DEF Saved
<1> QED BY <1>1, <1>2

LEMMA IInvReleasedSurvives == IInv => ReleasedSurvives
<1> SUFFICES ASSUME IInv PROVE ReleasedSurvives
  OBVIOUS
<1>1. ASSUME NEW g \in released, NEW directory \in Remains(published[g])
      PROVE  directory.there
  <2>1. g \in Positions /\ published[g].there /\ published[g].durable
    BY DEF IInv, ReleasedOK
  <2>2. DirectoryOK(published[g], g)
    BY <2>1 DEF IInv, PublishedOK
  <2> QED BY <2>1, <2>2, RemainsOK
<1>2. ASSUME phase = "Live", NEW s \in Stages, NEW g \in 0 .. current[s] - 1,
             log[g + 1] = encode_save_snapshot(g)
      PROVE  g \in released \/ module[s].capture[1].generation_id = g
  <2>1. g \in released \/ module[s].capture = <<CaptureAt(s, g)>>
    BY <1>2 DEF IInv, ReleasedOK
  <2> QED BY <2>1 DEF CaptureAt
<1> QED BY <1>1, <1>2 DEF ReleasedSurvives

LEMMA IInvModulesExact == IInv => ModulesExact
<1> SUFFICES ASSUME IInv, NEW s \in Stages
             PROVE  LET n == current[s]
                        state == module[s].state
                    IN  /\ state.failed => /\ n < Len(log)
                                           /\ log[n + 1] \notin WellFormed(n)
                        /\ \A k \in 1 .. n : log[k] \in WellFormed(k - 1)
                        /\ [state EXCEPT !.failed = FALSE]
                             = IF s = "hash" THEN HashStateAt(n) ELSE BitStateAt(n)
  BY DEF ModulesExact
<1> DEFINE n == current[s]
           state == module[s].state
<1>1. StateOK(s)
  BY DEF IInv, ModulesOK
<1>2. state \in {StateAt(s, n), FailedAt(s, n)}
  BY <1>1 DEF StateOK
<1>3. [state EXCEPT !.failed = FALSE] = StateAt(s, n)
  <2> HIDE DEF state, n
  <2> QED BY <1>2, FailedState
<1>4. ASSUME state.failed PROVE n < Len(log) /\ log[n + 1] \notin WellFormed(n)
  <2>1. StateAt(s, n).failed = FALSE
    BY StateFields
  <2>2. state # StateAt(s, n)
    BY <1>4, <2>1, Zenon
  <2> QED BY <1>1, <2>2 DEF StateOK
<1>5. \A k \in 1 .. n : log[k] \in WellFormed(k - 1)
  BY DEF IInv, ProgressOK
<1> QED BY <1>3, <1>4, <1>5 DEF StateAt

\* The invariant is inductive.
THEOREM Invariance == Spec => []IInv
<1>1. Init => IInv
  BY InitHolds
<1>2. IInv /\ [Next]_vars => IInv'
  <2> SUFFICES ASSUME IInv, [Next]_vars PROVE IInv'
    OBVIOUS
  <2>1. ASSUME NEW payload \in WellFormed(Len(log)) \cup Malformed(Len(log)),
               Produce(payload)
        PROVE  IInv'
    BY <2>1, ProduceStep
  <2>2. ASSUME NEW s \in Stages, Process(s) PROVE IInv'
    BY <2>2, ProcessStep
  <2>3. CASE (\E s \in Stages : Publish(s)) \/ Reclaim \/ StartFresh
    BY <2>3, SmallSteps
  <2>4. CASE Collect
    BY <2>4, CollectStep
  <2>5. CASE Save
    BY <2>5, BeginSaveStep, StageStep, WriteStep, RenameDescriptionStep,
       SyncStagingStep, RenameStagingStep, SyncRootStep DEF Save
  <2>6. CASE SaveFails
    BY <2>6, SaveFailsStep
  <2>7. CASE Crash
    BY <2>7, CrashStep
  <2>8. ASSUME NEW g \in Positions, Damage(g) PROVE IInv'
    BY <2>8, DamageStep
  <2>9. ASSUME NEW g \in Positions, RestoreSnapshot(g) PROVE IInv'
    BY <2>9, RestoreStep
  <2>10. CASE UNCHANGED vars
    <3>1. UNCHANGED <<log, phase, module, current, frontier, generation, sink,
                      staging, published, released>>
      BY <2>10 DEF vars, tractVars, diskVars
    <3> QED BY <3>1, LogFrame, ModulesFrame, GenerationFrame, SinkFrame,
               PublishedFrame, ReleasedFrame, DownFrame DEF IInv
  <2> QED BY <2>1, <2>2, <2>3, <2>4, <2>5, <2>6, <2>7, <2>8, <2>9, <2>10 DEF Next
<1> QED BY <1>1, <1>2, PTL DEF Spec

\* The state of a module is that of direct execution from the first record,
\* wherever it was restored from (process of both modules and
\* restore_snapshot_quiescent).
THEOREM ModulesAreExact == Spec => []ModulesExact
BY Invariance, IInvModulesExact, PTL

\* What loads holds the states after its SaveSnapshot, whatever happened to the
\* disk, and what was published undamaged loads (SnapshotSink and SnapshotLoader).
THEOREM PublishedIsExact == Spec => []PublishedExact
BY Invariance, IInvPublishedExact, PTL

\* The captures of a generation are given up only when it is on the disk for good
\* (save_and_release).
THEOREM ReleasedDoesSurvive == Spec => []ReleasedSurvives
BY Invariance, IInvReleasedSurvives, PTL
=============================================================================
