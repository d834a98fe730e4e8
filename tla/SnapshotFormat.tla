----------------------------- MODULE SnapshotFormat -----------------------------
(***************************************************************************)
(* The three files of a snapshot, their validation, and SnapshotLoader.      *)
(* A file is its size and its fields by offset, as a payload is in           *)
(* ApplicationRecord; the checksum of a file is its content, so two          *)
(* different contents never share one.  A captured digest is whatever value  *)
(* the modules give it.                                                      *)
(*                                                                           *)
(* A directory is a function from the names of the files in it to the files. *)
(* Failing reads (ReadError) are left out: the caller gets a refusal.        *)
(***************************************************************************)
EXTENDS ApplicationRecord

CONSTANT MaxPosition          \* numeric_limits<Position>::max()

kSnapshotFormatVersion == 1
kHashChainSchemaVersion == 1
kBitAccumulatorSchemaVersion == 1
kHashChainModuleId == 13630305       \* "HASH"
kBitAccumulatorModuleId == 23630305  \* "BITA"
kHashChainSnapshotSize == 64
kBitAccumulatorSnapshotSize == 72
kSnapshotDescriptionSize == 152
HashChain == 1                       \* SnapshotFileKind
BitAccumulator == 2
hash_snapshot_magic == 36485346
bit_snapshot_magic == 36425346
description_magic == 36445346
required_module_count == 2

StreamKinds == {"Generic", "Command", "Event"}

File(size, bytes) == [size |-> size, bytes |-> bytes]
crc32_bytes(file) == file

Bit(flag) == IF flag THEN 1 ELSE 0

\* The fields that the files of both modules begin with, by offset.
HeaderOffsets == {0, 4, 6, 8, 16, 24, 32, 40}
CaptureHeader(at, magic, schema, module_id, capture) ==
  CASE at = 0 -> magic [] at = 4 -> kSnapshotFormatVersion [] at = 6 -> schema
    [] at = 8 -> module_id [] at = 16 -> capture.generation_id
    [] at = 24 -> capture.record_position [] at = 32 -> capture.processed_end
    [] at = 40 -> capture.sequence

put_hash_chain(at, capture) ==
  CASE at = 48 -> capture.state.digest [] at = 56 -> Bit(capture.state.failed)
    [] OTHER -> CaptureHeader(at, hash_snapshot_magic, kHashChainSchemaVersion,
                              kHashChainModuleId, capture)

serialize_hash_chain_snapshot(capture) ==
  File(kHashChainSnapshotSize,
       [at \in HeaderOffsets \cup {48, 56} |-> put_hash_chain(at, capture)])

put_bit_accumulator(at, capture) ==
  CASE at = 48 -> capture.state.total_one_bits
    [] at = 56 -> capture.state.rolling_bits
    [] at = 64 -> Bit(capture.state.failed)
    [] OTHER -> CaptureHeader(at, bit_snapshot_magic, kBitAccumulatorSchemaVersion,
                              kBitAccumulatorModuleId, capture)

serialize_bit_accumulator_snapshot(capture) ==
  File(kBitAccumulatorSnapshotSize,
       [at \in HeaderOffsets \cup {48, 56, 64} |->
          put_bit_accumulator(at, capture)])

\* SnapshotModuleDescription of a serialized file
ModuleDescription(module_id, schema, kind, file) ==
  [module_id |-> module_id, schema_version |-> schema, file_kind |-> kind,
   file_size |-> file.size, checksum |-> crc32_bytes(file)]

put_module_description(at, module) ==
  CASE at = 0 -> module.module_id [] at = 8 -> module.schema_version
    [] at = 12 -> module.file_kind [] at = 16 -> module.file_size
    [] at = 24 -> module.checksum

get_module_description(bytes, at) ==
  [module_id |-> Get(bytes, at), schema_version |-> Get(bytes, at + 8),
   file_kind |-> Get(bytes, at + 12), file_size |-> Get(bytes, at + 16),
   checksum |-> Get(bytes, at + 24)]

put_description(at, description) ==
  CASE at = 0 -> description_magic [] at = 4 -> kSnapshotFormatVersion
    [] at = 6 -> kSnapshotDescriptionSize
    [] at = 8 -> description.identity.composition_id
    [] at = 16 -> description.identity.stream_id
    [] at = 24 -> description.identity.epoch_id
    [] at = 32 -> description.identity.manifest_id
    [] at = 40 -> description.generation_id
    [] at = 48 -> description.record_position
    [] at = 56 -> description.processed_end
    [] at = 64 -> description.snapshot_sequence
    [] at = 72 -> required_module_count
    [] at = 76 -> description.identity.stream_kind
    [] at \in 80 .. 111 -> put_module_description(at - 80, description.hash_chain)
    [] at \in 112 .. 143 ->
         put_module_description(at - 112, description.bit_accumulator)

\* The offsets under the checksum, at 144.
BodyOffsets == HeaderOffsets \cup {48, 56, 64, 72, 76, 80, 88, 92, 96, 104,
                                  112, 120, 124, 128, 136}

serialize_snapshot_description(description) ==
  LET body == [at \in BodyOffsets |-> put_description(at, description)]
  IN  File(kSnapshotDescriptionSize,
           [at \in BodyOffsets \cup {144} |->
              IF at = 144 THEN body ELSE body[at]])

-----------------------------------------------------------------------------
(* Decoding.  Each result is a sequence, empty when the bytes are refused.    *)

\* No reserved byte of the range is set.
zero_range(bytes, first, end) == \A at \in first .. end - 1 : Get(bytes, at) = 0

ValidHeader(file, size, magic, schema, module_id) ==
  /\ file.size = size
  /\ Get(file.bytes, 0) = magic
  /\ Get(file.bytes, 4) = kSnapshotFormatVersion
  /\ Get(file.bytes, 6) = schema /\ Get(file.bytes, 8) = module_id

\* The end of the state is not stored: it is that of the capture.
DecodedCapture(bytes, state) ==
  [generation_id |-> Get(bytes, 16), record_position |-> Get(bytes, 24),
   processed_end |-> Get(bytes, 32), sequence |-> Get(bytes, 40),
   state |-> state]

deserialize_hash_chain_snapshot(file) ==
  IF /\ ValidHeader(file, kHashChainSnapshotSize, hash_snapshot_magic,
                    kHashChainSchemaVersion, kHashChainModuleId)
     /\ Get(file.bytes, 56) <= 1
     /\ zero_range(file.bytes, 57, file.size)
  THEN <<DecodedCapture(file.bytes,
           [processed_end |-> Get(file.bytes, 32),
            digest |-> Get(file.bytes, 48),
            failed |-> Get(file.bytes, 56) # 0])>>
  ELSE <<>>

deserialize_bit_accumulator_snapshot(file) ==
  IF /\ ValidHeader(file, kBitAccumulatorSnapshotSize, bit_snapshot_magic,
                    kBitAccumulatorSchemaVersion, kBitAccumulatorModuleId)
     /\ Get(file.bytes, 64) <= 1
     /\ zero_range(file.bytes, 65, file.size)
  THEN <<DecodedCapture(file.bytes,
           [processed_end |-> Get(file.bytes, 32),
            total_one_bits |-> Get(file.bytes, 48),
            rolling_bits |-> Get(file.bytes, 56),
            failed |-> Get(file.bytes, 64) # 0])>>
  ELSE <<>>

\* The reserved fields: the last is behind the checksum.
ReservedOffsets == {78, 108, 140, 148}

deserialize_snapshot_description(file) ==
  LET Field(at) == Get(file.bytes, at)
      decoded ==
        [identity |-> [stream_kind |-> Field(76), composition_id |-> Field(8),
                       stream_id |-> Field(16), epoch_id |-> Field(24),
                       manifest_id |-> Field(32)],
         generation_id |-> Field(40), record_position |-> Field(48),
         processed_end |-> Field(56), snapshot_sequence |-> Field(64),
         hash_chain |-> get_module_description(file.bytes, 80),
         bit_accumulator |-> get_module_description(file.bytes, 112)]
  IN  IF /\ file.size = kSnapshotDescriptionSize
         /\ Field(0) = description_magic
         /\ Field(4) = kSnapshotFormatVersion
         /\ Field(6) = kSnapshotDescriptionSize
         /\ Field(72) = required_module_count
         /\ \A at \in ReservedOffsets : Field(at) = 0
         /\ Field(144) = [at \in {o \in DOMAIN file.bytes : o < 144} |->
                           file.bytes[at]]
         /\ decoded.identity.stream_kind \in StreamKinds
         /\ decoded.hash_chain.file_kind = HashChain
         /\ decoded.bit_accumulator.file_kind = BitAccumulator
      THEN <<decoded>> ELSE <<>>

-----------------------------------------------------------------------------
(* Validity, for the sink and the loader.                                     *)

ValidIdentity(identity) ==
  /\ identity.stream_kind \in StreamKinds
  /\ \/ identity.stream_kind = "Generic"
     \/ 0 \notin {identity.stream_id, identity.epoch_id, identity.manifest_id}
  /\ identity.composition_id # 0

\* valid_generation: what the sink agrees to save.
ValidGeneration(generation) ==
  /\ generation.record_position # MaxPosition
  /\ generation.generation_id = generation.record_position
  /\ generation.processed_end = generation.record_position + 1
  /\ \A capture \in {generation.hash_chain, generation.bit_accumulator} :
       /\ capture.generation_id = generation.generation_id
       /\ capture.record_position = generation.record_position
       /\ capture.processed_end = generation.processed_end
       /\ capture.sequence = generation.sequence
       /\ capture.state.processed_end = generation.processed_end
       /\ ~capture.state.failed

\* The description that save writes of a generation.
Description(identity, generation) ==
  LET hash == serialize_hash_chain_snapshot(generation.hash_chain)
      bits == serialize_bit_accumulator_snapshot(generation.bit_accumulator)
  IN  [identity |-> identity,
       generation_id |-> generation.generation_id,
       record_position |-> generation.record_position,
       processed_end |-> generation.processed_end,
       snapshot_sequence |-> generation.sequence,
       hash_chain |-> ModuleDescription(kHashChainModuleId,
                        kHashChainSchemaVersion, HashChain, hash),
       bit_accumulator |-> ModuleDescription(kBitAccumulatorModuleId,
                             kBitAccumulatorSchemaVersion, BitAccumulator, bits)]

read_fixed_file(directory, name, size) ==
  IF name \notin DOMAIN directory THEN "Missing"
  ELSE IF directory[name].size # size THEN "SizeMismatch" ELSE "Ok"

valid_module_descriptions(description) ==
  /\ description.hash_chain.module_id = kHashChainModuleId
  /\ description.hash_chain.schema_version = kHashChainSchemaVersion
  /\ description.hash_chain.file_kind = HashChain
  /\ description.bit_accumulator.module_id = kBitAccumulatorModuleId
  /\ description.bit_accumulator.schema_version = kBitAccumulatorSchemaVersion
  /\ description.bit_accumulator.file_kind = BitAccumulator

valid_description_boundary(description, requested_generation) ==
  /\ description.record_position # MaxPosition
  /\ description.generation_id = requested_generation
  /\ description.record_position = requested_generation
  /\ description.processed_end = description.record_position + 1

captures_match_description(description, captures) ==
  \A capture \in captures :
    /\ capture.generation_id = description.generation_id
    /\ capture.record_position = description.record_position
    /\ capture.processed_end = description.processed_end
    /\ capture.sequence = description.snapshot_sequence
    /\ capture.state.processed_end = description.processed_end

-----------------------------------------------------------------------------
(* SnapshotLoader::load                                                       *)

Refused(status) == [status |-> status, prepared |-> <<>>]

\* From the first module file on.
LoadModules(directory, description) ==
  LET reads == {read_fixed_file(directory, "hash", kHashChainSnapshotSize),
                read_fixed_file(directory, "bits", kBitAccumulatorSnapshotSize)}
      hash == deserialize_hash_chain_snapshot(directory["hash"])
      bits == deserialize_bit_accumulator_snapshot(directory["bits"])
  IN  IF "Missing" \in reads THEN Refused("ModuleMissing")
      ELSE IF "SizeMismatch" \in reads THEN Refused("ModuleSizeMismatch")
      ELSE IF \/ crc32_bytes(directory["hash"]) # description.hash_chain.checksum
              \/ crc32_bytes(directory["bits"])
                   # description.bit_accumulator.checksum
           THEN Refused("ModuleChecksumMismatch")
      ELSE IF hash = <<>> \/ bits = <<>> THEN Refused("ModuleDecodeError")
      ELSE IF ~captures_match_description(description, {hash[1], bits[1]})
           THEN Refused("CaptureBoundaryMismatch")
      ELSE IF hash[1].state.failed \/ bits[1].state.failed
           THEN Refused("CapturedStateInvalid")
      ELSE [status |-> "Ok",
            prepared |-> <<[description |-> description,
                            hash_chain |-> hash[1].state,
                            bit_accumulator |-> bits[1].state]>>]

Load(directory, expected_identity, generation_id) ==
  LET read == read_fixed_file(directory, "description",
                              kSnapshotDescriptionSize)
      decoded == deserialize_snapshot_description(directory["description"])
  IN  IF ~ValidIdentity(expected_identity) THEN Refused("InvalidConfig")
      ELSE IF read = "Missing" THEN Refused("DescriptionMissing")
      ELSE IF read = "SizeMismatch" \/ decoded = <<>>
           THEN Refused("DescriptionInvalid")
      ELSE IF decoded[1].identity # expected_identity
           THEN Refused("IdentityMismatch")
      ELSE IF ~valid_description_boundary(decoded[1], generation_id)
           THEN Refused("GenerationMismatch")
      ELSE IF ~valid_module_descriptions(decoded[1])
           THEN Refused("ModuleDescriptionInvalid")
      ELSE IF \/ decoded[1].hash_chain.file_size # kHashChainSnapshotSize
              \/ decoded[1].bit_accumulator.file_size
                   # kBitAccumulatorSnapshotSize
           THEN Refused("ModuleSizeMismatch")
      ELSE LoadModules(directory, decoded[1])
=============================================================================
