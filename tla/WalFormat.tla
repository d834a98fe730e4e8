------------------------------- MODULE WalFormat -------------------------------
(***************************************************************************)
(* The physical format of a WAL file: the file header, the record header,    *)
(* their places, and the checks of a reader.  A header is a record with the  *)
(* fields of format.hpp; its bytes are a function from the offset of a field *)
(* to the value there.  A checksum is what it is taken over, so two contents *)
(* never share one.  Sizes are scaled down; what depends on the width of an  *)
(* integer takes the width from UInt32Max and UInt64Max.                     *)
(***************************************************************************)
EXTENDS Integers

CONSTANTS physical_file_header_size, physical_record_header_size,
          PointerAlignment,        \* alignof(void*)
          UInt32Max, UInt64Max

ASSUME WalFormatAssumption ==
  /\ physical_file_header_size \in Nat \ {0}
  /\ physical_record_header_size \in Nat \ {0}
  /\ PointerAlignment \in Nat \ {0}
  /\ UInt32Max \in Nat /\ UInt64Max \in Nat
  /\ physical_file_header_size <= UInt32Max
  /\ physical_record_header_size <= UInt32Max
  \* The sums of three 32 bit values that the sizes are made of fit 64 bits.
  /\ 3 * UInt32Max <= UInt64Max

file_magic == "FLAW"
record_magic == "RLAW"
format_version == 3

StreamKinds == {"Generic", "Command", "Event"}

\* The fields of WalConfig that a file keeps; capacity is not one of them.
PersistedFields == {"stream_kind", "payload_size", "payload_schema_version",
                    "alignment", "stream_id", "epoch_id", "first_sequence",
                    "manifest_id"}

Uint32 == 0 .. UInt32Max
Uint64 == 0 .. UInt64Max

WalConfig ==
  [payload_size : Uint32, capacity : Uint32, alignment : Uint32,
   payload_schema_version : Uint32, stream_kind : StreamKinds, stream_id : Uint64,
   epoch_id : Uint64, first_sequence : Uint64, manifest_id : Uint64]

-----------------------------------------------------------------------------
(* Sizes.  0 stands for a result that does not fit.                          *)

AlignUp(value, alignment) == ((value + alignment - 1) \div alignment) * alignment

checked_align_up(value, alignment) ==
  IF value + alignment - 1 > UInt64Max THEN 0 ELSE AlignUp(value, alignment)

aligned_record_size(config) ==
  checked_align_up(physical_record_header_size + config.payload_size, config.alignment)

records_offset(config) ==
  LET offset == checked_align_up(physical_file_header_size, config.alignment)
  IN  IF offset > UInt32Max THEN 0 ELSE offset

file_header_padding_size(config) == records_offset(config) - physical_file_header_size

\* The writer adds the sizes in 32 bits and cuts the difference to 32 bits.
padding_size(config) ==
  LET modulus == UInt32Max + 1
      raw_size == (physical_record_header_size + config.payload_size) % modulus
  IN  (aligned_record_size(config) - raw_size) % modulus

IsPowerOfTwo(n) == \E k \in 0 .. n : n = 2 ^ k

valid_config(config) ==
  /\ config.payload_size # 0 /\ config.capacity # 0 /\ config.first_sequence # 0
  /\ config.alignment >= PointerAlignment /\ IsPowerOfTwo(config.alignment)
  /\ config.stream_kind \in StreamKinds
  /\ config.stream_kind # "Generic" =>
       config.stream_id # 0 /\ config.epoch_id # 0 /\ config.manifest_id # 0
  /\ LET storage_stride == checked_align_up(config.payload_size, config.alignment)
     IN  storage_stride # 0 /\ storage_stride * config.capacity <= UInt64Max
  /\ records_offset(config) # 0 /\ aligned_record_size(config) # 0

-----------------------------------------------------------------------------
(* Bytes.  A layout gives each field of a header its offset.                 *)

FileHeaderLayout ==
  [magic |-> 0, version |-> 4, header_size |-> 6, stream_kind |-> 8, flags |-> 10,
   payload_size |-> 12, payload_schema_version |-> 16, alignment |-> 20,
   records_offset |-> 24, stream_id |-> 28, epoch_id |-> 36, first_sequence |-> 44,
   manifest_id |-> 52, header_crc32 |-> 60]

RecordHeaderLayout ==
  [magic |-> 0, version |-> 4, header_size |-> 6, sequence |-> 8,
   payload_crc32 |-> 16, header_crc32 |-> 20]

Serialize(layout, header) ==
  [at \in {layout[field] : field \in DOMAIN layout} |->
     header[CHOOSE field \in DOMAIN layout : layout[field] = at]]

Deserialize(layout, bytes) == [field \in DOMAIN layout |-> bytes[layout[field]]]

serialize_file_header(header) == Serialize(FileHeaderLayout, header)
deserialize_file_header(bytes) == Deserialize(FileHeaderLayout, bytes)
serialize_record_header(header) == Serialize(RecordHeaderLayout, header)
deserialize_record_header(bytes) == Deserialize(RecordHeaderLayout, bytes)

crc32_bytes(data) == data

file_header_crc32(header) ==
  crc32_bytes(serialize_file_header([header EXCEPT !.header_crc32 = 0]))

record_header_crc32(header) ==
  crc32_bytes(serialize_record_header([header EXCEPT !.header_crc32 = 0]))

\* The headers that create and append_record write.
NewFileHeader(config) ==
  [magic |-> file_magic, version |-> format_version,
   header_size |-> physical_file_header_size,
   stream_kind |-> config.stream_kind, flags |-> 0,
   payload_size |-> config.payload_size,
   payload_schema_version |-> config.payload_schema_version,
   alignment |-> config.alignment, records_offset |-> records_offset(config),
   stream_id |-> config.stream_id, epoch_id |-> config.epoch_id,
   first_sequence |-> config.first_sequence, manifest_id |-> config.manifest_id,
   header_crc32 |-> 0]

FileHeader(config) ==
  [NewFileHeader(config) EXCEPT !.header_crc32 = file_header_crc32(NewFileHeader(config))]

NewRecordHeader(sequence, payload) ==
  [magic |-> record_magic, version |-> format_version,
   header_size |-> physical_record_header_size, sequence |-> sequence,
   payload_crc32 |-> crc32_bytes(payload), header_crc32 |-> 0]

RecordHeader(sequence, payload) ==
  [NewRecordHeader(sequence, payload) EXCEPT
     !.header_crc32 = record_header_crc32(NewRecordHeader(sequence, payload))]

-----------------------------------------------------------------------------
(* The checks of WalReader, in their order.                                  *)

same_persisted_config(header, expected) ==
  \A field \in PersistedFields : header[field] = expected[field]

valid_reader_config(expected) == valid_config([expected EXCEPT !.capacity = 1])

\* The configuration that a header describes, for a ring of one slot.
ConfigOf(header) ==
  [field \in PersistedFields \cup {"capacity"} |->
     IF field = "capacity" THEN 1 ELSE header[field]]

FileHeaderError(header, expected) ==
  IF header.magic # file_magic THEN "InvalidFileMagic"
  ELSE IF header.version # format_version THEN "UnsupportedFormatVersion"
  ELSE IF header.header_size # physical_file_header_size THEN "InvalidFileHeaderSize"
  ELSE IF file_header_crc32(header) # header.header_crc32 THEN "InvalidFileHeaderCrc"
  ELSE IF header.stream_kind \notin StreamKinds THEN "InvalidStreamKind"
  ELSE IF header.flags # 0 THEN "UnsupportedFlags"
  ELSE IF ~valid_config(ConfigOf(header))
            \/ header.records_offset # records_offset(ConfigOf(header))
       THEN "InvalidPhysicalLayout"
  ELSE IF ~same_persisted_config(header, expected) THEN "IdentityMismatch"
  ELSE "None"

RecordHeaderError(header, next_sequence, sequence_exhausted) ==
  IF sequence_exhausted THEN "UnexpectedSequence"
  ELSE IF header.magic # record_magic THEN "InvalidRecordMagic"
  ELSE IF header.version # format_version THEN "UnsupportedFormatVersion"
  ELSE IF header.header_size # physical_record_header_size
       THEN "InvalidRecordHeaderSize"
  ELSE IF record_header_crc32(header) # header.header_crc32
       THEN "InvalidRecordHeaderCrc"
  ELSE IF header.sequence # next_sequence THEN "UnexpectedSequence"
  ELSE "None"
=============================================================================
