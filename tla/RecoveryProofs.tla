----------------------------- MODULE RecoveryProofs ----------------------------
(* Theorems about the WAL format and the recovery of a WAL file, for every    *)
(* configuration, size and width of the integers, every number of records and *)
(* of crashes.  The format: the writer leaves the padding the reader skips, a *)
(* header survives its bytes, and a damaged field never goes unnoticed.       *)
EXTENDS Recovery, SequenceTheorems, TLAPS

-----------------------------------------------------------------------------
(* Arithmetic.                                                               *)

\* Division with a remainder.
LEMMA DivMod ==
  ASSUME NEW m \in Nat \ {0}, NEW a \in Nat
  PROVE  /\ a \div m \in Nat /\ a % m \in 0 .. m - 1
         /\ a = m * (a \div m) + (a % m)
<1>1. m \in Int /\ m > 0
  OBVIOUS
<1>2. a = m * (a \div m) + (a % m)
  BY <1>1, SMT
<1>3. a % m \in 0 .. m - 1
  BY SMT
<1>4. a \div m \in Nat
  BY SMT
<1> QED BY <1>2, <1>3, <1>4, Zenon

\* A remainder is found by any decomposition.
LEMMA ModUnique ==
  ASSUME NEW m \in Nat \ {0}, NEW q \in Nat, NEW r \in 0 .. m - 1
  PROVE  (m * q + r) % m = r /\ (m * q + r) \div m = q
<1> DEFINE a == m * q + r
           p == a \div m
           s == a % m
<1>1. a \in Nat
  OBVIOUS
<1>2. p \in Nat /\ s \in 0 .. m - 1 /\ a = m * p + s
  BY <1>1, DivMod
<1>3. m * (p - q) = r - s
  BY <1>2, SMT
<1> HIDE DEF p, s
<1>4. CASE p - q >= 1
  <2>1. m * (p - q) >= m
    BY <1>2, <1>4, SMT
  <2> QED BY <1>2, <1>3, <2>1
<1>5. CASE p - q <= 0 - 1
  <2>1. m * (p - q) <= 0 - m
    BY <1>2, <1>5, SMT
  <2> QED BY <1>2, <1>3, <2>1
<1>6. CASE p = q
  <2>1. m * (p - q) = 0
    BY <1>6, <1>2, SMT
  <2> QED BY <1>2, <1>3, <1>6, <2>1 DEF p, s
<1> QED BY <1>2, <1>4, <1>5, <1>6

\* checked_align_up goes up by less than the alignment, to a multiple of it.
LEMMA AlignUpBounds ==
  ASSUME NEW v \in Nat, NEW a \in Nat \ {0}
  PROVE  /\ AlignUp(v, a) \in Nat
         /\ v <= AlignUp(v, a) /\ AlignUp(v, a) < v + a
         /\ AlignUp(v, a) % a = 0
<1> DEFINE w == v + a - 1
           q == w \div a
           b == a * q
<1>1. w \in Nat
  OBVIOUS
<1>2. q \in Nat /\ w % a \in 0 .. a - 1 /\ w = a * q + (w % a)
  BY <1>1, DivMod
<1>3. AlignUp(v, a) = b
  BY <1>2, SMT DEF AlignUp
<1>4. (a * q + 0) % a = 0
  <2>1. 0 \in 0 .. a - 1
    OBVIOUS
  <2> QED BY <1>2, <2>1, ModUnique
<1>5. b \in Int
  BY <1>2, SMT
<1>6. a * q + 0 = b
  BY <1>5
<1>7. b % a = 0
  BY ONLY <1>4, <1>6, Zenon
<1>8. w = b + (w % a)
  BY <1>2, Zenon
<1> HIDE DEF b
<1>9. b \in Nat /\ v <= b /\ b < v + a
  BY <1>2, <1>5, <1>8
<1> QED BY ONLY <1>3, <1>7, <1>9, Zenon

-----------------------------------------------------------------------------
(* Sizes.                                                                    *)

\* What a configuration that is accepted makes of the sizes.
LEMMA SizeFacts ==
  ASSUME NEW config \in WalConfig, valid_config(config)
  PROVE  LET raw == physical_record_header_size + config.payload_size
             aligned == aligned_record_size(config)
             offset == records_offset(config)
         IN  /\ aligned \in Nat /\ raw <= aligned /\ aligned < raw + config.alignment
             /\ offset \in Nat /\ physical_file_header_size <= offset
             /\ offset < physical_file_header_size + config.alignment
             /\ config.payload_size \in Nat \ {0} /\ config.alignment \in Nat \ {0}
<1> DEFINE raw == physical_record_header_size + config.payload_size
           a == config.alignment
<1>1. /\ physical_file_header_size \in Nat \ {0} /\ PointerAlignment \in Nat \ {0}
      /\ physical_record_header_size \in Nat \ {0}
      /\ UInt32Max \in Nat /\ UInt64Max \in Nat /\ 3 * UInt32Max <= UInt64Max
      /\ physical_file_header_size <= UInt32Max
      /\ physical_record_header_size <= UInt32Max
  BY WalFormatAssumption
<1>2. /\ config.payload_size \in Nat \ {0} /\ config.payload_size <= UInt32Max
      /\ a \in Nat \ {0} /\ a <= UInt32Max
  <2>1. config.payload_size \in 0 .. UInt32Max /\ a \in 0 .. UInt32Max
    BY DEF WalConfig, Uint32
  <2>2. config.payload_size # 0 /\ a >= PointerAlignment
    BY DEF valid_config
  <2> HIDE DEF a
  <2> QED BY <1>1, <2>1, <2>2
<1>3. raw \in Nat /\ raw + a - 1 <= UInt64Max
  BY <1>1, <1>2
<1>4. aligned_record_size(config) = AlignUp(raw, a)
  BY <1>1, <1>2, <1>3 DEF aligned_record_size, checked_align_up
<1>5. records_offset(config) # 0
  BY DEF valid_config
<1>6. physical_file_header_size + a - 1 <= UInt64Max
  BY <1>1, <1>2
<1>7. records_offset(config) = AlignUp(physical_file_header_size, a)
  BY <1>5, <1>6 DEF records_offset, checked_align_up
<1>8. /\ AlignUp(raw, a) \in Nat /\ raw <= AlignUp(raw, a) /\ AlignUp(raw, a) < raw + a
      /\ AlignUp(physical_file_header_size, a) \in Nat
      /\ physical_file_header_size <= AlignUp(physical_file_header_size, a)
      /\ AlignUp(physical_file_header_size, a) < physical_file_header_size + a
  BY <1>1, <1>2, <1>3, AlignUpBounds
<1> QED BY <1>2, <1>4, <1>7, <1>8

\* The writer leaves behind a payload exactly the padding that the reader skips,
\* for every payload size and alignment, though it adds the sizes in 32 bits.
THEOREM PaddingExact ==
  ASSUME NEW config \in WalConfig, valid_config(config)
  PROVE  padding_size(config)
           = aligned_record_size(config)
               - (physical_record_header_size + config.payload_size)
<1> DEFINE raw == physical_record_header_size + config.payload_size
           aligned == aligned_record_size(config)
           m == UInt32Max + 1
           q == raw \div m
           r == raw % m
<1>1. /\ aligned \in Nat /\ raw \in Nat /\ raw <= aligned /\ m \in Nat \ {0}
      /\ aligned - raw \in 0 .. m - 1
  <2>1. config.alignment \in Nat /\ config.alignment <= UInt32Max
    BY WalFormatAssumption DEF WalConfig, Uint32
  <2> QED BY <2>1, SizeFacts, WalFormatAssumption
<1>2. q \in Nat /\ r \in 0 .. m - 1 /\ raw = m * q + r
  BY <1>1, DivMod
<1>3. (m * q + (aligned - raw)) % m = aligned - raw
  BY <1>1, <1>2, ModUnique
<1>4. m * q + (aligned - raw) = aligned - r
  <2>1. m * q \in Int
    BY <1>1, <1>2, SMT
  <2> DEFINE p == m * q
  <2>2. raw = p + r
    BY <1>2, Zenon
  <2>3. p \in Int /\ r \in Int /\ aligned \in Int /\ raw \in Int
    BY <1>1, <1>2, <2>1
  <2> HIDE DEF p, r, raw, aligned, q
  <2>4. p + (aligned - raw) = aligned - r
    BY ONLY <2>2, <2>3
  <2> QED BY <2>4 DEF p
<1>5. padding_size(config) = (aligned - r) % m
  BY DEF padding_size
<1> QED BY <1>3, <1>4, <1>5, Zenon

-----------------------------------------------------------------------------
(* Headers and their bytes.                                                  *)

\* A layout that gives no offset twice.
Injective(layout) ==
  \A f, g \in DOMAIN layout : layout[f] = layout[g] => f = g

\* A header with a value for every field of the layout.
IsHeader(layout, header) == header = [field \in DOMAIN layout |-> header[field]]

LEMMA LayoutsInjective ==
  Injective(FileHeaderLayout) /\ Injective(RecordHeaderLayout)
<1>1. Injective(RecordHeaderLayout)
  BY SMT DEF Injective, RecordHeaderLayout
<1>2. Injective(FileHeaderLayout)
  BY SMT DEF Injective, FileHeaderLayout
<1> QED BY <1>1, <1>2

\* What stands at the offset of a field.
LEMMA SerializeAt ==
  ASSUME NEW layout, Injective(layout), NEW header, NEW f \in DOMAIN layout
  PROVE  /\ layout[f] \in DOMAIN Serialize(layout, header)
         /\ Serialize(layout, header)[layout[f]] = header[f]
<1>1. (CHOOSE g \in DOMAIN layout : layout[g] = layout[f]) = f
  BY DEF Injective
<1> QED BY <1>1 DEF Serialize

\* A header survives its bytes.
LEMMA RoundTrip ==
  ASSUME NEW layout, Injective(layout), NEW header, IsHeader(layout, header)
  PROVE  Deserialize(layout, Serialize(layout, header)) = header
BY SerializeAt DEF Deserialize, IsHeader

\* Two headers with the same bytes have the same fields.
LEMMA SerializeInjective ==
  ASSUME NEW layout, Injective(layout), NEW g, NEW h,
         Serialize(layout, g) = Serialize(layout, h), NEW f \in DOMAIN layout
  PROVE  g[f] = h[f]
BY SerializeAt

\* The bytes depend on the fields only.
LEMMA SerializeFields ==
  ASSUME NEW layout, NEW g, NEW h, \A f \in DOMAIN layout : g[f] = h[f],
         Injective(layout)
  PROVE  Serialize(layout, g) = Serialize(layout, h)
<1>1. \A at \in {layout[f] : f \in DOMAIN layout} :
        (CHOOSE f \in DOMAIN layout : layout[f] = at) \in DOMAIN layout
  OBVIOUS
<1> QED BY <1>1 DEF Serialize

\* A value that was not written is never a header: if one field of a header that
\* carries its checksum reads as such, the checksum does not match.
LEMMA DamageShows ==
  ASSUME NEW layout, Injective(layout), "header_crc32" \in DOMAIN layout,
         NEW fresh, IsHeader(layout, fresh), NEW header, NEW garbage,
         header = [fresh EXCEPT !.header_crc32 =
                     Serialize(layout, [fresh EXCEPT !.header_crc32 = 0])],
         \A at \in DOMAIN Serialize(layout, header) :
           Serialize(layout, header)[at] # garbage,
         NEW at \in DOMAIN Serialize(layout, header), NEW parsed,
         parsed = Deserialize(layout, [Serialize(layout, header) EXCEPT ![at] = garbage])
  PROVE  Serialize(layout, [parsed EXCEPT !.header_crc32 = 0]) # parsed.header_crc32
<1> DEFINE crc == "header_crc32"
           zeroed == [fresh EXCEPT !.header_crc32 = 0]
           bytes == Serialize(layout, header)
<1>1. /\ DOMAIN fresh = DOMAIN layout /\ DOMAIN header = DOMAIN layout
      /\ DOMAIN parsed = DOMAIN layout /\ IsHeader(layout, parsed)
  BY DEF IsHeader, Deserialize
<1>2. PICK f \in DOMAIN layout : layout[f] = at
  BY DEF Serialize
<1>3. /\ header[crc] = Serialize(layout, zeroed)
      /\ \A g \in DOMAIN layout : g # crc => header[g] = fresh[g]
  BY <1>1
<1>4. \A g \in DOMAIN layout : parsed[g] = IF g = f THEN garbage ELSE header[g]
  <2> SUFFICES ASSUME NEW g \in DOMAIN layout
               PROVE  parsed[g] = IF g = f THEN garbage ELSE header[g]
    OBVIOUS
  <2>1. layout[g] \in DOMAIN bytes /\ bytes[layout[g]] = header[g]
    BY SerializeAt
  <2>2. layout[g] = at <=> g = f
    BY <1>2 DEF Injective
  <2>4. at \in DOMAIN bytes
    OBVIOUS
  <2>5. parsed = [h \in DOMAIN layout |-> [bytes EXCEPT ![at] = garbage][layout[h]]]
    BY DEF Deserialize
  <2> HIDE DEF bytes
  <2>3. parsed[g] = [bytes EXCEPT ![at] = garbage][layout[g]]
    BY ONLY <2>5, g \in DOMAIN layout
  <2>6. parsed[g] = IF layout[g] = at THEN garbage ELSE bytes[layout[g]]
    BY ONLY <2>1, <2>3, <2>4
  <2> QED BY ONLY <2>1, <2>2, <2>6
<1>5. \A g \in DOMAIN layout : header[g] # garbage
  BY SerializeAt
<1> DEFINE reset == [parsed EXCEPT !.header_crc32 = 0]
<1>6. \A g \in DOMAIN layout : reset[g] = IF g = crc THEN 0 ELSE parsed[g]
  BY <1>1
<1>7. \A g \in DOMAIN layout : zeroed[g] = IF g = crc THEN 0 ELSE fresh[g]
  BY <1>1
<1>8. parsed.header_crc32 = parsed[crc]
  OBVIOUS
<1> HIDE DEF reset, zeroed, bytes, crc
<1> SUFFICES ASSUME Serialize(layout, reset) = parsed[crc] PROVE FALSE
  BY <1>8 DEF reset
<1>9. CASE f = crc
  <2>1. \A g \in DOMAIN layout : reset[g] = zeroed[g]
    BY ONLY <1>3, <1>4, <1>6, <1>7, <1>9
  <2>2. Serialize(layout, reset) = Serialize(layout, zeroed)
    BY <2>1, SerializeFields
  <2>3. header[crc] # garbage /\ parsed[crc] = garbage
    BY <1>2, <1>4, <1>5, <1>9
  <2> QED BY <1>3, <2>2, <2>3
<1>10. CASE f # crc
  <2>1. crc \in DOMAIN layout
    BY DEF crc
  <2>2. parsed[crc] = Serialize(layout, zeroed)
    BY <1>3, <1>4, <1>10, <2>1
  <2>3. reset[f] = zeroed[f]
    BY <2>2, SerializeInjective
  <2>4. reset[f] = garbage /\ zeroed[f] = header[f]
    BY <1>3, <1>4, <1>6, <1>7, <1>10
  <2> QED BY <1>5, <2>3, <2>4
<1> QED BY <1>9, <1>10

-----------------------------------------------------------------------------
(* The checks of the reader on the headers of the writer.                    *)

\* Both headers carry the checksum of their other fields.
LEMMA HeadersSealed ==
  ASSUME NEW config, NEW sequence, NEW payload
  PROVE  /\ IsHeader(FileHeaderLayout, NewFileHeader(config))
         /\ IsHeader(FileHeaderLayout, FileHeader(config))
         /\ FileHeader(config)
              = [NewFileHeader(config) EXCEPT !.header_crc32 =
                   Serialize(FileHeaderLayout,
                             [NewFileHeader(config) EXCEPT !.header_crc32 = 0])]
         /\ IsHeader(RecordHeaderLayout, NewRecordHeader(sequence, payload))
         /\ IsHeader(RecordHeaderLayout, RecordHeader(sequence, payload))
         /\ RecordHeader(sequence, payload)
              = [NewRecordHeader(sequence, payload) EXCEPT !.header_crc32 =
                   Serialize(RecordHeaderLayout,
                     [NewRecordHeader(sequence, payload) EXCEPT !.header_crc32 = 0])]
<1>1. IsHeader(FileHeaderLayout, NewFileHeader(config))
  BY SMT DEF IsHeader, FileHeaderLayout, NewFileHeader
<1>2. FileHeader(config)
        = [NewFileHeader(config) EXCEPT !.header_crc32 =
             Serialize(FileHeaderLayout,
                       [NewFileHeader(config) EXCEPT !.header_crc32 = 0])]
  BY DEF FileHeader, file_header_crc32, crc32_bytes, serialize_file_header
<1>3. IsHeader(FileHeaderLayout, FileHeader(config))
  BY <1>1, <1>2 DEF IsHeader
<1>4. IsHeader(RecordHeaderLayout, NewRecordHeader(sequence, payload))
  BY SMT DEF IsHeader, RecordHeaderLayout, NewRecordHeader
<1>5. RecordHeader(sequence, payload)
        = [NewRecordHeader(sequence, payload) EXCEPT !.header_crc32 =
             Serialize(RecordHeaderLayout,
               [NewRecordHeader(sequence, payload) EXCEPT !.header_crc32 = 0])]
  BY DEF RecordHeader, record_header_crc32, crc32_bytes, serialize_record_header
<1>6. IsHeader(RecordHeaderLayout, RecordHeader(sequence, payload))
  BY <1>4, <1>5 DEF IsHeader
<1> QED BY <1>1, <1>2, <1>3, <1>4, <1>5, <1>6

\* A file header with a damaged field is refused for its magic, its version, its
\* size or its checksum, whatever was expected.
THEOREM FileHeaderDamageShows ==
  ASSUME NEW config, NEW wanted, NEW garbage,
         \A at \in DOMAIN serialize_file_header(FileHeader(config)) :
           serialize_file_header(FileHeader(config))[at] # garbage,
         NEW at \in DOMAIN serialize_file_header(FileHeader(config))
  PROVE  FileHeaderError(deserialize_file_header(
           [serialize_file_header(FileHeader(config)) EXCEPT ![at] = garbage]), wanted)
           \in {"InvalidFileMagic", "UnsupportedFormatVersion",
                "InvalidFileHeaderSize", "InvalidFileHeaderCrc"}
<1> DEFINE fresh == NewFileHeader(config)
           header == FileHeader(config)
           parsed == Deserialize(FileHeaderLayout,
                     [Serialize(FileHeaderLayout, header) EXCEPT ![at] = garbage])
<1>1. Injective(FileHeaderLayout) /\ "header_crc32" \in DOMAIN FileHeaderLayout
  <2>1. "header_crc32" \in DOMAIN FileHeaderLayout
    BY DEF FileHeaderLayout
  <2> QED BY <2>1, LayoutsInjective
<1>2. /\ IsHeader(FileHeaderLayout, fresh)
      /\ header = [fresh EXCEPT !.header_crc32 =
                     Serialize(FileHeaderLayout, [fresh EXCEPT !.header_crc32 = 0])]
  BY HeadersSealed
<1>3. /\ \A k \in DOMAIN Serialize(FileHeaderLayout, header) :
           Serialize(FileHeaderLayout, header)[k] # garbage
      /\ at \in DOMAIN Serialize(FileHeaderLayout, header)
  BY DEF serialize_file_header
<1>4. parsed = Deserialize(FileHeaderLayout,
               [Serialize(FileHeaderLayout, header) EXCEPT ![at] = garbage])
  OBVIOUS
<1> HIDE DEF fresh, header, parsed
<1>5. Serialize(FileHeaderLayout, [parsed EXCEPT !.header_crc32 = 0]) # parsed.header_crc32
  BY ONLY <1>1, <1>2, <1>3, <1>4, DamageShows
<1>6. file_header_crc32(parsed) # parsed.header_crc32
  BY <1>5 DEF file_header_crc32, crc32_bytes, serialize_file_header
<1>7. FileHeaderError(parsed, wanted)
        \in {"InvalidFileMagic", "UnsupportedFormatVersion",
             "InvalidFileHeaderSize", "InvalidFileHeaderCrc"}
  BY ONLY <1>6 DEF FileHeaderError
<1> QED BY <1>4, <1>7 DEF deserialize_file_header, serialize_file_header, header

\* A record header with a damaged field is refused for one of its own fields; a
\* reader past the last sequence refuses it before it looks at any.
THEOREM RecordHeaderDamageShows ==
  ASSUME NEW sequence, NEW payload, NEW garbage, NEW next, NEW exhausted \in BOOLEAN,
         \A at \in DOMAIN serialize_record_header(RecordHeader(sequence, payload)) :
           serialize_record_header(RecordHeader(sequence, payload))[at] # garbage,
         NEW at \in DOMAIN serialize_record_header(RecordHeader(sequence, payload))
  PROVE  LET error == RecordHeaderError(deserialize_record_header(
                        [serialize_record_header(RecordHeader(sequence, payload))
                           EXCEPT ![at] = garbage]), next, exhausted)
         IN  IF exhausted THEN error = "UnexpectedSequence"
             ELSE error \in {"InvalidRecordMagic", "UnsupportedFormatVersion",
                             "InvalidRecordHeaderSize", "InvalidRecordHeaderCrc"}
<1> DEFINE fresh == NewRecordHeader(sequence, payload)
           header == RecordHeader(sequence, payload)
           parsed == Deserialize(RecordHeaderLayout,
                     [Serialize(RecordHeaderLayout, header) EXCEPT ![at] = garbage])
<1>1. Injective(RecordHeaderLayout) /\ "header_crc32" \in DOMAIN RecordHeaderLayout
  <2>1. "header_crc32" \in DOMAIN RecordHeaderLayout
    BY DEF RecordHeaderLayout
  <2> QED BY <2>1, LayoutsInjective
<1>2. /\ IsHeader(RecordHeaderLayout, fresh)
      /\ header = [fresh EXCEPT !.header_crc32 =
                     Serialize(RecordHeaderLayout, [fresh EXCEPT !.header_crc32 = 0])]
  BY HeadersSealed
<1>3. /\ \A k \in DOMAIN Serialize(RecordHeaderLayout, header) :
           Serialize(RecordHeaderLayout, header)[k] # garbage
      /\ at \in DOMAIN Serialize(RecordHeaderLayout, header)
  BY DEF serialize_record_header
<1>4. parsed = Deserialize(RecordHeaderLayout,
               [Serialize(RecordHeaderLayout, header) EXCEPT ![at] = garbage])
  OBVIOUS
<1> HIDE DEF fresh, header, parsed
<1>5. Serialize(RecordHeaderLayout, [parsed EXCEPT !.header_crc32 = 0])
        # parsed.header_crc32
  BY ONLY <1>1, <1>2, <1>3, <1>4, DamageShows
<1>6. record_header_crc32(parsed) # parsed.header_crc32
  BY <1>5 DEF record_header_crc32, crc32_bytes, serialize_record_header
<1>7. IF exhausted THEN RecordHeaderError(parsed, next, exhausted) = "UnexpectedSequence"
      ELSE RecordHeaderError(parsed, next, exhausted)
             \in {"InvalidRecordMagic", "UnsupportedFormatVersion",
                  "InvalidRecordHeaderSize", "InvalidRecordHeaderCrc"}
  BY ONLY <1>6, exhausted \in BOOLEAN DEF RecordHeaderError
<1> QED BY <1>4, <1>7 DEF deserialize_record_header, serialize_record_header, header

\* A record header that reads as it was written is accepted in its turn only.
THEOREM RecordHeaderIntact ==
  ASSUME NEW sequence, NEW payload, NEW next, NEW exhausted \in BOOLEAN
  PROVE  LET error == RecordHeaderError(deserialize_record_header(
                        serialize_record_header(RecordHeader(sequence, payload))),
                        next, exhausted)
         IN  /\ exhausted \/ sequence # next => error = "UnexpectedSequence"
             /\ ~exhausted /\ sequence = next => error = "None"
<1> DEFINE fresh == NewRecordHeader(sequence, payload)
           header == RecordHeader(sequence, payload)
<1>1. deserialize_record_header(serialize_record_header(header)) = header
  <2>1. IsHeader(RecordHeaderLayout, header)
    BY HeadersSealed
  <2> HIDE DEF header
  <2> QED BY <2>1, LayoutsInjective, RoundTrip
          DEF deserialize_record_header, serialize_record_header
<1>2. /\ header.magic = record_magic /\ header.version = format_version
      /\ header.header_size = physical_record_header_size
      /\ header.sequence = sequence
      /\ header.header_crc32 = record_header_crc32(fresh)
  BY DEF RecordHeader, NewRecordHeader
<1>3. [header EXCEPT !.header_crc32 = 0] = [fresh EXCEPT !.header_crc32 = 0]
  BY DEF RecordHeader, NewRecordHeader
<1>4. record_header_crc32(header) = header.header_crc32
  BY <1>2, <1>3 DEF record_header_crc32
<1> HIDE DEF header, fresh
<1>5. /\ exhausted \/ sequence # next =>
           RecordHeaderError(header, next, exhausted) = "UnexpectedSequence"
      /\ ~exhausted /\ sequence = next =>
           RecordHeaderError(header, next, exhausted) = "None"
  BY <1>2, <1>4 DEF RecordHeaderError
<1> QED BY <1>1, <1>5 DEF header

\* A file header that reads as it was written is accepted for the stream it was
\* written for, whatever the capacity, and for no other.
THEOREM FileHeaderIntact ==
  ASSUME NEW config \in WalConfig, valid_config(config), NEW wanted
  PROVE  FileHeaderError(deserialize_file_header(
           serialize_file_header(FileHeader(config))), wanted)
           = IF same_persisted_config(config, wanted) THEN "None"
             ELSE "IdentityMismatch"
<1> DEFINE fresh == NewFileHeader(config)
           header == FileHeader(config)
           described == ConfigOf(header)
<1>1. deserialize_file_header(serialize_file_header(header)) = header
  BY HeadersSealed, LayoutsInjective, RoundTrip
     DEF deserialize_file_header, serialize_file_header
<1>2. /\ header.magic = file_magic /\ header.version = format_version
      /\ header.header_size = physical_file_header_size
      /\ header.flags = 0
      /\ header.records_offset = records_offset(config)
      /\ header.header_crc32 = file_header_crc32(fresh)
  BY DEF FileHeader, NewFileHeader
<1>3. /\ header["payload_size"] = config["payload_size"]
      /\ header["payload_schema_version"] = config["payload_schema_version"]
      /\ header["alignment"] = config["alignment"]
      /\ header["stream_kind"] = config["stream_kind"]
      /\ header["stream_id"] = config["stream_id"]
      /\ header["epoch_id"] = config["epoch_id"]
      /\ header["first_sequence"] = config["first_sequence"]
      /\ header["manifest_id"] = config["manifest_id"]
  BY DEF FileHeader, NewFileHeader
<1>4. [header EXCEPT !.header_crc32 = 0] = [fresh EXCEPT !.header_crc32 = 0]
  BY DEF FileHeader, NewFileHeader
<1>5. file_header_crc32(header) = header.header_crc32
  BY <1>2, <1>4 DEF file_header_crc32
<1> HIDE DEF header, fresh
<1>6. \A field \in PersistedFields : header[field] = config[field]
  BY <1>3 DEF PersistedFields
<1>7. /\ described.payload_size = config.payload_size /\ described.capacity = 1
      /\ described.alignment = config.alignment
      /\ described.stream_kind = config.stream_kind
      /\ described.stream_id = config.stream_id
      /\ described.epoch_id = config.epoch_id
      /\ described.first_sequence = config.first_sequence
      /\ described.manifest_id = config.manifest_id
  BY <1>3 DEF ConfigOf, PersistedFields
<1>8. /\ records_offset(described) = records_offset(config)
      /\ aligned_record_size(described) = aligned_record_size(config)
  BY <1>7 DEF records_offset, aligned_record_size
<1> HIDE DEF described
<1>9. valid_config(described)
  <2> DEFINE stride == checked_align_up(config.payload_size, config.alignment)
  <2>1. stride # 0
    BY DEF valid_config
  <2>2. stride \in Nat /\ stride <= UInt64Max
    <3>1. config.payload_size \in Nat /\ config.alignment \in Nat \ {0}
      BY SizeFacts
    <3>2. config.payload_size + config.alignment - 1 <= UInt64Max
      BY <2>1, <3>1, WalFormatAssumption DEF checked_align_up
    <3>3. stride = AlignUp(config.payload_size, config.alignment)
      BY <3>1, <3>2, WalFormatAssumption DEF checked_align_up
    <3>4. AlignUp(config.payload_size, config.alignment) \in Nat
      BY <3>1, AlignUpBounds
    <3>5. AlignUp(config.payload_size, config.alignment)
            < config.payload_size + config.alignment
      BY <3>1, AlignUpBounds
    <3> HIDE DEF stride
    <3> QED BY <3>1, <3>2, <3>3, <3>4, <3>5, WalFormatAssumption
  <2> HIDE DEF stride
  <2>3. stride * 1 <= UInt64Max
    BY <2>2
  <2>4. stride = checked_align_up(described.payload_size, described.alignment)
    BY <1>7 DEF stride
  <2> QED BY <1>7, <1>8, <2>1, <2>3, <2>4 DEF valid_config
<1>10. same_persisted_config(header, wanted) <=> same_persisted_config(config, wanted)
  BY <1>6 DEF same_persisted_config
<1>11. header.stream_kind \in StreamKinds
  BY <1>3 DEF valid_config
<1>12. FileHeaderError(header, wanted)
        = IF same_persisted_config(config, wanted) THEN "None" ELSE "IdentityMismatch"
  BY ONLY <1>2, <1>5, <1>8, <1>9, <1>10, <1>11 DEF FileHeaderError, described
<1> QED BY <1>1, <1>12 DEF header

-----------------------------------------------------------------------------
(* The file of a session.                                                    *)

Units == {"Written", "Damaged"}

\* Where record n begins: n records are complete before it.
End(n) == HeaderUnits + n * Stride

-----------------------------------------------------------------------------
(* Sizes.                                                                    *)

\* The writer and the reader agree where the records are.
LEMMA Sizes ==
  /\ HeaderUnits \in Nat /\ HeaderUnits = records_offset(Config)
  /\ physical_file_header_size \in Nat \ {0}
  /\ physical_file_header_size <= HeaderUnits
  /\ Stride \in Nat \ {0} /\ Stride = aligned_record_size(Config)
  /\ physical_record_header_size \in Nat \ {0} /\ Config.payload_size \in Nat \ {0}
  /\ PayloadEnd = physical_record_header_size + Config.payload_size
  /\ PayloadEnd <= Stride
<1>1. Config \in WalConfig /\ valid_config(Config)
  BY RecoveryAssumption
<1>2. /\ physical_file_header_size \in Nat \ {0}
      /\ physical_record_header_size \in Nat \ {0}
  BY WalFormatAssumption
<1> DEFINE raw == physical_record_header_size + Config.payload_size
           aligned == aligned_record_size(Config)
           offset == records_offset(Config)
<1>3. /\ aligned \in Nat /\ raw <= aligned /\ Config.payload_size \in Nat \ {0}
      /\ offset \in Nat /\ physical_file_header_size <= offset
  BY <1>1, SizeFacts
<1>4. padding_size(Config) = aligned - raw
  BY <1>1, PaddingExact
<1>5. PayloadEnd = raw
  BY DEF PayloadEnd
<1>6. Stride = PayloadEnd + padding_size(Config)
  BY DEF Stride
<1>7. HeaderUnits = physical_file_header_size + (offset - physical_file_header_size)
  BY DEF HeaderUnits, file_header_padding_size
<1> HIDE DEF aligned, offset
<1> QED BY <1>2, <1>3, <1>4, <1>5, <1>6, <1>7 DEF aligned, offset

LEMMA EndFacts ==
  ASSUME NEW n \in Nat
  PROVE  /\ End(n) \in Nat /\ HeaderUnits <= End(n)
         /\ End(n + 1) = End(n) + Stride /\ End(0) = HeaderUnits
<1> DEFINE p == n * Stride
<1>1. p \in Nat
  BY Sizes
<1>2. (n + 1) * Stride = p + Stride
  BY Sizes
<1>3. 0 * Stride = 0
  BY Sizes
<1>4. End(n) = HeaderUnits + p /\ End(n + 1) = HeaderUnits + (n + 1) * Stride
        /\ End(0) = HeaderUnits + 0 * Stride
  BY DEF End
<1> HIDE DEF p
<1> QED BY <1>1, <1>2, <1>3, <1>4, Sizes

\* More records end later, by a record at least.
LEMMA EndMonotone ==
  ASSUME NEW n \in Nat, NEW m \in Nat
  PROVE  /\ n < m => End(n) + Stride <= End(m)
         /\ End(n) < End(m) => n < m
         /\ End(n) = End(m) => n = m
<1>1. ASSUME NEW i \in Nat, NEW j \in Nat, i < j PROVE End(i) + Stride <= End(j)
  <2> DEFINE d == j - i - 1
             p == i * Stride
             q == d * Stride
  <2>1. d \in Nat
    BY <1>1
  <2>2. p \in Nat /\ q \in Nat
    BY <2>1, Sizes
  <2>3. j * Stride = p + q + Stride
    BY <1>1, Sizes
  <2>4. End(i) = HeaderUnits + p /\ End(j) = HeaderUnits + j * Stride
    BY DEF End
  <2> HIDE DEF p, q, d
  <2> QED BY <2>2, <2>3, <2>4, Sizes
<1>2. End(n) \in Nat /\ End(m) \in Nat
  BY EndFacts
<1> QED BY <1>1, <1>2, Sizes

\* The number of the records in a whole number of them.
LEMMA EndInverse ==
  ASSUME NEW n \in Nat
  PROVE  /\ (End(n) - HeaderUnits) \div Stride = n
         /\ (End(n) - HeaderUnits) % Stride = 0
         /\ (End(n) - HeaderUnits + Stride - 1) \div Stride = n
<1> DEFINE p == Stride * n
<1>1. p \in Nat /\ n * Stride = p
  BY Sizes
<1>2. End(n) = HeaderUnits + p
  BY <1>1 DEF End
<1>3. 0 \in 0 .. Stride - 1 /\ Stride - 1 \in 0 .. Stride - 1
  BY Sizes
<1>4. (p + 0) % Stride = 0 /\ (p + 0) \div Stride = n
  BY <1>3, Sizes, ModUnique
<1>5. (p + (Stride - 1)) \div Stride = n
  BY <1>3, Sizes, ModUnique
<1> HIDE DEF p
<1>6. End(n) - HeaderUnits = p + 0
  BY <1>1, <1>2, Sizes
<1>7. End(n) - HeaderUnits + Stride - 1 = p + (Stride - 1)
  BY <1>1, <1>2, Sizes
<1> QED BY <1>4, <1>5, <1>6, <1>7

\* At a boundary of records the file is a whole number of them.
LEMMA BoundaryIsEnd ==
  ASSUME NEW size \in Nat, HeaderUnits <= size, (size - HeaderUnits) % Stride = 0
  PROVE  LET n == (size - HeaderUnits + Stride - 1) \div Stride
         IN  n \in Nat /\ size = End(n)
<1> DEFINE a == size - HeaderUnits
           q == a \div Stride
<1>1. a \in Nat
  BY Sizes
<1>2. q \in Nat /\ a = Stride * q + (a % Stride)
  BY <1>1, Sizes, DivMod
<1>3. Stride * q \in Nat /\ q * Stride = Stride * q
  <2>1. q \in Nat /\ Stride \in Nat
    BY <1>2, Sizes
  <2> HIDE DEF q
  <2> QED BY ONLY <2>1
<1> DEFINE p == Stride * q
<1>4. size = HeaderUnits + p
  <2>3. a = p + (a % Stride)
    BY <1>2, Zenon
  <2>4. a % Stride = 0
    OBVIOUS
  <2>1. a = p + (a % Stride) /\ a % Stride = 0 /\ p \in Nat
    BY <1>3, <2>3, <2>4, Zenon
  <2> HIDE DEF p
  <2>2. a = p
    BY ONLY <2>1
  <2> QED BY <2>1, <2>2, Sizes
<1>5. size = End(q)
  BY <1>3, <1>4 DEF End
<1> HIDE DEF q, p
<1>6. (size - HeaderUnits + Stride - 1) \div Stride = q
  BY <1>2, <1>5, EndInverse
<1> QED BY <1>2, <1>5, <1>6

-----------------------------------------------------------------------------
(* The reader.                                                               *)

AreUnits(f) == Len(f) \in Nat /\ \A k \in 1 .. Len(f) : f[k] \in Units

\* Every record that begins has a number and a sequence within the bounds.
SizeOK(size) ==
  \A n \in Nat : End(n) < size =>
    n < MaxRecords /\ Config.first_sequence + n <= UInt64Max

\* A reader that has n records behind it.
ReaderAt(r, n) ==
  /\ r.next_offset = End(n)
  /\ r.next_sequence = IF Config.first_sequence + n <= UInt64Max
                       THEN Config.first_sequence + n ELSE UInt64Max
  /\ r.sequence_exhausted = (Config.first_sequence + n > UInt64Max)

\* Behind n records there is a part of one, of which what is complete is intact.
PartialRecord(f, n) ==
  /\ End(n) < Len(f) /\ Len(f) < End(n) + Stride
  /\ \A end \in {physical_record_header_size, PayloadEnd, Stride} :
       End(n) + end <= Len(f) => ~Damaged(f, End(n), end)

IncompleteErrors == {"IncompleteRecordHeader", "IncompletePayload", "IncompletePadding"}

HasDamage(f) == \E k \in 1 .. Len(f) : f[k] = "Damaged"

\* The errors that only damage explains.
IsDamageError(error) ==
  error \notin {"None", "EndOfLog", "IncompleteFileHeader", "IdentityMismatch",
                "UnexpectedSequence"} \cup IncompleteErrors

LEMMA ConfigFacts ==
  /\ Config.first_sequence \in Nat \ {0} /\ Config.first_sequence <= UInt64Max
  /\ UInt64Max \in Nat /\ MaxRecords \in Nat
<1>1. Config \in WalConfig /\ valid_config(Config) /\ MaxRecords \in Nat
  BY RecoveryAssumption
<1>2. UInt64Max \in Nat
  BY WalFormatAssumption
<1>3. Config.first_sequence \in 0 .. UInt64Max
  BY <1>1 DEF WalConfig, Uint64
<1>4. Config.first_sequence # 0
  BY <1>1 DEF valid_config
<1> QED BY <1>1, <1>2, <1>3, <1>4

LEMMA IntactIsWritten ==
  ASSUME NEW f, AreUnits(f), NEW o \in Nat, NEW size \in Nat, o + size <= Len(f),
         ~Damaged(f, o, size), NEW k \in o + 1 .. o + size
  PROVE  f[k] = "Written"
<1>1. k \in 1 .. Len(f)
  BY DEF AreUnits
<1>2. f[k] \in Units
  BY <1>1 DEF AreUnits
<1> QED BY <1>2 DEF Damaged, Units

LEMMA DamageWithin ==
  ASSUME NEW f, AreUnits(f), NEW o \in Nat, NEW size \in Nat, o + size <= Len(f),
         Damaged(f, o, size)
  PROVE  HasDamage(f)
BY DEF AreUnits, Damaged, HasDamage

\* The header of a record that is there, read in its turn.
LEMMA RecordHeaderErrorsFacts ==
  ASSUME NEW f, NEW n \in 0 .. MaxRecords, NEW r, ReaderAt(r, n),
         Config.first_sequence + n <= UInt64Max
  PROVE  /\ ~Damaged(f, End(n), physical_record_header_size) =>
              RecordHeaderErrors(f, r) = {"None"}
         /\ Damaged(f, End(n), physical_record_header_size) =>
              \A error \in RecordHeaderErrors(f, r) : IsDamageError(error)
<1> DEFINE damaged == Damaged(f, End(n), physical_record_header_size)
           sequence == Config.first_sequence + n
           exhausted == r.sequence_exhausted
           written == serialize_record_header(RecordHeader(sequence, sequence))
<1>1. /\ r.next_offset = End(n) /\ r.next_sequence = sequence
      /\ r.sequence_exhausted = exhausted
      /\ exhausted \in BOOLEAN /\ exhausted = FALSE
  <2>1. (Config.first_sequence + n > UInt64Max) = FALSE
    BY ConfigFacts
  <2> QED BY <2>1 DEF ReaderAt
<1>2. n \in Nat
  BY ConfigFacts
<1>3. /\ (r.next_offset - HeaderUnits) \div Stride = n
      /\ (r.next_offset - HeaderUnits) % Stride = 0
  BY <1>1, <1>2, EndInverse
<1>4. RecordHeaderBytes[n] = written
  BY DEF RecordHeaderBytes
<1>5. RecordHeaderErrors(f, r) =
        {RecordHeaderError(deserialize_record_header(bytes), sequence, exhausted) :
           bytes \in Readings(written, damaged)}
  <2>1. damaged \in BOOLEAN
    BY DEF Damaged
  <2>2. (damaged \/ (r.next_offset - HeaderUnits) % Stride # 0) = damaged
    BY <1>3, <2>1
  <2> HIDE DEF damaged, written
  <2>3. RecordHeaderErrors(f, r) =
          {RecordHeaderError(deserialize_record_header(bytes), r.next_sequence,
                             r.sequence_exhausted) :
             bytes \in Readings(written,
               damaged \/ (r.next_offset - HeaderUnits) % Stride # 0)}
    BY <1>1, <1>3, <1>4 DEF RecordHeaderErrors, damaged
  <2> QED BY <1>1, <2>2, <2>3
<1> HIDE DEF written, damaged, sequence, exhausted
<1>6. CASE ~damaged
  <2>1. Readings(written, damaged) = {written}
    BY <1>6 DEF Readings
  <2>2. RecordHeaderError(deserialize_record_header(written), sequence, exhausted) = "None"
    <3>1. RecordHeaderError(deserialize_record_header(
            serialize_record_header(RecordHeader(sequence, sequence))), sequence, exhausted)
            = "None"
      BY RecordHeaderIntact, <1>1
    <3> QED BY <1>1, <3>1 DEF written
  <2> QED BY <1>5, <1>6, <2>1, <2>2 DEF damaged
<1>7. CASE damaged
  <2>1. \A k \in DOMAIN written : written[k] # Garbage
    BY <1>4, GarbageAssumption
  <2>2. ASSUME NEW at \in DOMAIN written
        PROVE  RecordHeaderError(deserialize_record_header(
                 [written EXCEPT ![at] = Garbage]), sequence, exhausted)
                 \in {"InvalidRecordMagic", "UnsupportedFormatVersion",
                      "InvalidRecordHeaderSize", "InvalidRecordHeaderCrc"}
    BY <1>1, <2>1, RecordHeaderDamageShows DEF written
  <2>3. Readings(written, damaged)
          = {[written EXCEPT ![at] = Garbage] : at \in DOMAIN written}
    BY <1>7 DEF Readings
  <2>4. ASSUME NEW error \in RecordHeaderErrors(f, r) PROVE IsDamageError(error)
    <3>1. PICK bytes \in Readings(written, damaged) :
            error = RecordHeaderError(deserialize_record_header(bytes), sequence, exhausted)
      BY <1>5
    <3>2. PICK at \in DOMAIN written : bytes = [written EXCEPT ![at] = Garbage]
      BY <2>3
    <3>3. error \in {"InvalidRecordMagic", "UnsupportedFormatVersion",
                     "InvalidRecordHeaderSize", "InvalidRecordHeaderCrc"}
      BY <2>2, <3>1, <3>2
    <3> QED BY <3>3 DEF IsDamageError, IncompleteErrors
  <2> QED BY <1>7, <2>4 DEF damaged
<1> QED BY <1>6, <1>7

\* A file that holds n records holds one more if that one is written, too.
LEMMA HoldsNext ==
  ASSUME NEW f, NEW n \in Nat, Holds(f, n), AreUnits(f), End(n) + Stride <= Len(f),
         \A k \in End(n) + 1 .. End(n) + Stride : f[k] = "Written"
  PROVE  Holds(f, n + 1)
<1>1. /\ Len(f) >= End(n) /\ \A k \in 1 .. End(n) : f[k] = "Written"
  BY DEF Holds, End
<1>2. End(n + 1) = End(n) + Stride /\ End(n) \in Nat
  BY EndFacts
<1>3. Len(f) >= End(n + 1) /\ \A k \in 1 .. End(n + 1) : f[k] = "Written"
  BY <1>1, <1>2, Sizes DEF AreUnits
<1> QED BY <1>3 DEF Holds, End

\* What a reader behind n intact records finds.
LEMMA ReadNextFacts ==
  ASSUME NEW f, AreUnits(f), NEW n \in Nat, Holds(f, n), SizeOK(Len(f)),
         NEW r, ReaderAt(r, n), NEW error \in ReadNext(f, r)
  PROVE  \/ error = "EndOfLog" /\ Len(f) = End(n)
         \/ error = "None" /\ Holds(f, n + 1) /\ End(n) < Len(f)
         \/ error \in IncompleteErrors /\ PartialRecord(f, n)
         \/ IsDamageError(error) /\ HasDamage(f)
<1> DEFINE P == physical_record_header_size
           size == Config.payload_size
           payload == r.next_offset + P
<1>1. /\ r.next_offset = End(n) /\ End(n) \in Nat /\ End(n) <= Len(f) /\ Len(f) \in Nat
  BY EndFacts DEF ReaderAt, Holds, End, AreUnits
<1>2. /\ P \in Nat \ {0} /\ size \in Nat \ {0} /\ Stride \in Nat
      /\ PayloadEnd = P + size /\ PayloadEnd <= Stride
      /\ aligned_record_size(Config) = Stride
  BY Sizes
<1>3. PartialRecord(f, n) <=>
        /\ End(n) < Len(f) /\ Len(f) < End(n) + Stride
        /\ End(n) + P <= Len(f) => ~Damaged(f, End(n), P)
        /\ End(n) + PayloadEnd <= Len(f) => ~Damaged(f, End(n), PayloadEnd)
  BY <1>1, <1>2 DEF PartialRecord
<1>4. CASE End(n) = Len(f)
  <2>1. read(f, r.next_offset, P) = "EndOfFile"
    BY <1>1, <1>2, <1>4 DEF read
  <2>2. ReadNext(f, r) = {"EndOfLog"}
    BY <2>1 DEF ReadNext
  <2> QED BY <1>4, <2>2
<1>5. CASE End(n) < Len(f) /\ Len(f) < End(n) + P
  <2>1. read(f, r.next_offset, P) = "Incomplete"
    BY <1>1, <1>2, <1>5 DEF read
  <2>2. ReadNext(f, r) = {"IncompleteRecordHeader"}
    BY <2>1 DEF ReadNext
  <2>3. PartialRecord(f, n)
    BY <1>1, <1>2, <1>3, <1>5
  <2> QED BY <2>2, <2>3 DEF IncompleteErrors
<1>6. CASE End(n) + P <= Len(f)
  <2>1. n \in 0 .. MaxRecords /\ Config.first_sequence + n <= UInt64Max
    BY <1>1, <1>2, <1>6, ConfigFacts DEF SizeOK
  <2>2. read(f, r.next_offset, P) = "Complete"
    BY <1>1, <1>2, <1>6 DEF read
  <2>3. CASE Damaged(f, End(n), P)
    <3>1. \A e \in RecordHeaderErrors(f, r) : IsDamageError(e)
      BY <2>1, <2>3, RecordHeaderErrorsFacts
    <3>2. RecordHeaderErrors(f, r) # {"None"}
      BY <3>1 DEF IsDamageError
    <3>3. ReadNext(f, r) = RecordHeaderErrors(f, r)
      BY <2>2, <3>2 DEF ReadNext
    <3>4. HasDamage(f)
      BY <1>1, <1>2, <1>6, <2>3, DamageWithin
    <3> QED BY <3>1, <3>3, <3>4
  <2>4. CASE ~Damaged(f, End(n), P)
    <3> DEFINE padding == aligned_record_size(Config) - P - size
    <3>1. RecordHeaderErrors(f, r) = {"None"}
      BY <2>1, <2>4, RecordHeaderErrorsFacts
    <3>2. ReadNext(f, r) =
            IF read(f, payload, size) # "Complete" THEN {"IncompletePayload"}
            ELSE IF Damaged(f, payload, size) THEN {"InvalidPayloadCrc"}
            ELSE {read_zero_padding(f, payload + size, padding, "IncompletePadding")}
      BY <2>2, <3>1 DEF ReadNext
    <3>3. payload = End(n) + P /\ payload \in Nat /\ payload + size = End(n) + PayloadEnd
      BY <1>1, <1>2
    <3>7. padding = (Stride - P) - size
      BY <1>2
    <3> HIDE DEF payload, padding, P, size
    <3>4. padding \in Nat /\ (payload + size) + padding = End(n) + Stride
      BY ONLY <1>1, <1>2, <3>3, <3>7
    <3>5. CASE Len(f) < payload + size
      <4>1. read(f, payload, size) # "Complete"
        BY <1>1, <1>2, <3>3, <3>5 DEF read
      <4>2. PartialRecord(f, n)
        BY <1>1, <1>2, <1>3, <1>6, <2>4, <3>3, <3>5
      <4> QED BY <3>2, <4>1, <4>2 DEF IncompleteErrors
    <3>6. CASE payload + size <= Len(f)
      <4>1. read(f, payload, size) = "Complete"
        BY <3>6 DEF read
      <4>2. CASE Damaged(f, payload, size)
        <5>1. HasDamage(f)
          BY <1>2, <3>3, <3>6, <4>2, DamageWithin
        <5> QED BY <3>2, <4>1, <4>2, <5>1 DEF IsDamageError, IncompleteErrors
      <4>3. CASE ~Damaged(f, payload, size)
        <5>1. ReadNext(f, r) =
                {read_zero_padding(f, payload + size, padding, "IncompletePadding")}
          BY <3>2, <4>1, <4>3
        <5>2. ~Damaged(f, End(n), PayloadEnd)
          BY <1>1, <1>2, <2>4, <3>3, <4>3 DEF Damaged
        <5>3. CASE (payload + size) + padding > Len(f)
          <6>1. PartialRecord(f, n)
            BY <1>1, <1>2, <1>3, <1>6, <2>4, <3>3, <3>4, <3>6, <5>2, <5>3
          <6> QED BY <5>1, <5>3, <6>1 DEF read_zero_padding, IncompleteErrors
        <5>4. CASE (payload + size) + padding <= Len(f)
          <6>1. ~((payload + size) + padding > Len(f)) /\ payload + size \in Nat
            BY ONLY <1>1, <1>2, <3>3, <3>4, <5>4
          <6>2. CASE Damaged(f, payload + size, padding)
            <7>1. HasDamage(f)
              BY <3>4, <5>4, <6>1, <6>2, DamageWithin
            <7> QED BY <5>1, <6>1, <6>2, <7>1
                    DEF read_zero_padding, IsDamageError, IncompleteErrors
          <6>3. CASE ~Damaged(f, payload + size, padding)
            <7>1. ~Damaged(f, End(n), Stride)
              <8>1. ASSUME NEW k \in End(n) + 1 .. End(n) + Stride PROVE f[k] # "Damaged"
                <9>1. CASE k <= End(n) + PayloadEnd
                  <10>1. k \in End(n) + 1 .. End(n) + PayloadEnd
                    BY ONLY <1>1, <1>2, <9>1, k \in End(n) + 1 .. End(n) + Stride
                  <10> QED BY <5>2, <10>1 DEF Damaged
                <9>2. CASE k > End(n) + PayloadEnd
                  <10>1. k \in (payload + size) + 1 .. (payload + size) + padding
                    <11> DEFINE from == payload + size
                    <11>1. from = End(n) + PayloadEnd /\ from \in Nat
                      BY <1>1, <1>2, <3>3
                    <11>2. from + padding = End(n) + Stride /\ padding \in Nat
                      BY <3>4
                    <11> HIDE DEF from
                    <11>3. k \in from + 1 .. from + padding
                      BY ONLY <1>1, <1>2, <9>2, <11>1, <11>2,
                              k \in End(n) + 1 .. End(n) + Stride
                    <11> QED BY <11>3 DEF from
                  <10> QED BY <6>3, <10>1 DEF Damaged
                <9> QED BY ONLY <1>1, <1>2, <9>1, <9>2,
                           k \in End(n) + 1 .. End(n) + Stride
              <8> QED BY <8>1 DEF Damaged
            <7>2. End(n) + Stride <= Len(f)
              BY <3>4, <5>4
            <7>3. \A k \in End(n) + 1 .. End(n) + Stride : f[k] = "Written"
              BY <1>1, <1>2, <7>1, <7>2, IntactIsWritten
            <7>4. Holds(f, n + 1)
              BY <7>2, <7>3, HoldsNext
            <7>5. End(n) < Len(f)
              BY <1>1, <1>2, <7>2
            <7> QED BY <5>1, <6>1, <6>3, <7>4, <7>5 DEF read_zero_padding
          <6> QED BY <6>2, <6>3
        <5> QED BY <1>1, <1>2, <3>3, <3>4, <5>3, <5>4
      <4> QED BY <4>2, <4>3
    <3> QED BY <1>1, <1>2, <3>3, <3>5, <3>6
  <2> QED BY <2>3, <2>4
<1> QED BY <1>1, <1>2, <1>4, <1>5, <1>6

\* What an open for a configuration finds.
LEMMA OpenFacts ==
  ASSUME NEW f, AreUnits(f), NEW config, NEW error \in OpenErrors(f, config)
  PROVE  \/ /\ error = "None" /\ same_persisted_config(Config, config)
            /\ Holds(f, 0)
         \/ error = "IncompleteFileHeader" /\ Len(f) < HeaderUnits
         \/ error = "IdentityMismatch" /\ ~same_persisted_config(Config, config)
         \/ IsDamageError(error) /\ HasDamage(f)
<1> DEFINE F == physical_file_header_size
           damaged == Damaged(f, 0, F)
           written == serialize_file_header(FileHeader(Config))
           errors == {FileHeaderError(deserialize_file_header(bytes), config) :
                        bytes \in Readings(written, damaged)}
           size == records_offset(config) - F
           padding == read_zero_padding(f, F, size, "IncompleteFileHeader")
<1>1. /\ F \in Nat \ {0} /\ HeaderUnits \in Nat /\ F <= HeaderUnits /\ Len(f) \in Nat
      /\ HeaderUnits = records_offset(Config)
  BY Sizes DEF AreUnits
<1>2. OpenErrors(f, config) =
        IF read(f, 0, F) # "Complete" THEN {"IncompleteFileHeader"}
        ELSE IF errors # {"None"} THEN errors
        ELSE IF padding = "NonZeroPadding" THEN {"InvalidPhysicalLayout"} ELSE {padding}
  BY DEF OpenErrors, FileHeaderBytes
<1> HIDE DEF padding, errors, written, damaged
<1>3. CASE Len(f) < F
  <2>1. read(f, 0, F) # "Complete"
    BY <1>1, <1>3 DEF read
  <2>2. Len(f) < HeaderUnits
    BY <1>1, <1>3
  <2> QED BY <1>2, <2>1, <2>2
<1>4. CASE F <= Len(f)
  <2>1. read(f, 0, F) = "Complete"
    BY <1>1, <1>4 DEF read
  <2>2. CASE damaged
    <3>1. \A k \in DOMAIN written : written[k] # Garbage
      <4>1. FileHeaderBytes = written
        BY DEF FileHeaderBytes, written
      <4> QED BY <4>1, GarbageAssumption
    <3>2. ASSUME NEW at \in DOMAIN written
          PROVE  FileHeaderError(deserialize_file_header(
                   [written EXCEPT ![at] = Garbage]), config)
                   \in {"InvalidFileMagic", "UnsupportedFormatVersion",
                        "InvalidFileHeaderSize", "InvalidFileHeaderCrc"}
      BY <3>1, FileHeaderDamageShows DEF written
    <3>3. Readings(written, damaged)
            = {[written EXCEPT ![at] = Garbage] : at \in DOMAIN written}
      BY <2>2 DEF Readings
    <3>4. ASSUME NEW e \in errors PROVE IsDamageError(e)
      <4>1. PICK bytes \in Readings(written, damaged) :
              e = FileHeaderError(deserialize_file_header(bytes), config)
        BY DEF errors
      <4>2. PICK at \in DOMAIN written : bytes = [written EXCEPT ![at] = Garbage]
        BY <3>3
      <4>3. e \in {"InvalidFileMagic", "UnsupportedFormatVersion",
                   "InvalidFileHeaderSize", "InvalidFileHeaderCrc"}
        BY <3>2, <4>1, <4>2
      <4> QED BY <4>3 DEF IsDamageError, IncompleteErrors
    <3>5. errors # {"None"}
      BY <3>4 DEF IsDamageError
    <3>6. HasDamage(f)
      BY <1>1, <1>4, <2>2, DamageWithin DEF damaged
    <3> QED BY <1>2, <2>1, <3>4, <3>5, <3>6
  <2>3. CASE ~damaged
    <3>1. errors = {IF same_persisted_config(Config, config) THEN "None"
                    ELSE "IdentityMismatch"}
      <4>1. Readings(written, damaged) = {written}
        BY <2>3 DEF Readings
      <4>2. FileHeaderError(deserialize_file_header(written), config)
              = IF same_persisted_config(Config, config) THEN "None"
                ELSE "IdentityMismatch"
        BY RecoveryAssumption, FileHeaderIntact DEF written
      <4> QED BY <4>1, <4>2 DEF errors
    <3>2. CASE ~same_persisted_config(Config, config)
      BY <1>2, <2>1, <3>1, <3>2
    <3>3. CASE same_persisted_config(Config, config)
      <4>1. OpenErrors(f, config) =
              {IF padding = "NonZeroPadding" THEN "InvalidPhysicalLayout" ELSE padding}
        BY <1>2, <2>1, <3>1, <3>3
      <4>2. records_offset(config) = HeaderUnits
        <5>1. Config["alignment"] = config["alignment"]
          BY <3>3 DEF same_persisted_config, PersistedFields
        <5> QED BY <1>1, <5>1 DEF records_offset
      <4>3. size \in Nat /\ F + size = HeaderUnits
        BY <1>1, <4>2
      <4> HIDE DEF size, F
      <4>4. CASE F + size > Len(f)
        <5>1. Len(f) < HeaderUnits
          BY <1>1, <4>3, <4>4
        <5> QED BY <4>1, <4>4, <5>1 DEF padding, read_zero_padding
      <4>5. CASE ~(F + size > Len(f)) /\ Damaged(f, F, size)
        <5>1. HasDamage(f)
          <6>1. F + size <= Len(f) /\ F \in Nat
            BY <1>1, <4>3, <4>5
          <6> QED BY <4>3, <4>5, <6>1, DamageWithin
        <5> QED BY <4>1, <4>5, <5>1
                DEF padding, read_zero_padding, IsDamageError, IncompleteErrors
      <4>6. CASE ~(F + size > Len(f)) /\ ~Damaged(f, F, size)
        <5>1. HeaderUnits <= Len(f) /\ F \in Nat
          BY <1>1, <4>3, <4>6
        <5>2. ASSUME NEW k \in 1 .. HeaderUnits PROVE f[k] = "Written"
          <6>1. CASE k <= F
            <7>1. k \in 0 + 1 .. 0 + F /\ 0 + F <= Len(f)
              BY <1>1, <1>4, <6>1
            <7> QED BY <2>3, <5>1, <7>1, IntactIsWritten DEF damaged
          <6>2. CASE k > F
            <7>1. k \in F + 1 .. F + size /\ F + size <= Len(f)
              BY <1>1, <4>3, <5>1, <6>2
            <7> QED BY <4>3, <4>6, <5>1, <7>1, IntactIsWritten
          <6> QED BY <1>1, <6>1, <6>2
        <5>3. Holds(f, 0)
          <6>1. HeaderUnits + 0 * Stride = HeaderUnits
            BY <1>1, Sizes
          <6> QED BY <5>1, <5>2, <6>1 DEF Holds
        <5> QED BY <3>3, <4>1, <4>6, <5>3 DEF padding, read_zero_padding
      <4> QED BY <4>4, <4>5, <4>6
    <3> QED BY <3>2, <3>3
  <2> QED BY <2>2, <2>3
<1> QED BY <1>1, <1>3, <1>4

-----------------------------------------------------------------------------
(* The inductive invariant.                                                  *)

LastSequence(n) == IF n = 0 THEN 0 ELSE Config.first_sequence + n - 1

\* The file agrees with what was synced; before its directory is synced there
\* is at most its header.
FileInv ==
  /\ \A k \in 1 .. Len(stable) : k <= Len(file) => file[k] = stable[k]
  /\ SizeOK(Len(file)) /\ SizeOK(Len(stable))
  /\ entry # "Synced" =>
       Len(file) <= HeaderUnits /\ Len(stable) <= HeaderUnits /\ promised = 0
  /\ entry = "None" => Len(file) = 0 /\ Len(stable) = 0 /\ writer = "Stopped"

\* A writer has the file to itself, and has written all of it.
WriterInv ==
  /\ writer = "Creating" => entry = "Unsynced"
  /\ writer = "Open" => entry = "Synced" /\ HeaderUnits <= Len(file)
  /\ writer # "Stopped" =>
       /\ call = "None" /\ result.status = "None" /\ Len(stable) <= Len(file)
       /\ \A k \in 1 .. Len(file) : file[k] = "Written"

\* What is promised is in the file, and safe.
PromiseInv == promised > 0 => Holds(file, promised) /\ Holds(stable, promised)

CallInv ==
  /\ call # "None" => /\ writer = "Stopped" /\ result.status = "None"
                      /\ same_persisted_config(Config, expected)
  /\ call = "Scan" => original_size = Len(file)

\* A scan stands behind the records it counted.
ScanInv ==
  call \in {"Scan", "Rescan"} =>
    /\ ReaderAt(reader, scan.records) /\ Holds(file, scan.records)
    /\ scan.error = "None" /\ scan.last_valid_offset = End(scan.records)
    /\ scan.last_sequence = LastSequence(scan.records)

\* A truncation removes less than a record behind those of the first scan.
TruncateInv ==
  call \in {"Truncate", "Sync", "Reopen", "Rescan"} =>
    /\ entry = "Synced" /\ promised <= before.records
    /\ before.last_valid_offset = End(before.records)
    /\ before.last_sequence = LastSequence(before.records)
    /\ End(before.records) < original_size
    /\ Holds(file, before.records)
    /\ call = "Truncate" => Len(file) = original_size /\ PartialRecord(file, before.records)
    /\ call # "Truncate" => Len(file) = End(before.records)
    /\ call \in {"Reopen", "Rescan"} => stable = file

ResultInv ==
  /\ ResultExact /\ RefusedOnlyIfDamaged
  /\ result.status \in {"Clean", "Recovered"} => result.records \in Nat

IInv == /\ TypeOK /\ FileInv /\ WriterInv /\ PromiseInv /\ CallInv
        /\ ScanInv /\ TruncateInv /\ ResultInv

LEMMA UnitsOfSeq ==
  ASSUME NEW f \in Seq({"Written", "Damaged"})
  PROVE  AreUnits(f)
BY LenProperties, ElementOfSeq DEF AreUnits, Units

\* A file of whole size n keeps it if the size grows by nothing.
LEMMA SizeOKMonotone ==
  ASSUME NEW a \in Nat, NEW b \in Nat, a <= b, SizeOK(b)
  PROVE  SizeOK(a)
<1>1. \A n \in Nat : End(n) \in Nat
  BY EndFacts
<1> QED BY <1>1 DEF SizeOK

LEMMA HeaderSizeOK == SizeOK(HeaderUnits)
<1>1. \A n \in Nat : End(n) \in Nat /\ HeaderUnits <= End(n)
  BY EndFacts
<1> QED BY <1>1, Sizes DEF SizeOK

\* The records that fit a size are within the bounds.
LEMMA EndWithinBounds ==
  ASSUME NEW n \in Nat, NEW size \in Nat, End(n) <= size, SizeOK(size)
  PROVE  n \in 0 .. MaxRecords
<1>1. CASE n = 0
  BY <1>1, ConfigFacts
<1>2. CASE n > 0
  <2> DEFINE p == n - 1
  <2>1. p \in Nat /\ p < n
    BY <1>2
  <2>2. End(p) \in Nat /\ End(n) \in Nat /\ End(p) + Stride <= End(n)
    BY <2>1, EndFacts, EndMonotone
  <2>3. End(p) < size
    BY <2>2, Sizes
  <2>4. p < MaxRecords
    BY <2>1, <2>3 DEF SizeOK
  <2> QED BY <1>2, <2>1, <2>4, ConfigFacts
<1> QED BY <1>1, <1>2

\* The records of a prefix.
LEMMA HoldsLess ==
  ASSUME NEW f, NEW n \in Nat, NEW m \in Nat, n <= m, Holds(f, m), AreUnits(f)
  PROVE  Holds(f, n)
<1>1. End(n) \in Nat /\ End(m) \in Nat /\ End(n) <= End(m)
  <2>1. End(n) \in Nat /\ End(m) \in Nat
    BY EndFacts
  <2>2. CASE n = m
    BY <2>1, <2>2
  <2>3. CASE n < m
    <3>1. End(n) + Stride <= End(m)
      BY <2>3, EndMonotone
    <3> QED BY <2>1, <3>1, Sizes
  <2> QED BY <2>2, <2>3
<1>2. Len(f) >= End(m) /\ \A k \in 1 .. End(m) : f[k] = "Written"
  BY DEF Holds, End
<1>3. Len(f) >= End(n) /\ \A k \in 1 .. End(n) : f[k] = "Written"
  BY <1>1, <1>2 DEF AreUnits
<1> QED BY <1>3 DEF Holds, End

THEOREM InitInv == Init => IInv
<1> SUFFICES ASSUME Init PROVE IInv
  OBVIOUS
<1>1. /\ file = <<>> /\ stable = <<>> /\ entry = "None" /\ writer = "Stopped"
      /\ call = "None" /\ expected = Config /\ original_size = 0 /\ before = NoScan
      /\ reader = NoReader /\ scan = NoScan /\ result = NoResult
      /\ promised = 0 /\ crashes = 0
  BY DEF Init
<1>2. Len(file) = 0 /\ Len(stable) = 0
  BY <1>1, EmptySeq
<1>3. result.status = "None"
  BY <1>1 DEF NoResult, result_from_scan
<1>4. TypeOK
  <2>1. file \in Seq({"Written", "Damaged"}) /\ stable \in Seq({"Written", "Damaged"})
    BY <1>1, EmptySeq
  <2>2. reader \in [next_offset : Nat, next_sequence : Nat, sequence_exhausted : BOOLEAN]
    BY <1>1 DEF NoReader
  <2>3. scan \in ScanResults /\ before \in ScanResults
    BY <1>1 DEF NoScan, ScanResults
  <2>4. /\ promised \in 0 .. MaxRecords /\ crashes \in 0 .. MaxCrashes
        /\ expected \in ExpectedConfigs /\ original_size \in Nat
    BY <1>1, RecoveryAssumption
  <2> QED BY <1>1, <1>3, <2>1, <2>2, <2>3, <2>4 DEF TypeOK
<1>5. FileInv
  <2>1. SizeOK(0)
    BY Sizes, HeaderSizeOK, SizeOKMonotone
  <2> QED BY <1>1, <1>2, <2>1, Sizes DEF FileInv
<1>6. WriterInv /\ PromiseInv /\ CallInv /\ ScanInv /\ TruncateInv
  BY <1>1 DEF WriterInv, PromiseInv, CallInv, ScanInv, TruncateInv
<1>7. ResultInv
  BY <1>3 DEF ResultInv, ResultExact, RefusedOnlyIfDamaged
<1> QED BY <1>4, <1>5, <1>6, <1>7 DEF IInv

-----------------------------------------------------------------------------
(* The steps of the writer.                                                  *)

\* What the invariant says of the sizes of the file.
LEMMA FileFacts ==
  ASSUME IInv
  PROVE  /\ AreUnits(file) /\ AreUnits(stable)
         /\ Len(file) \in Nat /\ Len(stable) \in Nat
         /\ file \in Seq(Units) /\ stable \in Seq(Units)
         /\ promised \in Nat /\ promised <= MaxRecords
<1>1. file \in Seq(Units) /\ stable \in Seq(Units) /\ promised \in 0 .. MaxRecords
  BY DEF IInv, TypeOK, Units
<1>2. AreUnits(file) /\ AreUnits(stable)
  BY <1>1, UnitsOfSeq DEF Units
<1> QED BY <1>1, <1>2, ConfigFacts DEF AreUnits

\* What a call returned stays exact while the file is not touched.
LEMMA ResultKept ==
  ASSUME ResultInv, UNCHANGED <<file, expected, result, promised>>
  PROVE  ResultInv'
BY DEF ResultInv, ResultExact, RefusedOnlyIfDamaged

\* No result, nothing to be exact about.
LEMMA ResultReset ==
  ASSUME result'.status \in {"None", "IoError"}
  PROVE  ResultInv'
BY DEF ResultInv, ResultExact, RefusedOnlyIfDamaged

LEMMA CreateStep == IInv /\ Create => IInv'
<1> SUFFICES ASSUME IInv, Create PROVE IInv'
  OBVIOUS
<1>1. /\ writer = "Stopped" /\ call = "None" /\ entry = "None"
      /\ writer' = "Creating" /\ entry' = "Unsynced" /\ result' = NoResult
      /\ UNCHANGED <<file, stable, call, expected, original_size, before, reader, scan,
                     promised, crashes>>
  BY DEF Create, scanVars
<1>2. result'.status = "None"
  BY <1>1 DEF NoResult, result_from_scan
<1>3. TypeOK'
  BY <1>1, <1>2 DEF IInv, TypeOK
<1>4. FileInv'
  BY <1>1 DEF IInv, FileInv
<1>5. WriterInv'
  <2>1. Len(file) = 0 /\ Len(stable) = 0
    BY <1>1 DEF IInv, FileInv
  <2> QED BY <1>1, <1>2, <2>1 DEF WriterInv
<1>6. PromiseInv' /\ CallInv' /\ ScanInv' /\ TruncateInv'
  BY <1>1 DEF IInv, PromiseInv, CallInv, ScanInv, TruncateInv
<1>7. ResultInv'
  BY <1>2, ResultReset
<1> QED BY <1>3, <1>4, <1>5, <1>6, <1>7 DEF IInv

LEMMA WriteStep == IInv /\ Write => IInv'
<1> SUFFICES ASSUME IInv, Write PROVE IInv'
  OBVIOUS
<1>1. /\ file' = Append(file, "Written")
      /\ UNCHANGED <<stable, entry, writer, call, expected, original_size, before,
                     reader, scan, result, promised, crashes>>
  BY DEF Write, callVars, scanVars
<1>2. writer # "Stopped" /\ call = "None" /\ result.status = "None"
  BY DEF Write, IInv, WriterInv
<1>3. /\ file' \in Seq(Units) /\ Len(file') = Len(file) + 1
      /\ \A k \in 1 .. Len(file) : file'[k] = file[k]
      /\ file'[Len(file) + 1] = "Written"
  <2>1. "Written" \in Units
    BY DEF Units
  <2> QED BY <1>1, <2>1, FileFacts, AppendProperties
<1>4. TypeOK'
  BY <1>1, <1>3 DEF IInv, TypeOK, Units
<1>5. SizeOK(Len(file) + 1) /\ (entry # "Synced" => Len(file) + 1 <= HeaderUnits)
  <2>1. CASE writer = "Creating"
    <3>1. Len(file) + 1 <= HeaderUnits
      BY <2>1, FileFacts, Sizes DEF Write
    <3> QED BY <3>1, FileFacts, Sizes, HeaderSizeOK, SizeOKMonotone
  <2>2. CASE writer = "Open"
    <3>1. entry = "Synced" /\ HeaderUnits <= Len(file) /\ SizeOK(Len(file))
      BY <2>2 DEF IInv, WriterInv, FileInv
    <3>2. SUFFICES ASSUME NEW n \in Nat, End(n) < Len(file) + 1
                   PROVE  n < MaxRecords /\ Config.first_sequence + n <= UInt64Max
      BY <3>1 DEF SizeOK
    <3>3. End(n) \in Nat /\ Len(file) \in Nat
      BY EndFacts, FileFacts
    <3>4. CASE End(n) < Len(file)
      BY <3>1, <3>4 DEF SizeOK
    <3>5. CASE End(n) = Len(file)
      <4>1. AtBoundary /\ RecordsBegun = n
        BY <3>5, EndInverse DEF AtBoundary, RecordsBegun
      <4> QED BY <2>2, <4>1 DEF Write
    <3> QED BY <3>2, <3>3, <3>4, <3>5
  <2> QED BY <2>1, <2>2 DEF Write
<1>6. FileInv'
  <2>1. Len(stable) <= Len(file) /\ Len(file) \in Nat /\ Len(stable) \in Nat
    BY <1>2, FileFacts DEF IInv, WriterInv
  <2>2. \A k \in 1 .. Len(stable) : file'[k] = stable[k]
    BY <1>3, <2>1 DEF IInv, FileInv
  <2> QED BY <1>1, <1>2, <1>3, <1>5, <2>2 DEF IInv, FileInv
<1>7. WriterInv'
  <2>1. Len(stable) <= Len(file) /\ Len(file) \in Nat /\ Len(stable) \in Nat
    BY <1>2, FileFacts DEF IInv, WriterInv
  <2>2. ASSUME NEW k \in 1 .. Len(file) + 1 PROVE file'[k] = "Written"
    BY <1>2, <1>3, <2>1 DEF IInv, WriterInv
  <2> QED BY <1>1, <1>2, <1>3, <2>1, <2>2, Sizes DEF IInv, WriterInv
<1>8. PromiseInv'
  <2>1. ASSUME promised > 0 PROVE Holds(file', promised)
    <3>1. Len(file) >= End(promised) /\ \A k \in 1 .. End(promised) : file[k] = "Written"
      BY <2>1 DEF IInv, PromiseInv, Holds, End
    <3>2. End(promised) \in Nat /\ Len(file) \in Nat
      BY FileFacts, EndFacts
    <3>3. Len(file') >= End(promised) /\ \A k \in 1 .. End(promised) : file'[k] = "Written"
      BY <1>3, <3>1, <3>2
    <3> QED BY <3>3 DEF Holds, End
  <2> QED BY <1>1, <2>1 DEF IInv, PromiseInv
<1>9. CallInv' /\ ScanInv' /\ TruncateInv'
  BY <1>1, <1>2 DEF CallInv, ScanInv, TruncateInv
<1>10. ResultInv'
  BY <1>1, <1>2, ResultReset
<1> QED BY <1>4, <1>6, <1>7, <1>8, <1>9, <1>10 DEF IInv

LEMMA SyncStep == IInv /\ Sync => IInv'
<1> SUFFICES ASSUME IInv, Sync PROVE IInv'
  OBVIOUS
<1>1. /\ stable' = file /\ promised' = RecordsBegun
      /\ UNCHANGED <<file, entry, writer, call, expected, original_size, before,
                     reader, scan, result, crashes>>
  BY DEF Sync, callVars, scanVars
<1>2. /\ writer # "Stopped" /\ call = "None" /\ result.status = "None"
      /\ \A k \in 1 .. Len(file) : file[k] = "Written"
  BY DEF Sync, IInv, WriterInv
<1>3. Len(file) \in Nat
  BY FileFacts
<1>4. RecordsBegun \in Nat /\ Len(file) = End(RecordsBegun)
  <2>1. CASE writer = "Creating"
    <3>1. Len(file) = End(0)
      BY <2>1, EndFacts DEF Sync
    <3>2. RecordsBegun = 0
      BY <3>1, EndInverse DEF RecordsBegun
    <3> QED BY <3>1, <3>2
  <2>2. CASE writer = "Open"
    <3>1. HeaderUnits <= Len(file) /\ (Len(file) - HeaderUnits) % Stride = 0
      BY <2>2 DEF Sync, AtBoundary, IInv, WriterInv
    <3> QED BY <1>3, <3>1, BoundaryIsEnd DEF RecordsBegun
  <2> QED BY <2>1, <2>2 DEF Sync
<1>5. RecordsBegun \in 0 .. MaxRecords
  <2>1. SizeOK(Len(file))
    BY DEF IInv, FileInv
  <2> QED BY <1>3, <1>4, <2>1, EndWithinBounds
<1>6. TypeOK'
  BY <1>1, <1>5 DEF IInv, TypeOK
<1>7. Holds(file, RecordsBegun)
  BY <1>2, <1>3, <1>4 DEF Holds, End
<1>8. FileInv'
  <2>1. entry # "Synced" => Len(file) <= HeaderUnits /\ RecordsBegun = 0
    <3> SUFFICES ASSUME entry # "Synced"
                 PROVE  Len(file) <= HeaderUnits /\ RecordsBegun = 0
      OBVIOUS
    <3>1. Len(file) <= HeaderUnits
      BY DEF IInv, FileInv
    <3>2. End(RecordsBegun) = End(0)
      BY <1>4, <3>1, EndFacts, Sizes
    <3>3. RecordsBegun = 0
      BY <1>4, <3>2, EndMonotone
    <3> QED BY <3>1, <3>3
  <2> QED BY <1>1, <1>2, <2>1 DEF IInv, FileInv
<1>9. WriterInv'
  BY <1>1, <1>3 DEF IInv, WriterInv
<1>10. PromiseInv'
  BY <1>1, <1>7 DEF PromiseInv
<1>11. CallInv' /\ ScanInv' /\ TruncateInv'
  BY <1>1, <1>2 DEF CallInv, ScanInv, TruncateInv
<1>12. ResultInv'
  BY <1>1, <1>2, ResultReset
<1> QED BY <1>6, <1>8, <1>9, <1>10, <1>11, <1>12 DEF IInv

LEMMA SyncParentDirectoryStep == IInv /\ SyncParentDirectory => IInv'
<1> SUFFICES ASSUME IInv, SyncParentDirectory PROVE IInv'
  OBVIOUS
<1>1. /\ writer = "Creating" /\ Len(file) = HeaderUnits
      /\ entry' = "Synced" /\ writer' = "Open"
      /\ UNCHANGED <<file, stable, call, expected, original_size, before, reader, scan,
                     result, promised, crashes>>
  BY DEF SyncParentDirectory, callVars, scanVars
<1>2. call = "None" /\ result.status = "None"
  BY <1>1 DEF IInv, WriterInv
<1>3. TypeOK'
  BY <1>1 DEF IInv, TypeOK
<1>4. FileInv'
  BY <1>1 DEF IInv, FileInv
<1>5. WriterInv'
  BY <1>1, Sizes DEF IInv, WriterInv
<1>6. PromiseInv' /\ CallInv' /\ ScanInv' /\ TruncateInv'
  BY <1>1, <1>2 DEF IInv, PromiseInv, CallInv, ScanInv, TruncateInv
<1>7. ResultInv'
  BY <1>1, <1>2, ResultReset
<1> QED BY <1>3, <1>4, <1>5, <1>6, <1>7 DEF IInv

LEMMA StopStep == IInv /\ Stop => IInv'
<1> SUFFICES ASSUME IInv, Stop PROVE IInv'
  OBVIOUS
<1>1. /\ writer # "Stopped" /\ writer' = "Stopped"
      /\ UNCHANGED <<file, stable, entry, call, expected, original_size, before, reader,
                     scan, result, promised, crashes>>
  BY DEF Stop, fileVars, callVars, scanVars
<1>2. call = "None" /\ result.status = "None"
  BY <1>1 DEF IInv, WriterInv
<1>3. TypeOK'
  BY <1>1 DEF IInv, TypeOK
<1>4. FileInv'
  BY <1>1 DEF IInv, FileInv
<1>5. WriterInv'
  BY <1>1 DEF WriterInv
<1>6. PromiseInv' /\ CallInv' /\ ScanInv' /\ TruncateInv'
  BY <1>1, <1>2 DEF IInv, PromiseInv, CallInv, ScanInv, TruncateInv
<1>7. ResultInv'
  BY <1>1, <1>2, ResultReset
<1> QED BY <1>3, <1>4, <1>5, <1>6, <1>7 DEF IInv

-----------------------------------------------------------------------------
(* Crashes.                                                                  *)

\* A stop of the machine leaves what was promised, and no more than was written.
LEMMA SurvivorFacts ==
  ASSUME IInv, NEW f \in Survivors
  PROVE  /\ f \in Seq(Units) /\ AreUnits(f) /\ SizeOK(Len(f))
         /\ entry # "Synced" => Len(f) <= HeaderUnits
         /\ entry = "None" => Len(f) = 0
         /\ promised > 0 => Holds(f, promised)
<1>1. /\ SizeOK(Len(file)) /\ SizeOK(Len(stable))
      /\ entry # "Synced" => Len(file) <= HeaderUnits /\ Len(stable) <= HeaderUnits
      /\ entry = "None" => Len(file) = 0 /\ Len(stable) = 0
      /\ promised > 0 => Holds(file, promised) /\ Holds(stable, promised)
  BY DEF IInv, FileInv, PromiseInv
<1>2. /\ Len(file) \in Nat /\ Len(stable) \in Nat /\ promised \in Nat
      /\ file \in Seq(Units) /\ stable \in Seq(Units)
  BY FileFacts
<1>3. CASE Len(file) < Len(stable)
  <2>1. f = file \/ f = stable
    BY <1>3 DEF Survivors
  <2> QED BY <1>1, <2>1, FileFacts
<1>4. CASE ~(Len(file) < Len(stable))
  <2>1. PICK n \in Len(stable) .. Len(file) :
          f \in {g \in [1 .. n -> {"Written", "Damaged"}] :
                   \A k \in 1 .. Len(stable) : g[k] = stable[k]}
    BY <1>4 DEF Survivors
  <2>2. f \in [1 .. n -> Units] /\ n \in Nat /\ n <= Len(file) /\ Len(stable) <= n
    BY <1>2, <2>1 DEF Units
  <2>3. f \in Seq(Units)
    BY <2>2, SeqDef
  <2>4. Len(f) = n
    <3>1. Len(f) \in Nat /\ DOMAIN f = 1 .. Len(f)
      BY <2>3, LenProperties
    <3>2. DOMAIN f = 1 .. n
      BY <2>2
    <3> QED BY <2>2, <3>1, <3>2
  <2>5. AreUnits(f)
    BY <2>3, UnitsOfSeq DEF Units
  <2>6. SizeOK(Len(f))
    BY <1>1, <1>2, <2>2, <2>4, SizeOKMonotone
  <2>7. ASSUME promised > 0 PROVE Holds(f, promised)
    <3>1. /\ Len(stable) >= End(promised) /\ End(promised) \in Nat
          /\ \A k \in 1 .. End(promised) : stable[k] = "Written"
      BY <1>1, <1>2, <2>7, EndFacts DEF Holds, End
    <3>2. Len(f) >= End(promised)
      BY <1>2, <2>2, <2>4, <3>1
    <3>3. ASSUME NEW k \in 1 .. End(promised) PROVE f[k] = "Written"
      <4>1. k \in 1 .. Len(stable)
        BY <1>2, <3>1
      <4> QED BY <2>1, <3>1, <4>1
    <3> QED BY <3>2, <3>3 DEF Holds, End
  <2> QED BY <1>1, <1>2, <2>2, <2>3, <2>4, <2>5, <2>6, <2>7, Sizes
<1> QED BY <1>3, <1>4

\* Outside of a call nothing is kept of it.
LEMMA CallEndsFacts ==
  ASSUME CallEnds
  PROVE  /\ call' = "None" /\ original_size' \in Nat
         /\ reader' \in [next_offset : Nat, next_sequence : Nat,
                         sequence_exhausted : BOOLEAN]
         /\ scan' \in ScanResults /\ before' \in ScanResults
         /\ CallInv' /\ ScanInv' /\ TruncateInv'
<1>1. /\ call' = "None" /\ original_size' = 0 /\ before' = NoScan
      /\ reader' = NoReader /\ scan' = NoScan
  BY DEF CallEnds
<1>2. NoScan \in ScanResults
  BY DEF NoScan, ScanResults
<1>3. NoReader \in [next_offset : Nat, next_sequence : Nat,
                    sequence_exhausted : BOOLEAN]
  BY DEF NoReader
<1>4. CallInv' /\ ScanInv' /\ TruncateInv'
  BY <1>1 DEF CallInv, ScanInv, TruncateInv
<1> QED BY <1>1, <1>2, <1>3, <1>4

LEMMA CrashStep == IInv /\ Crash => IInv'
<1> SUFFICES ASSUME IInv, Crash PROVE IInv'
  OBVIOUS
<1>1. /\ crashes < MaxCrashes /\ writer' = "Stopped" /\ CallEnds
      /\ expected' = Config /\ result' = NoResult /\ crashes' = crashes + 1
      /\ promised' = promised
  BY DEF Crash
<1>2. result'.status = "None"
  BY <1>1 DEF NoResult, result_from_scan
<1>3. /\ file' \in Seq(Units) /\ stable' = file'
      /\ SizeOK(Len(file'))
      /\ entry' \in {"None", "Unsynced", "Synced"}
      /\ entry' # "Synced" => Len(file') <= HeaderUnits /\ promised = 0
      /\ entry' = "None" => Len(file') = 0
      /\ promised > 0 => Holds(file', promised)
  <2>1. CASE \E f \in Survivors : file' = f /\ stable' = f
               /\ entry' = IF entry = "None" THEN "None" ELSE "Synced"
    <3>1. PICK f \in Survivors : file' = f /\ stable' = f
      BY <2>1
    <3>2. entry' = IF entry = "None" THEN "None" ELSE "Synced"
      BY <2>1
    <3>3. entry # "Synced" => promised = 0
      BY DEF IInv, FileInv
    <3> QED BY <3>1, <3>2, <3>3, SurvivorFacts
  <2>2. CASE /\ entry = "Unsynced"
             /\ file' = <<>> /\ stable' = <<>> /\ entry' = "None"
    <3>1. promised = 0
      BY <2>2 DEF IInv, FileInv
    <3>2. <<>> \in Seq(Units) /\ Len(<<>>) = 0
      BY EmptySeq
    <3>3. SizeOK(0)
      BY Sizes, HeaderSizeOK, SizeOKMonotone
    <3> QED BY <2>2, <3>1, <3>2, <3>3, Sizes
  <2> QED BY <2>1, <2>2 DEF Crash
<1>4. TypeOK'
  <2>1. expected' \in ExpectedConfigs
    BY <1>1, RecoveryAssumption
  <2>2. crashes' \in 0 .. MaxCrashes
    BY <1>1, RecoveryAssumption DEF IInv, TypeOK
  <2>3. promised' \in 0 .. MaxRecords
    BY <1>1 DEF IInv, TypeOK
  <2> QED BY <1>1, <1>2, <1>3, <2>1, <2>2, <2>3, CallEndsFacts DEF TypeOK, Units
<1>5. FileInv'
  BY <1>1, <1>3 DEF FileInv
<1>6. WriterInv'
  BY <1>1 DEF WriterInv
<1>7. PromiseInv'
  BY <1>1, <1>3 DEF PromiseInv
<1>8. CallInv' /\ ScanInv' /\ TruncateInv'
  BY <1>1, CallEndsFacts
<1>9. ResultInv'
  BY <1>2, ResultReset
<1> QED BY <1>4, <1>5, <1>6, <1>7, <1>8, <1>9 DEF IInv

\* A step of a recovery that leaves the file and what is promised alone.
LEMMA FileKept ==
  ASSUME IInv, writer = "Stopped",
         UNCHANGED <<file, stable, entry, writer, promised, crashes>>
  PROVE  FileInv' /\ WriterInv' /\ PromiseInv'
<1>1. FileInv'
  BY DEF IInv, FileInv
<1>2. WriterInv'
  BY DEF WriterInv
<1>3. PromiseInv'
  BY DEF IInv, PromiseInv
<1> QED BY <1>1, <1>2, <1>3

\* The end of a call with a result that is exact.
LEMMA EndOfCall ==
  ASSUME IInv, writer = "Stopped", CallEnds, ResultInv',
         UNCHANGED <<file, stable, entry, writer, promised, crashes>>,
         expected' \in ExpectedConfigs,
         result'.status \in {"None", "Clean", "Recovered", "Refused", "InvalidConfig",
                             "IoError"}
  PROVE  IInv'
<1>1. TypeOK'
  BY CallEndsFacts DEF IInv, TypeOK
<1>2. FileInv' /\ WriterInv' /\ PromiseInv'
  BY FileKept
<1> QED BY <1>1, <1>2, CallEndsFacts DEF IInv

LEMMA KillStep == IInv /\ Kill => IInv'
<1> SUFFICES ASSUME IInv, Kill PROVE IInv'
  OBVIOUS
<1>1. /\ call # "None" /\ CallEnds /\ expected' = Config /\ result' = NoResult
      /\ UNCHANGED <<file, stable, entry, writer, promised, crashes>>
  BY DEF Kill, fileVars
<1>2. result'.status = "None"
  BY <1>1 DEF NoResult, result_from_scan
<1>3. writer = "Stopped" /\ expected' \in ExpectedConfigs
  BY <1>1, RecoveryAssumption DEF IInv, CallInv
<1>4. ResultInv'
  BY <1>2, ResultReset
<1> QED BY <1>1, <1>2, <1>3, <1>4, EndOfCall

-----------------------------------------------------------------------------
(* The steps of a recovery.                                                  *)

LEMMA ReturnsFacts ==
  ASSUME NEW status, NEW scanned, NEW original, NEW recovered,
         Returns(status, scanned, original, recovered)
  PROVE  /\ CallEnds /\ UNCHANGED <<file, stable, entry>>
         /\ result'.status = status /\ result'.error = scanned.error
         /\ result'.records = scanned.records
         /\ result'.last_sequence = scanned.last_sequence
         /\ result'.last_valid_offset = scanned.last_valid_offset
         /\ result'.recovered_size = recovered
         /\ result'.removed_bytes = IF original >= recovered THEN original - recovered
                                    ELSE 0
BY DEF Returns, result_from_scan, fileVars

\* A failure claims nothing.
LEMMA ReturnsIoError ==
  ASSUME IInv, NEW scanned, NEW original, NEW recovered,
         Returns("IoError", scanned, original, recovered),
         writer = "Stopped", expected' \in ExpectedConfigs,
         UNCHANGED <<writer, promised, crashes>>
  PROVE  IInv'
<1>1. /\ CallEnds /\ UNCHANGED <<file, stable, entry>>
      /\ result'.status = "IoError"
  BY ReturnsFacts
<1>2. ResultInv'
  BY <1>1, ResultReset
<1> QED BY <1>1, <1>2, EndOfCall

\* A refusal is explained.
LEMMA ReturnsRefused ==
  ASSUME IInv, NEW scanned, NEW original, NEW recovered,
         Returns("Refused", scanned, original, recovered),
         \/ scanned.error = "IncompleteFileHeader" /\ Len(file) < HeaderUnits
         \/ /\ scanned.error = "IdentityMismatch"
            /\ ~same_persisted_config(Config, expected')
         \/ IsDamageError(scanned.error) /\ HasDamage(file),
         writer = "Stopped", expected' \in ExpectedConfigs,
         UNCHANGED <<writer, promised, crashes>>
  PROVE  IInv'
<1>1. /\ CallEnds /\ UNCHANGED <<file, stable, entry>>
      /\ result'.status = "Refused" /\ result'.error = scanned.error
  BY ReturnsFacts
<1>2. RefusedOnlyIfDamaged'
  BY <1>1 DEF RefusedOnlyIfDamaged, IsDamageError, HasDamage
<1>3. ResultInv'
  BY <1>1, <1>2 DEF ResultInv, ResultExact
<1> QED BY <1>1, <1>3, EndOfCall

LEMMA ScanBeginsFacts ==
  ASSUME IInv, NEW at, ScanBegins(at), Holds(file, 0)
  PROVE  /\ call' = at /\ result'.status = "None"
         /\ reader' \in [next_offset : Nat, next_sequence : Nat,
                         sequence_exhausted : BOOLEAN]
         /\ scan' \in ScanResults
         /\ ReaderAt(reader', scan'.records) /\ Holds(file, scan'.records)
         /\ scan'.error = "None" /\ scan'.last_valid_offset = End(scan'.records)
         /\ scan'.last_sequence = LastSequence(scan'.records)
<1>1. /\ call' = at /\ result' = NoResult
      /\ reader' = [next_offset |-> HeaderUnits, next_sequence |-> Config.first_sequence,
                    sequence_exhausted |-> FALSE]
      /\ scan' = [error |-> "None", records |-> 0, last_sequence |-> 0,
                  last_valid_offset |-> HeaderUnits]
  BY Sizes DEF ScanBegins, NoScan
<1>2. End(0) = HeaderUnits /\ HeaderUnits \in Nat
  BY EndFacts, Sizes
<1>3. result'.status = "None"
  BY <1>1 DEF NoResult, result_from_scan
<1>4. scan' \in ScanResults
  BY <1>1, <1>2 DEF ScanResults
<1>5. reader' \in [next_offset : Nat, next_sequence : Nat, sequence_exhausted : BOOLEAN]
  BY <1>1, <1>2, ConfigFacts
<1>6. ReaderAt(reader', 0)
  <2>1. (Config.first_sequence + 0 > UInt64Max) = FALSE
    BY ConfigFacts
  <2>2. Config.first_sequence + 0 = Config.first_sequence
    BY ConfigFacts
  <2> QED BY <1>1, <1>2, <2>1, <2>2, ConfigFacts DEF ReaderAt
<1> QED BY <1>1, <1>2, <1>3, <1>4, <1>5, <1>6 DEF LastSequence

LEMMA RecoverStep == IInv /\ Recover => IInv'
<1> SUFFICES ASSUME IInv, Recover PROVE IInv'
  OBVIOUS
<1>1. /\ writer = "Stopped" /\ call = "None" /\ expected' \in ExpectedConfigs
      /\ UNCHANGED <<writer, promised, crashes>>
  BY DEF Recover
<1>2. CASE Returns("IoError", ScanOf("IoError"), 0, 0)
  BY <1>1, <1>2, ReturnsIoError
<1>3. CASE /\ ~valid_reader_config(expected')
           /\ Returns("InvalidConfig", NoScan, Len(file), Len(file))
  <2>1. /\ CallEnds /\ UNCHANGED <<file, stable, entry>>
        /\ result'.status = "InvalidConfig"
    BY <1>3, ReturnsFacts
  <2>2. ResultInv'
    BY <1>3, <2>1 DEF ResultInv, ResultExact, RefusedOnlyIfDamaged
  <2> QED BY <1>1, <2>1, <2>2, EndOfCall
<1>4. CASE Returns("IoError", ScanOf("IoError"), Len(file), Len(file))
  BY <1>1, <1>4, ReturnsIoError
<1>5. ASSUME NEW error \in OpenErrors(file, expected'), error # "None",
             Returns("Refused", ScanOf(error), Len(file), Len(file))
      PROVE  IInv'
  <2>1. \/ error = "IncompleteFileHeader" /\ Len(file) < HeaderUnits
        \/ error = "IdentityMismatch" /\ ~same_persisted_config(Config, expected')
        \/ IsDamageError(error) /\ HasDamage(file)
    BY <1>5, FileFacts, OpenFacts
  <2>2. ScanOf(error).error = error
    BY DEF ScanOf, NoScan
  <2> HIDE DEF ScanOf
  <2> QED BY <1>1, <1>5, <2>1, <2>2, ReturnsRefused
<1>6. ASSUME "None" \in OpenErrors(file, expected'), ScanBegins("Scan"),
             original_size' = Len(file), UNCHANGED <<fileVars, before>>
      PROVE  IInv'
  <2>1. same_persisted_config(Config, expected') /\ Holds(file, 0)
    <3>1. \/ same_persisted_config(Config, expected') /\ Holds(file, 0)
          \/ IsDamageError("None")
      BY <1>6, FileFacts, OpenFacts
    <3> QED BY <3>1 DEF IsDamageError
  <2>2. UNCHANGED <<file, stable, entry, before>>
    BY <1>6 DEF fileVars
  <2>3. /\ call' = "Scan" /\ result'.status = "None"
        /\ reader' \in [next_offset : Nat, next_sequence : Nat,
                        sequence_exhausted : BOOLEAN]
        /\ scan' \in ScanResults
        /\ ReaderAt(reader', scan'.records) /\ Holds(file, scan'.records)
        /\ scan'.error = "None" /\ scan'.last_valid_offset = End(scan'.records)
        /\ scan'.last_sequence = LastSequence(scan'.records)
    BY <1>6, <2>1, ScanBeginsFacts
  <2>4. TypeOK'
    BY <1>1, <1>6, <2>2, <2>3, FileFacts DEF IInv, TypeOK
  <2>5. FileInv' /\ WriterInv' /\ PromiseInv'
    BY <1>1, <2>2, FileKept
  <2>6. CallInv'
    BY <1>1, <1>6, <2>1, <2>2, <2>3 DEF CallInv
  <2>7. ScanInv'
    BY <2>2, <2>3 DEF ScanInv
  <2>8. TruncateInv'
    BY <2>3 DEF TruncateInv
  <2>9. ResultInv'
    BY <2>3, ResultReset
  <2> QED BY <2>4, <2>5, <2>6, <2>7, <2>8, <2>9 DEF IInv
<1> QED BY <1>2, <1>3, <1>4, <1>5, <1>6 DEF Recover

LEMMA ScanRecordStep == IInv /\ ScanRecord => IInv'
<1> SUFFICES ASSUME IInv, ScanRecord PROVE IInv'
  OBVIOUS
<1> DEFINE n == scan.records
<1>1. /\ call \in {"Scan", "Rescan"} /\ "None" \in ReadNext(file, reader)
      /\ UNCHANGED <<file, stable, entry, writer, call, expected, original_size, before,
                     result, promised, crashes>>
  BY DEF ScanRecord, fileVars
<1>2. /\ writer = "Stopped" /\ result.status = "None"
      /\ ReaderAt(reader, n) /\ Holds(file, n) /\ scan.error = "None"
      /\ n \in Nat /\ scan \in ScanResults
  <2>1. scan \in ScanResults
    BY DEF IInv, TypeOK
  <2>2. n \in Nat
    BY <2>1 DEF ScanResults
  <2> QED BY <1>1, <2>1, <2>2 DEF IInv, CallInv, ScanInv
<1>3. Holds(file, n + 1) /\ End(n) < Len(file)
  <2>1. SizeOK(Len(file))
    BY DEF IInv, FileInv
  <2>2. \/ Holds(file, n + 1) /\ End(n) < Len(file)
        \/ "None" \in IncompleteErrors \/ IsDamageError("None")
    BY <1>1, <1>2, <2>1, FileFacts, ReadNextFacts
  <2> QED BY <2>2 DEF IsDamageError, IncompleteErrors
<1>4. Config.first_sequence + n <= UInt64Max
  BY <1>2, <1>3 DEF IInv, FileInv, SizeOK
<1>5. reader.next_offset = End(n) /\ reader.next_sequence = Config.first_sequence + n
  BY <1>2, <1>4 DEF ReaderAt
<1>6. reader' = [next_offset |-> End(n + 1),
                 next_sequence |-> IF reader.next_sequence = UInt64Max THEN UInt64Max
                                   ELSE reader.next_sequence + 1,
                 sequence_exhausted |-> reader.next_sequence = UInt64Max]
  <2>1. reader.next_offset + aligned_record_size(Config) = End(n + 1)
    BY <1>2, <1>5, EndFacts, Sizes
  <2> QED BY <2>1 DEF ScanRecord
<1>7. ReaderAt(reader', n + 1)
  <2> DEFINE sequence == Config.first_sequence + n
  <2>1. sequence \in Nat /\ UInt64Max \in Nat /\ sequence <= UInt64Max
        /\ Config.first_sequence + (n + 1) = sequence + 1
    BY <1>2, <1>4, ConfigFacts
  <2>2. reader.next_sequence = sequence
    BY <1>5
  <2> HIDE DEF sequence
  <2>3. CASE sequence = UInt64Max
    <3>1. (sequence + 1 > UInt64Max) = TRUE /\ ~(sequence + 1 <= UInt64Max)
      BY <2>1, <2>3
    <3> QED BY <1>6, <2>1, <2>2, <2>3, <3>1 DEF ReaderAt
  <2>4. CASE sequence # UInt64Max
    <3>1. (sequence + 1 > UInt64Max) = FALSE /\ sequence + 1 <= UInt64Max
      BY <2>1, <2>4
    <3>2. (sequence = UInt64Max) = FALSE
      BY <2>4
    <3> QED BY <1>6, <2>1, <2>2, <2>4, <3>1, <3>2 DEF ReaderAt
  <2> QED BY <2>3, <2>4
<1>8. /\ scan'.records = n + 1 /\ scan'.error = "None"
      /\ scan'.last_valid_offset = End(n + 1)
      /\ scan'.last_sequence = Config.first_sequence + n
      /\ scan' \in ScanResults
  <2>1. scan' = [scan EXCEPT !.records = @ + 1, !.last_sequence = reader.next_sequence,
                             !.last_valid_offset = reader'.next_offset]
    BY DEF ScanRecord
  <2>2. reader'.next_offset = End(n + 1) /\ End(n + 1) \in Nat
    BY <1>2, <1>6, EndFacts
  <2>3. Config.first_sequence + n \in Nat
    BY <1>2, ConfigFacts
  <2>4. reader.next_sequence = Config.first_sequence + n
    BY <1>5
  <2>5. scan' = [scan EXCEPT !.records = scan.records + 1,
                             !.last_sequence = Config.first_sequence + n,
                             !.last_valid_offset = End(n + 1)]
    BY <2>1, <2>2, <2>4
  <2>6. /\ DOMAIN scan = {"error", "records", "last_sequence", "last_valid_offset"}
        /\ scan["error"] = "None"
    BY <1>2 DEF ScanResults
  <2>7. scan' = [error |-> "None", records |-> n + 1,
                 last_sequence |-> Config.first_sequence + n,
                 last_valid_offset |-> End(n + 1)]
    BY ONLY <2>5, <2>6
  <2>8. n + 1 \in Nat
    BY <1>2
  <2> HIDE DEF n
  <2>9. scan' \in ScanResults
    BY ONLY <2>2, <2>3, <2>7, <2>8 DEF ScanResults
  <2> QED BY ONLY <2>7, <2>9
<1>9. TypeOK'
  <2>1. End(n + 1) \in Nat
    BY <1>2, EndFacts
  <2>2. reader' \in [next_offset : Nat, next_sequence : Nat, sequence_exhausted : BOOLEAN]
    BY <1>2, <1>5, <1>6, <2>1, ConfigFacts
  <2> QED BY <1>1, <1>8, <2>2 DEF IInv, TypeOK
<1>10. FileInv' /\ WriterInv' /\ PromiseInv'
  BY <1>1, <1>2, FileKept
<1>11. CallInv'
  BY <1>1 DEF IInv, CallInv
<1>12. ScanInv'
  <2>1. LastSequence(n + 1) = Config.first_sequence + n
    BY <1>2, ConfigFacts DEF LastSequence
  <2> HIDE DEF n
  <2> QED BY <1>1, <1>3, <1>7, <1>8, <2>1 DEF ScanInv
<1>13. TruncateInv'
  BY <1>1 DEF IInv, TruncateInv
<1>14. ResultInv'
  BY <1>1, <1>2, ResultReset
<1> QED BY <1>9, <1>10, <1>11, <1>12, <1>13, <1>14 DEF IInv

\* A file that is n whole records.
LEMMA WholeRecords ==
  ASSUME NEW f \in Seq(Units), NEW n \in Nat, Holds(f, n), Len(f) = End(n)
  PROVE  f = [k \in 1 .. End(n) |-> "Written"]
<1>1. f \in [1 .. End(n) -> Units]
  BY LenProperties
<1>2. \A k \in 1 .. End(n) : f[k] = "Written"
  BY DEF Holds, End
<1> QED BY <1>1, <1>2

\* What is promised is not more than what was scanned.
LEMMA PromisedWithin ==
  ASSUME IInv, NEW n \in Nat, Len(file) < End(n + 1)
  PROVE  promised <= n
<1>1. CASE promised = 0
  BY <1>1
<1>2. CASE promised > 0
  <2>1. End(promised) <= Len(file)
    BY <1>2 DEF IInv, PromiseInv, Holds, End
  <2>2. End(promised) \in Nat /\ Len(file) \in Nat /\ End(n + 1) \in Nat
    BY FileFacts, EndFacts
  <2>3. End(promised) < End(n + 1)
    BY <2>1, <2>2
  <2>4. promised < n + 1
    BY <2>3, FileFacts, EndMonotone
  <2> QED BY <2>4, FileFacts
<1> QED BY <1>1, <1>2, FileFacts

LEMMA FirstScanEndsStep ==
  ASSUME IInv, ScanEnds, call = "Scan", NEW error \in ReadNext(file, reader) \ {"None"},
         FirstScanEnds(error)
  PROVE  IInv'
<1> DEFINE n == scan.records
<1>1. /\ writer = "Stopped" /\ result.status = "None" /\ original_size = Len(file)
      /\ same_persisted_config(Config, expected)
      /\ ReaderAt(reader, n) /\ Holds(file, n) /\ scan.error = "None"
      /\ scan.last_valid_offset = End(n) /\ scan.last_sequence = LastSequence(n)
  BY DEF IInv, CallInv, ScanInv
<1>2. scan \in ScanResults /\ n \in Nat
  BY DEF IInv, TypeOK, ScanResults
<1>11. /\ End(n) \in Nat /\ HeaderUnits <= End(n) /\ End(n + 1) = End(n) + Stride
       /\ HeaderUnits \in Nat /\ Stride \in Nat \ {0} /\ Len(file) \in Nat
  BY <1>2, EndFacts, Sizes, FileFacts
<1>3. /\ UNCHANGED <<writer, expected, crashes>>
      /\ promised' = IF result'.status = "Recovered" /\ result'.records > promised
                     THEN result'.records ELSE promised
  BY DEF ScanEnds
<1>4. expected' \in ExpectedConfigs
  BY <1>3 DEF IInv, TypeOK
<1>5. \/ error = "EndOfLog" /\ Len(file) = End(n)
      \/ error \in IncompleteErrors /\ PartialRecord(file, n)
      \/ IsDamageError(error) /\ HasDamage(file)
  <2>1. SizeOK(Len(file))
    BY DEF IInv, FileInv
  <2> HIDE DEF n
  <2> QED BY <1>1, <1>2, <2>1, FileFacts, ReadNextFacts DEF n
<1>6. ScanEndedBy(error).error = error
  BY <1>2 DEF ScanEndedBy, ScanResults
<1>7. CASE error = "EndOfLog" /\ Returns("Clean", scan, original_size, original_size)
  <2>1. /\ CallEnds /\ UNCHANGED <<file, stable, entry>>
        /\ result'.status = "Clean" /\ result'.records = n
        /\ result'.last_sequence = LastSequence(n) /\ result'.last_valid_offset = End(n)
        /\ result'.recovered_size = original_size
        /\ result'.removed_bytes = IF original_size >= original_size
                                   THEN original_size - original_size ELSE 0
    BY <1>1, <1>7, ReturnsFacts
  <2>2. Len(file) = End(n)
    BY <1>5, <1>7 DEF IncompleteErrors, IsDamageError
  <2>3. file = [k \in 1 .. End(n) |-> "Written"]
    BY <1>1, <1>2, <2>2, FileFacts, WholeRecords
  <2>4. promised <= n
    <3>1. Len(file) < End(n + 1)
      BY ONLY <1>11, <2>2
    <3> QED BY <1>2, <3>1, PromisedWithin
  <2>5. promised' = promised
    BY <1>3, <2>1
  <2>6. result'.removed_bytes = 0
    BY <1>1, <2>1, FileFacts
  <2>7. ResultExact'
    <3> HIDE DEF n
    <3>1. /\ same_persisted_config(Config, expected')
          /\ file' = [k \in 1 .. result'.last_valid_offset |-> "Written"]
      BY <1>1, <1>3, <2>1, <2>3
    <3>2. /\ result'.last_valid_offset = HeaderUnits + result'.records * Stride
          /\ result'.recovered_size = Len(file')
          /\ result'.last_sequence = IF result'.records = 0 THEN 0
                                     ELSE Config.first_sequence + result'.records - 1
      BY <1>1, <2>1 DEF End, LastSequence
    <3>3. result'.records >= promised'
      BY <1>2, <2>1, <2>4, <2>5, FileFacts
    <3> QED BY <2>1, <2>6, <3>1, <3>2, <3>3 DEF ResultExact
  <2>8. ResultInv'
    BY <1>2, <2>1, <2>7 DEF ResultInv, RefusedOnlyIfDamaged
  <2> QED BY <1>1, <1>3, <1>4, <2>1, <2>5, <2>8, EndOfCall
<1>8. CASE /\ error # "EndOfLog" /\ scan_status_for(error) = "Corrupted"
           /\ Returns("Refused", ScanEndedBy(error), original_size, original_size)
  <2>1. IsDamageError(error) /\ HasDamage(file)
    BY <1>5, <1>8 DEF scan_status_for, IncompleteErrors
  <2>2. promised' = promised
    BY <1>3, <1>8, ReturnsFacts
  <2> HIDE DEF ScanEndedBy
  <2> QED BY <1>1, <1>3, <1>4, <1>6, <1>8, <2>1, <2>2, ReturnsRefused
<1>9. CASE Returns("IoError", ScanEndedBy(error), original_size, original_size)
  <2>1. promised' = promised
    BY <1>3, <1>9, ReturnsFacts
  <2> QED BY <1>1, <1>3, <1>4, <1>9, <2>1, ReturnsIoError
<1>10. CASE /\ error # "EndOfLog" /\ scan_status_for(error) = "IncompleteTail"
            /\ Truncates(error)
  <2>1. error \in IncompleteErrors
    BY <1>10 DEF scan_status_for, IncompleteErrors
  <2>2. PartialRecord(file, n)
    BY <1>5, <2>1 DEF IncompleteErrors, IsDamageError
  <2>3. /\ call' = "Truncate" /\ before' = ScanEndedBy(error)
        /\ reader' = NoReader /\ scan' = NoScan
        /\ UNCHANGED <<file, stable, entry, original_size, result>>
    BY <1>10 DEF Truncates, fileVars
  <2>4. promised' = promised
    BY <1>1, <1>3, <2>3
  <2>5. /\ before'.records = n /\ before'.last_valid_offset = End(n)
        /\ before'.last_sequence = LastSequence(n) /\ before' \in ScanResults
    <3>1. before' = [scan EXCEPT !.error = error]
      BY <2>3 DEF ScanEndedBy
    <3> QED BY <1>1, <1>2, <2>1, <3>1 DEF ScanResults, IncompleteErrors
  <2>6. End(n) < Len(file) /\ Len(file) < End(n + 1)
    BY <1>2, <2>2, EndFacts DEF PartialRecord
  <2>7. promised <= n
    BY <1>2, <2>6, PromisedWithin
  <2>8. entry = "Synced"
    <3>1. ~(Len(file) <= HeaderUnits)
      BY ONLY <1>11, <2>6
    <3> QED BY <3>1 DEF IInv, FileInv
  <2>9. TypeOK'
    <3>1. reader' \in [next_offset : Nat, next_sequence : Nat,
                       sequence_exhausted : BOOLEAN]
      BY <2>3 DEF NoReader
    <3>2. scan' \in ScanResults
      BY <2>3 DEF NoScan, ScanResults
    <3> QED BY <1>3, <2>3, <2>4, <2>5, <3>1, <3>2 DEF IInv, TypeOK
  <2>10. FileInv' /\ WriterInv' /\ PromiseInv'
    BY <1>1, <1>3, <2>3, <2>4, FileKept
  <2>11. CallInv' /\ ScanInv'
    BY <1>1, <1>3, <2>3 DEF CallInv, ScanInv
  <2>12. TruncateInv'
    <3> HIDE DEF n
    <3> QED BY <1>1, <2>2, <2>3, <2>4, <2>5, <2>6, <2>7, <2>8 DEF TruncateInv
  <2>13. ResultInv'
    BY <1>1, <2>3, ResultReset
  <2> QED BY <2>9, <2>10, <2>11, <2>12, <2>13 DEF IInv
<1> QED BY <1>7, <1>8, <1>9, <1>10 DEF FirstScanEnds

LEMMA SecondScanEndsStep ==
  ASSUME IInv, ScanEnds, call = "Rescan", NEW error, SecondScanEnds(error)
  PROVE  IInv'
<1> DEFINE n == before.records
<1>1. /\ writer = "Stopped" /\ result.status = "None"
      /\ same_persisted_config(Config, expected)
  BY DEF IInv, CallInv
<1>2. /\ entry = "Synced" /\ promised <= n
      /\ before.last_valid_offset = End(n) /\ before.last_sequence = LastSequence(n)
      /\ End(n) < original_size /\ Holds(file, n) /\ Len(file) = End(n)
      /\ stable = file
  BY DEF IInv, TruncateInv
<1>3. /\ UNCHANGED <<writer, expected, crashes>>
      /\ promised' = IF result'.status = "Recovered" /\ result'.records > promised
                     THEN result'.records ELSE promised
  BY DEF ScanEnds
<1>4. n \in Nat /\ End(n) \in Nat /\ original_size \in Nat /\ promised \in Nat
  <2>1. n \in Nat /\ original_size \in Nat
    BY DEF IInv, TypeOK, ScanResults
  <2> QED BY <2>1, EndFacts, FileFacts
<1>5. expected' \in ExpectedConfigs
  BY <1>3 DEF IInv, TypeOK
<1>6. CASE Returns("Recovered", before, original_size, Len(file))
  <2>1. /\ CallEnds /\ UNCHANGED <<file, stable, entry>>
        /\ result'.status = "Recovered" /\ result'.records = n
        /\ result'.last_sequence = LastSequence(n) /\ result'.last_valid_offset = End(n)
        /\ result'.recovered_size = Len(file)
        /\ result'.removed_bytes = IF original_size >= Len(file)
                                   THEN original_size - Len(file) ELSE 0
    BY <1>2, <1>6, ReturnsFacts
  <2> HIDE DEF n
  <2>2. promised' = n
    BY <1>2, <1>3, <1>4, <2>1
  <2>3. n \in 0 .. MaxRecords
    BY <1>2, <1>4, EndWithinBounds DEF IInv, FileInv
  <2>4. result'.removed_bytes # 0
    BY <1>2, <1>4, <2>1
  <2>5. file = [k \in 1 .. End(n) |-> "Written"]
    BY <1>2, <1>4, FileFacts, WholeRecords
  <2>6. ResultExact'
    <3>1. /\ same_persisted_config(Config, expected')
          /\ file' = [k \in 1 .. result'.last_valid_offset |-> "Written"]
      BY <1>1, <1>3, <2>1, <2>5
    <3>2. /\ result'.last_valid_offset = HeaderUnits + result'.records * Stride
          /\ result'.recovered_size = Len(file')
          /\ result'.last_sequence = IF result'.records = 0 THEN 0
                                     ELSE Config.first_sequence + result'.records - 1
      BY <2>1 DEF End, LastSequence
    <3>3. result'.records >= promised'
      BY <1>4, <2>1, <2>2
    <3> QED BY <2>1, <2>4, <3>1, <3>2, <3>3 DEF ResultExact
  <2>7. ResultInv'
    BY <1>4, <2>1, <2>6 DEF ResultInv, RefusedOnlyIfDamaged
  <2>8. TypeOK'
    BY <1>3, <1>5, <2>1, <2>2, <2>3, CallEndsFacts DEF IInv, TypeOK
  <2>9. FileInv'
    BY <1>2, <2>1 DEF IInv, FileInv
  <2>10. WriterInv'
    BY <1>1, <1>3 DEF WriterInv
  <2>11. PromiseInv'
    BY <1>2, <2>1, <2>2 DEF PromiseInv
  <2>12. CallInv' /\ ScanInv' /\ TruncateInv'
    BY <2>1, CallEndsFacts
  <2> QED BY <2>7, <2>8, <2>9, <2>10, <2>11, <2>12 DEF IInv
<1>7. ASSUME NEW scanned, Returns("IoError", scanned, original_size, Len(file))
      PROVE  IInv'
  <2>1. promised' = promised
    BY <1>3, <1>7, ReturnsFacts
  <2> QED BY <1>1, <1>3, <1>5, <1>7, <2>1, ReturnsIoError
<1> QED BY <1>6, <1>7 DEF SecondScanEnds

LEMMA ScanEndsStep == IInv /\ ScanEnds => IInv'
<1> SUFFICES ASSUME IInv, ScanEnds PROVE IInv'
  OBVIOUS
<1>1. PICK error \in ReadNext(file, reader) \ {"None"} :
        \/ call = "Scan" /\ FirstScanEnds(error)
        \/ call = "Rescan" /\ SecondScanEnds(error)
  BY DEF ScanEnds
<1> QED BY <1>1, FirstScanEndsStep, SecondScanEndsStep

\* The file after the truncation.
LEMMA TruncatedFile ==
  ASSUME IInv, Truncate
  PROVE  /\ file' \in Seq(Units) /\ Len(file') = End(before.records)
         /\ End(before.records) \in Nat /\ End(before.records) < Len(file)
         /\ \A k \in 1 .. End(before.records) : file'[k] = file[k]
<1> DEFINE n == before.records
<1>1. /\ call = "Truncate" /\ file' = SubSeq(file, 1, before.last_valid_offset)
  BY DEF Truncate, KeptSize
<1>2. /\ before.last_valid_offset = End(n)
      /\ Len(file) = original_size /\ End(n) < original_size
  BY <1>1 DEF IInv, TruncateInv
<1>3. n \in Nat
  BY DEF IInv, TypeOK, ScanResults
<1>4. End(n) \in Nat /\ Len(file) \in Nat
  BY <1>3, EndFacts, FileFacts
<1> DEFINE size == End(n)
<1>5. size \in Nat /\ size < Len(file) /\ Len(file) \in Nat /\ 1 <= size
  <2>1. HeaderUnits <= size
    BY <1>3, EndFacts
  <2> QED BY <1>2, <1>4, <2>1, Sizes
<1>6. file' = SubSeq(file, 1, size)
  BY <1>1, <1>2
<1> HIDE DEF size
<1>7. \A k \in 1 .. size : file[k] \in Units
  BY <1>5, FileFacts DEF AreUnits
<1>8. /\ SubSeq(file, 1, size) \in Seq(Units)
      /\ Len(SubSeq(file, 1, size)) = IF 1 <= size THEN size - 1 + 1 ELSE 0
      /\ \A k \in 1 .. size - 1 + 1 : SubSeq(file, 1, size)[k] = file[1 + k - 1]
  <2>1. 1 \in Int /\ size \in Int
    BY <1>5
  <2> QED BY <1>7, <2>1, SubSeqProperties
<1>9. size - 1 + 1 = size /\ \A k \in 1 .. size : 1 + k - 1 = k
  BY <1>5
<1>10. /\ file' \in Seq(Units) /\ Len(file') = size
       /\ \A k \in 1 .. size : file'[k] = file[k]
  BY <1>5, <1>6, <1>8, <1>9
<1> QED BY <1>5, <1>10 DEF size

LEMMA TruncateStep == IInv /\ Truncate => IInv'
<1> SUFFICES ASSUME IInv, Truncate PROVE IInv'
  OBVIOUS
<1> DEFINE n == before.records
<1>1. /\ call = "Truncate" /\ call' = "Sync"
      /\ UNCHANGED <<stable, entry, writer, expected, original_size, before, reader, scan,
                     result, promised, crashes>>
  BY DEF Truncate, scanVars
<1>2. /\ entry = "Synced" /\ promised <= n
      /\ before.last_valid_offset = End(n) /\ before.last_sequence = LastSequence(n)
      /\ End(n) < original_size /\ Holds(file, n)
  BY <1>1 DEF IInv, TruncateInv
<1>3. /\ writer = "Stopped" /\ result.status = "None"
      /\ same_persisted_config(Config, expected)
  BY <1>1 DEF IInv, CallInv
<1>4. n \in Nat /\ promised \in Nat
  BY FileFacts DEF IInv, TypeOK, ScanResults
<1>5. /\ file' \in Seq(Units) /\ Len(file') = End(n)
      /\ End(n) \in Nat /\ End(n) < Len(file)
      /\ \A k \in 1 .. End(n) : file'[k] = file[k]
  BY TruncatedFile
<1>6. AreUnits(file')
  BY <1>5, UnitsOfSeq DEF Units
<1> HIDE DEF n
<1>7. Holds(file', n)
  <2>1. \A k \in 1 .. End(n) : file[k] = "Written"
    BY <1>2 DEF Holds, End
  <2>2. Len(file') >= End(n) /\ \A k \in 1 .. End(n) : file'[k] = "Written"
    BY <1>5, <2>1
  <2> QED BY <2>2 DEF Holds, End
<1>8. TypeOK'
  BY <1>1, <1>5 DEF IInv, TypeOK, Units
<1>9. FileInv'
  <2>1. SizeOK(End(n))
    BY <1>5, FileFacts, SizeOKMonotone DEF IInv, FileInv
  <2>2. \A k \in 1 .. Len(stable) : k <= Len(file') => file'[k] = stable[k]
    <3> SUFFICES ASSUME NEW k \in 1 .. Len(stable), k <= End(n)
                 PROVE  file'[k] = stable[k]
      BY <1>5
    <3>1. k \in 1 .. End(n) /\ k <= Len(file)
      BY <1>5, FileFacts
    <3> QED BY <1>5, <3>1 DEF IInv, FileInv
  <2> QED BY <1>1, <1>2, <1>5, <2>1, <2>2 DEF IInv, FileInv
<1>10. WriterInv'
  BY <1>1, <1>3 DEF WriterInv
<1>11. PromiseInv'
  <2>1. Holds(file', promised)
    BY <1>2, <1>4, <1>6, <1>7, HoldsLess
  <2> QED BY <1>1, <2>1 DEF IInv, PromiseInv
<1>12. CallInv' /\ ScanInv'
  BY <1>1, <1>3 DEF CallInv, ScanInv
<1>13. TruncateInv'
  BY <1>1, <1>2, <1>5, <1>7 DEF TruncateInv, n
<1>14. ResultInv'
  BY <1>1, <1>3, ResultReset
<1> QED BY <1>8, <1>9, <1>10, <1>11, <1>12, <1>13, <1>14 DEF IInv

LEMMA SyncTruncationStep == IInv /\ SyncTruncation => IInv'
<1> SUFFICES ASSUME IInv, SyncTruncation PROVE IInv'
  OBVIOUS
<1>1. /\ call = "Sync" /\ call' = "Reopen" /\ stable' = file
      /\ UNCHANGED <<file, entry, writer, expected, original_size, before, reader, scan,
                     result, promised, crashes>>
  BY DEF SyncTruncation, scanVars
<1>2. /\ writer = "Stopped" /\ result.status = "None"
      /\ same_persisted_config(Config, expected) /\ entry = "Synced"
  BY <1>1 DEF IInv, CallInv, TruncateInv
<1>3. TypeOK'
  BY <1>1 DEF IInv, TypeOK
<1>4. FileInv'
  BY <1>1, <1>2 DEF IInv, FileInv
<1>5. WriterInv' /\ PromiseInv'
  BY <1>1, <1>2 DEF IInv, WriterInv, PromiseInv
<1>6. CallInv' /\ ScanInv' /\ TruncateInv'
  BY <1>1, <1>2 DEF IInv, CallInv, ScanInv, TruncateInv
<1>7. ResultInv'
  BY <1>1, <1>2, ResultReset
<1> QED BY <1>3, <1>4, <1>5, <1>6, <1>7 DEF IInv

LEMMA ReopenStep == IInv /\ Reopen => IInv'
<1> SUFFICES ASSUME IInv, Reopen PROVE IInv'
  OBVIOUS
<1>1. /\ call = "Reopen" /\ UNCHANGED <<writer, expected, promised, crashes>>
  BY DEF Reopen
<1>2. /\ writer = "Stopped" /\ same_persisted_config(Config, expected)
      /\ Holds(file, before.records) /\ before.records \in Nat
  BY <1>1 DEF IInv, CallInv, TruncateInv, TypeOK, ScanResults
<1>3. expected' \in ExpectedConfigs
  BY <1>1 DEF IInv, TypeOK
<1>4. ASSUME NEW scanned, Returns("IoError", scanned, original_size, Len(file))
      PROVE  IInv'
  BY <1>1, <1>2, <1>3, <1>4, ReturnsIoError
<1>5. ASSUME ScanBegins("Rescan"), UNCHANGED <<fileVars, original_size, before>>
      PROVE  IInv'
  <2>1. Holds(file, 0)
    BY <1>2, FileFacts, HoldsLess
  <2>2. /\ call' = "Rescan" /\ result'.status = "None"
        /\ reader' \in [next_offset : Nat, next_sequence : Nat,
                        sequence_exhausted : BOOLEAN]
        /\ scan' \in ScanResults
        /\ ReaderAt(reader', scan'.records) /\ Holds(file, scan'.records)
        /\ scan'.error = "None" /\ scan'.last_valid_offset = End(scan'.records)
        /\ scan'.last_sequence = LastSequence(scan'.records)
    BY <1>5, <2>1, ScanBeginsFacts
  <2>3. UNCHANGED <<file, stable, entry, original_size, before>>
    BY <1>5 DEF fileVars
  <2>4. TypeOK'
    BY <1>1, <2>2, <2>3 DEF IInv, TypeOK
  <2>5. FileInv' /\ WriterInv' /\ PromiseInv'
    BY <1>1, <1>2, <2>3, FileKept
  <2>6. CallInv' /\ TruncateInv'
    BY <1>1, <1>2, <2>2, <2>3 DEF IInv, CallInv, TruncateInv
  <2>7. ScanInv'
    BY <2>2, <2>3 DEF ScanInv
  <2>8. ResultInv'
    BY <2>2, ResultReset
  <2> QED BY <2>4, <2>5, <2>6, <2>7, <2>8 DEF IInv
<1> QED BY <1>4, <1>5 DEF Reopen

LEMMA FailStep == IInv /\ Fail => IInv'
<1> SUFFICES ASSUME IInv, Fail PROVE IInv'
  OBVIOUS
<1>1. call # "None" /\ UNCHANGED <<writer, expected, promised, crashes>>
  BY DEF Fail
<1>2. writer = "Stopped" /\ expected' \in ExpectedConfigs
  BY <1>1 DEF IInv, CallInv, TypeOK
<1>3. \E scanned, original, recovered : Returns("IoError", scanned, original, recovered)
  BY DEF Fail
<1> QED BY <1>1, <1>2, <1>3, ReturnsIoError

-----------------------------------------------------------------------------
(* The theorems.                                                             *)

\* Whatever happens, the parts of the invariant keep each other.
THEOREM NextInv == IInv /\ [Next]_vars => IInv'
<1> SUFFICES ASSUME IInv, [Next]_vars PROVE IInv'
  OBVIOUS
<1>1. CASE UNCHANGED vars
  BY <1>1 DEF vars, fileVars, callVars, scanVars, IInv, TypeOK, FileInv, WriterInv,
              PromiseInv, CallInv, ScanInv, TruncateInv, ResultInv, ResultExact,
              RefusedOnlyIfDamaged
<1>2. CASE Next
  BY <1>2, CreateStep, WriteStep, SyncStep, SyncParentDirectoryStep, StopStep, CrashStep,
     KillStep, RecoverStep, ScanRecordStep, ScanEndsStep, TruncateStep,
     SyncTruncationStep, ReopenStep, FailStep DEF Next
<1> QED BY <1>1, <1>2

THEOREM Invariance == Spec => []IInv
<1>1. Init => IInv
  BY InitInv
<1>2. IInv /\ [Next]_vars => IInv'
  BY NextInv
<1> QED BY <1>1, <1>2, PTL DEF Spec

\* What was synced, and what a recovery kept, outlives every crash, also one in
\* the middle of a later recovery: PromisedSurvives.
THEOREM RecordsSurvive == Spec => []PromisedSurvives
<1>1. IInv => PromisedSurvives
  <2> SUFFICES ASSUME IInv, promised > 0
               PROVE  entry = "Synced" /\ \A f \in Survivors : Holds(f, promised)
    BY DEF PromisedSurvives
  <2>1. entry = "Synced"
    BY DEF IInv, FileInv
  <2> QED BY <2>1, SurvivorFacts
<1> QED BY <1>1, Invariance, PTL

\* A recovery that succeeds returns exactly what is in the file: RecoveredExact.
THEOREM RecoveriesExact == Spec => []RecoveredExact
<1>1. IInv => RecoveredExact
  BY DEF IInv, ResultInv, RecoveredExact
<1> QED BY <1>1, Invariance, PTL

\* A recovery that refuses a file has damage or another stream to show for it:
\* RefusedOnlyIfDamaged.
THEOREM RefusalsExplained == Spec => []RefusedOnlyIfDamaged
<1>1. IInv => RefusedOnlyIfDamaged
  BY DEF IInv, ResultInv
<1> QED BY <1>1, Invariance, PTL

\* A recovery removes an incomplete record behind complete ones, and nothing
\* else: RemovesOnlyTail.
THEOREM OnlyTailRemoved == Spec => RemovesOnlyTail
<1> DEFINE kept == Len(file')
           ends == {physical_record_header_size, PayloadEnd, Stride}
           Step == call = "Truncate" /\ call' = "Sync" =>
                     /\ same_persisted_config(Config, expected)
                     /\ kept < Len(file) /\ Len(file) < kept + Stride
                     /\ (kept - HeaderUnits) % Stride = 0
                     /\ Holds(file, (kept - HeaderUnits) \div Stride)
                     /\ \A end \in ends : kept + end <= Len(file) =>
                          ~Damaged(file, kept, end)
<1>1. IInv /\ [Next]_vars => [Step]_vars
  <2> SUFFICES ASSUME IInv, Next, call = "Truncate", call' = "Sync" PROVE Step
    OBVIOUS
  <2> DEFINE n == before.records
  <2>1. Truncate
    BY DEF Next, Create, Write, Sync, SyncParentDirectory, Stop, Crash, Kill, Recover,
           ScanRecord, ScanEnds, SyncTruncation, Reopen, Fail, CallEnds, Returns,
           ScanBegins, callVars
  <2>2. kept = End(n) /\ End(n) < Len(file)
    BY <2>1, TruncatedFile
  <2>3. /\ same_persisted_config(Config, expected)
        /\ Holds(file, n) /\ PartialRecord(file, n)
    BY DEF IInv, CallInv, TruncateInv
  <2>4. n \in Nat
    BY DEF IInv, TypeOK, ScanResults
  <2>5. /\ (kept - HeaderUnits) % Stride = 0
        /\ (kept - HeaderUnits) \div Stride = n
    BY <2>2, <2>4, EndInverse
  <2> QED BY <2>2, <2>3, <2>5 DEF PartialRecord
<1> QED BY <1>1, Invariance, PTL DEF Spec, RemovesOnlyTail
=============================================================================
