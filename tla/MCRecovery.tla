------------------------------ MODULE MCRecovery ------------------------------
(* Recovery for TLC: a file header of three units and its padding, records   *)
(* of four units whose header can be cut in the middle, the last sequences.   *)
EXTENDS Recovery

MCConfig ==
  [payload_size |-> 1, capacity |-> 2, alignment |-> 4,
   payload_schema_version |-> 2, stream_kind |-> "Command", stream_id |-> 1,
   epoch_id |-> 1, first_sequence |-> UInt64Max - 1, manifest_id |-> 1]

\* This stream, the one of another epoch, and no configuration at all.
MCExpectedConfigs ==
  {MCConfig, [MCConfig EXCEPT !.epoch_id = 2], [MCConfig EXCEPT !.alignment = 6]}

-----------------------------------------------------------------------------
(* The format for all small sizes.                                            *)

Layouts == {[MCConfig EXCEPT !.payload_size = p, !.alignment = a, !.capacity = c] :
              p \in 0 .. UInt32Max, a \in 0 .. 2 * UInt32Max, c \in 0 .. 2}

\* Records and their area begin at multiples of the alignment, and the writer
\* leaves the padding that the reader expects, though it adds in 32 bits.
ASSUME LayoutExact ==
  \A config \in Layouts : valid_config(config) =>
    /\ records_offset(config) % config.alignment = 0
    /\ records_offset(config) - physical_file_header_size \in 0 .. config.alignment - 1
    /\ aligned_record_size(config) % config.alignment = 0
    /\ padding_size(config) = aligned_record_size(config)
                                - physical_record_header_size - config.payload_size
    /\ padding_size(config) \in 0 .. config.alignment - 1

\* One other value for each persisted field.
Others == {[MCConfig EXCEPT ![field] = IF field = "stream_kind" THEN "Event"
                                       ELSE IF field = "alignment" THEN 2
                                       ELSE MCConfig[field] - 1 + 2 * (MCConfig[field] % 2)] :
             field \in PersistedFields}

\* A reader accepts the header of the stream it expects, and no other.
ASSUME HeaderExact ==
  \A config, wanted \in {MCConfig} \cup {o \in Others : valid_reader_config(o)} :
    LET header == deserialize_file_header(serialize_file_header(FileHeader(config)))
    IN  FileHeaderError(header, wanted)
          = IF same_persisted_config(config, wanted) THEN "None" ELSE "IdentityMismatch"
=============================================================================
