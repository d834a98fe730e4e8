--------------------------- MODULE ApplicationRecord ---------------------------
(***************************************************************************)
(* The application records of Demo 006.  A payload is its size and the       *)
(* fields written into it: a function from the offset of a field to its      *)
(* value.  Every other byte is zero, as in the array the encoders start      *)
(* from.  The 48 bytes of data are one field.                                *)
(***************************************************************************)
EXTENDS Naturals

kApplicationMagic == 36303044        \* "D006"
kApplicationVersion == 1
kApplicationPayloadSize == 64
Data == 1                            \* RecordKind
SaveSnapshot == 2

Get(bytes, at) == IF at \in DOMAIN bytes THEN bytes[at] ELSE 0

\* What the encoders write at an offset.
PutRecord(at, kind, generation, data) ==
  CASE at = 0 -> kApplicationMagic [] at = 4 -> kApplicationVersion
    [] at = 6 -> kind [] at = 8 -> generation [] at = 16 -> data

Payload(kind, generation, data) ==
  [size |-> kApplicationPayloadSize,
   bytes |-> [at \in {0, 4, 6, 8, 16} |-> PutRecord(at, kind, generation, data)]]

encode_data(data) == Payload(Data, 0, data)

encode_save_snapshot(generation_id) == Payload(SaveSnapshot, generation_id, 0)

decode_record(payload) ==
  LET Field(at) == Get(payload.bytes, at)
      status == IF payload.size # kApplicationPayloadSize THEN "InvalidSize"
                ELSE IF Field(0) # kApplicationMagic THEN "InvalidMagic"
                ELSE IF Field(4) # kApplicationVersion THEN "UnsupportedVersion"
                ELSE IF Field(6) \notin {Data, SaveSnapshot} THEN "InvalidKind"
                ELSE IF Field(6) = Data /\ Field(8) # 0 THEN "InvalidGeneration"
                ELSE IF Field(6) = SaveSnapshot /\ Field(16) # 0
                     THEN "NonZeroSnapshotData"
                ELSE "Ok"
  IN  [status |-> status, kind |-> Field(6), generation_id |-> Field(8)]
=============================================================================
