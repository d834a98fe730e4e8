------------------------------- MODULE Recovery -------------------------------
(***************************************************************************)
(* One physical WAL file: PhysicalWalAdapter creates and writes it piece by  *)
(* piece and syncs it, the process or the machine may stop at any point, and *)
(* recover_incomplete_tail() scans the remains with WalReader, truncates an  *)
(* incomplete last record, syncs and scans again.  It may fail or be cut     *)
(* short anywhere, and is called again, also for another configuration.      *)
(*                                                                           *)
(* The file is a sequence of units, each "Written" or "Damaged".  What a     *)
(* written unit holds follows from its offset, since one writer writes it    *)
(* once; a damaged one in a header makes a field unreadable.  file is what a *)
(* read returns, stable what the last sync made safe.                        *)
(*                                                                           *)
(* Environment: Survivors says what a stop of the machine leaves of the      *)
(* bytes written since the last sync, or of an unsynced truncation; the file *)
(* itself may be gone before its directory was synced.  Only that a          *)
(* truncation happens or does not is taken from journaling file systems.     *)
(* recover_incomplete_tail has the file to itself (recovery.hpp 42-45), and  *)
(* a padding fits the buffer of the reader.                                  *)
(* Bounds: MaxRecords and MaxCrashes.                                        *)
(***************************************************************************)
EXTENDS WalFormat, Integers, Sequences

CONSTANTS Config,           \* the WalConfig the file is created with
          ExpectedConfigs,  \* the ones recovery is called with
          Garbage,          \* the value of a damaged field
          MaxRecords,       \* bound on the records
          MaxCrashes        \* bound on the stops of the machine

ASSUME RecoveryAssumption ==
  /\ Config \in WalConfig /\ valid_config(Config) /\ Config \in ExpectedConfigs
  /\ MaxRecords \in Nat /\ MaxCrashes \in Nat

VARIABLES
  file,           \* the units of the file
  stable,         \* the units as of the last sync
  entry,          \* its directory entry: "None", "Unsynced" or "Synced"
  writer,         \* "Creating", "Open", or "Stopped"
  call,           \* where recover_incomplete_tail is, "None" outside of it
  expected,       \* its argument
  original_size,  \* its locals: the size of the file at first, ...
  before,         \* ... and the result of the first scan
  reader,         \* the WalReader of the scan going on
  scan,           \* the ScanResult of the scan going on
  result,         \* RecoveryResult of the last call
  promised,       \* history: records that were synced, or kept by a Recovered
  crashes

fileVars == <<file, stable, entry>>
scanVars == <<reader, scan>>
callVars == <<call, expected, original_size, before, scanVars, result>>
vars == <<fileVars, writer, callVars, promised, crashes>>

NoReader == [next_offset |-> 0, next_sequence |-> 0, sequence_exhausted |-> FALSE]
NoScan == [error |-> "None", records |-> 0, last_sequence |-> 0,
           last_valid_offset |-> 0]

result_from_scan(status, scanned, original, recovered) ==
  [status |-> status, error |-> scanned.error, records |-> scanned.records,
   last_sequence |-> scanned.last_sequence,
   last_valid_offset |-> scanned.last_valid_offset,
   original_size |-> original, recovered_size |-> recovered,
   removed_bytes |-> IF original >= recovered THEN original - recovered ELSE 0]

NoResult == result_from_scan("None", NoScan, 0, 0)

Init == /\ file = <<>> /\ stable = <<>> /\ entry = "None"
        /\ writer = "Stopped"
        /\ call = "None" /\ expected = Config /\ original_size = 0 /\ before = NoScan
        /\ reader = NoReader /\ scan = NoScan /\ result = NoResult
        /\ promised = 0 /\ crashes = 0

-----------------------------------------------------------------------------
(* The writer: create, append_record and sync.                               *)

HeaderUnits == physical_file_header_size + file_header_padding_size(Config)
PayloadEnd == physical_record_header_size + Config.payload_size
Stride == PayloadEnd + padding_size(Config)

RecordsBegun == (Len(file) - HeaderUnits + Stride - 1) \div Stride
AtBoundary == (Len(file) - HeaderUnits) % Stride = 0

\* What it writes: the payload of a record is named by its sequence.
FileHeaderBytes == serialize_file_header(FileHeader(Config))
RecordHeaderBytes ==
  [k \in 0 .. MaxRecords |->
     serialize_record_header(RecordHeader(Config.first_sequence + k,
                                          Config.first_sequence + k))]

\* A damaged field is read as a value that was not written there.
ASSUME GarbageAssumption ==
  \A bytes \in {FileHeaderBytes} \cup {RecordHeaderBytes[k] : k \in 0 .. MaxRecords} :
    \A at \in DOMAIN bytes : bytes[at] # Garbage

\* The exclusive creation of the file; it fails while there is one.
Create ==
  /\ writer = "Stopped" /\ call = "None" /\ entry = "None"
  /\ writer' = "Creating" /\ entry' = "Unsynced"
  /\ result' = NoResult
  /\ UNCHANGED <<file, stable, call, expected, original_size, before, scanVars,
                 promised, crashes>>

\* One more unit of a write.  Records of a batch follow each other; the ring
\* hands out no sequence behind the last one.
Write ==
  /\ \/ writer = "Creating" /\ Len(file) < HeaderUnits
     \/ writer = "Open" /\ (AtBoundary =>
          /\ RecordsBegun < MaxRecords
          /\ Config.first_sequence + RecordsBegun <= UInt64Max)
  /\ file' = Append(file, "Written")
  /\ UNCHANGED <<stable, entry, writer, callVars, promised, crashes>>

\* The sync of the file header, or of a batch of complete records.
Sync ==
  /\ file # stable
  /\ \/ writer = "Creating" /\ Len(file) = HeaderUnits
     \/ writer = "Open" /\ AtBoundary
  /\ stable' = file /\ promised' = RecordsBegun
  /\ UNCHANGED <<file, entry, writer, callVars, crashes>>

\* Mutation of SyncParentDirectory: create ends without it, as on Windows.
SyncParentDirectorySkipped ==
  /\ writer = "Creating" /\ Len(file) = HeaderUnits /\ stable = file
  /\ writer' = "Open"
  /\ UNCHANGED <<fileVars, callVars, promised, crashes>>

\* sync_parent_directory, the end of create.
SyncParentDirectory ==
  /\ writer = "Creating" /\ Len(file) = HeaderUnits /\ stable = file
  /\ entry' = "Synced" /\ writer' = "Open"
  /\ UNCHANGED <<file, stable, callVars, promised, crashes>>

\* A write or a sync fails, the file is closed, or the process is killed.  Only
\* a process ends here: what it has written stays readable.
Stop ==
  /\ writer # "Stopped"
  /\ writer' = "Stopped"
  /\ UNCHANGED <<fileVars, callVars, promised, crashes>>

-----------------------------------------------------------------------------
(* Crashes.                                                                  *)

\* What may be left of the file: bytes written after the sync survive in any
\* combination and up to any length; a truncation happens or does not.
Survivors ==
  IF Len(file) < Len(stable) THEN {stable, file}
  ELSE UNION {{f \in [1 .. n -> {"Written", "Damaged"}] :
                 \A k \in 1 .. Len(stable) : f[k] = stable[k]} :
              n \in Len(stable) .. Len(file)}

CallEnds ==
  /\ call' = "None" /\ original_size' = 0 /\ before' = NoScan
  /\ reader' = NoReader /\ scan' = NoScan

Crash ==
  /\ crashes < MaxCrashes
  /\ \/ /\ \E f \in Survivors : file' = f /\ stable' = f
        /\ entry' = IF entry = "None" THEN "None" ELSE "Synced"
     \/ /\ entry = "Unsynced"
        /\ file' = <<>> /\ stable' = <<>> /\ entry' = "None"
  /\ writer' = "Stopped"
  /\ CallEnds /\ expected' = Config /\ result' = NoResult
  /\ crashes' = crashes + 1
  /\ UNCHANGED promised

\* The process that recovers is killed.
Kill ==
  /\ call # "None"
  /\ CallEnds /\ expected' = Config /\ result' = NoResult
  /\ UNCHANGED <<fileVars, writer, promised, crashes>>

-----------------------------------------------------------------------------
(* PhysicalWalReaderAdapter and WalReader.                                   *)

read(f, offset, size) ==
  IF offset + size <= Len(f) THEN "Complete"
  ELSE IF offset >= Len(f) THEN "EndOfFile" ELSE "Incomplete"

Damaged(f, offset, size) == \E k \in offset + 1 .. offset + size : f[k] = "Damaged"

\* The bytes of a header as they may be read.
Readings(bytes, damaged) ==
  IF damaged THEN {[bytes EXCEPT ![at] = Garbage] : at \in DOMAIN bytes} ELSE {bytes}

read_zero_padding(f, offset, size, incomplete_error) ==
  IF offset + size > Len(f) THEN incomplete_error
  ELSE IF Damaged(f, offset, size) THEN "NonZeroPadding" ELSE "None"

\* open: the errors it may return for an existing file, or "None".
OpenErrors(f, config) ==
  LET errors == {FileHeaderError(deserialize_file_header(bytes), config) :
                   bytes \in Readings(FileHeaderBytes,
                                      Damaged(f, 0, physical_file_header_size))}
      error == read_zero_padding(f, physical_file_header_size,
                 records_offset(config) - physical_file_header_size,
                 "IncompleteFileHeader")
  IN  IF read(f, 0, physical_file_header_size) # "Complete" THEN {"IncompleteFileHeader"}
      ELSE IF errors # {"None"} THEN errors
      ELSE IF error = "NonZeroPadding" THEN {"InvalidPhysicalLayout"} ELSE {error}

\* The record header at an offset; a record of the writer begins there or not.
RecordHeaderErrors(f, r) ==
  LET begun == r.next_offset - HeaderUnits
      damaged == Damaged(f, r.next_offset, physical_record_header_size)
  IN  {RecordHeaderError(deserialize_record_header(bytes),
                         r.next_sequence, r.sequence_exhausted) :
         bytes \in Readings(RecordHeaderBytes[begun \div Stride],
                            damaged \/ begun % Stride # 0)}

\* Mutation of ReadNext: a header cut short is taken for the end.
ReadNextLenient(f, r) ==
  LET payload == r.next_offset + physical_record_header_size
      size == Config.payload_size
  IN  IF read(f, r.next_offset, physical_record_header_size) # "Complete"
      THEN {"EndOfLog"}
      ELSE IF RecordHeaderErrors(f, r) # {"None"} THEN RecordHeaderErrors(f, r)
      ELSE IF read(f, payload, size) # "Complete" THEN {"IncompletePayload"}
      ELSE IF Damaged(f, payload, size) THEN {"InvalidPayloadCrc"}
      ELSE {read_zero_padding(f, payload + size,
              aligned_record_size(Config) - physical_record_header_size - size,
              "IncompletePadding")}

\* read_next: "EndOfLog", "None" for a record, or the errors it may return.
ReadNext(f, r) ==
  LET header == read(f, r.next_offset, physical_record_header_size)
      payload == r.next_offset + physical_record_header_size
      size == Config.payload_size
  IN  IF header = "EndOfFile" THEN {"EndOfLog"}
      ELSE IF header # "Complete" THEN {"IncompleteRecordHeader"}
      ELSE IF RecordHeaderErrors(f, r) # {"None"} THEN RecordHeaderErrors(f, r)
      ELSE IF read(f, payload, size) # "Complete" THEN {"IncompletePayload"}
      ELSE IF Damaged(f, payload, size) THEN {"InvalidPayloadCrc"}
      ELSE {read_zero_padding(f, payload + size,
              aligned_record_size(Config) - physical_record_header_size - size,
              "IncompletePadding")}

\* Mutation of scan_status_for: IncompleteRecordHeader is not among them.
ScanStatusForWholeHeaders(error) ==
  IF error \in {"IncompletePayload", "IncompletePadding"}
  THEN "IncompleteTail" ELSE "Corrupted"

scan_status_for(error) ==
  IF error \in {"IncompleteRecordHeader", "IncompletePayload", "IncompletePadding"}
  THEN "IncompleteTail" ELSE "Corrupted"

-----------------------------------------------------------------------------
(* recover_incomplete_tail                                                   *)

Returns(status, scanned, original, recovered) ==
  /\ CallEnds
  /\ result' = result_from_scan(status, scanned, original, recovered)
  /\ UNCHANGED fileVars

ScanOf(error) == [NoScan EXCEPT !.error = error]
ScanEndedBy(error) == [scan EXCEPT !.error = error]

\* A scan begins with the reader behind the file header.
ScanBegins(at) ==
  /\ call' = at
  /\ reader' = [next_offset |-> records_offset(Config),
                next_sequence |-> Config.first_sequence, sequence_exhausted |-> FALSE]
  /\ scan' = [NoScan EXCEPT !.last_valid_offset = records_offset(Config)]
  /\ result' = NoResult

\* Its first file_size, and open of the first scan.
Recover ==
  /\ writer = "Stopped" /\ call = "None"
  /\ expected' \in ExpectedConfigs
  /\ LET config == expected'
     IN  \/ Returns("IoError", ScanOf("IoError"), 0, 0)
         \/ /\ entry # "None" /\ ~valid_reader_config(config)
            /\ Returns("InvalidConfig", NoScan, Len(file), Len(file))
         \/ /\ entry # "None" /\ valid_reader_config(config)
            /\ \/ Returns("IoError", ScanOf("IoError"), Len(file), Len(file))
               \/ \E error \in OpenErrors(file, config) :
                    \/ /\ error # "None"
                       /\ Returns("Refused", ScanOf(error), Len(file), Len(file))
                    \/ /\ error = "None"
                       /\ ScanBegins("Scan")
                       /\ original_size' = Len(file)
                       /\ UNCHANGED <<fileVars, before>>
  /\ UNCHANGED <<writer, promised, crashes>>

\* The next record of a scan.
ScanRecord ==
  /\ call \in {"Scan", "Rescan"} /\ "None" \in ReadNext(file, reader)
  /\ reader' = [next_offset |-> reader.next_offset + aligned_record_size(Config),
                next_sequence |-> IF reader.next_sequence = UInt64Max THEN UInt64Max
                                  ELSE reader.next_sequence + 1,
                sequence_exhausted |-> reader.next_sequence = UInt64Max]
  /\ scan' = [scan EXCEPT !.records = @ + 1, !.last_sequence = reader.next_sequence,
                          !.last_valid_offset = reader'.next_offset]
  /\ UNCHANGED <<fileVars, writer, call, expected, original_size, before, result,
                 promised, crashes>>

\* What was scanned is kept for the truncation; the scan is over.
Truncates(error) ==
  /\ call' = "Truncate"
  /\ before' = ScanEndedBy(error) /\ reader' = NoReader /\ scan' = NoScan
  /\ UNCHANGED <<fileVars, original_size, result>>

\* Mutation of FirstScanEnds: what is damaged is cut off too.
FirstScanEndsBroadly(error) ==
  \/ error = "EndOfLog" /\ Returns("Clean", scan, original_size, original_size)
  \/ error # "EndOfLog" /\ Truncates(error)

FirstScanEnds(error) ==
  \/ error = "EndOfLog" /\ Returns("Clean", scan, original_size, original_size)
  \/ /\ error # "EndOfLog" /\ scan_status_for(error) = "Corrupted"
     /\ Returns("Refused", ScanEndedBy(error), original_size, original_size)
  \/ /\ error # "EndOfLog" /\ scan_status_for(error) = "IncompleteTail"
     /\ IF scan.last_valid_offset > original_size
        THEN Returns("IoError", ScanEndedBy(error), original_size, original_size)
        ELSE Truncates(error)

\* The scan that verifies: it must end where the first one did.
SecondScanEnds(error) ==
  IF error = "EndOfLog" /\ Len(file) = before.last_valid_offset
       /\ scan = [before EXCEPT !.error = "None"]
  THEN Returns("Recovered", before, original_size, Len(file))
  ELSE Returns("IoError", ScanEndedBy(IF error = "EndOfLog" THEN "None" ELSE error),
               original_size, Len(file))

ScanEnds ==
  /\ call \in {"Scan", "Rescan"}
  /\ \E error \in ReadNext(file, reader) \ {"None"} :
       \/ call = "Scan" /\ FirstScanEnds(error)
       \/ call = "Rescan" /\ SecondScanEnds(error)
  /\ promised' = IF result'.status = "Recovered" /\ result'.records > promised
                 THEN result'.records ELSE promised
  /\ UNCHANGED <<writer, expected, crashes>>

\* Mutation of KeptSize: the records are counted, the file header is forgotten.
KeptSizeOfRecords == before.records * Stride

KeptSize == before.last_valid_offset

\* truncate_and_sync, first the truncation, ...
Truncate ==
  /\ call = "Truncate"
  /\ file' = SubSeq(file, 1, KeptSize)
  /\ call' = "Sync"
  /\ UNCHANGED <<stable, entry, writer, expected, original_size, before, scanVars,
                 result, promised, crashes>>

\* ... then the sync.
SyncTruncation ==
  /\ call = "Sync"
  /\ stable' = file
  /\ call' = "Reopen"
  /\ UNCHANGED <<file, entry, writer, expected, original_size, before, scanVars,
                 result, promised, crashes>>

\* The second file_size, and open of the second scan.
Reopen ==
  /\ call = "Reopen"
  /\ \E error \in OpenErrors(file, expected) :
       \/ /\ error # "None"
          /\ Returns("IoError", ScanOf(error), original_size, Len(file))
       \/ /\ error = "None" /\ ScanBegins("Rescan")
          /\ UNCHANGED <<fileVars, original_size, before>>
  /\ UNCHANGED <<writer, expected, promised, crashes>>

\* A read, an open, the truncation, its sync, a file_size or an allocation fails.
Fail ==
  /\ \/ /\ call = "Scan"
        /\ Returns("IoError", ScanEndedBy("IoError"), original_size, original_size)
     \/ /\ call \in {"Truncate", "Sync"}
        /\ \E recovered \in {Len(file), original_size} :
             Returns("IoError", before, original_size, recovered)
     \/ /\ call = "Reopen"
        /\ \/ Returns("IoError", before, original_size, before.last_valid_offset)
           \/ Returns("IoError", ScanOf("IoError"), original_size, Len(file))
     \/ /\ call = "Rescan"
        /\ Returns("IoError", ScanEndedBy("IoError"), original_size, Len(file))
  /\ UNCHANGED <<writer, expected, promised, crashes>>

Next == Create \/ Write \/ Sync \/ SyncParentDirectory \/ Stop \/ Crash \/ Kill
          \/ Recover \/ ScanRecord \/ ScanEnds \/ Truncate \/ SyncTruncation
          \/ Reopen \/ Fail

Spec == Init /\ [][Next]_vars

-----------------------------------------------------------------------------
(* Properties.                                                               *)

ScanResults ==
  [error : {"None", "IncompleteRecordHeader", "IncompletePayload", "IncompletePadding"},
   records : Nat, last_sequence : Nat, last_valid_offset : Nat]

TypeOK ==
  /\ file \in Seq({"Written", "Damaged"}) /\ stable \in Seq({"Written", "Damaged"})
  /\ entry \in {"None", "Unsynced", "Synced"}
  /\ writer \in {"Creating", "Open", "Stopped"}
  /\ call \in {"None", "Scan", "Truncate", "Sync", "Reopen", "Rescan"}
  /\ expected \in ExpectedConfigs /\ original_size \in Nat
  /\ reader \in [next_offset : Nat, next_sequence : Nat, sequence_exhausted : BOOLEAN]
  /\ scan \in ScanResults /\ before \in ScanResults
  /\ result.status \in {"None", "Clean", "Recovered", "Refused", "InvalidConfig",
                        "IoError"}
  /\ promised \in 0 .. MaxRecords /\ crashes \in 0 .. MaxCrashes

\* The file begins with its header and n intact records.
Holds(f, n) ==
  /\ Len(f) >= HeaderUnits + n * Stride
  /\ \A k \in 1 .. HeaderUnits + n * Stride : f[k] = "Written"

\* Whatever happens, and when it happens in the middle of a recovery, a crash
\* leaves the file, with every record that was ever synced, or that a recovery
\* returned after cutting off a tail.
PromisedSurvives ==
  promised > 0 => entry = "Synced" /\ \A f \in Survivors : Holds(f, promised)

\* A recovery that succeeds was asked for this stream, leaves complete records
\* and nothing else, and reports them rightly; they include the promised ones.
ResultExact ==
  result.status \in {"Clean", "Recovered"} =>
    /\ same_persisted_config(Config, expected)
    /\ file = [k \in 1 .. result.last_valid_offset |-> "Written"]
    /\ result.last_valid_offset = HeaderUnits + result.records * Stride
    /\ result.recovered_size = Len(file)
    /\ result.last_sequence = IF result.records = 0 THEN 0
                              ELSE Config.first_sequence + result.records - 1
    /\ result.records >= promised
    /\ result.status = "Clean" <=> result.removed_bytes = 0

\* What a recovery returns is exact, and every variable has its type.
RecoveredExact == TypeOK /\ ResultExact

\* recovery.hpp 38-41: only an incomplete tail is removed, and only for the
\* identity the file has.  A recovery removes less than one record, behind valid
\* records only, and never a damaged part that is complete.
RemovesOnlyTail ==
  [][call = "Truncate" /\ call' = "Sync" =>
       LET kept == Len(file')
           ends == {physical_record_header_size, PayloadEnd, Stride}
       IN  /\ same_persisted_config(Config, expected)
           /\ kept < Len(file) /\ Len(file) < kept + Stride
           /\ (kept - HeaderUnits) % Stride = 0
           /\ Holds(file, (kept - HeaderUnits) \div Stride)
           /\ \A end \in ends : kept + end <= Len(file) =>
                ~Damaged(file, kept, end)]_vars

\* A recovery refuses only a file of another stream, one that was never created
\* completely, and one whose unsynced bytes were damaged: bytes that are merely
\* missing, from a kill, from a crash or from a recovery that was cut short, are
\* always recovered.
RefusedOnlyIfDamaged ==
  /\ result.status = "InvalidConfig" => ~valid_reader_config(expected)
  /\ result.status = "Refused" =>
       \/ result.error = "IncompleteFileHeader" /\ Len(file) < HeaderUnits
       \/ /\ result.error = "IdentityMismatch"
          /\ ~same_persisted_config(Config, expected)
       \/ /\ result.error \notin {"IncompleteFileHeader", "IdentityMismatch",
                                  "UnexpectedSequence"}
          /\ \E k \in 1 .. Len(file) : file[k] = "Damaged"

-----------------------------------------------------------------------------
(* A statement of FILE_FORMAT.md that the code does not keep.                *)

\* FILE_FORMAT.md 111: every complete record in the prefix is authoritative
\* history.  The records of a successful recovery survive a later crash.
AuthoritativeSurvives ==
  result.status \in {"Clean", "Recovered"} =>
    \A f \in Survivors : Holds(f, result.records)
=============================================================================
