----------------------------- MODULE SnapshotTract -----------------------------
(***************************************************************************)
(* The snapshot tract of Demo 006.  Two stateful modules follow the durable  *)
(* log through their sliders, each captures its state at every SaveSnapshot  *)
(* record, CaptureGenerationCoordinator joins the captures, SnapshotSink     *)
(* publishes the generation as a directory, one file-system call at a time,  *)
(* and releases it.  The composition reclaims behind the last stage.  After  *)
(* a crash a published generation is loaded and the log is replayed from     *)
(* its end.                                                                  *)
(*                                                                           *)
(* log holds the durable payloads (Wal models how they get there).  A digest *)
(* is the sequence of the positions folded into it, and a record counts as   *)
(* one bit.                                                                  *)
(*                                                                           *)
(* Environment: collect and release run between process calls, as in the     *)
(* tests; after a restart the log is replayed and not extended, for the      *)
(* writer only creates new files.  A crash keeps what was synced, and of the *)
(* rest any part: entries of a directory that was not synced, and a rename   *)
(* whose parent was not.  That is POSIX; on Windows sync_directory does      *)
(* nothing.  While the system is down a directory may be damaged.            *)
(* Bounds: MaxRecords, MaxCrashes, and MaxFaults on malformed records,       *)
(* failing file-system calls and damages together.                           *)
(***************************************************************************)
EXTENDS Integers, Sequences, Functions, SnapshotFormat

CONSTANTS Capacity,    \* of the ring
          MaxRecords, MaxFaults, MaxCrashes

ASSUME TractAssumption == /\ Capacity \in Nat \ {0}
                          /\ {MaxRecords, MaxFaults, MaxCrashes} \subseteq Nat
                          /\ MaxPosition \in Nat /\ MaxPosition >= MaxRecords

Stages == {"hash", "bits"}
Positions == 0 .. MaxRecords - 1

\* The identity of the composition, valid for the sink and the loader.
Identity == [stream_kind |-> "Command", stream_id |-> 1, epoch_id |-> 1,
             manifest_id |-> 1, composition_id |-> 1]

VARIABLES
  log, tail,       \* the durable payloads, and the reclaimed end
  phase,           \* "Live", "Down" after a crash, "Replay" after a restart
  module,          \* of each stage: state_ and capture_ (at most one)
  current,         \* of each stage: current_ of its slider
  frontier,        \* of each stage: its Progress
  generation,      \* generation_ of the coordinator, a sequence of at most one
  sink,            \* the file-system call that save makes next
  staging,         \* snapshot-N.pending: its files, and if they are synced
  published,       \* of each position: the directory snapshot-N, or none
  released,        \* history: generations whose save returned Ok
  faults, crashes

tractVars == <<module, current, frontier>>
diskVars == <<staging, published>>
boundVars == <<faults, crashes>>
vars == <<log, tail, phase, tractVars, generation, sink, diskVars, released,
          boundVars>>

NoFiles == [name \in {} |-> 0]
NoDirectory == [there |-> FALSE, durable |-> FALSE, files |-> NoFiles,
                synced |-> FALSE, damaged |-> FALSE]
NoStaging == [files |-> NoFiles, synced |-> FALSE]

HashChainState == [processed_end |-> 0, digest |-> <<>>, failed |-> FALSE]
BitAccumulatorState == [processed_end |-> 0, total_one_bits |-> 0,
                        rolling_bits |-> <<>>, failed |-> FALSE]
Module(state) == [state |-> state, capture |-> <<>>]
NewModules == [s \in Stages |-> Module(IF s = "hash" THEN HashChainState
                                       ELSE BitAccumulatorState)]

Init == /\ log = <<>> /\ tail = 0 /\ phase = "Live"
        /\ module = NewModules
        /\ current = [s \in Stages |-> 0] /\ frontier = [s \in Stages |-> 0]
        /\ generation = <<>> /\ sink = "Idle"
        /\ staging = NoStaging
        /\ published = [g \in Positions |-> NoDirectory]
        /\ released = {} /\ faults = 0 /\ crashes = 0

-----------------------------------------------------------------------------
(* The modules: what process makes of a record.                              *)

Sequence(position) == position + 1

HashFold(state, position) ==
  [processed_end |-> state.processed_end + 1,
   digest |-> Append(state.digest, position), failed |-> state.failed]

BitFold(state, position) ==
  [processed_end |-> state.processed_end + 1,
   total_one_bits |-> state.total_one_bits + 1,
   rolling_bits |-> Append(state.rolling_bits, position), failed |-> state.failed]

\* The checks of process, the same in both modules.
Unprocessable(m, position, payload) ==
  LET decoded == decode_record(payload)
  IN  \/ m.state.failed \/ position # m.state.processed_end
      \/ decoded.status # "Ok"
      \/ decoded.kind = SaveSnapshot /\ decoded.generation_id # position

\* Refused and left for a retry: the slot of the capture is occupied.
SlotOccupied(m, payload) ==
  decode_record(payload).kind = SaveSnapshot /\ m.capture # <<>>

\* m after process, where state is what folding the record gives.  A capture is
\* taken after the fold.
Processed(m, position, payload, state) ==
  IF Unprocessable(m, position, payload)
  THEN [m EXCEPT !.state.failed = TRUE]
  ELSE IF SlotOccupied(m, payload) THEN m
  ELSE [state |-> state,
        capture |-> IF decode_record(payload).kind = SaveSnapshot
                    THEN <<[generation_id |-> decode_record(payload).generation_id,
                            record_position |-> position,
                            processed_end |-> state.processed_end,
                            sequence |-> Sequence(position), state |-> state]>>
                    ELSE m.capture]

HashProcess(m, position, payload) ==
  Processed(m, position, payload, HashFold(m.state, position))

BitProcess(m, position, payload) ==
  Processed(m, position, payload, BitFold(m.state, position))

-----------------------------------------------------------------------------
(* Producer and sliders.                                                     *)

\* What a producer never writes, but the modules check.
Malformed(position) ==
  {[encode_data(1) EXCEPT !.size = 63], [encode_data(1) EXCEPT !.bytes[0] = 0],
   [encode_data(1) EXCEPT !.bytes[4] = 2], Payload(3, 0, 1), Payload(Data, 1, 1),
   Payload(SaveSnapshot, position, 1), encode_save_snapshot(position + 1)}

WellFormed(position) == {encode_data(1), encode_save_snapshot(position)}

Produce(payload) ==
  /\ phase = "Live"
  /\ Len(log) < MaxRecords /\ Len(log) - tail < Capacity
  /\ \/ payload \in WellFormed(Len(log)) /\ UNCHANGED faults
     \/ payload \in Malformed(Len(log)) /\ faults < MaxFaults
                                        /\ faults' = faults + 1
  /\ log' = Append(log, payload)
  /\ UNCHANGED <<tail, phase, tractVars, generation, sink, diskVars, released,
                 crashes>>

Upstream(stage) == IF stage = "hash" THEN Len(log) ELSE frontier["hash"]

\* process_available of a slider, up to its module's process.
Process(stage) ==
  LET position == current[stage]
      m == module[stage]
      processed == IF stage = "hash"
                   THEN HashProcess(m, position, log[position + 1])
                   ELSE BitProcess(m, position, log[position + 1])
  IN  /\ phase # "Down"
      /\ frontier[stage] = position /\ position < Upstream(stage)
      /\ phase = "Live" => tail <= position
      /\ processed # m
      /\ module' = [module EXCEPT ![stage] = processed]
      /\ current' = [current EXCEPT ![stage] =
                       IF processed.state.failed THEN @ ELSE @ + 1]
      /\ UNCHANGED <<log, tail, phase, frontier, generation, sink, diskVars,
                     released, boundVars>>

\* OnePositionPublish
Publish(stage) ==
  /\ phase # "Down" /\ frontier[stage] < current[stage]
  /\ frontier' = [frontier EXCEPT ![stage] = current[stage]]
  /\ UNCHANGED <<log, tail, phase, module, current, generation, sink, diskVars,
                 released, boundVars>>

\* The tail follows the last stage.
Reclaim == /\ phase = "Live" /\ tail < frontier["bits"]
           /\ tail' = frontier["bits"]
           /\ UNCHANGED <<log, phase, tractVars, generation, sink, diskVars,
                          released, boundVars>>

-----------------------------------------------------------------------------
(* CaptureGenerationCoordinator                                              *)

\* The captures are there and agree.
Agree(hash, bits) ==
  /\ hash.generation_id = bits.generation_id
  /\ hash.record_position = bits.record_position
  /\ hash.processed_end = bits.processed_end
  /\ hash.sequence = bits.sequence
  /\ hash.state.processed_end = hash.processed_end
  /\ bits.state.processed_end = bits.processed_end

CaptureGeneration(hash, bits) ==
  [generation_id |-> hash.generation_id,
   record_position |-> hash.record_position,
   processed_end |-> hash.processed_end, sequence |-> hash.sequence,
   hash_chain |-> hash, bit_accumulator |-> bits]

\* collect, when it completes: both captures are there, of one position.
Collect ==
  /\ phase # "Down" /\ generation = <<>>
  /\ \A s \in Stages : module[s].capture # <<>>
  /\ LET hash == module["hash"].capture[1]
         bits == module["bits"].capture[1]
     IN  /\ Agree(hash, bits)
         /\ generation' = <<CaptureGeneration(hash, bits)>>
  /\ UNCHANGED <<log, tail, phase, tractVars, sink, diskVars, released,
                 boundVars>>

\* What release_capture asks of a module.
HoldsCaptureOf(m, g) ==
  /\ m.capture # <<>>
  /\ m.capture[1].generation_id = g.generation_id
  /\ m.capture[1].processed_end = g.processed_end

\* release_generation: the captures are still those of the generation.
ReleaseGeneration ==
  /\ \A s \in Stages : HoldsCaptureOf(module[s], generation[1])
  /\ module' = [s \in Stages |-> [module[s] EXCEPT !.capture = <<>>]]
  /\ generation' = <<>>

-----------------------------------------------------------------------------
(* SnapshotSink::save_and_release                                            *)

SinkElse == UNCHANGED <<log, tail, phase, current, frontier, crashes>>
Pending == generation[1].generation_id

\* Valid, and exists(published) is false: a generation is never overwritten.
BeginSave ==
  /\ phase # "Down" /\ sink = "Idle" /\ generation # <<>>
  /\ ValidIdentity(Identity)                  \* else InvalidConfig
  /\ ValidGeneration(generation[1])           \* else InvalidGeneration
  /\ ~published[Pending].there                \* else AlreadyPublished
  /\ sink' = "Stage"
  /\ UNCHANGED <<module, generation, diskVars, released, faults>> /\ SinkElse

\* remove_all and create_directory
Stage ==
  /\ sink = "Stage"
  /\ staging' = NoStaging /\ sink' = "WriteHash"
  /\ UNCHANGED <<module, generation, published, released, faults>> /\ SinkElse

\* The directory with a file written or replaced.
WithFile(directory, name, file) ==
  [n \in DOMAIN directory \cup {name} |-> IF n = name THEN file ELSE directory[n]]

\* write_and_sync_file
WriteFile(from, name, file, to) ==
  /\ sink = from
  /\ staging' = [staging EXCEPT !.files = WithFile(@, name, file)]
  /\ sink' = to
  /\ UNCHANGED <<module, generation, published, released, faults>> /\ SinkElse

WriteHash == WriteFile("WriteHash", "hash",
  serialize_hash_chain_snapshot(generation[1].hash_chain), "WriteBits")
WriteBits == WriteFile("WriteBits", "bits",
  serialize_bit_accumulator_snapshot(generation[1].bit_accumulator),
  "WriteDescription")
\* The last file is not yet under its name.
WriteDescription == WriteFile("WriteDescription", "pending",
  serialize_snapshot_description(Description(Identity, generation[1])),
  "RenameDescription")

\* pending_description to final_description
RenameDescription ==
  /\ sink = "RenameDescription"
  /\ staging' = [staging EXCEPT !.files =
       WithFile(Restrict(@, DOMAIN @ \ {"pending"}), "description", @["pending"])]
  /\ sink' = "SyncStaging"
  /\ UNCHANGED <<module, generation, published, released, faults>> /\ SinkElse

\* Mutation of SyncStaging: the directory is not synced.
SyncStagingSkipped ==
  /\ sink = "SyncStaging"
  /\ sink' = "RenameStaging"
  /\ UNCHANGED <<module, generation, diskVars, released, faults>> /\ SinkElse

SyncStaging ==
  /\ sink = "SyncStaging"
  /\ staging' = [staging EXCEPT !.synced = TRUE]
  /\ sink' = "RenameStaging"
  /\ UNCHANGED <<module, generation, published, released, faults>> /\ SinkElse

\* staging to published
RenameStaging ==
  /\ sink = "RenameStaging"
  /\ published' = [published EXCEPT ![Pending] =
       [NoDirectory EXCEPT !.there = TRUE, !.files = staging.files,
                           !.synced = staging.synced]]
  /\ staging' = NoStaging /\ sink' = "SyncRoot"
  /\ UNCHANGED <<module, generation, released, faults>> /\ SinkElse

\* Mutation of SyncRoot: the root is not synced.
SyncRootSkipped ==
  /\ sink = "SyncRoot"
  /\ released' = released \cup {Pending} /\ sink' = "Idle"
  /\ ReleaseGeneration
  /\ UNCHANGED <<diskVars, faults>> /\ SinkElse

\* The last call: Ok, and the generation is released.
SyncRoot ==
  /\ sink = "SyncRoot"
  /\ published' = [published EXCEPT ![Pending].durable = TRUE]
  /\ released' = released \cup {Pending} /\ sink' = "Idle"
  /\ ReleaseGeneration
  /\ UNCHANGED <<staging, faults>> /\ SinkElse

\* A call fails: save returns its error, and the generation is kept.
SaveFails ==
  /\ sink # "Idle" /\ faults < MaxFaults
  /\ sink' = "Idle" /\ faults' = faults + 1
  /\ UNCHANGED <<module, generation, diskVars, released>> /\ SinkElse

Save == \/ BeginSave \/ Stage \/ WriteHash \/ WriteBits \/ WriteDescription
        \/ RenameDescription \/ SyncStaging \/ RenameStaging \/ SyncRoot

-----------------------------------------------------------------------------
(* Crash, damage, and restart from a published generation.                   *)

\* What a crash may leave of snapshot-N.
Remains(directory) ==
  IF ~directory.there THEN {NoDirectory}
  ELSE (IF directory.durable THEN {} ELSE {NoDirectory}) \cup
       {[directory EXCEPT !.files = Restrict(@, kept), !.synced = TRUE,
                          !.durable = TRUE] :
          kept \in IF directory.synced THEN {DOMAIN directory.files}
                   ELSE SUBSET DOMAIN directory.files}

Crash ==
  /\ phase # "Down" /\ crashes < MaxCrashes
  /\ \E left \in [Positions -> UNION {Remains(published[g]) : g \in Positions}] :
       /\ \A g \in Positions : left[g] \in Remains(published[g])
       /\ published' = left
  /\ phase' = "Down" /\ sink' = "Idle" /\ staging' = NoStaging
  /\ tail' = 0 /\ generation' = <<>>
  /\ module' = NewModules
  /\ current' = [s \in Stages |-> 0] /\ frontier' = [s \in Stages |-> 0]
  /\ crashes' = crashes + 1
  /\ UNCHANGED <<log, released, faults>>

\* The files of a generation at g of another composition, or by other software.
Foreign(g, identity, schema) ==
  LET state == [processed_end |-> g + 1, digest |-> <<>>, total_one_bits |-> 0,
                rolling_bits |-> <<>>, failed |-> FALSE]
      capture == [generation_id |-> g, record_position |-> g,
                  processed_end |-> g + 1, sequence |-> Sequence(g),
                  state |-> state]
      description == Description(identity,
        [generation_id |-> g, record_position |-> g, processed_end |-> g + 1,
         sequence |-> Sequence(g), hash_chain |-> capture,
         bit_accumulator |-> capture])
  IN  [hash |-> serialize_hash_chain_snapshot(capture),
       bits |-> serialize_bit_accumulator_snapshot(capture),
       description |-> serialize_snapshot_description(
         [description EXCEPT !.hash_chain.schema_version = schema])]

\* The bytes of a description with the reserved word at its end overwritten.
ReservedSet(bytes) ==
  [at \in DOMAIN bytes \cup {148} |-> IF at = 148 THEN 1 ELSE bytes[at]]

\* One file lost, cut or overwritten in a field, the file of another generation,
\* or the whole directory another one.
Damaged(g) ==
  LET files == published[g].files
      Others == {h \in Positions \ {g} : published[h].there}
  IN  {Restrict(files, DOMAIN files \ {name}) : name \in DOMAIN files} \cup
      {[files EXCEPT ![name].size = 0] : name \in DOMAIN files} \cup
      {[files EXCEPT !["hash"].bytes[48] = <<>>],
       [files EXCEPT !["bits"].bytes[48] = 0],
       [files EXCEPT !["description"].bytes[56] = 0],
       [files EXCEPT !["description"].bytes = ReservedSet(@)]} \cup
      {Foreign(g, [Identity EXCEPT !.composition_id = 2], 1),
       Foreign(g, Identity, 2)} \cup
      UNION {{published[h].files, [files EXCEPT !["hash"] =
                published[h].files["hash"]]} : h \in Others}

Damage(g) ==
  /\ phase = "Down" /\ faults < MaxFaults
  /\ published[g].there
  /\ \E files \in Damaged(g) :
       published' = [published EXCEPT ![g].files = files, ![g].damaged = TRUE]
  /\ faults' = faults + 1
  /\ UNCHANGED <<log, tail, phase, tractVars, generation, sink, staging,
                 released, crashes>>

StartFresh ==
  /\ phase = "Down" /\ phase' = "Replay"
  /\ UNCHANGED <<log, tail, tractVars, generation, sink, diskVars, released,
                 boundVars>>

\* Mutation of ResumePosition: the record of the snapshot is repeated.
ResumePositionOfRecord(prepared) == prepared.description.record_position

ResumePosition(prepared) == prepared.description.processed_end

\* restore_snapshot_quiescent
RestoreSnapshot(g) ==
  /\ phase = "Down" /\ published[g].there
  /\ LET loaded == Load(published[g].files, Identity, g)
         prepared == loaded.prepared[1]
     IN  /\ loaded.status = "Ok"
         /\ module' = [s \in Stages |->
              Module(IF s = "hash" THEN prepared.hash_chain
                     ELSE prepared.bit_accumulator)]
         /\ current' = [s \in Stages |-> ResumePosition(prepared)]
         /\ frontier' = [s \in Stages |-> ResumePosition(prepared)]
  /\ phase' = "Replay"
  /\ UNCHANGED <<log, tail, generation, sink, diskVars, released, boundVars>>

Next == \/ \E payload \in WellFormed(Len(log)) \cup Malformed(Len(log)) :
              Produce(payload)
        \/ \E s \in Stages : Process(s) \/ Publish(s)
        \/ Reclaim \/ Collect \/ Save \/ SaveFails
        \/ Crash \/ StartFresh
        \/ \E g \in Positions : Damage(g) \/ RestoreSnapshot(g)

Spec == Init /\ [][Next]_vars

\* The composition calls its stages, the coordinator and the sink in turn.
FairSpec == /\ Spec
            /\ WF_vars(\E s \in Stages : Process(s) \/ Publish(s))
            /\ WF_vars(Reclaim) /\ WF_vars(Collect) /\ WF_vars(Save)

-----------------------------------------------------------------------------
(* Properties.                                                               *)

\* The fold of the first n records.
FoldAt(n) == [k \in 1 .. n |-> k - 1]

\* StateAfter(n - 1) of direct execution.
HashStateAt(n) == [processed_end |-> n, digest |-> FoldAt(n), failed |-> FALSE]
BitStateAt(n) == [processed_end |-> n, total_one_bits |-> n,
                  rolling_bits |-> FoldAt(n), failed |-> FALSE]

\* Each state is that of direct execution from the first record, whatever
\* generation it was restored from and whenever; a malformed record is never
\* folded, and a module fails at nothing else.
ModulesExact ==
  \A s \in Stages :
    LET n == current[s]
        state == module[s].state
    IN  /\ state.failed => /\ n < Len(log)
                           /\ log[n + 1] \notin WellFormed(n)
        /\ \A k \in 1 .. n : log[k] \in WellFormed(k - 1)
        /\ [state EXCEPT !.failed = FALSE]
             = IF s = "hash" THEN HashStateAt(n) ELSE BitStateAt(n)

\* A directory that loads as generation g holds both states after that
\* SaveSnapshot, whatever happened to it; and one that is published, or that a
\* crash leaves of it, loads unless it was damaged.
PublishedExact ==
  \A g \in Positions : \A directory \in Remains(published[g]) :
    directory.there =>
      LET loaded == Load(directory.files, Identity, g)
      IN  /\ loaded.status = "Ok" \/ directory.damaged
          /\ loaded.status = "Ok" =>
               /\ log[g + 1] = encode_save_snapshot(g)
               /\ loaded.prepared[1].hash_chain = HashStateAt(g + 1)
               /\ loaded.prepared[1].bit_accumulator = BitStateAt(g + 1)

\* A generation whose captures were released is on the disk for good, and until
\* then each module that has folded its SaveSnapshot holds the capture.
ReleasedSurvives ==
  /\ \A g \in released : \A directory \in Remains(published[g]) :
       directory.there
  /\ phase = "Live" =>
       \A s \in Stages : \A g \in 0 .. current[s] - 1 :
         log[g + 1] = encode_save_snapshot(g) =>
           g \in released \/ module[s].capture[1].generation_id = g

-----------------------------------------------------------------------------
(* A statement of the documentation that the code does not keep.             *)

\* snapshot_demo/README.md 47: a failed save keeps the generation and a retry
\* publishes and releases it.  The fault does not repeat.
FailedSaveIsRetried ==
  (generation # <<>> /\ faults = MaxFaults) ~> (generation = <<>>)
=============================================================================
