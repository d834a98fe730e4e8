# A TLA+ verification of the fexma exchange core

This directory models and verifies the C++ exchange tract of this repository
(`src/exchange`): the write-ahead log and its recovery, the command pipeline, the
order book, the matcher, deterministic replay and the snapshot tract. Paths below
are relative to `src/exchange/`.

## 1. Inventory

The tract carries commands from an ingress to a matcher and its events to
consumers. Components are single-threaded objects or bounded rings shared by a
fixed set of single-writer roles; they are called directly, there are no locks
and no callbacks. Frontiers (monotonic positions published with a release store
and read with an acquire load) are the only synchronisation.

| Component | State | Operations | Hard behaviour | What makes it correct |
|---|---|---|---|---|
| `wal/` ring, slider, facade (`WalCore`, `Slider`, `PersistenceModule`, `Wal`) | ring blocks, `head`, `tail`, `durable`, slider `current_`, `failed_`, the file | `open`, `try_publish`, `advance_durable`, `try_consume`, `try_view`, `snapshot`, `close` | three concurrent roles, I/O failure in the middle of a batch, ring reuse, exhausted sequence domain | no block reused while it is borrowed; nothing consumed before it is synced; the file is a gapless prefix; failure is terminal; a clean close loses nothing |
| `wal/` reader, recovery, physical file, format | file bytes, directory entry, reader cursor | `create`, `append_record`, `sync`; `open`, `read_next`; `recover_incomplete_tail` | crash in the middle of an append or of the creation, failed truncation or sync, repeated recovery, sizes computed in two widths, the last sequence number | a recovered file is a prefix that holds every synced record; corruption is never truncated away; a file of another stream is refused and not touched; failure is reported |
| `matcher/` `CommandPipeline` | ring slots with risk and reserve sidecars, five frontiers, live sequence cursor, failure flag | `try_publish`, `try_replay`, `restore_live_sequence`, `publish_durable`, `fail_persistence`, `publish_risk`, `publish_reserve`, `try_consume`, `snapshot` | five concurrent roles, sidecar reset on reuse, exhausted sequences | the frontier chain; each slot reaches the matcher once, with the decisions made for it |
| `matcher/` replay (`ReplayPersistenceState`, `WalFileReplaySource`, `EventWalComparator`) | persistence mode, resume sequence, pending record, comparison cursor | `action`, `on_durable`; `open`, `publish_next`; `publish` of the comparator | two roles touching the live cursor, backpressure with a pending record | live sequences continue where the live run stopped; replayed commands are never persisted again |
| `matcher/` `Matcher` | book, last order id, event sequence and replay mode, event batch | `run`, `process` | event batches with a deferred last event, deterministic replay | quantity conservation, one final event per command, determinism |
| `order_book/` (`OrderBook`, `SideBook`, `OrderIdIndex`, `OrderPool`) | price levels, FIFO links, bitmaps, cached best, hash index, free list | `insert`, `erase`, `set_remaining`, `restore`, `snapshot_into`, `clear`, `best` | redundant structures kept in step, backward-shift deletion, limits of capacity | index, levels, bitmaps and caches describe the same set of orders in price-time order |
| `snapshot_demo/` (modules, coordinator, sink, loader, bootstrap) | state and capture of each module, sliders and frontiers, generation, staged and published directories | `process`, `collect`, `release_generation`, `save_and_release`, `load`, `restore_snapshot_quiescent` | captures at a position while others run ahead, crash between rename and sync, retry | captures of one generation are of one position; a published generation is complete; restore equals the state captured |
| `matcher/` codec of the Command and Event WAL payloads | none | `encode_*`, `decode_*`, versions 1 and 2 | fields checked by one side and not by the other, bytes no field uses | what is encoded decodes to the same; what decodes is what would be encoded |
| shared types, the no-op module | - | - | - | declarations, named by the modules that use them |
| `utilities/`, benches, examples, demo consumer, `thoughts/` | - | - | - | not part of the tract |

The complete list of hazards, each with its line and the properties that cover
it, is in `PROJECT.json`.

## 2. Modules and plan

Each component has a module of its own; where a component has a promise that its
clients rely on, the promise is a module too and the component is shown to
implement it.

| Order | Module | Models | Specification it implements |
|---|---|---|---|
| 1 | `Wal` | ring, slider, persistence module, facade | `DurableLog` |
| 2 | `CommandPipeline` | the five-role command ring | `DurableLog` |
| 3 | `OrderIdIndex` | hash table with backward-shift deletion | `IdMap` |
| 3 | `OrderBook` | pool, FIFOs, bitmaps, caches, restore, validators | `PriceTimeBook` |
| 4 | `Matcher` | `run` and `process`, over `PriceTimeBook` | - |
| 5 | `PayloadCodec` | the payloads of the Command and Event WAL | - |
| 5 | `Replay` | replay sessions through the pipeline | - |
| 5 | `ReplayVerification` | manifest, offline verification, `EventWalComparator` | - |
| 6 | `WalFormat` | headers, sizes, `valid_config`, the checks of a reader | - |
| 6 | `Recovery` | file writer, reader and recovery, with crashes | - |
| 7 | `ApplicationRecord`, `SnapshotFormat` | records, the three files of a snapshot, the loader | - |
| 7 | `SnapshotTract` | capture, publication, damage and restart | - |

`WalProofs`, `PipelineProofs`, `OrderIdIndexProofs`, `OrderBookProofs`,
`MatcherProofs`, `ReplayProofs`, `RecoveryProofs` (with `WalFormat`) and `SnapshotProofs` (`SnapshotTract` and
`SnapshotFormat`) hold the theorems about the module of their name. The `MC*` modules give values to
constants; `MCRecovery` and `MCReplay` also have TLC evaluate, as assumptions, that
the formats are exact over small inputs.

The composition follows the code. `OrderBook` uses its index as the map that
`OrderIdIndex` implements, `Matcher` uses the book that `OrderBook` implements
(`PriceTimeBook` is both the abstract specification of the one and the book of
the other), and `Replay` uses the pipeline as the queue that `CommandPipeline`
implements. `ReplayVerification` extends `Replay`: the records a session or a
verification reads are those the persistence role has encoded, through the codec
in both directions. `Recovery` and `SnapshotTract` read and write through
`WalFormat` and `SnapshotFormat`. So the state space of a composition never
contains that of its parts twice.

What is left of the plan:

1. `CommandPipeline::snapshot()`, a concurrent reader of five frontiers.

## 3. How the modules correspond to the code

`PROJECT.json` maps each definition to its lines. The conventions are the same
everywhere. An operation that one thread runs on its own data is one action. An
operation that other threads can interleave with has a program counter, and each
step makes at most one access to an atomic that another role writes; copies of a
block are two steps, so that a torn read would show. A call that the code
refuses without an effect is a stuttering step and is not written down. Data is
represented by its identity: a record or command by its position, the state of a
folding module by the positions it has folded. History variables (`consumed`,
`delivered`, `published`, `released`, `promised`) are written and never read.

- **Wal** (`wal/src/core.cpp`, `wal/src/wal.cpp`, `slider.hpp`,
  `persistence_*.hpp`). Three roles: `Producer` is `try_publish`, `Persister`
  `advance_durable` with the slider loop (acquire a range, view, append, sync,
  publish), `Consumer` `try_consume` (view, copy, reclaim). A fourth caller runs
  `snapshot()`, one load a step. `Open` and `Close` are the cold paths. Append,
  sync and close may fail at any call, an append may leave a torn record, and
  the log may be opened again. `MaxSequence` stands for the largest `uint64_t`,
  which is where the code stops by itself.
- **CommandPipeline** (`matcher/src/command_pipeline.cpp`). The producer makes
  `try_publish`, `try_replay` and `restore_live_sequence`; assigning a slot,
  resetting its sidecars and publishing the head are separate steps.
  `Persistence` is the loop the tests put around the pipeline: copy a batch,
  write it, then `publish_durable` or `fail_persistence`. `Risk` and `Reserve`
  read, decide, write a sidecar and publish; `Matcher` is `try_consume`.
- **OrderIdIndex** (`order_id_index.hpp`). One turn of the loop of `erase_at` is
  one action. The hash is a constant, `Home`, about which nothing is assumed.
- **OrderBook** (`order_book.cpp`, `side_book.hpp`, `detail/order_pool.hpp`,
  `price_segment.hpp`). One action per operation, `restore()` one per order; it
  starts from a snapshot of the book itself or from a foreign image. The failure
  statuses are written with their conditions, so that an operation that is refused
  is seen to be refused for its reason. A bitmap is the set of its bits.
- **Matcher** (`matcher.hpp`). One action is the part of `process()` up to the
  next event publication, since the writer may fail there and stop the matcher.
  `published` is the Event WAL, `store` the snapshot store.
- **PayloadCodec** (`codec.cpp`). Each encoder and decoder, with its checks in
  their order. A payload is its size and its bytes, where the offset of a field has
  the value of the field and every other byte is zero. A decoder ends, as in the code, by encoding
  what it has decoded and comparing.
- **Replay** (`replay.cpp`). `Ingress` publishes live commands, `Session` drives
  a session through `WalFileReplaySource`, `Persistence` asks
  `ReplayPersistenceState` what to record and tells it what is durable. A record of
  the range may be one that another program wrote.
- **ReplayVerification** (`replay.cpp`, `replay.hpp`). A later process validates
  the manifest, opens the source and the comparator on ranges of the two WALs, and
  runs the commands again. The matcher appears with the events it sends for each
  kind of command (`Matcher` models how). Between the two processes the Event WAL
  may lose its end or have a field changed, the range may be off by one, or the
  book may be configured differently.
- **WalFormat** (`format.hpp`, `config.cpp`, `physical_wal_file.cpp`,
  `reader.cpp`). Headers are records, their bytes functions from offsets; each
  size is computed in the width the code uses. `FileHeaderError` and
  `RecordHeaderError` are the checks of the reader in their order.
- **Recovery** (`physical_wal_file.cpp`, `reader.cpp`, `recovery.cpp`). The file
  is a sequence of units, intact or damaged. Writes are piece by piece, and the sync
  of the directory entry is an action of its own. `Stop` and `Kill` end a process,
  `Crash` stops the machine: of what was not synced it leaves any prefix, with any
  unit of it damaged, or no file when its entry was not synced. A scan reads one
  record a step; truncation, its sync, the reopening and every failure are steps.
- **SnapshotTract** (`snapshot_demo/`). Two stages, the coordinator, and
  `save_and_release` with one action per file-system call; each may fail, and the
  machine may stop between any two. The files have their fields (`SnapshotFormat`)
  and `Load` makes the checks of the loader in their order. While the machine is
  down a published directory may be damaged, and malformed records may reach the
  modules. `RestoreSnapshot` is the quiescent bootstrap, after which the log is
  processed again.

## 4. What is checked

### Runs

| Run | Instance | States | Question |
|---|---|---|---|
| `wal` | 3 blocks, 5 sequence numbers, batches 0 and 2 | 250 k | do the frontiers protect blocks, file and delivery in every interleaving and failure, and does everything durable get consumed |
| `pipeline` | 3 slots, 5 positions, 3 sequence numbers | 359 k | do sidecars and commands stay together in the ring; is everything durable delivered, also after a failure |
| `order_id_index` | 8 buckets, 5 colliding ids, 3 entries | 630 | is any entry stranded by backward-shift deletion |
| `order_book` | 3 slots, 3 prices, 2 segments, 4 images | 54 k | do the redundant structures describe one book, and is it a price-time book |
| `order_book_doc_restore` | 3 slots, 2 prices | - | does a failed `restore` leave the book unchanged (it does not) |
| `matcher` | 5 commands, 2 prices, book of 2 | 713 k | are events exact, complete and deterministic, with a writer that fails anywhere |
| `matcher_doc_replay` | 4 commands with `LoadSnapshot` | - | does every recorded range replay to its events (it does not) |
| `replay` | ring of 2, 3 live commands of 3 kinds, foreign records, changed events | 135 k | is a session invisible to live delivery; does a replay publish what was recorded; is the verdict of a verification right; do both end |
| `recovery` | 2 records of 4 units, 3 configurations, 2 crashes | 17 k | what survives crashes before, in and after a recovery, and what is refused |
| `recovery_doc_clean` | as `recovery` | - | is what a recovery returned safe from a later crash (it is not) |
| `snapshot` | 4 records, 1 fault or damage, 2 crashes | 294 k | is what loads the state after its record and nothing else; is what is released durable; does a restart continue exactly |
| `snapshot_doc_retry` | 2 records, 1 fault | - | is a failed save retried to its end (it is not) |

### Bounds, and why they are enough

- `wal`, `pipeline`: five positions on a ring of three, so slots are reused and
  the ring is full and empty at every offset; the sequence domain ends within the
  run, so exhaustion and the close after it occur. The batch limits are 0,
  which takes nothing, and 2, less than the ring, which gives whole and partial
  batches. For every
  capacity, domain and batch size the safety properties are proved (section 5).
- `order_id_index`: three ids share the last bucket and two follow it, so
  clusters wrap around the end and repairs cross the wrap; the table has the size
  `bucket_count_for` gives for three orders. Proved for every table and hash.
- `order_book`: three orders make a FIFO with a middle, two segments give the
  upper bitmap a choice, and the images cover acceptance and the refusals of
  `restore`: a repeated id, a price out of range, no quantity.
- `matcher`: an order may sweep two prices, rest, be rejected or be priced beyond
  the book; a session needs two commands and leaves three to replay and continue.
- `replay`: a range of three in a ring of two, so every record may meet
  backpressure. One order rests, one trades, and both are refused by the other book
  configuration, which the manifest must keep out. The third kind of command starts
  a session, so the first two are replayed through it, and a recorded `StartReplay`
  is in the range of a verification. The foreign records are one with a field out
  of range, one that is not canonical, and one that decodes to another command; the
  changed offsets are fields of every event and a byte no event uses.
- `recovery`: the cut may fall in each part of a record (header 2, payload 1,
  padding 1) and of the file header (3 and its padding), with a valid record
  before it; a second crash hits the recovery after the first. The first sequence is
  the last but one of the domain (`UInt64Max` is 45), so the reader exhausts it. One
  expected configuration is of another epoch, one is not valid. A `UInt32Max` of 15
  makes the 32-bit sums of the sizes wrap in `LayoutExact`. Proved for all of these
  (section 5).
- `snapshot`: two generations with a record between or after them, the second
  generation blocked by the first; a crash after a restart from either. One fault
  meets each state, and the kinds of damage are independent of each other.

Each of the bounds is a CONSTANT; the remaining ones (`MaxPublished`,
`MaxCommands`, `MaxRecords`, `MaxCrashes`, `MaxFaults`) are guards of the
environment and not of the code. `CHECK_DEADLOCK FALSE` stands where the system
really stops: a closed or failed log, an exhausted domain, a stopped matcher.

### Fairness

Only weak fairness, and only of roles that poll. In `wal` it is of the persister
and the consumer: their calls have no loop without a bound, so each returns, and
`wal/doc/CONTRACT.md` leaves it to the composition to call again, with a positive
limit sooner or later. In `pipeline` it is of the four
stages behind the producer, each a loop in the tests. In `replay` it is of
`Polling`: as long as one of the driver of the session (a loop of `publish_next`
until `complete()`), the persistence loop, the matcher or the verification can do
something, one of them does. Nothing says which, so it assumes less than fairness
of each role. In
`snapshot_doc_retry` it is of the composition loop that calls the stages,
`collect` and `save_and_release` in turn. Producers, faults and crashes are never
fair.

### Properties worth reading first

- `ImplementsDurableLog` (`wal`, `pipeline`): any interleaving of the roles, split
  at every access to shared memory, looks like one log that accepts, syncs and
  delivers atomically.
- `DecisionsBelong`, `SidecarsFresh` (`pipeline`): no command reaches the matcher
  with a decision made for the previous command in its slot.
- `EventStreamExact`, `BookMatchesEvents`, `ReplayReproduces`,
  `ReplayLeavesNoTrace` (`matcher`): the Event WAL is all a reader needs.
- `PromisedSurvives`, `RemovesOnlyTail`, `RefusedOnlyIfDamaged` (`recovery`): the
  three things a recovery owes, against each other.
- `VerdictExact` (`replay`): a verification completes exactly if the events are the
  recorded ones, and a recording nobody has changed always verifies.
- `PublishedExact`, `ReleasedSurvives`, `ModulesExact` (`snapshot`): the order of
  syncs and renames, what a damaged directory may load as, and the position at
  which a restart resumes.

Every property of a passing run has a mutant in `PROJECT.json`: a plausible
mistake in one mapped definition that makes the run fail. The mutated forms stand
beside the definitions they change.

## 5. What is proved

All theorems hold for every value of the constants, under the named assumptions
`WalAssumption`, `PipelineAssumption`, `IndexAssumption`, `BookAssumption`, `MatcherAssumption`,
`ReplayAssumption`, `WalFormatAssumption`, `RecoveryAssumption`, `GarbageAssumption` and
`TractAssumption`: sizes are positive, bounds are numbers, the index has more buckets than entries, the prices of
a book are finitely many numbers, an image to restore is a sequence of orders of the quantities in use or of none, no `StopReplay` is recorded (section 6), a
record of another program is as many bytes as it says, the configuration of the file is
valid, the last position of a log is no larger than the largest position, three
32-bit values add up in 64 bits, and a damaged field does not read as
what was written there. A checksum is the identity in the model, so that two
contents never share one is assumed too.

- **WalProofs.** The inductive invariant `IInv` adds to the frontier order what
  the running calls have already checked, since `tail <= durable <= current <=
  head` alone is not preserved: a producer past its checks has room and a
  sequence number, `head_slot_` is the block of the head, retained blocks hold
  their positions, a healthy idle slider agrees with its frontier, the file holds
  what the slider has passed, and a running `snapshot()` has loaded values that
  are still bounds. From it: `TypeCorrect`, `FrontiersOrdered`,
  `BorrowedBlocksStable`, `NoContractBreaches`, `WriteAheadHolds`,
  `FileIsPrefix`, `SnapshotsOrdered`, the action properties `FailureTerminal` and
  `CleanClose`, and `Refinement`: every step maps to one of `DurableLog` or to a
  stutter.
- **PipelineProofs.** The same shape: a producer past its checks has a free slot,
  retained slots are whole and decided up to the frontier of each stage, a stage
  decides about the command at its own frontier, and the command WAL is what
  persistence has passed. `TypeCorrect`, `FrontiersChained`,
  `DecisionsDelivered`, `FailureTerminal`, `Refinement`; on top of the invariant
  `SidecarsStayFresh`: a producer that resets a slot has one no stage can reach.
- **OrderIdIndexProofs.** The invariant speaks of paths: no empty bucket lies
  between the home of an entry and the entry, except the hole of a running
  repair, and then only for entries the loop has not passed. It needs a bucket
  that stays empty ahead of the loop (or the loop would not end where it must)
  and uniqueness of ids. `TypeCorrect`, `SizeIsExact`, `LookupIsExact` and
  `Refinement` of `IdMap` follow.
- **OrderBookProofs.** The invariant says what the links mean: there is a free list,
  and a FIFO for every side and price, of which everything the code keeps is a
  function. Path and chain differ: a path repeats no slot, `next` leads along it from
  the head to the invalid index, and for a FIFO `prev` leads back; a walk through the
  links then finds exactly the path (`ChainsAre`). The free list holds the slots not
  in use, a FIFO the orders of its side and price, so that the paths are disjoint
  without the invariant saying so, and their lengths add up to the pool. The rest are
  the redundant structures: counts and quantities of levels and sides as sums in the
  order of the validator, the index as the inverse of the ids, active prices, occupied
  segments and the best segment as their extreme. The removal of an order from the
  middle, from either end, as the last of its price and as the last of its segment are
  the cases (`RemoveInvariant`); no induction over data is needed, since sums and sets
  change in one place (`SumUpdate`, `SumRemove`), and the existence of a least number
  replaces the loop over the bitmaps. From it `FreelistIsExact`, `FifosAreExact`, with
  every check of `validate_invariants`, and `BestIsExact`: segments follow the order of
  prices, so the best price of the best segment is the best price. `Refinement` of
  `PriceTimeBook` rests on a correspondence: what a client sees is a function of the
  FIFOs and of the ids and quantities in their slots (`QueueIs`), places in the queues
  and slots in use are in bijection (`PlacesAndSlots`), so that the index finds the one
  place of an order (`PlaceIs`), refuses an id exactly if it rests (`RestingIs`), and
  a free slot means that the queues are not full (`CapacityIs`). Every accepted
  insert of a `restore`, foreign images included, is a step of the abstract book too.
  `RoundTrips` is about the loop of `restore`: the image lists every queue of the book
  it was taken of in its order, bids before asks and prices ascending (`SnapshotListed`,
  where the concatenation of levels is followed by a least counterexample), and after
  any number of inserts each queue is a prefix of what it was, ended by the part of
  the image already inserted (`Progress`). So the next order is the next of its queue
  (`NextInQueue`), its id is not indexed yet (`NotYetIndexed`), a slot is free, and
  nothing the loop does can be refused (`OwnAccepted`).
- **MatcherProofs.** Invariants over the whole life of a matcher: any commands,
  a writer that fails at any publication, snapshots, replay sessions. `BookInv`:
  the book, and every book in the snapshot store, is uncrossed, within its capacity
  and, unless a load has been refused, holds no order newer than its last id: a
  refused one leaves the first orders of the image, or none, and stops the matcher
  (`RefusedIsGood`). In the middle of an order the book is
  older than the order, and if the order has traded and something is left of it, a
  place is free, since the last trade has removed a maker. From it `UncrossedAlways`
  (an order rests only behind every price it could trade at, so the best price must
  exist and be best) and `RestAlwaysFitsAlways` (the id of the order is not in the
  book and there is room: only its price is left). `EventInv`: where the next live
  event must be in the stream, which is the cursor in live mode, the cursor put
  aside in a session, and the deferred one in between; only a load in `Restoring`
  leads back, and with the sequence live mode was left at. From it
  `EventStreamExactAlways`.
  The third argument is about what a replay does again. The
  state of the matcher before each publication is a configuration, and what `process()`
  does next is a function of it and of the Command WAL (`Successor`; `GoesOn` and
  `StartsAs` show that the actions do what it says). The live events are then those
  of one sequence of configurations, the trace, which ends where the matcher is
  (`LiveInv`). An image in the store is a place between two commands of the trace
  (`StoreInv`), so a replay begins in the trace and, since the trace has one
  continuation, follows it (`ReplayInv`) as far as the `StartReplay`; the matcher in
  live mode is where the trace ends, the replay can only be before. From it
  `ReplayReproducesAlways` and `ReplayLeavesNoTraceAlways`, with the hypothesis that
  `Controls` has no `LoadSnapshot`: with one in the Command WAL `ReplayReproduces` is
  what finding 2 of section 6 refutes.
  The trace also gives what a reader of the events knows. Each configuration of it is
  `Sound`: in every queue the ids ascend, since an order is newer than all that rest
  when it arrives, and an incoming order is newer than its makers. So what an event
  teaches the reader (`Learned`) is exactly what has happened to the book between two
  configurations, but for a maker filled in full, which the reader keeps with nothing
  left until its `Done` (`RestsOf`, `TraceKnows`); between two commands nothing is
  pending, and `BookMatchesEventsAlways` follows. The trade after a configuration is with the
  oldest order of the best price in its book, and the reader knows that book.
  `PriceTimePriorityAlways` has to hold after a stop, too, when the matcher is no longer
  where the trace ends. `ToldInv` keeps what remains true then: the live events are the
  first ones of some trace over a prefix of the Command WAL, and after them comes at
  most the `MatcherFatal` of the stop (`Told`). For `OrdersAddUpAlways` the trace is
  followed with an account of every order (`Accounted`): of an order that is newer than
  the last, no event has spoken; what became of the orders of earlier commands adds up
  and goes on adding up, as the only later event about one is its `Done` as a maker,
  and a maker has been announced as resting (`Announced`); of the order in progress,
  what it has taken and what remains are its quantity (`Underway`). The part of it
  that is about types is `TypeOKAlways`, which needs no hypothesis: `KnownInv` says
  that only ids in use rest, are in an image or are recorded.
- **ReplayProofs.** `LiveRoundTrip` and `DecodedReencodes`: what is written for a
  live command decodes to it, and whatever decodes encodes to the bytes it was read
  from. The invariant gives every command a stage: live, the `StartReplay`, the
  `LoadSnapshot` of the session, a command of the source, `StopReplay`, the last
  `LoadSnapshot`. The commands `on_durable` has not seen follow each other by
  stages, begin where the mode expects and end where the producer is, so they are the
  rest of one session at most and no transition is refused. Only their first ones
  are live; those continue the Command WAL number by number, which is why the mode at
  the time of persistence, and not of publication, may decide what to record. The
  cursor that is put aside continues it too. What is durable and live is the part of
  the Command WAL the matcher has not got. From it `CommandWalExactAlways`,
  `LiveDeliveredOnceAlways` and `ReplayExactAlways`.
- **ReplayProofs, the verification.** The codec of events comes first
  (`EventRoundTrip`): what is written for an event decodes to it and encodes to the
  same bytes, so the comparator, which decodes the record and compares messages,
  accepts exactly equal bytes (`ComparesExactly`). The Event WAL is the events of the
  commands one after another, a fold over the Command WAL; `RecordedEvents` and
  `RecordedNext` say where those of one command begin and end in it. The inductive
  invariant `VInv` has three cases. Before a verification the invariant of the sessions
  holds. In one (`Running`), the comparator's cursor is the number of events published,
  all of which are the recorded ones, or it has stopped at the first that is not; and
  if nobody has changed anything (`OnTrack`), the command the matcher is past tells
  which commands are in the ring, with which numbers and payloads, and how many
  events are published. This last part is what makes a verification of intact logs
  complete: without the position in the Command WAL nothing relates what the matcher
  will publish to the record the comparator will read. After it (`Finished`) the
  verdict is settled. `VInv` is inductive for every change of the Event WAL and every
  foreign record, and gives `VerdictExactAlways`. `SessionsHoldAlways` adds
  that the two properties of the sessions hold in the verification as well.
- **RecoveryProofs, the format.** `PaddingExact`: for every valid configuration the writer,
  which adds in 32 bits and cuts the result, leaves exactly the padding the reader
  skips. `FileHeaderIntact`, `RecordHeaderIntact`: what was written passes every
  check of the reader for this stream, and fails as `IdentityMismatch` for any
  other. `FileHeaderDamageShows`, `RecordHeaderDamageShows`: with one field
  damaged, whichever it is, the checks end in an error that is not one of an
  incomplete tail; a reader past the last sequence answers `UnexpectedSequence`
  before it looks at a record header.
- **RecoveryProofs, the recovery.** The inductive invariant joins these facts. The synced part is
  a prefix of the file, or the file has just been cut. No record begins beyond the
  sequence domain. A running writer has a file without damage, and a header once
  it is open. The promised records are intact, in the file and in its synced part.
  A scan that has counted `n` records stands at the end of record `n`, all before it
  is intact, and its reader expects the next sequence or knows that there is none. A
  truncation has behind it a first scan that ended in part of a record with nothing
  damaged in it. The geometry is the other half: records of `Stride` units behind
  `HeaderUnits` end at `End(n)`, and the reader and the writer agree on both
  (`PaddingExact`). All properties of the run `recovery` follow: `RecordsSurvive`,
  `RecoveriesExact`, `RefusalsExplained` and `OnlyTailRemoved`.
- **SnapshotProofs.** The format first: each of the three files decodes to what was
  serialized, whatever it was (`DescriptionDecodes`), and the directory `FilesAt(g)`
  that `save` writes for generation `g` is accepted by every check of the loader.
  What protects a damaged directory is its description alone, for it holds the
  checksums of the other two files: a description is `Genuine` if the loader takes it
  for that of `g` only when `save` has written it for `g` and the log has the
  `SaveSnapshot` of `g` behind `g` well-formed records. Every kind of damage preserves
  that (`DamagedGenuine`), and it is enough for the loader to return the right states
  or none (`LoadedExact`). The rest of the inductive invariant: each call of `save`
  leaves the staging directory as the next one needs it, a directory is published
  with all its files, synced, and only under a number that is free; a generation
  joins captures of one position which both modules still hold; a module is in the
  state of direct execution and fails only at a malformed record; what was released
  is durable, and what was not is held. Then `ModulesAreExact`, `PublishedIsExact`
  and `ReleasedDoesSurvive`.

`TypeCorrect`, `FrontiersOrdered`, `NoContractBreaches`, `WriteAheadHolds`,
`SizeIsExact` and the pipeline's `FailureTerminal` are proved and not repeated as
properties of a run.

Only model-checked: all liveness (it needs ENABLED and fairness, out of reach of the
prover). Every safety invariant and action property of a passing run is a theorem.
`CodecRoundTrips`, `LayoutExact` and `HeaderExact` have TLC evaluate on small inputs
what the theorems about the formats say of all.

## 6. Where the code and its documents disagree

1. `restore()` of the book clears it before it reads the image, and a refused
   order leaves a prefix of the image (`order_book/src/order_book.cpp:122`), while
   `order_book/README.md:104` and `DESIGN.md:114` say that a failed operation
   leaves the book unchanged. Run `order_book_doc_restore`.
2. A `LoadSnapshot` executed live does not move the event sequence, and moves it
   when it is replayed (`matcher/.../matcher.hpp:292`), so a recorded range that
   has one does not replay to its recorded events
   (`matcher/README.md:116`). Run `matcher_doc_replay`.
3. A recovery that finds nothing to truncate does not sync
   (`wal/src/recovery.cpp:54`): after a kill it returns records that a later stop
   of the machine may take, while `wal/doc/FILE_FORMAT.md:111` makes every
   complete record authoritative. Run `recovery_doc_clean`.
4. When the sync of the root fails after the rename of the staging directory,
   every retry of `save_and_release` finds the directory already there and returns
   `AlreadyPublished`, and the captures are never released
   (`snapshot_demo/src/snapshot_sink.cpp:276`), while
   `snapshot_demo/README.md:47` has failed saves retried. Run
   `snapshot_doc_retry`.

Remarks that no run states:

- `Wal::snapshot()` loads the tail first, so the `head - tail` of its result may
  exceed the capacity while the roles move. The result is ordered
  (`SnapshotOrdered`), and nothing in the repository promises more.
- `matcher/WAL_PAYLOAD_FORMAT.md` gives `StartReplay`, `StopReplay` and
  `SaveSnapshot` fields in the body (lines 32, 33, 45, 46, 65, 97); the codec
  writes zeros there and refuses anything else as `NonCanonicalBytes`. One of the
  foreign records of the run `replay` is such a one.
- A `StopReplay` that was published live is recorded like any command, since
  `action()` looks at the mode only. In a range that is replayed it ends the session
  (`matcher/src/replay.cpp:52`): the next command is an `InvalidTransition`, or, if it
  is a `LoadSnapshot`, restores live mode early, and the rest of the range is written
  back into the Command WAL. `matcher/COMMAND_PIPELINE.md:92` speaks of "a matching
  `StopReplay`", but nothing is matched. `ReplayAssumption` keeps it out.
- `EventWalComparator::publish` called again after a mismatch overwrites its verdict
  with `UnexpectedEvent` (`matcher/src/replay.cpp:230`). The matcher stops at a
  failed publication, so it does not happen in the tract.
- A file whose creation was cut short is neither recovered (its header is
  incomplete, so it is refused) nor created again (creation is exclusive):
  `RefusedOnlyIfDamaged` has a case for it.

## 7. What is not modelled

- The bytes inside a field, and CRC arithmetic: a checksum is taken to be what it is
  taken over. A damaged file is one with a field changed or a reserved one set.
- The checkpoint hash, `make_matcher_state_checkpoint`: a hash of the book with
  which tests compare two books. `ReplayReproduces` states what it would report.
- `snapshot()` of the pipeline, and the probe statistics of the index: read-only.
- In `Matcher`, the failure codes of the book after `best()` returned the order in
  the same turn, and `CommandProducedNoEvent`: unreachable, as `OrderBook` and
  the batch show. The environment sends `StartReplay` directly after a
  `SaveSnapshot` that succeeded: the live image that `StartReplay` names, to
  which the session returns, is then the state it was sent in.
- In `Replay`, live publication during a session, which `COMMAND_PIPELINE.md`
  forbids; a source that is used for a second range; a driver that goes on after a
  failed `publish_next`; and errors of reading.
- In `Recovery`, bytes of another writer and a second caller: `recovery.hpp:42`
  asks for exclusive access. A truncation happens or does not, as in a journaling
  file system. The fault injection of the tests and the Windows calls are left out;
  there the sync of the directory does nothing.
- In `OrderBook`, the unused bits of the last word of a bitmap.
- In `SnapshotTract`, Windows, and failing reads of the loader, which refuse.
- `utilities/`, benches, examples and the demo consumer: drivers and measurements.
