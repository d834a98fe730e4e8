SPECIFICATION FairSpec
CONSTANTS
  Capacity = 3
  FirstSequence = 2
  MaxSequence = 6
  BatchSizes <- MCBatchSizes
INVARIANTS
  BorrowedBlockStable
  SnapshotOrdered
  FileIsPrefixOfLog
PROPERTIES
  FailureIsTerminal
  ImplementsDurableLog
  CleanCloseLosesNothing
  DurableIsConsumed
  PublishedIsDurable
