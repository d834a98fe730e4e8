SPECIFICATION FairSpec
CONSTANTS
  Capacity = 3
  FirstSequence = 2
  MaxSequence = 4
  MaxPublished = 5
  ReplaySequences <- MCReplaySequences
  RestorePoints <- MCRestorePoints
INVARIANTS
  FrontierChain
  SidecarsFresh
  DecisionsBelong
PROPERTIES
  ImplementsDurableLog
  DurableIsDelivered
  BackpressureEnds
CHECK_DEADLOCK FALSE
