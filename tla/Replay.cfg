\* Three live commands of three kinds, sessions and verifications of every range of
\* them, through a ring of two.
SPECIFICATION FairVerificationSpec
CONSTANTS
  Capacity = 2
  LiveTypes <- MCLiveTypes
  MaxCommands = 3
  ForeignRecords <- MCForeignRecords
  BookConfigs <- MCBookConfigs
  Offsets <- MCOffsets
INVARIANTS LiveDeliveredOnce ReplayExact VerdictExact
PROPERTIES SessionEnds
CHECK_DEADLOCK FALSE
