SPECIFICATION FairSpec
CONSTANTS
  MaxPosition = 9
  Capacity = 2
  MaxRecords = 2
  MaxFaults = 1
  MaxCrashes = 0
PROPERTIES FailedSaveIsRetried
CHECK_DEADLOCK FALSE
