SPECIFICATION Spec
CONSTANTS
  physical_file_header_size = 3
  physical_record_header_size = 2
  PointerAlignment = 2
  UInt32Max = 15
  UInt64Max = 45
  Config <- MCConfig
  ExpectedConfigs <- MCExpectedConfigs
  Garbage = Garbage
  MaxRecords = 2
  MaxCrashes = 2
INVARIANTS PromisedSurvives RecoveredExact RefusedOnlyIfDamaged
PROPERTIES RemovesOnlyTail
CHECK_DEADLOCK FALSE
