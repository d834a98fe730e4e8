SPECIFICATION Spec
CONSTANTS
  MaxPosition = 9
  Capacity = 2
  MaxRecords = 4
  MaxFaults = 1
  MaxCrashes = 2
INVARIANTS ModulesExact PublishedExact 
CHECK_DEADLOCK FALSE
