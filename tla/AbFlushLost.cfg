SPECIFICATION Spec
CONSTANTS
  Devices <- MCFlakyOta
  MaxRetry = 3
  MaxPriority = 4
  MaxFaults = 2
  MaxActive = 2
CHECK_DEADLOCK FALSE
INVARIANTS
  FlushDurable
