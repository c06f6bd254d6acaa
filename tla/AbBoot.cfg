SPECIFICATION FairSpec
CONSTANTS
  Devices <- MCDevices
  MaxRetry = 3
  MaxPriority = 4
  MaxFaults = 1
  MaxActive = 2
CHECK_DEADLOCK FALSE
INVARIANTS
  TypeOK
  RetryInRange
  CurrentHighest
  TwoKernelTries
  TriesBounded
PROPERTIES
  FallsBack
