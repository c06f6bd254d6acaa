SPECIFICATION Spec
CONSTANTS
  MaxXfers = 5
  MaxPolls = 3
CHECK_DEADLOCK FALSE
INVARIANTS
  OwnAnswer
