SPECIFICATION FairSpec
CONSTANTS
  MaxXfers = 5
  MaxPolls = 3
CHECK_DEADLOCK FALSE
INVARIANTS
  TypeOK
  AnswersInOrder
  BacklogIsTimeouts
PROPERTIES
  EveryXferReturns
