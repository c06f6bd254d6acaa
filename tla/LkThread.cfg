SPECIFICATION FairSpec
CONSTANTS
  idle = idle
  root = root
  a = a
  b = b
  q1 = q1
  Threads <- MCThreads
  Idle = idle
  Root = root
  MaxPriority = 2
  Priority0 <- MCPriority0
  NewPriorities = {1}
  Queues = {q1}
  Quantum = 1
INVARIANTS
  TypeOK
  QueuesMatchStates
  IdleLast
  TimerOnLiveStack
PROPERTIES
  WakeSticks
  NoStarvation
