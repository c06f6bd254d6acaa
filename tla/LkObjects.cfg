SPECIFICATION ObjectsSpec
CONSTANTS
  idle = idle
  root = root
  a = a
  b = b
  Threads <- MCThreads
  Idle = idle
  Root = root
  MaxPriority = 2
  Priority0 <- MCPriority0
  NewPriorities = {}
  Quantum = 1
  mtx = mtx
  sem = sem
  evt = evt
  Mutex = mtx
  Sem = sem
  Event = evt
  Queues = {mtx, sem, evt}
  Values0 = {0, 1}
  MaxPosts = 2
  MaxSignals = 2
  Timed = {FALSE, TRUE}
INVARIANTS
  MutualExclusion
  CountExact
  UnitsConserved
  NoWaitOnSignalled
  SignalsConserved
  NoWaitUntimed
PROPERTIES
  FirstComeFirstServed
