SPECIFICATION FairSpec
CONSTANTS
  Threads = {t1, t2, t3}
  Idle = Idle
  Queues = {q1}
  NoQueue = NoQueue
  HIGHEST_PRIORITY = 2
  DEFAULT_PRIORITY = 2
  InitialQuantum = 1
  SettablePriorities = {0}
INVARIANT SchedInv
PROPERTIES DispatchesHighest NoStarvation
