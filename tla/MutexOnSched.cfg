SPECIFICATION MutexSpec
CONSTANTS
  Threads = {t1, t2, t3}
  Idle = Idle
  Queues = {q1}
  NoQueue = NoQueue
  HIGHEST_PRIORITY = 1
  DEFAULT_PRIORITY = 1
  InitialQuantum = 1
  SettablePriorities = {}
  MutexQueue = q1
  NoThread = NoThread
  TimeoutsUsed = {"zero", "finite", "infinite"}
PROPERTY ImplementsMutex
