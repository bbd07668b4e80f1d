SPECIFICATION LiveSpec
CONSTANTS
  Threads = {t1, t2, t3, t4}
  NoThread = NoThread
  TimeoutsUsed = {"zero", "finite", "infinite"}
INVARIANTS MutexInv MutualExclusion NoStrandedWaiter
PROPERTIES GrantIsFinal WaiterAcquires
CHECK_DEADLOCK FALSE
