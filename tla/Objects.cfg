SPECIFICATION Spec
CONSTANTS
  Threads = {t1, t2, t3}
  InitialCount = 1
  MaxPosts = 4
  SemTimeouts = {"zero", "finite", "infinite"}
  MaxSignals = 3
  EventTimeouts = {"zero", "finite", "infinite"}
  Flags <- FlagPair
  Requests <- OrRequests
  MaxRaises = 2
  JoinTimeouts = {"zero", "finite", "infinite"}
  CbufSize = 4
  MaxBytes = 7
  ReadSizes = {1, 3}
  Timers = {a, b}
  NoTimer = none
  Width = 4
  TickInterval = 2
  Delays = {0, 2}
  MaxLag = 1
INVARIANTS SemInv NoWaitForAvailable EventInv FlagInv ThreadLifeInv CbufInv TimerInv
PROPERTIES DestroyReleases DeadIsTornDown FiresDueTimers TimerFires
CHECK_DEADLOCK FALSE
