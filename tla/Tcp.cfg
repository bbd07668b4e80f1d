SPECIFICATION MCSpec
CONSTANTS
  Client = client
  Listener = listener
  Accepted = accepted_socket
  NULL = null
  Modulus = 16
  InitialSeqs = {14}
  MSS = 2
  WinSize = 2
  TxSize = 2
  ClientBytes = 3
  ServerBytes = 0
INVARIANTS StreamIntact RefsExact NoSleepingCaller TimersArmed
CHECK_DEADLOCK FALSE
