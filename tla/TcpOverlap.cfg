SPECIFICATION MCSpec
CONSTANTS
  Client = client
  Listener = listener
  Accepted = accepted_socket
  NULL = null
  Modulus = 32
  InitialSeqs = {30}
  MSS = 2
  WinSize = 4
  TxSize = 2
  ClientBytes = 2
  ServerBytes = 0
INVARIANT OffsetInSegment
CHECK_DEADLOCK FALSE
