SPECIFICATION MCSpec
CONSTANTS
  Readers = {a, b}
  WPorts = {w1, w2}
  RPorts = {r1, r2}
  Group = group
  Names = {n1}
  NULL = null
  BufSize = 2
  Counts = {1, 2}
  MaxPackets = 3
INVARIANTS NoSilentLoss PortInv NoReaderAsleep
SYMMETRY Symmetry
CHECK_DEADLOCK FALSE
