SPECIFICATION InstallerOnly
CONSTANTS
  Keys = {"X", "L"}
  Readers <- PadReaders
  Trigger <- PadTriggers
  OnPress = "on_press"
  Cross = "X"
  NULL = NULL
  FirstIndex = 0
  EndIndex = 1
  FirstData = 1
  EndData = 3
  ppb = 1
  IplPages = {2}
  Table <- SmallTable
  Encrypted = TRUE
  MAX_RETRY = 2
INVARIANT FinishMeansBootLoader
