SPECIFICATION NorfsOnly
CONSTANTS
  FirstIndex = 1
  EndIndex = 3
  FirstData = 3
  EndData = 6
  ppb = 2
  IplPages = {0, 1, 3, 6, 7}
  Containers <- Updaters
  TableName = "00002"
  IplEncrypted = TRUE
  WorkBuffer = 5
  SkippedUnits = 2
  Names = {"a", "b"}
  Dirs = {d}
  page_count = 4
  toc_pages = 1
  num_entries = 4
  Lengths = {0, 2}
  MaxGeneration = 5
  Keys = {"a", "b"}
  Values = {"x", "y"}
  NUM_BLOCKS = 3
  BLOCK_UNITS = 6
  OBJ_OFFSET = 2
  DATA_UNITS = 3
  VersionWidth = 5
  MaxCalls = 7
INVARIANT AllDataIsStored
CHECK_DEADLOCK FALSE
