SPECIFICATION FairSpec
CONSTANTS
  Streams = {1, 2}
  EagerApps = {2}
  OpSupply = 2
  ExitSupply = 0
  CIRCWINDOW_START = 2
  CIRCWINDOW_INCREMENT = 1
  InitialPackageWindow = 1
  STREAMWINDOW_START = 1
  STREAMWINDOW_INCREMENT = 1
  CELL_QUEUE_HIGHWATER_SIZE = 2
  CELL_QUEUE_LOWWATER_SIZE = 0
  OUTBUF_FULL = 0
PROPERTY AllPackaged
PROPERTY StreamsEnd
CHECK_DEADLOCK FALSE
