SPECIFICATION Spec
CONSTANTS
  Streams = {1, 2}
  EagerApps = {2}
  OpSupply = 2
  ExitSupply = 0
  CIRCWINDOW_START = 3
  CIRCWINDOW_INCREMENT = 2
  InitialPackageWindow = 2
  STREAMWINDOW_START = 1
  STREAMWINDOW_INCREMENT = 1
  CELL_QUEUE_HIGHWATER_SIZE = 2
  CELL_QUEUE_LOWWATER_SIZE = 0
  OUTBUF_FULL = 0
INVARIANT TypeOK
INVARIANT CircuitLedger
INVARIANT StreamLedger
INVARIANT NoProtocolKill
INVARIANT NoStuckReader
INVARIANT NoStuckInbuf
INVARIANT QueueHysteresis
CHECK_DEADLOCK FALSE
