SPECIFICATION Spec
CONSTANTS
  Circuits = {c1, c2, c3}
  Origins = {c2, c3}
  Conns = {o1, o2}
  NoConn = NoConn
  NoLeg = NoLeg
  CELL_QUEUE_HIGHWATER_SIZE = 2
  CELL_QUEUE_LOWWATER_SIZE = 1
  OR_CONN_HIGHWATER = 2
  OR_CONN_LOWWATER = 1
  MaxQueue = 2
  MaxOutbuf = 2
SYMMETRY Symmetric
INVARIANT TypeOK
INVARIANT RingOK
INVARIANT ActiveIffQueued
INVARIANT NoLostWakeup
CHECK_DEADLOCK FALSE
