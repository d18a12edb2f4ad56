SPECIFICATION Spec
CONSTANTS
  c1 = c1
  c2 = c2
  Circuits = {c1, c2}
  PathLen = 3
  Plans <- MCPlans
  MaxConns = 2
  MaxFaults = 1
INVARIANT TypeOK
INVARIANT WaitersHaveConn
INVARIANT NeighboursAgree
INVARIANT OneHandshake
CHECK_DEADLOCK FALSE
