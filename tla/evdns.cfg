SPECIFICATION Spec
CONSTANTS
  n1 = n1
  n2 = n2
  Users = {u1, u2}
  Probes = {p1}
  Servers = {n1, n2}
  Conf <- MCConf
  MaxInflight = 1
  MaxReissues = 1
  MaxRetransmits = 1
  MaxTimeouts = 0
  MaxSearch = 1
  MaxReloads = 1
  None = None
SYMMETRY Symmetric
INVARIANT CountersOK
INVARIANT RequestsKept
INVARIANT NothingStranded
INVARIANT DownIsProbed
CHECK_DEADLOCK FALSE
