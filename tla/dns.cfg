SPECIFICATION Spec
CONSTANTS
  s1 = s1
  s2 = s2
  s3 = s3
  s4 = s4
  a1 = a1
  ip = ip
  c1 = c1
  c2 = c2
  Streams = {s1, s2, s3, s4}
  Addresses = {a1, ip}
  Circuits = {c1, c2}
  Literals = {ip}
  TestAddresses = {a1}
  AddrOf <- MCAddrOf
  CircOf <- MCCircOf
  Resolves = {s2}
  MaxAsked = 2
INVARIANT TypeOK
INVARIANT WaitersOK
INVARIANT ToldOnce
PROPERTY StreamsSettle
CHECK_DEADLOCK FALSE
