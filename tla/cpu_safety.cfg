SPECIFICATION Spec
CONSTANTS
  c1 = c1
  c2 = c2
  c3 = c3
  o1 = o1
  o2 = o2
  Circuits = {c1, c2, c3}
  Conns = {o1, o2}
  TagOf <- MCTagOf
  Workers = {w1, w2, w3}
  NumCpus = 2
  MaxOnionsPending = 2
  NoCirc = NoCirc
SYMMETRY Symmetric
INVARIANT TypeOK
INVARIANT IdleCounted
INVARIANT QueueValid
PROPERTY NeverForgotten
CHECK_DEADLOCK FALSE
