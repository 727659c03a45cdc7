SPECIFICATION Spec
CONSTANTS
  Conns = {c1, c2, c3}
  Workers = {w1}
  DataThreads = {d1, d2}
  MaxConns = 2
  JobMax = 1
  Burst = 1
  None = None
SYMMETRY Symmetry
INVARIANTS
  SingleOwner
  SocketsOwned
  LoadExact
  NconnExact
  NoDanglingEvent
  StoppedClean
PROPERTIES
  ImplementsPool
