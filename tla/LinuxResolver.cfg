SPECIFICATION Spec
CONSTANTS
  Callers = {c1, c2}
  Names = {n1, n2, n3}
  Reqs = {r1, r2, r3, r4}
  MaxThreads = 2
  CacheN = 2
  Ttl = 1
  Stale = 2
  Deadline = 1
  Moves = 1
  None = None
  Asking = Asking
  Failed = Failed
SYMMETRY Symmetry
INVARIANTS
  LookupsExact
  OwnAddress
PROPERTIES
  NeverBack
