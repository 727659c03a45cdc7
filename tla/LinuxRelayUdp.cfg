SPECIFICATION FairSpec
CONSTANTS
  Clients = {c1}
  Flows = {f1, f2}
  Proxies = {1}
  Types <- AllSocks
  Sessions = {s1, s2}
  MaxSess = 2
  QMax = 1
  MaxEdits = 1
  None = None
INVARIANTS
  KeptWhileUsed
  SocketsOwned
  SessionsExact
  UniqueUnlessRemoved
PROPERTIES
  SetupEnds
  FailedRetried
