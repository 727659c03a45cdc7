SPECIFICATION FairSpec
CONSTANTS
  Clients = {c1}
  Flows = {f1}
  Proxies = {1, 2}
  Types <- AllSocks
  Sessions = {s1, s2}
  MaxSess = 2
  QMax = 1
  MaxEdits = 1
  None = None
INVARIANTS
  SessionsUnique
