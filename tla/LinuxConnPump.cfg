SPECIFICATION FairSpec
CONSTANTS
  c1 = c1
  c2 = c2
  Conns = {c1, c2}
  Mixes <- TwoTcpOrOneDns
  Resets = 1
  Chunk = 2
  Cap = 1
  DbufMax = 2
  MaxIter = 2
  None = None
INVARIANTS
  Intact
  ObservedFirst
PROPERTIES
  ImplementsStreams
  HalfCloseCrosses
  Delivered
CHECK_DEADLOCK FALSE
