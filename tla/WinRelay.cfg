SPECIFICATION FairSpec
CONSTANTS
  c1 = c1  w1 = w1  w2 = w2  stop = stop  NoConn = NoConn
  Conns = {c1}
  Workers = {w1, w2}
  Stopper = stop
  Units <- UpTwoDownOne
  BufSize = 5
  Keep = 1
  PoolStarts = {TRUE, FALSE}
CHECK_DEADLOCK FALSE
INVARIANTS
  OneHolder
  NoUseAfterFree
  BuffersAccounted
  Intact
PROPERTIES
  EndedReleased
  StopEnds
