SPECIFICATION FairSpec
CONSTANTS
  Conns = {c1, c2}
  Workers = {w1, w2}
  DataThreads = {d1}
  MaxConns = 2
  JobMax = 1
  Burst = 2
  None = None
PROPERTIES
  StopEnds
  JobTaken
  HandoverTaken
