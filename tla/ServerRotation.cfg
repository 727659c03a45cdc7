SPECIFICATION FairSpec
CONSTANTS
  Ids = {i1, i2}
  Users = {u1, u2}
  FirstUser = u1
  Hosts = {h0, h1}
  Placeholder = h0
  Passes = {1, 2, 3, 4, 5, 6, 7, 8, 9, 10, 11, 12}
  Tasks = {1, 2}
  MaxOps = 1
  MaxFaults = 1
  None = None
INVARIANTS
  ApartOnlyByKnownCauses
PROPERTIES
  Heals
