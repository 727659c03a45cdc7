\* A sync begun before a rotation, on the same account or another one of the inbound:
\* the lock the scheduler keeps does not cover it.
SPECIFICATION Spec
CONSTANTS
  Ids = {i1, i2}
  Users = {u1, u2}
  FirstUser = u1
  Hosts = {h0, h1}
  Placeholder = h0
  Passes = {1, 2, 3, 4, 5, 6, 7, 8, 9, 10, 11, 12}
  Tasks = {1, 2}
  MaxOps = 1
  MaxFaults = 0
  None = None
INVARIANT LockSuffices
