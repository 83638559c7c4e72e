CONSTANTS
  None = None  v = v  w = w  c = c  d = d
  Names = {1, 2}
  Items = {1}
  Hot = {1}
  Values = {v, w}
  Clients = {c, d}
  Locals = {c}
  MaxTime = 2
  MaxNum = 1
  MaxLen = 3
  MaxQueue = 1
  Foci <- All
  Guarded <- RedbKeys
SPECIFICATION FairSpec
INVARIANTS ContentReadable
PROPERTIES Promise ListIsQueue ExpiredIsSwept
CHECK_DEADLOCK FALSE
