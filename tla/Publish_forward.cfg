SPECIFICATION Spec
CONSTANTS
  None = None
  c1 = c1
  c2 = c2
  ta = ta
  tb = tb
  Clients = {c1, c2}
  Topics = {ta, tb}
  Foci <- MCFoci
  Workers = 2
  CacheMax = 1
  CleanupCount = 1
  Life = 1
  MaxTime = 3
  RetainMax = 1
  BatchLimit = 2
  RetainLife = 1
  MaxInflight = 2
  DelayedMax = 2
  Immediate = TRUE
  QueueMax = 2
INVARIANTS QoS2Once DelayedOnTime KeptAgrees
PROPERTIES DelayedIsSent
CHECK_DEADLOCK FALSE
