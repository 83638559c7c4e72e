CONSTANTS
  a = a  b = b  c = c
  Msgs = {a, b, c}
  Qos <- QosOf
  Expiring = {b, c}
  Cap = 1
  QueueCap = 2
  IdMax = 7
  FirstIds = {1}
  MaxTimeouts = 2
  MaxLinkDowns = 0
  MaxTakeovers = 0
SPECIFICATION FairSpec
INVARIANTS SignalsMatchQueue
PROPERTIES EventuallySettled
CHECK_DEADLOCK FALSE
