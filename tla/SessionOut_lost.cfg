CONSTANTS
  a = a  b = b  c = c
  Msgs = {a}
  Qos <- QosOf
  Expiring = {}
  Cap = 2
  QueueCap = 2
  IdMax = 7
  FirstIds = {1}
  MaxTimeouts = 0
  MaxLinkDowns = 1
  MaxTakeovers = 1
SPECIFICATION Spec
PROPERTIES OfflineInfoKept
CHECK_DEADLOCK FALSE
