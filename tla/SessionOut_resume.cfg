CONSTANTS
  a = a  b = b  c = c
  Msgs = {a, b, c}
  Qos <- QosOf
  Expiring = {b}
  Cap = 2
  QueueCap = 2
  IdMax = 7
  FirstIds = {6}
  MaxTimeouts = 1
  MaxLinkDowns = 1
  MaxTakeovers = 1
SPECIFICATION Spec
INVARIANTS PacketIdUnique NoSilentLoss ExactlyOnce OfflineKickDrains
CHECK_DEADLOCK FALSE
