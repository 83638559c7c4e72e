CONSTANTS
  a = a  b = b  c = c
  Admin = Admin  None = None
  Attempts = {a, b}
  Profiles <- V3
  Faults = {"admin", "connack", "reject", "cut", "overlap"}
SPECIFICATION FairSpec
INVARIANTS WillOwed
PROPERTIES HandshakeSettles
CHECK_DEADLOCK FALSE
