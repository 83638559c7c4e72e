CONSTANTS
  a = a  b = b  c = c
  Admin = Admin  None = None
  Attempts = {a, b}
  Profiles <- V5
  Faults = {"timeout"}
SPECIFICATION Spec
INVARIANTS WillOnce StrayWasTimedOut
CHECK_DEADLOCK FALSE
