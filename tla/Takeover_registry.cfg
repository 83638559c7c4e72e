CONSTANTS
  a = a  b = b  c = c
  Admin = Admin  None = None
  Attempts = {a, b, c}
  Profiles <- V3
  Faults = {}
SPECIFICATION Spec
SYMMETRY Symmetric
INVARIANTS LockExclusive ServingIsRegistered RegistryAgrees
CHECK_DEADLOCK FALSE
