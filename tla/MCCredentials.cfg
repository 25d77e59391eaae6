CONSTANTS
  Processes = {p1, p2}
  Devices = {d1, d2}
  MaxPairings = 3
  Faults = TRUE
SPECIFICATION Spec
SYMMETRY Symmetric
INVARIANT CredentialsRegistered
INVARIANT LossIsNoticed
CHECK_DEADLOCK FALSE
