SPECIFICATION Spec
CONSTANTS
  None = None
  Processes = {p1, p2, p3}
  Inodes = {i1, i2}
  MaxAttempts = 4
  MaxFiles = 6
  MaxCrashes = 2
INVARIANTS
  LoneContenderWins
PROPERTIES
  LeaseImplemented
SYMMETRY Interchangeable
CHECK_DEADLOCK FALSE
