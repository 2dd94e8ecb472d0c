SPECIFICATION Spec
CONSTANTS
  None = None
  p1 = p1
  p2 = p2
  Processes = {p1, p2}
  Effects = {1, 2}
  Boot = 1
  Profile <- Handovers
  Releases = {}
  Refreshes = {}
  Reviews = {}
  Refused = {}
  Embedded = FALSE
  Exclusive = FALSE
  OrphanedActs = TRUE
  MaxCrashes = 1
  MaxPlain = 1
INVARIANTS
  TypeOK
  SuccessIsDurable
PROPERTIES
  LedgerImplemented
SYMMETRY Interchangeable
