SPECIFICATION Spec
CONSTANTS
  Processes = {p1, p2, p3}
  Nonces = {n1, n2}
  None = None
  MaxCrashes = 2
  MaxFailures = 2
  MaxIssues = 2
  MaxEdits = 1
SYMMETRY Symmetric
INVARIANTS FiledOnce RetriesAreAuthorised
CHECK_DEADLOCK FALSE
