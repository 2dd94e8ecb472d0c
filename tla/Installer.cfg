SPECIFICATION Spec
CONSTANTS
  Processes = {p1, p2, p3}
  Versions = {v1, v2}
  None = None
  Skills = 2
  MaxCrashes = 2
  MaxFaults = 1
SYMMETRY Symmetric
INVARIANTS SetSurvives ReportsAreTrue
CHECK_DEADLOCK FALSE
