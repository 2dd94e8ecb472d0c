SPECIFICATION Spec
CONSTANTS
  None = None
  Controllers = {c1, c2}
  MaxAbandoned = 2
  Stragglers = FALSE
INVARIANTS
  ReleaseEvidencePersists
SYMMETRY Symmetric
