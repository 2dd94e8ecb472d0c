SPECIFICATION FairSpec
CONSTANTS
  b1 = b1
  b2 = b2
  h1 = h1
  h2 = h2
  r1 = r1
  r2 = r2
  None = None
  Units = {1}
  Bases = {b1, b2}
  Heads = {h1, h2}
  Resources = {r1}
  LegacyUnits = {1}
  Boundary = "remote-integration"
  ModifyingSlots = 3
  MaxRepairs = 1
  MaxScope = 0
  AmbiguousKinds <- SettleableKinds
INVARIANTS
  ExactBinding
  SuccessRecordable
PROPERTIES
  BlockedResumes
CHECK_DEADLOCK FALSE
