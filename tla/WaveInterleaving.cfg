SPECIFICATION Spec
CONSTANTS
  b1 = b1
  b2 = b2
  h1 = h1
  h2 = h2
  r1 = r1
  r2 = r2
  None = None
  Units = {1, 2}
  Bases = {b1}
  Heads = {h1}
  Resources = {r1, r2}
  LegacyUnits = {}
  Boundary = "local-integration"
  ModifyingSlots = 2
  MaxRepairs = 1
  MaxScope = 0
  AmbiguousKinds = {"verify", "integrate"}
SYMMETRY ResourceSymmetry
INVARIANTS
  QueuesAgree
  OwnersAgree
  ActiveAgrees
  ReservationsAgree
  ResourceExclusive
PROPERTIES
  IntentNeverLost
  BlockedEmitsNothing
