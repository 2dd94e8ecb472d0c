SPECIFICATION Spec
CONSTANTS
  b1 = b1
  b2 = b2
  h1 = h1
  h2 = h2
  r1 = r1
  r2 = r2
  None = None
  Units = {1}
  Bases = {b1, b2}
  Heads = {h1, h2}
  Resources = {r1}
  LegacyUnits = {}
  Boundary = "branch-handoff"
  ModifyingSlots = 3
  MaxRepairs = 2
  MaxScope = 1
  AmbiguousKinds <- AllKinds
INVARIANTS
  TypeOK
  EffectsAgree
  EffectsRehydrate
  LifecycleBindings
  ClosureAgrees
  RepairStaysPossible
PROPERTIES
  MovementInvalidatesVerdict
  ParamsStable
CHECK_DEADLOCK FALSE
