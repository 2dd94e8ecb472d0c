SPECIFICATION Spec
CONSTANTS
  WaveUnits <- TwoWaves
  Targets <- FiveTargets
  Items <- SixItems
  Destinations <- Aliases
  Origin <- Owners
  Destination <- Places
  TargetOf <- Matches
  Stem <- OneStem
  Physical <- OneDirectory
  Optional = {"a"}
  Clocks = {1, 2, 3, 4}
  NoUnit = "none"
INVARIANTS
  TypeOK
  ActsAreRecordable
  LandingsAccountedOnce
  QuietMeansGreen
