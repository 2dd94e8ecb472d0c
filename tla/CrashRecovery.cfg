SPECIFICATION FairSpec
CONSTANTS
  None = None
  p1 = p1
  p2 = p2
  Processes = {p1}
  Effects = {1, 2, 3, 4, 5}
  Boot = 1
  Profile <- Harness
  Releases = {5}
  Refreshes = {2}
  Reviews = {4}
  Refused = {3}
  Embedded = TRUE
  Exclusive = TRUE
  OrphanedActs = FALSE
  MaxCrashes = 2
  MaxPlain = 0
INVARIANTS
  ActsAreIntended
  HandedOverOnce
PROPERTIES
  ActsNotRepeated
  
