CONSTANTS
  Controllers = {c1, c2}
  None = None
SPECIFICATION Spec
SYMMETRY Symmetric
INVARIANTS PublishedInOrder AppliedIsPublished
PROPERTIES TurnsTaken
