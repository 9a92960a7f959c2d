SPECIFICATION Spec
CONSTANTS
  MaxFiles = 2
  MaxCandidates = 2
  Resolution = 2
  Letters = {"x", "y"}
  Paths = {1, 2, 3}
  Scores = {0, 1, 2, 3}
  Tops = {1, 2}
INVARIANTS
  HunksLandRight
  DiffReadsBack
  HitsAreTheBest
CHECK_DEADLOCK FALSE
