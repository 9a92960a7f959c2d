CONSTANTS
  Paths <- ThreePaths
  Parent <- Below
  Texts <- FewTexts
  Empty = "empty"
  Trees <- ThreeTrees
  Patches <- Diffs
  Backends = {"git", "python"}
  RestoreFaults = TRUE
  MaxDepth = 2
  MaxElsewhere = 1
SPECIFICATION Spec
INVARIANT StartsOver
INVARIANT AppliedInFull
PROPERTY RefusedLeavesNoTrace
PROPERTY ImplementsStack
