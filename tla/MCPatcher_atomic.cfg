CONSTANTS
  Paths <- ThreePaths
  Parent <- Below
  Texts <- FewTexts
  Empty = "empty"
  Trees <- ThreeTrees
  Patches <- Diffs
  Backends = {"git"}
  RestoreFaults = FALSE
  MaxDepth = 2
  MaxElsewhere = 1
SPECIFICATION Spec
PROPERTY NeverHalfPatched
