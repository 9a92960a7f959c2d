CONSTANTS
  Watchers = {w1, w2}
  MaxProgress = 1
  MaxVisits = 2
SPECIFICATION Spec
INVARIANT TypeOK
INVARIANT WholeStory
INVARIANT NothingAfterTheEnd
INVARIANT EndIsExplained
PROPERTY ReadersReleased
\* The run ends and every browser may have gone.
CHECK_DEADLOCK FALSE
