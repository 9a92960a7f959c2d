CONSTANTS
  Watchers = {w1}
  MaxProgress = 1
  MaxVisits = 1
SPECIFICATION Spec
INVARIANT RecordReadableAtVerdict
\* The run ends and every browser may have gone.
CHECK_DEADLOCK FALSE
