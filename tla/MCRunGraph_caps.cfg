CONSTANTS
  MaxClarify = 1
  MaxRepro = 3
  MaxFix = 3
  MaxCalls = 40
  MaxUsd = 0
  CallCosts <- Free
  Estimate = 0
  DiskFaults = FALSE
SPECIFICATION Spec
INVARIANT TypeOK
INVARIANT FixedMeansVerified
INVARIANT GoodPatchNotVetoed
INVARIANT CallCeiling
PROPERTY ImplementsContract
\* A run stops once it has returned or raised.
CHECK_DEADLOCK FALSE
