CONSTANTS
  MaxClarify = 1
  MaxRepro = 2
  MaxFix = 1
  MaxCalls = 40
  MaxUsd = 5
  CallCosts <- OneOrTwo
  Estimate = 2
  DiskFaults = TRUE
SPECIFICATION Spec
INVARIANT OverspentShipsNothing
INVARIANT AbortedOnlyOnBudget
INVARIANT HandoverHonest
INVARIANT OvershootBounded
INVARIANT BillWithinCap
INVARIANT NoLeakedWorkspace
PROPERTY NoFreeRetry
PROPERTY Termination
\* A run stops once it has returned or raised.
CHECK_DEADLOCK FALSE
