CONSTANTS
  MaxClarify = 1
  MaxRepro = 1
  MaxFix = 1
  MaxCalls = 40
  MaxUsd = 4
  CallCosts <- OneOrTwo
  Estimate = 2
  DiskFaults = FALSE
SPECIFICATION Spec
INVARIANT BudgetStopIsRecorded
\* A run stops once it has returned or raised.
CHECK_DEADLOCK FALSE
