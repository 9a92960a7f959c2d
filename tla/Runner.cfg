SPECIFICATION Spec
CONSTANTS
  Pytest = Pytest
  Others = {o1, o2}
  MaxLines = 2
INVARIANTS
  TimeoutKillsGroup
  OutputKept
  SummaryIsPytests
  GreenIsEarned
PROPERTY AlwaysReturns
CHECK_DEADLOCK FALSE
