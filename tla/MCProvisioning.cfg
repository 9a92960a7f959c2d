CONSTANTS
  r1 = r1
  r2 = r2
  b1 = b1
  Runs = {r1, r2}
  Browsers = {b1}
  Id <- OneId
  f = f
  g = g
  Files = {f, g}
  MaxVersion = 3
  TooBig = {3}
  MaxStarts = 3
  MaxLive = 2
  MaxFaults = 1
SPECIFICATION Spec
SYMMETRY Alike
INVARIANT WorksOnOneVersion
INVARIANT NothingStaysWedged
INVARIANT OwnCodeTested
INVARIANT RunLeavesNothing
\* Every caller may have come to its end.
CHECK_DEADLOCK FALSE
