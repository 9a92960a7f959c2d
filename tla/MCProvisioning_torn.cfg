CONSTANTS
  r1 = r1
  b1 = b1
  Runs = {r1}
  Browsers = {b1}
  Id <- OneId
  f = f
  g = g
  Files = {f, g}
  MaxVersion = 1
  TooBig = {}
  MaxStarts = 2
  MaxLive = 2
  MaxFaults = 0
SPECIFICATION Spec
INVARIANT WorkspaceIsACopy
\* Every caller may have come to its end.
CHECK_DEADLOCK FALSE
