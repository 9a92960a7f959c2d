CONSTANTS
  Runs = {r1, r2}
  Cap = 4
  RunCap = 3
  Estimates <- OneOrTwo
  MaxTries = 2
  MaxCalls = 3
SPECIFICATION Spec
INVARIANT TypeOK
INVARIANT OvershootBounded
INVARIANT OwnCapHeld
INVARIANT NothingLost
INVARIANT LatchJustified
INVARIANT AtMostOneMore
SYMMETRY Symmetry
\* Runs end.
CHECK_DEADLOCK FALSE
