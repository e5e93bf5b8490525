SPECIFICATION Spec
CONSTANTS
  Requests = {r1, r2}
  r1 = r1
  r2 = r2
  None = None
  MaxVersion = 2
  MaxSecond = 2
  MaxFaults = 1
SYMMETRY Symmetry
INVARIANTS
  RotatedTokenIsDead
  RevokedStaysOut
CHECK_DEADLOCK FALSE
