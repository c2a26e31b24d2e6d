SPECIFICATION Spec
CONSTANTS
  Isolate = {i1, i2}
  Call = {c1, c2}
  Key = {k1, k2}
  KeyTTL = 1
  Patience = 1
  MaxTime = 4
  None = None
SYMMETRY Symmetry
INVARIANTS RotationRevokes SameKeyEverywhere
CHECK_DEADLOCK FALSE
