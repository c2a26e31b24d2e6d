SPECIFICATION Spec
CONSTANTS
  Isolate = {i1}
  Call = {c1}
  HostTTL = 1
  SessionTTL = 1
  ActionTTL = 1
  Patience = 1
  MaxTime = 5
SYMMETRY Symmetry
INVARIANTS AccessEnds
CHECK_DEADLOCK FALSE
