SPECIFICATION Spec
CONSTANTS
  Isolate = {i1}
  Call = {c1, c2}
  Id = {r1, r2}
  HostTTL = 1
  RecordTTL = 1
  Patience = 1
  MaxTime = 4
  None = None
SYMMETRY Symmetry
INVARIANTS AccessFollowsRepository OwnerIsLetIn
PROPERTIES OnlyOwnersClaim
CHECK_DEADLOCK FALSE
