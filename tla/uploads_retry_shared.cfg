SPECIFICATION Spec
CONSTANTS
  o1 = o1
  forged = forged
  short = short
  Repo = {r1}
  Oid = {o1}
  Junk = {forged, short}
  Size <- Sizes1
  Call = {c1}
  UploadId = {i1}
  Settings <- SharedRetries
  SharedPrefix = SharedPrefix
  None = None
SYMMETRY Symmetry
INVARIANT RetriesCarryOn
