SPECIFICATION Spec
CONSTANTS
  o1 = o1
  forged = forged
  short = short
  Repo = {r1, r2}
  Oid = {o1}
  Junk = {forged, short}
  Size <- Sizes1
  Call = {c1, c2}
  UploadId = {i1}
  Settings <- Deployments
  SharedPrefix = SharedPrefix
  None = None
SYMMETRY Symmetry
INVARIANTS StoredContentHashes ReadersUploaded AcceptedIsReadable RetryIsNotRefused
