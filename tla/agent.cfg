SPECIFICATION FairSpec
CONSTANTS
  Size = 5
  Limit = {1, 2, 3}
  FirstLimit = 2
  UploadId = {i1, i2, i3, i4}
  Attempts = 2
  MaxFaults = 4
  Scenes <- MCScenes
  None = None
INVARIANTS ReportedIsStored CompletesWhole
PROPERTIES NothingSentTwice ProgressKept PushGoesThrough
CHECK_DEADLOCK FALSE
