SPECIFICATION AdminSpec
CONSTANTS
  Oid = {o1, o2}
  Mover = {m1, m2, m3}
  Ops = {"trash", "restore", "tier", "delete"}
  TheObject = o1
  Exclusive = TRUE
  Tab = {m1, m2}
  MaxChanges = 1
  MaxRuns = 2
  None = None
  NoRow = NoRow
  NoAnswer = NoAnswer
  EndOfLog = 2
  Random = {1, 2}
  PageLimit = 2
  Row = {r1, r2}
  Reading = {a, b}
  Changes = 2
  KeyId = {k1}
  Check = {c1, c2}
  Ends <- MCEnds
  KeysTTL = 2
  Wait = 1
  Skew = 1
  EndOfKeys = 5
  KeyOrder <- MCKeyOrder
  PageKeys = 2
  MaxPages = 3
  Layouts = {"per-repo", "shared"}
  NearlyAll = 2
  Counter = {p1}
  MaxMoves = 2
  NoReport = NoReport
  Scenes = {"storage", "trash", "requests", "runs", "shared", "log", "rows", "keys"}
SYMMETRY Symmetry
INVARIANTS AdminTypes NeverInNeitherPlace AnswersHold RunAccounted LogHolds NamedRowOnly KeysServe ReportHolds
CHECK_DEADLOCK FALSE
