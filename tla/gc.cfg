SPECIFICATION Spec
CONSTANTS
  a = a b = b p = p q = q
  first = first second = second branch = branch
  ours = ours theirs = theirs
  None = None Unset = Unset UnknownPath = UnknownPath
  MinAge = 2
  Oid <- MCOid
  Path <- MCPath
  Commit <- MCCommit
  Tree <- MCTree
  Ancestors <- MCAncestors
  FirstParent <- MCFirstParent
  CommitDay <- MCCommitDay
  Policy <- MCPolicy
  Repo = {ours, theirs}
  Run = {g1}
  Client = {k1}
  Scenes <- MCScenes
  MaxDay = 5
CHECK_DEADLOCK FALSE
INVARIANTS RecheckSparesPushed PushedStaysLive
PROPERTY YoungStays
