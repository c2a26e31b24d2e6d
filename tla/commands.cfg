SPECIFICATION CommandsSpec
CONSTANTS
  Isolate = {i1}
  Call = {c1, c2}
  Token = {t1, t2}
  TTL = 1
  Patience = 1
  MaxTime = 3
  Nothing = Nothing
  Git = {g1, g2}
  Login = {l1, l2}
  SessionTTL = 4
  Margin = 1
  Settle = 1
  Haste = 1
  End = 5
  Rotations = 1
  Pattern = {"me/*", "me/a.b", "me/ab", "*/x"}
  Prefix = {"me/", "me/a.b/", "me/ab/", "", "shared/"}
  LockedAs <- MCLockedAs
  OwnerStar = {"*/x"}
  RuleId <- MCRuleId
  KeysOf <- MCKeysOf
  SharedPrefix = "shared/"
  Unlockable = {"trash", "others"}
  Tried <- MCTried
  NoPlan = NoPlan
  Blob = {b1, b2}
  Entries <- MCEntries
  PartBytes = {3072, 4096, 5120}
  Runs = 2
SYMMETRY Symmetry
PROPERTY EditsAreOneByOne
INVARIANTS NoEditUndone RevocationTakesEffect PasswordsServe RulesHold MigrationHolds ArchiveHolds
CHECK_DEADLOCK FALSE
