SPECIFICATION FairSpec
CONSTANTS
  u1 = u1 u2 = u2 p1 = p1 p2 = p2 c1 = c1 c2 = c2 r1 = r1
  User = {u1, u2}
  Admin = {u2}
  Path = {p1, p2}
  Call = {c1, c2}
  Reader = {r1}
  Attempts = 2
  PageLimit = 1
  MaxLocks = 3
  Scenes <- MCScenes
  Nobody = Nobody
INVARIANTS HoldersHold ListingExact
PROPERTIES ImplementsService RequestsAnswered
