SPECIFICATION ServerSpec
CONSTANTS
  alice = alice bob = bob r1 = r1 r2 = r2 small = small big = big c1 = c1 c2 = c2
  Account = {alice, bob}
  Repo = {r1, r2}
  Oid = {small, big}
  Size <- Sizes
  Standing <- Roles
  Public = {r1}
  R2Max = 2
  MinPart = 2
  MaxParts = 2
  Isolates = {i1}
  Slot = {c1, c2}
  Pool = Pool
  Order <- Listing
  TTL = 1
  Longest = 1
  Scenes <- MCScenes
  None = None
INVARIANTS NobodyOversteps OffersCanBeTaken QuotaHolds
CHECK_DEADLOCK FALSE
