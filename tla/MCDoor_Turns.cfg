SPECIFICATION DoorSpec
CONSTANTS
  r1 = r1
  r2 = r2
  r3 = r3
  k1 = k1
  NoKey = NoKey
  p1 = p1
  p2 = p2
  Request = {r2, r3}
  KeysOf <- MCKeysOf
  SitesOf <- MCSitesOf
  Turn = {r2, r3}
  Replica = {p1, p2}
  Cap = 2
  RateLimit = 3
  Quota = 2
  MaxCrashes = 0
INVARIANTS
  TurnsSequential
CHECK_DEADLOCK FALSE
