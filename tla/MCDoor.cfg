SPECIFICATION FairDoor
CONSTANTS
  r1 = r1
  r2 = r2
  r3 = r3
  k1 = k1
  NoKey = NoKey
  p1 = p1
  p2 = p2
  Request = {r1, r2, r3}
  KeysOf <- MCKeysOf
  SitesOf <- MCSitesOf
  Turn = {r1, r2}
  Replica = {p1, p2}
  Cap = 1
  RateLimit = 3
  Quota = 2
  MaxCrashes = 1
INVARIANTS
  KeyNamesOneRun
PROPERTIES
  EveryRunRowEnds
CHECK_DEADLOCK FALSE
