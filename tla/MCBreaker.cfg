SPECIFICATION FairBreakers
CONSTANTS
  Threshold = 2
  Reset = 2
  MaxRetries = 1
  RedisFaults = TRUE
  Replica = {r1, r2}
  Upstream = {p1}
  Call = {c1, c2}
INVARIANTS
  OpenIffStreak
PROPERTIES
  NoBreakerSticks
