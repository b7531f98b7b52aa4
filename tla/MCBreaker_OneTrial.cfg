SPECIFICATION BreakerSpec
CONSTANTS
  Threshold = 2
  Reset = 1
  MaxRetries = 1
  RedisFaults = FALSE
  Replica = {r1}
  Upstream = {p1}
  Call = {c1, c2}
INVARIANT
  OneTrial
