SPECIFICATION FairSpec
CONSTANTS
  s1 = s1
  s2 = s2
  Stream = {s1, s2}
  Kinds = {"provider", "anthropic", "mlx"}
  Smart = {s2}
  WantUsage = {s2}
  Slots = 1
  Retries = 1
  MaxDeltas = 1
INVARIANTS
  NoReplay
  ValveHolds
  TraceTellsClient
PROPERTIES
  EveryStreamEnds
CHECK_DEADLOCK FALSE
