SPECIFICATION Spec
CONSTANTS
  s1 = s1
  s2 = s2
  Stream = {s1}
  Kinds = {"provider", "anthropic", "mlx"}
  Smart = {s1}
  WantUsage = {}
  Slots = 1
  Retries = 1
  MaxDeltas = 1
INVARIANTS
  DisconnectRecorded
CHECK_DEADLOCK FALSE
