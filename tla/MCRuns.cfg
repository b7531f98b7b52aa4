SPECIFICATION MCSpec
CONSTANTS
  r1 = r1
  p1 = p1
  p2 = p2
  w1 = w1
  w2 = w2
  c1 = c1
  Run = {r1}
  Replica = {p1, p2}
  Client = {c1}
  Worker = {w1, w2}
  NoRun = NoRun
  Ttl = 2
  MaxPublish = 1
  MaxSpans = 2
  MaxFaults = 1
INVARIANTS
  LiveRunReapedOnlyWhenSilent
  NoDoubleReap
  TerminalAnnounced
PROPERTIES
  EveryRunEnds
  TailLearnsEnd
