SPECIFICATION Spec
CONSTANTS
  s1 = s1
  s2 = s2
  l1 = l1
  glm = glm
  loc = loc
  tier = tier
  r1 = r1
  r2 = r2
  p1 = p1
  p2 = p2
  Slug = {s1, s2}
  LocalModel = {l1}
  NameOf <- MCNameOf
  Price = {0, 1, 2}
  FirstLibrary <- MCFirst
  BadName = {tier}
  Base <- MCBase
  MaxSuffix = 4
  Req = {r1, r2}
  JobsOf <- MCJobsOf
  Pass = {p1, p2}
  Change <- MCChange
  MaxChanges = 1
  Gone = Gone
  NoPrice = NoPrice
  NoId = NoId
  NoRow = NoRow
INVARIANT
  RemovedMeansUnlisted
PROPERTY
  IdNeverRepoints
SYMMETRY MCSymmetry
CHECK_DEADLOCK FALSE
