SPECIFICATION AccountsSpec
CONSTANTS
  u1 = u1
  u2 = u2
  o1 = o1
  h1 = h1
  h2 = h2
  t1 = t1
  t2 = t2
  t3 = t3
  t4 = t4
  t5 = t5
  None = None
  User = {u1, u2}
  Org = {o1, h1, h2}
  Token = {t1, t2, t3, t4, t5}
  HomeOf <- MCHomeOf
  Op = {1, 2, 3, 4}
  JobsOf <- MCJobsOf
  Mem0 <- MCMem0
  Tok0 <- MCTok0
INVARIANT
  RevokedStaysRevoked
PROPERTY
  DeactivatedStaysOut
CHECK_DEADLOCK FALSE
