SPECIFICATION Spec
CONSTANTS
  t1 = t1
  t2 = t2
  p1 = p1
  p2 = p2
  None = None
  Turn = {t1, t2}
  Replica = {p1, p2}
  Scope = {"a", "team", "b"}
  OrgOf <- MCOrgOf
  ScopesOf <- MCScopesOf
  Base = {"gen"}
  AdoptedBy <- MCAdoptedBy
  DenyOf <- MCDenyOf
  SessionOf <- MCSessionOf
  OpeningOf <- MCOpeningOf
  AsksOf <- MCAsksOf
  SitesOf <- MCSitesOf
  Order <- MCOrder
  ToolModel = {"gen"}
  Frontier = "gen"
  Global <- MCGlobal
  Category = {"code"}
  Bodies <- MCBodies
  InPerimeter = {"gen"}
  DefaultClassifier = "coder"
  Policy0 <- MCPolicy0
  Rankings <- MCRankings
  Rank0 <- MCRank0
  DataLabel = {"restricted"}
  LabelTtl = 1
  HoldOf <- MCHoldOf
  WarmTtl = 2
  DeclaredTtl = 3
  Window = 1
  MaxTicks = 1
  MaxChanges = 1
INVARIANTS
  LabelsTravelTogether
  BindingsBeatWarmth
  ToolsReachTools
PROPERTY
  WarmConversationStays
CHECK_DEADLOCK FALSE
