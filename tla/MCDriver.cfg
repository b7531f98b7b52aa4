SPECIFICATION MCSpec
CONSTANTS
  Setups <- MCSetups
  Queries <- MCQueries
  MaxTasks = 3
  Retries = 1
  MaxTurns = 2
  None = None
INVARIANTS
  LocalStaysLocal
  ItemsSettle
PROPERTIES
  SiblingsSurvive
  EveryDriverRunEnds
CHECK_DEADLOCK FALSE
