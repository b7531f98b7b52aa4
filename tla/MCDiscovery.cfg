SPECIFICATION FairDiscovery
CONSTANTS
  Upstreams <- MCUpstreams
  Configs <- MCConfigs
  AccountId = {"x", "y"}
  FirstPage = "start"
  NoToken = "end"
  MaxRows = 6
  MaxPages = 3
  MaxAccounts = 1
INVARIANTS
  SuccessIsComplete
PROPERTIES
  EveryDiscoveryEnds
CHECK_DEADLOCK FALSE
