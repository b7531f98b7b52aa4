SPECIFICATION MCSpec
CONSTANTS
  pa = pa
  pb = pb
  Part <- MCPart
  Rank = {1, 2, 3}
  Identity = {1, 2, 3, 4}
  Offers <- MCOffers
  Elsewhere = {3}
  Bearer = {1, 3}
  Query <- MCQuery
  Syncer = {"loop", "op1", "op2"}
  Starter = "loop"
  MaxSyncs = 3
  Limit = 1
INVARIANTS
  CatalogNotTorn
  PagesAddUp
PROPERTIES
  CatalogMovesForward
  CatalogConverges
