SPECIFICATION FairSpec
CONSTANTS
  q1 = q1
  q2 = q2
  cloudA = cloudA
  cloudB = cloudB
  box1 = box1
  box2 = box2
  stub = stub
  dyn = dyn
  pa = pa
  pb = pb
  pl = pl
  Smart = Smart
  Empty = Empty
  Unknown = Unknown
  NoModel = NoModel
  DefaultModel = cloudB
  Threshold = 2
  Reset = 1
  Retries = 1
  Req <- MCReq
  Caps <- MCCaps
  ConfigsOf <- MCConfigsOf
  Limit = 1
  Model <- MCModel
  Catalog <- MCCatalog
  Perimeter = {box1, box2, stub}
  Fake = {stub}
  Frontier = {cloudA, cloudB}
  Dynamic = {dyn}
  ProviderOf <- MCProviderOf
  Byok = {pa, pb}
  Price <- MCPrice
INVARIANTS
  TraceHonest
  RefusedNeverServed
  StaysInPerimeter
  OwnKeyOrNone
PROPERTIES
  EveryRequestEnds
