SPECIFICATION FairSpec
CONSTANTS
  w1 = w1
  w2 = w2
  fw = fw
  orr = orr
  Worker <- MCWorker
  Op = {o1}
  k1 = k1
  k2 = k2
  Key = {k1}
  Provider = {fw, orr}
  Intent <- MCIntent
  Anonymous = {orr}
  Outcome = {"success", "failed"}
  Lag = 1
  MaxOther = 1
  MaxFaults = 1
  Nobody = Nobody
  NoKey = NoKey
INVARIANT
  OutcomeBacked
PROPERTIES
  AliasesMoveForward
  ImplementsLedger
  EveryOperationSettles
