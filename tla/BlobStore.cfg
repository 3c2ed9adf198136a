SPECIFICATION Spec
CONSTANTS
  Clients = {c1, c2}
  Keys = {k1, k2}
  NoClient = nobody
  NoKey = nokey
  MaxPuts = 2
  MaxCrashes = 1
  IOErrors = TRUE
INVARIANTS
  AtRestHoldsLastWrite
  ListIsExactAtRest
PROPERTIES
  EveryCallReturns
CHECK_DEADLOCK FALSE
