SPECIFICATION Spec
CONSTANTS
  p1 = p1
  p2 = p2
  m1 = m1
  m2 = m2
  Procs = {p1}
  Modules = {m1, m2}
  Askers <- mcAskers
  procOf <- mcProcOf
  Plans <- mcPlans
  Keys = {1}
  TTL = 1
  Stored <- mcStored
  MaxClock = 2
  Shared = TRUE
  Products <- mcProducts
  keyOf <- mcKeyOf
  Sizes <- mcSizes
  Concurrency = 2
INVARIANTS
  PricesAreCurrent
  NoDriftWithoutChange
  MoreNeverCostsLess
CHECK_DEADLOCK FALSE
PROPERTIES
  EstimateEnds
