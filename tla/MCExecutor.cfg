SPECIFICATION Spec
CONSTANTS
  a = a
  b = b
  c = c
  d = d
  Names <- mcNames
  IRs <- mcIRs
  Parallelism = 2
  CallerCancels = TRUE
INVARIANTS
  LayersAreTight
  OutcomeTellsWhatHappened
  ValidPipelinesAreSchedulable
PROPERTIES
  NoGroupAfterFailure
  ExecuteReturns
  ImplementsDagRun
