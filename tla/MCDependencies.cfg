SPECIFICATION DependenciesSpec
CONSTANTS
  IDs <- mcIDs
  Inputs <- mcInputs
  PathOf <- mcPathOf
  Libraries <- mcLibraries
  Modules <- mcModules
  SegmentCount = 4
  Order <- mcOrder
  Repos <- mcRepos
  Limit = 2
  Cancellable = TRUE
INVARIANTS
  OrdersAreCanonical
  ViewsAgreeWithGraph
  CyclesAgreeWithSort
  EdgesAreJustified
  NothingSilentlyDropped
  CleanMeansComplete
  SameOnEveryRun
CHECK_DEADLOCK FALSE
