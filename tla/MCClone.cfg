SPECIFICATION GenerateSpec
CONSTANTS
  Parts = {"select"}
  IDs <- mcIDs
  Repos <- mcClones
  SegmentCount = 2
  Words <- mcWords
  Builds <- mcIdle
  Pipelines <- mcPipelines
  Configs <- mcConfigs
  Executed = {}
  MaxShared = 4
  LocalBuilds = {}
  LocalRequests <- mcRequests
  ExecutionConfigs <- mcExecutionConfigs
  MaxRounds = 2
INVARIANT ChangedSinceParting
CHECK_DEADLOCK FALSE
