SPECIFICATION GenerateSpec
CONSTANTS
  Parts = {"select", "build"}
  IDs <- mcIDs
  Repos <- mcRepos
  SegmentCount = 2
  Words <- mcWords
  Builds <- mcAllBuilds
  Pipelines <- mcPipelines
  Configs <- mcConfigs
  Executed <- mcExecuted
  MaxShared = 4
  LocalBuilds <- mcLocalBuilds
  LocalRequests <- mcRequests
  ExecutionConfigs <- mcExecutionConfigs
  MaxRounds = 2
INVARIANTS
  AffectedSelected
  NothingElseSelected
  BuildFailsForAReason
  PlanAfterDependencies
  PluginsGetWhatTheyAskFor
  CIRunsTheIR
  OneTerraformPerModule
  LocalRoundsAreWhole
CHECK_DEADLOCK FALSE
