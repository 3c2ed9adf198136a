SPECIFICATION CommandsSpec
CONSTANTS
  Parts = {"startup"}
  Factories <- mcFactories
  ConfigNames <- mcConfigNames
  Contents <- mcContents
  Environments <- mcEnvironments
  Requests <- mcRequests
  Asked <- mcAsked
  MaxCommands = 2
  MaxSaveFaults = 1
  a = a
  b = b
  Modules <- mcModules
  Providers <- mcProviders
  ProviderVersions <- mcProviderVersions
  ModuleVersions <- mcModuleVersions
  ModuleDeps <- mcModuleDeps
  Platforms <- mcPlatforms
  Summed <- mcSummed
  Disks <- mcDisks
  Configs <- mcConfigs
  MaxFaults = 2
INVARIANT ImageIsOptional
CHECK_DEADLOCK FALSE
