SPECIFICATION ReportsSpec
CONSTANTS
  m1 = m1
  m2 = m2
  w1 = w1
  w2 = w2
  Modules = {m1}
  Pipelines = {w1, w2}
  Producers = {"policy", "tfupdate"}
  PlanFiles <- mcPlanFiles
  Workspaces <- mcWorkspaces
  Kinds <- mcKinds
  MaxFaults = 1
  OnChangesOnly = TRUE
  Templates = {"static", "resource"}
  PolicyConfig <- mcConfig
  Policies <- mcAllows
  OneByOne = TRUE
  UserLabels <- mcUserLabels
  MaxEdits = 1
  Paths = {m1, m2}
  Results <- mcResults
  TerraformPlans <- mcTerraformPlans
  Environment <- mcEnvironment
  MaxShown = 2
  MaxAddress = 3
  OldFiles <- mcOldFiles
  MaxPublished = 2
INVARIANTS
  SummaryIsOfItsPlans
  ReportsFollowResults
  OneComment
  LabelsFollowComment
  ReaderIsTold
CHECK_DEADLOCK FALSE
