SPECIFICATION Spec
CONSTANTS
  NbMachines = 2
  Fit <- BasicFit
  Left <- LeftMost
  Variants = {"sequencer_dvfs"}
  Orders = {"lcfs"}
  NbStatic = 3
  Lighter = {"crasher", "sequencer_dvfs"}
  NbDynamic = 0
  Requests = {1, 2, 3}
  Walltimes = {2}
  DynamicRun = 1
  LastSubmission = 1
  SwitchTime = 1
  MaxOutages = 0
  MaxQueries = 1
  KillPlans <- SomeKillPlans
  KillMargin = 2
  CrashPlans <- SomeCrashPlans
  MonitoringPeriod = 1
  FillPlans <- SomeFillPlans
  SubmissionPlans <- SomeSubmissionPlans
  DirectDelay = 2
INVARIANTS
  MonitoringGoesOn
