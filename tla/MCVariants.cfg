SPECIFICATION FairSpec
CONSTANTS
  NbMachines = 2
  Fit <- BasicFit
  Left <- LeftMost
  Variants = {"filler", "sleeper", "submitter", "killer", "killer2", "sequencer", "crasher", "sequencer_dvfs", "rejecter", "random", "waiting_time_estimator", "energy_watcher"}
  Orders = {"desc_size"}
  NbStatic = 3
  Lighter = {"crasher", "sequencer_dvfs", "filler", "sleeper", "submitter", "random"}
  NbDynamic = 2
  Requests = {1, 2, 3}
  Walltimes = {2}
  DynamicRun = 1
  LastSubmission = 1
  SwitchTime = 1
  MaxOutages = 2
  MaxQueries = 1
  KillPlans <- SomeKillPlans
  KillMargin = 2
  CrashPlans <- SomeCrashPlans
  MonitoringPeriod = 1
  FillPlans <- SomeFillPlans
  SubmissionPlans <- SomeSubmissionPlans
  DirectDelay = 2
CONSTRAINT FewRejections
ACTION_CONSTRAINT LastOutageFollows
INVARIANTS
  BooksMatchPlatform
  NothingLeftUnread
  SleeperSetsMatchPlatform
PROPERTIES
  DatesNeverDecrease
  DecisionsAreLegal
  FillerHeedsOutages
  ProfilesAreKnown
  EverySimulationEnds
