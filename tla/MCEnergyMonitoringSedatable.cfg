SPECIFICATION FamilySpec
CONSTANTS
  Fit <- BasicFit
  ToAwaken <- BasicToAwaken
  Infinity = 1000
  Order = "asc_size"
  SwitchOnTime = 1
  SwitchOffTime = 1
  EnsuredSleep = 3
  NbMachines = 2
  Requests = {1, 2}
  Walltimes = {2}
  RjmsDelay = 1
  NbJobs = 3
  LastSubmission = 3
  MaxRun = 1
  Configurations <- OnlySubpart
  Period = 1
  Altered <- PlusOne
  NbMonitored = 3
  LastDate = 10
CONSTRAINT Bounded
INVARIANT SedatableMachinesAreAwake
