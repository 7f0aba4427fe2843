SPECIFICATION FamilySpec
CONSTANTS
  Fit <- BasicFit
  ToAwaken <- BasicToAwaken
  Infinity = 1000
  Order = "fcfs"
  SwitchOnTime = 1
  SwitchOffTime = 1
  EnsuredSleep = 2
  NbMachines = 2
  Requests = {1, 2}
  Walltimes = {2}
  RjmsDelay = 0
  NbJobs = 2
  LastSubmission = 2
  MaxRun = 1
  Configurations <- OnlyBase
  Period = 2
  Altered <- PlusOne
  NbMonitored = 2
  LastDate = 7
CONSTRAINT Bounded
INVARIANT NoSliceAssertionFails
