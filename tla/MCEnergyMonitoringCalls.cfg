SPECIFICATION FamilySpec
CONSTANTS
  Fit <- BasicFit
  ToAwaken <- BasicToAwaken
  Infinity = 1000
  Order = "fcfs"
  SwitchOnTime = 1
  SwitchOffTime = 1
  EnsuredSleep = 3
  NbMachines = 2
  Requests = {1, 2, 3}
  Walltimes = {2}
  RjmsDelay = 1
  NbJobs = 2
  LastSubmission = 3
  MaxRun = 1
  Configurations <- PeriodicCalls
  Period = 1
  Altered <- PlusOne
  NbMonitored = 2
  LastDate = 10
CONSTRAINT Bounded
INVARIANT NeverDeadlocks
