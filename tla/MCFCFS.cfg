SPECIFICATION FairSpec
CONSTANTS
  Left <- LeftMost
  Fit <- ContiguousFit
  NbMachines = 3
  Requests = {1, 2, 3, 4}
  Walltimes <- SomeWalltimes
  RjmsDelay = 0
  NbJobs = 3
  LastSubmission = 1
  MaxRun = 2
INVARIANTS
  ResourceAccounting
  FirstComeFirstServed
  QueueIsBlocked
PROPERTIES
  ImplementsResourceManager
  EveryJobServed
