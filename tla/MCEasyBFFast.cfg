SPECIFICATION FairSpec
CONSTANTS
  Left <- LeftMost
  NbMachines = 2
  Requests = {1, 2, 3}
  Walltimes <- SomeWalltimes
  RjmsDelay = 0
  NbJobs = 3
  LastSubmission = 1
  MaxRun = 1
INVARIANTS
  TypeOK
  ResourceAccounting
  HorizonsMatchAllocations
  NoJobForgotten
  PromiseIsKept
PROPERTIES
  ImplementsResourceManager
  EveryJobServed
