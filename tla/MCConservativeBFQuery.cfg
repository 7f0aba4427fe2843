SPECIFICATION Spec
CONSTANTS
  Fit <- BasicFit
  Infinity = 100
  IdRank <- ReverseRank
  Queries <- OneQuery
  NbMachines = 2
  Requests = {1, 2, 3}
  Walltimes <- SomeWalltimes
  RjmsDelay = 0
  NbJobs = 3
  LastSubmission = 1
  MaxRun = 1
PROPERTIES
  EstimationIsAwayFromNow
