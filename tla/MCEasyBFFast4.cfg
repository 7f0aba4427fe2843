SPECIFICATION Spec
CONSTANTS
  Left <- LeftMost
  NbMachines = 3
  Requests = {1, 2}
  Walltimes <- TwoWalltimes
  RjmsDelay = 1
  NbJobs = 4
  LastSubmission = 1
  MaxRun = 1
INVARIANTS
  ReservationIsCovered
  BackfillIsMaximal
PROPERTIES
  PromiseNeverPostponed
