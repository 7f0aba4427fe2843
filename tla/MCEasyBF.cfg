SPECIFICATION Spec
CONSTANTS
  Fit <- BasicFit
  Infinity = 100
  Orders = {"fcfs", "desc_size"}
  NbMachines = 3
  Requests = {1, 2, 4}
  Walltimes <- SomeWalltimes
  RjmsDelay = 0
  NbJobs = 4
  LastSubmission = 0
  MaxRun = 1
CONSTRAINT FewRejections
INVARIANTS
  ScheduleMatchesPlatform
  ReservationIsAhead
  BackfillIsMaximal
PROPERTIES
  ReservationNeverPostponed
  ImplementsResourceManager
