SPECIFICATION Spec
CONSTANTS
  Fit <- ContiguousFit
  Infinity = 100
  IdRank <- ReverseRank
  Queries <- OneQuery
  NbMachines = 3
  Requests = {1, 2, 4}
  Walltimes <- SomeWalltimes
  RjmsDelay = 0
  NbJobs = 4
  LastSubmission = 1
  MaxRun = 1
CONSTRAINT FewExceptions
INVARIANTS
  ScheduleMatchesPlatform
  NoReservationMissed
  ScheduleIsSound
PROPERTIES
  ImplementsResourceManager
  ReservationNeverPostponed
