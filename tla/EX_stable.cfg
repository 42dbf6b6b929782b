CONSTANTS
  w1 = w1
  w2 = w2
  Workers <- OneWorker
  Removable <- NoWorker
  Parallel = 4
  FailDivisor = 2
  SchedulerThrows = FALSE
  MaxFaults = 2
SPECIFICATION FairSpec
INVARIANTS
  TypeOK
PROPERTIES
  RenderingSpec
  Ends
CHECK_DEADLOCK FALSE
