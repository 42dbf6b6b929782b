CONSTANTS
  w1 = w1
  w2 = w2
  Workers <- TwoWorkers
  Removable <- OneWorker
  Parallel = 2
  FailDivisor = 1
  SchedulerThrows = TRUE
  MaxFaults = 3
SPECIFICATION Spec
INVARIANTS
  CountersAgree
  SampleOnce
  FinalAlone
  WeightDelivered
  NotStuck
CHECK_DEADLOCK FALSE
