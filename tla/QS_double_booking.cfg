CONSTANTS
  w1 = w1
  w2 = w2
  p1 = p1
  p2 = p2
  r1 = r1
  r2 = r2
  Workers <- TwoWorkers
  Producing <- TwoProducing
  Reducing <- OneReducing
  Retried <- Nothing
  FaultOutcomes <- AllFaults
SPECIFICATION Spec
INVARIANT UnusedIsFree
