CONSTANTS
  w1 = w1
  w2 = w2
  Workers <- OneWorker
  waitingPongTimeout = 2
  DestroyMayFail = FALSE
  MaxRestarts = 0
  MaxSurplus = 0
SPECIFICATION Spec
PROPERTY CondemnedNotRecognized
