CONSTANTS
  w1 = w1
  w2 = w2
  Workers <- OneWorker
  waitingPongTimeout = 4
  DestroyMayFail = TRUE
  MaxRestarts = 1
  MaxSurplus = 2
SPECIFICATION FairSpec
INVARIANTS
  TypeOK
  PongAccounting
  RecognizedListed
PROPERTIES
  DestroyJustified
  CondemnedStays
  DeadForgotten
  ResponsiveReturns
