CONSTANTS
  a1 = a1
  a2 = a2
  a3 = a3
  shot = shot
  scene = scene
  Tasks <- ThreeTasks
  Sessions <- OneSession
  Executions <- OneExecution
  Type <- TypeOf
  Session <- SessionOf
  Execution <- ExecutionOf
  Resources <- TwoEach
  Unlisted <- NoSession
  MaxDeletes = 1
  MaxCrashes = 1
SPECIFICATION FairSpec
INVARIANTS
  TypeOK
  CacheComplete
  Supplied
  LinksOwned

  
CHECK_DEADLOCK FALSE
