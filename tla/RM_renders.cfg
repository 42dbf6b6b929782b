CONSTANTS
  w1 = w1
  w2 = w2
  scene = scene
  mesh = mesh
  image = image
  r1 = r1
  r2 = r2
  u1 = u1
  u2 = u2
  Workers <- TwoWorkers
  Files <- TheFiles
  Results <- TheResults
  Handlers <- TheHandlers
  Kind <- Kinds
  Request <- Requests
  Placeholder = FALSE
  MaxLives = 1
SPECIFICATION FairSpec
INVARIANTS
  TypeOK
  RunSupplied
  UploadFindable
PROPERTIES
  RequestsEnd
CHECK_DEADLOCK FALSE
