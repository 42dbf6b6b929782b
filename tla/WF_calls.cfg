CONSTANTS
  p1 = p1
  p2 = p2
  d1 = d1
  d2 = d2
  t1 = t1
  t2 = t2
  t3 = t3
  scene = scene
  image = image
  junk = junk
  Free = Free
  None = None
  Procs <- TwoProcs
  Dirs <- TwoDirs
  Threads <- ThreeThreads
  Serves <- ThreadsOf
  Duties <- DutiesOf
  Contents <- TheContents
  Junk = junk
  Small <- TheSmall
  Images <- TheImages
  Scene = scene
  MaxDirs = 1
  MaxCalls = 5
SPECIFICATION Spec
SYMMETRY Symmetry
INVARIANTS
  TypeOK
  KeepsPromises
PROPERTIES
  ReadsWhole
