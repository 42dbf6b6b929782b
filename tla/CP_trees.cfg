CONSTANTS
  Programs <- BothPrograms
  Formats <- AllFormats
  Sizes <- OneTwo
  Channel = 3
  Values <- Shades
  MaxSamples = 3
  MaxComposed = 2
  MaxInputs = 2
SPECIFICATION Spec
INVARIANTS
  TypeOK
  Accuracy
CHECK_DEADLOCK FALSE
