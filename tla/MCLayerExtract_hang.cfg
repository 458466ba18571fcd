CONSTANTS
  Archives <- MCArchives
  TargetBlob = "target"
  LayerNeeded = 1
  PipeCap = 2
  ChanCap = 2

SPECIFICATION SpecWithEarlyExit

CHECK_DEADLOCK FALSE

PROPERTY
  Termination
