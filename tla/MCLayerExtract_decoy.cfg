CONSTANTS
  Archives <- MCDecoyArchives
  TargetBlob = "target"
  LayerNeeded = 1
  PipeCap = 2
  ChanCap = 2

SPECIFICATION Spec

CHECK_DEADLOCK FALSE

INVARIANT
  ForwardsOnlyTarget
