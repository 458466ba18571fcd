CONSTANTS
  Archives <- MCArchives
  TargetBlob = "target"
  LayerNeeded = 1
  PipeCap = 2
  ChanCap = 2

SPECIFICATION Spec

\* The import really stops once joined; a stuck state fails Termination.
CHECK_DEADLOCK FALSE

INVARIANTS
  TypeOK
  ForwardsOnlyTarget
  OkMeansComplete
  NoSpuriousFailure

PROPERTIES
  Termination
