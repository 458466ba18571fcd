CONSTANTS
  Archives <- MCArchives
  TargetBlob = "target"
  LayerNeeded = 1
  PipeCap = 2
  ChanCap = 2

SPECIFICATION Spec

CHECK_DEADLOCK FALSE

\* skopeo failing mid-copy: the join reports import_tar's knock-on error.
INVARIANT
  ErrorNamesFault
