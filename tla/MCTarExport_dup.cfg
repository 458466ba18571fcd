CONSTANTS
  CommitCsum <- MCCommit
  RootTree <- T0
  RootMeta <- M0
  Trees <- MCTrees
  Files <- MCFiles
  DirMode <- MCDirMode
  EmptyXattrs = "XE"
  XattrsDigest <- MCXattrsDigest
  ShardDirs <- MCShardDirs
  FormatVersions = {0, 1, 2}
  BrokenChoices <- MCBrokenChoices

SPECIFICATION Spec

\* An export really stops once it is done or has failed.
CHECK_DEADLOCK FALSE

INVARIANT
  NoDuplicatePaths
