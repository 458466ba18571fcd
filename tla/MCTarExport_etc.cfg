CONSTANTS
  CommitCsum <- MCCommit
  RootTree <- T5
  RootMeta <- M0
  Trees <- MCTreesEtc
  Files <- MCFiles
  DirMode <- MCDirMode
  EmptyXattrs = "XE"
  XattrsDigest <- MCXattrsDigest
  ShardDirs <- MCShardDirs
  FormatVersions = {0, 1}
  BrokenChoices = {{}}

SPECIFICATION Spec

\* An export really stops once it is done or has failed.
CHECK_DEADLOCK FALSE

INVARIANT
  UniquePaths
