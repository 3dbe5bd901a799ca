SPECIFICATION FairSpec
CONSTANTS
  p1 = p1
  p2 = p2
  p3 = p3
  x1 = x1
  NoPath = NoPath
  NoFile = NoFile
  N = 2
  Paths <- ThreePaths
  Excluded <- NoExcluded
  BatchSize = 2
  ErrorLimit = 0
  Crashing <- NoIds
  Unsuitable <- NoIds
  MaxFsChanges = 1
  MaxFaults = 0
  MaxQuits = 0
CHECK_DEADLOCK FALSE
INVARIANT NoFileForgotten
