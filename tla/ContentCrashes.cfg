SPECIFICATION FairSpec
CONSTANTS
  p1 = p1
  p2 = p2
  p3 = p3
  x1 = x1
  NoPath = NoPath
  NoFile = NoFile
  N = 3
  Paths <- ThreePaths
  Excluded <- NoExcluded
  BatchSize = 3
  ErrorLimit = 0
  Crashing <- Second
  Unsuitable <- Third
  MaxFsChanges = 0
  MaxFaults = 3
  MaxQuits = 1
CHECK_DEADLOCK FALSE
INVARIANTS
  ContentNotForgotten
  RemainingNeverWraps
PROPERTIES
  Drained
  QuitEndsRun
