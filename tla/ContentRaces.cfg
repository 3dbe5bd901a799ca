SPECIFICATION Spec
CONSTANTS
  p1 = p1
  p2 = p2
  p3 = p3
  x1 = x1
  NoPath = NoPath
  NoFile = NoFile
  N = 2
  Paths <- TwoPaths
  Excluded <- OneExcluded
  BatchSize = 2
  ErrorLimit = 0
  Crashing <- Second
  Unsuitable <- NoIds
  MaxFsChanges = 3
  MaxFaults = 0
  MaxQuits = 1
CHECK_DEADLOCK FALSE
INVARIANTS
  TypeOK
  EachUrlOneDocument
  MarkedHaveDocuments
  FailedOnlyIfCrashing
