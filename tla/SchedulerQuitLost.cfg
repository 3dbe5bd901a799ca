SPECIFICATION FairSpec
CONSTANTS
  f1 = f1
  Files <- MCFiles
  Folders <- MCFolders
  MaxTimers = 2
  MaxPhaseOne = 2
PROPERTY QuitStopsNextBatch
