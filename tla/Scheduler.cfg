SPECIFICATION FairSpec
CONSTANTS
  f1 = f1
  Files <- MCFiles
  Folders <- MCFolders
  MaxTimers = 2
  MaxPhaseOne = 2
INVARIANTS
  TypeOK
  OneRunnerWhenBusy
  StateNamesRunner
  NoLostWakeup
  FirstRunComesFirst
PROPERTIES
  FilesAreServed
  SuspendTakesEffect
  HousekeepingIsServed
