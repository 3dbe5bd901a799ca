SPECIFICATION Spec
CONSTANTS
  folder = folder
  file = file
  Files <- OneFile
  Folders <- OneFolder
  Below <- BelowIt
  MinTimeout = 1
  MaxTimeout = 3
  TrackingTime = 4
  Day = 100
  Slack = 1
  MaxEvents = 5
  Horizon = 9
INVARIANTS
  TypeOK
  TimersRun
  NoChangeForgotten
  QuietFileAnnounced
  TrackingEnds
PROPERTIES
  NotTooOften
CHECK_DEADLOCK FALSE
