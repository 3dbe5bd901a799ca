SPECIFICATION Spec
CONSTANTS
  folder = folder
  file = file
  Files <- OneFile
  Folders <- OneFolder
  Below <- BelowIt
  MinTimeout = 1
  MaxTimeout = 3
  TrackingTime = 4
  Day = 6
  Slack = 1
  MaxEvents = 3
  Horizon = 10
INVARIANTS
  QuietFileAnnounced
CHECK_DEADLOCK FALSE
