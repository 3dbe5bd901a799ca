SPECIFICATION Spec
CONSTANTS
  dir1 = dir1
  dir2 = dir2
  file1 = file1
  file2 = file2
  home = home
  outside = outside
  Folders = {dir1, dir2}
  Files = {file1, file2}
  Home = home
  Outside = outside
  Existing <- ThereAtFirst
  Names = {"a", "ab"}
  Hidden = {}
  NamePrefixes = {}
  Unborn = Unborn
  Gone = Gone
  NoPath = NoPath
  QueueLimit = 3
  MaxChanges = 3
  MaxConfigs = 0
INVARIANTS
  MovedFileIsSignalled
