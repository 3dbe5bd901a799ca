SPECIFICATION PartsSpec
CONSTANTS
  Files = {f1, f2}
  Paths = {p, q}
  Nowhere = Nowhere
  MaxSecond = 2
  MaxVersion = 2
  Tree <- MCTree
  Leaves <- MCLeaves
  HiddenNames = {".b"}
  FilterNames = {"c"}
  Medium <- MCMedium
  Included <- MCIncluded
  MaxEdits = 2
  Docs = {1, 2, 3}
  Begins <- MCBegins
  LongWords = {"doc", "docs"}
  MaxTime = 3
  Databases <- MCDatabases
  Queries <- MCQueries
  MaxUses = 3
  Operand <- MCOperand
  Scopes <- MCScopes
  MaxPieces = 7
  TaggedFiles = {1, 2, 3}
  Name <- MCName
  AskedTags <- MCTags
  InitialTags <- MCInitialTags
  MaxRequests = 2
  Commands <- MCCommands
  Statuses <- MCStatuses
  MaxMessages = 2
  MaxRestarts = 1
  PositionLists <- MCPositionLists
  TermLists <- MCTermLists
  Postings <- MCPostings
  Letters = {"a"}
  Ideographs = {"k"}
  Documents <- MCDocuments
  Phrases <- MCPhrases
  MaxLength = 5
  ShownFiles = {f}
  Typed <- MCTyped
  Seconds = 2
  Offset = 1
  MaxDay = 9
  MaxSeconds = 64
  MaxTouches = 1
  Processes = {p1, p2}
  Urls = {u}
  FoundDocuments = {d, e}
  Monitored = {d}
  MaxChanges = 1
  MaxSignals = 1
  Ids = {1, 2}
  Times = {1, 2, 3}
  TermBytes <- MCTerms
  Stored <- MCStored
  Starts <- MCStarts
  MaxKey = 4
  MaxEntries = 8
  MaxCalls = 2
  MaxNews = 3
  MaxIdles = 4
  MaxMonitors = 2
  Clients = {"q", "c"}
  QmlMonitors = {"q"}
  MaxFiles = 2
  MaxStates = 1
  MaxStarts <- MCOnce
  MaxInbox = 2
  DescribedFiles <- MCDescribedFiles
  PropertyType <- MCPropertyType
  IndexedNames = {"t"}
  Kinds <- MCKinds
  TypedValues <- MCTypedValues
  ShownPaths = {"d", "f", "g"}
  Parent <- MCParent
  Configs <- MCConfigs
  StoredFiles <- MCStoredFiles
  Low = 16
  StatusLimit = 1
  FailedLimit = 2
  LongestKey = 6
  MaxSteps = 4
  RecordIds = {1}
  PositionTerms = {"w"}
  TimeInfos <- MCTimeInfos
  DataValues <- MCDataValues
  FilePaths <- MCFilePaths
  RecordTerms <- MCRecordTerms
  RecordPositions <- MCRecordPositions
  MaxOpens = 4
  MaxWrites = 2
  FileNames <- MCFileNames
  Defaults <- MCDefaults
  FilterList <- MCFilterList
  FilterVersion <- MCFilterVersion
  ConfigCommands <- MCConfigCommands
  Shells = {1, 2}
  MaxCommands = 2
INVARIANTS
  IndexFollowsFiles
  IndexFollowsConfig
  SearchesFindWhatIsAsked
  DaemonRunsAsAsked
  NothingIsLost
  OthersHearWhatIsSo
PROPERTIES
  EditsStayLocal
CHECK_DEADLOCK FALSE
