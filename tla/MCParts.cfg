SPECIFICATION PartsSpec
CONSTANTS
  Names <- MCNames
  DirNames <- MCDirNames
  Paths <- MCPaths
  Disk0 <- MCDisk0
  Queries <- MCQueries
  Score <- MCScore
  Hits <- MCHits
  Batch = 2
  Threshold = 0
  Visible = 2
  ViewCap = 2
  Calls <- MCCalls
  MaxCalls = 2
  MaxChanges = 1
  Scripts = {s1, s2}
  Contexts <- MCContexts
  HandlerCap = 1
  MenuItems = 3
  MenuRows = 2
  MaxApi = 2
  MaxRounds = 2
  Sockets = {1}
  Delays = {0, 1, 2}
  MaxFrames = 7
  MaxPicks = 4
  MaxPromises = 2
  MaxClock = 3
  Objs = {o1, o2, o3}
  NoObj = NoObj
  MaxHeld = 1
  MaxItems = 2
  Keys = {1, 2, 3, 4}
  Hash <- MCHash
  Vals = {1, 2}
  FirstCap = 2
  MaxCap = 8
  Archives <- MCPaxArchives
  TarBlock = 2
  MaxRead = 2
  Fields <- MCFields
  Defaults <- MCDefaults
  SetCodes <- MCSetCodes
  SetTexts <- MCSetTexts
  UserTexts <- MCUserTexts
  CacheKeys <- MCCacheKeys
  CacheValues <- MCCacheValues
  MaxLine = 10
  MaxSets = 3
INVARIANTS
  PartsTypeOK
  SelectionIsUnderCursor
  ViewShowsTheListing
  CallsReachLiveScripts
  EventReachesEveryone
  DialogIsAnswered
  CallsNest
  PromisesHaveOwners
  CountsAreExact
  MapIsAFunction
  DataIsOfTheEntry
  EveryEntryIsReturned
  StoredIsFound
PROPERTIES
  CleanupRuns
  CollectorIsExact
