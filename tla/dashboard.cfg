SPECIFICATION Spec
CONSTANTS
  None = None
  Sessions = {"s1", "s2"}
  MaxExchanges = 2
  MaxMounts = 2
  MaxChunks = 1
  MaxFiles = 1
  MaxFailures = 1
  Backtick = "t"
  Newline = "n"
  Other = "x"
  Deltas <- Chunks
  MaxDeltas = 5
  Accounts = {"a1", "a2"}
  Flaws = {"expired"}
  Commands = {"toggle", "check", "remove", "enableByProvider", "disableByProvider",
              "removeByProvider", "bulkRefreshTokens", "checkAllCredits", "removeFlawed",
              "importData", "refresh", "goToPage", "filter", "search"}
  Limit = 1
  MaxTableTasks = 2
  Requests = {"r1", "r2"}
  MaxRecords = 2
  Limits = {"20", "50"}
  Ranges = {"day", "week"}
  StartLimit = "50"
  StartRange = "day"
  MaxRequests = 4
  MaxClears = 1
  Items = {"i1", "i2"}
  Single = "i1"
  MaxTasks = 3
  Tools = {"t1", "t2"}
  FirstTool = "t1"
  Models = {"m1", "m2"}
  Default = "d"
  MaxCatalogs = 1
  MaxSessions = 2
  MaxCalls = 5
  Urls = {"u1", "u2"}
  FirstUrl = "u1"
  MaxFailCount = 3
  MaxIds = 2
  MaxProxyCalls = 3
  MaxFaults = 1
  Sources = {"s1"}
  MaxJobs = 2
  MaxBatches = 1
  Sections = {"a", "b"}
  MaxRuns = 2
  MaxPieces = 2
  MaxEdits = 2
INVARIANTS
  ViewMatchesStorage
  ProgressHasStream
  OneTitle
  HighlightSound
  TableIsCurrent
  BusyHasTask
  UsageAccounted
  ShownIsSelected
  SettingsAgree
  IntegrationSound
  LoginSound
  ProxiesSound
  AnswerIsShown
PROPERTIES
  SavedOnce
  StreamStable
\* Every page may come to rest: its commands and requests are bounded.
CHECK_DEADLOCK FALSE
