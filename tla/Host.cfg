SPECIFICATION Spec
CONSTANTS
  Published <- MCPublished
  Backends = {"cuda","cpu"}
  MaxInstallCrashes = 1
  Parcels = {"j1","j2"}
  ModelFiles = {"m1", "proj"}
  FilesOf <- MCFilesOf
  PrimaryOf <- MCPrimaryOf
  ShardsOf <- MCShardsOf
  Hashed = {"m1"}
  NoModel = NoModel
  Folder = Folder
  MaxHarm = 1
  Names = {n1, n2}
  Addresses = {a1, a2}
  Threshold = 2
  Lockout = 3
  BackoffBase = 1
  BackoffMax = 2
  MaxTime = 5
  Ggufs <- MCGgufs
  NoDraft <- MCNoDraft
  Settings <- MCSettings
  Machines <- MCMachines
  Pad = 2
  CopiedFrom = 2
  CacheSize <- MCCacheSize
  Resolves <- MCResolves
  TsFiles = {"main.ts","lib.ts"}
  OUTPUT = "index"
  Drafts <- MCDrafts
  Edits <- MCEdits
  MaxFileSize = 4
  MaxFiles = 4
  MaxTotal = 6
  MaxCalls = 5
  TriedTexts <- MCTriedTexts
  TriedEdits <- MCTriedEdits
  MaxTasks = 1
SYMMETRY Symmetry
INVARIANTS  FitIsBest  ThrottleHolds
PROPERTIES LibraryKept
CHECK_DEADLOCK FALSE
