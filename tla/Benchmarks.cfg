CONSTANTS
  KeepRounds = 1
  Short = 1
  ContextSize = 9
  ReserveFloor = 2
  SummarySize = 2
  MaxCompactions = 2
  MaxRounds = 2
  TokenLimits = {3}
  Sizes = {1, 3}
  MaxCalls = 3
  MaxTasks = 1
  Offered = {"write_file", "read_file", "complete_task", "finish_job"}
  Runs = {r1, r2}
  NoRun = NoRun
  MaxRequests = 1
  MaxCancels = 2
  MaxStops = 1
  Rounds = 2
  LongReply = 2
  LongLog = 7
  ServerIds = TRUE
SPECIFICATION Spec
INVARIANTS
  TypeOK
  ConversationSound
  NoRouterLeft
  HistorySound
PROPERTIES
  
  SavedIsFinal
CHECK_DEADLOCK FALSE
