SPECIFICATION HistorySpec
CONSTANTS
  Rounds = 2
  LongReply = 2
  LongLog = 6
  ServerIds = FALSE
INVARIANT HistorySound
CHECK_DEADLOCK FALSE
