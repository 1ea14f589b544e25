CONSTANTS
  Runs = {r1, r2}
  NoRun = NoRun
  MaxRequests = 1
  MaxCancels = 2
  MaxStops = 1
SPECIFICATION RunnerSpec
INVARIANT
  RunIsSaved
CHECK_DEADLOCK FALSE
