CONSTANTS
  Convs = {c1}
  Jobs = {j1}
  MaxRounds = 2
  MaxCalls = 1
  MaxRetries = 0
  MaxAsks = 1
  MaxApprovals = 0
  MaxRestarts = 0
SPECIFICATION Spec
INVARIANT StoppedWaits
CHECK_DEADLOCK FALSE
