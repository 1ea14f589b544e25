CONSTANTS
  Convs = {c1, c2}
  Jobs = {j1, j2}
  MaxRounds = 2
  MaxCalls = 1
  MaxRetries = 1
  MaxAsks = 2
  MaxApprovals = 1
  MaxRestarts = 1
SPECIFICATION FairSpec
INVARIANTS
  RecordsTellTheTruth
PROPERTIES
  DecisionsStand
  
  
CHECK_DEADLOCK FALSE
