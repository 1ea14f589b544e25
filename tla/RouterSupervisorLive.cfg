CONSTANTS
  Loops = {l1, l2}
  MaxLaunches = 3
  MaxRuns = 3
  MaxAttempts = 1
  WindowPasses = FALSE
  Prompt = FALSE
SPECIFICATION FairSpec
INVARIANTS
  RelaunchBudget
PROPERTIES
  Recovers
