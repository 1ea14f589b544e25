CONSTANTS
  Loops = {l1, l2}
  MaxLaunches = 3
  MaxRuns = 3
  MaxAttempts = 2
  WindowPasses = FALSE
  Prompt = TRUE
SPECIFICATION HttpSpec
SYMMETRY Symmetric
INVARIANT
  NoOrphanedRouter
