SPECIFICATION RouterSpec
CONSTANTS
  Loops = {l1, l2}
  MaxLaunches = 3
  MaxRuns = 3
  MaxAttempts = 2
  WindowPasses = TRUE
  Prompt = FALSE
  Models = {"m1", "m2"}
  Exclusive = {"m1"}
  LoadRequests = {q1, q2}
  Synchronizers = {t1, t2}
  NoSynchronizer = NoSynchronizer
  MaxRouterLaunches = 2
  MaxCaptures = 2
SYMMETRY Symmetry
INVARIANTS
  TypeOK
  SupervisorInStep
  
PROPERTY
  LifecycleKept
CHECK_DEADLOCK FALSE
