CONSTANTS
  Jobs = {j1}
  Tasks = {k1, k2}
  NumFiles = 3
  FileSize = 2
  MaxStops = 2
  Prompt = TRUE
SPECIFICATION FairSpec
INVARIANTS
  
  ProgressAccepted
PROPERTIES
  EndIsTrue
  
