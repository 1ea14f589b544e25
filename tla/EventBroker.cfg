CONSTANTS
  Subs = {s1, s2}
  Capacity = 2
  MaxId = 5
SPECIFICATION FairSpec
INVARIANTS
  TypeOK
  NoGap
  BacklogIsExact
  CutOffOnlyWhenBehind
  AcceptedCursors
PROPERTIES
  CaughtUpOrEnded
  DroppedIsTold
  ImplementsFeed
