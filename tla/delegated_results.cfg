CONSTANTS
  a = a  b = b
  Tasks = {a, b}
  Waited = {b}
  MaxGeneration = 3
  MaxTurns = 1
  MaxFaults = 1
  MaxCrashes = 1
  CutShort = FALSE
  Overlapping = FALSE
SPECIFICATION FairSpec
INVARIANTS TypeOK NothingStranded DeliveredMeansTold
PROPERTIES StopIsFinal ResultReachesParent
CHECK_DEADLOCK FALSE
