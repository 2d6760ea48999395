CONSTANTS
  a = a  b = b
  Tasks = {a, b}
  Waited = {}
  MaxGeneration = 2
  MaxTurns = 1
  MaxFaults = 1
  MaxCrashes = 0
  CutShort = TRUE
  Overlapping = FALSE
SPECIFICATION FairSpec
PROPERTIES ResultReachesParent
CHECK_DEADLOCK FALSE
