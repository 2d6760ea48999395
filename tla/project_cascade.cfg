CONSTANTS
  p = p  s = s  c1 = c1  c2 = c2  d1 = d1  d2 = d2  none = none
  Callers = {c1, d1, d2}
  Deleters = {d1, d2}
  Threads = {p, s}
  Existing = {p}
  ProjectIds = {"once", "again"}
  Commands <- AllCommands
  childCommand <- DeleteOf
  NoThread = none
  NoCaller = nobody
  NoReceipt = noreceipt
  MaxCalls = 2
  MaxDeletes = 3
SPECIFICATION ProjectSpec
SYMMETRY DeleterSymmetry
INVARIANTS ProjectTypeOK NoLostUpdate
PROPERTY ChildrenGoFirst
CHECK_DEADLOCK FALSE
