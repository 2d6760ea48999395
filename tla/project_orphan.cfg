CONSTANTS
  p = p  s = s  c1 = c1  c2 = c2  d1 = d1  d2 = d2  none = none
  Callers = {c1, d1}
  Deleters = {d1}
  Threads = {p, s}
  Existing = {p}
  ProjectIds = {"once"}
  Commands <- AllCommands
  childCommand <- DeleteOf
  NoThread = none
  NoCaller = nobody
  NoReceipt = noreceipt
  MaxCalls = 1
  MaxDeletes = 1
SPECIFICATION ProjectSpec
INVARIANT NoOrphanSideChat
CHECK_DEADLOCK FALSE
