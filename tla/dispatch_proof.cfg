CONSTANTS
  p = p  q = q  s = s  d = d  c1 = c1  c2 = c2  none = none
  Callers = {c1, c2}
  Threads = {p, q, s}
  Existing = {p}
  Commands <- ReusedCommands
  NoThread = none
  NoCaller = nobody
  NoReceipt = noreceipt
  MaxCalls = 4
SPECIFICATION Spec
SYMMETRY CallerSymmetry
INVARIANT AcceptedIsProven
CHECK_DEADLOCK FALSE
