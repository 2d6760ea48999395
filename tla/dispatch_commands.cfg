CONSTANTS
  p = p  q = q  s = s  d = d  c1 = c1  c2 = c2  none = none
  Callers = {c1, c2}
  Threads = {p, q, s, d}
  Existing = {p, q}
  Commands <- AllCommands
  NoThread = none
  NoCaller = nobody
  NoReceipt = noreceipt
  MaxCalls = 3
SPECIFICATION FairSpec
INVARIANTS TypeOK NoOrphanSideChat AnswersAgree NoLostUpdate AppliedOnce
PROPERTIES DeletionIsFinal EveryCallEnds
CHECK_DEADLOCK FALSE
