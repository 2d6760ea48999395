CONSTANTS
  e1 = e1  e2 = e2  e3 = e3  f1 = f1  f2 = f2  x1 = x1  none = none
  Effects = {e1, e2}
  NoEffect = none
  Fibers = {f1, f2}
  Waiters = {x1}
  ThreadOf <- OneThread
  TypeOf <- RestartTypes
  MaxAttempts = 2
  QueueCapacity = 2
  MaxFaults = 2
  MaxProcesses = 2
  MaxPruned = 1
SPECIFICATION Spec
SYMMETRY FiberSymmetry
INVARIANTS ProcessBoundDies AwaitSettledExact OneHolder NoOrphanedLease
PROPERTIES SettledIsFinal
