CONSTANTS
  e1 = e1  e2 = e2  e3 = e3  f1 = f1  f2 = f2  x1 = x1  none = none
  Effects = {e1, e2, e3}
  NoEffect = none
  Fibers = {f1, f2}
  Waiters = {}
  ThreadOf <- OneThread
  TypeOf <- LaneTypes
  MaxAttempts = 2
  QueueCapacity = 2
  MaxFaults = 0
  MaxProcesses = 2
  MaxPruned = 0
SPECIFICATION Spec
SYMMETRY FiberSymmetry
INVARIANTS TypeOK LaneExclusive InOrder OnlyCancelledOverlap CancellationArrives NoLostWakeup
