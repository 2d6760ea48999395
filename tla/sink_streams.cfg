CONSTANTS
  w1 = w1  w2 = w2  app = app  whole = whole
  Writers = {w1, w2}
  Subscribers = {app, whole}
  Kinds <- MCKinds
  Project = "project"
  Batches <- MCBatches
  HubOf <- MCHubOf
  Wants <- MCWants
  Bounded = {app}
  Budget = 1
  PageSize = 1
  Nobody = nobody
  MaxLog = 3
  MaxDrops = 1
SPECIFICATION Spec
SYMMETRY WriterSymmetry
INVARIANTS TypeOK NothingSkipped
PROPERTY LogSpec
