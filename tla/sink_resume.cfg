CONSTANTS
  w1 = w1  w2 = w2  app = app
  Writers = {w1, w2}
  Subscribers = {app}
  Kinds <- MCKinds
  Project = "project"
  Batches <- MCBatches
  HubOf <- MCHubOf
  Wants <- MCWants
  Bounded = {app}
  Budget = 1
  PageSize = 1
  Nobody = nobody
  MaxLog = 2
  MaxDrops = 1
  MaxGap = 2
  MaxPasses = 1
SPECIFICATION ResumeSpec
INVARIANTS ViewWhole
PROPERTIES WriterFinishes EventuallyReceived NeverBack
