CONSTANTS
  u1 = u1  u2 = u2
  Users = {u1, u2}
  MaxFailures = 1
  MaxInputs = 3
  MaxQueue = 1
SPECIFICATION FairSpec
INVARIANTS TypeOK NoLostWakeup RetryNotLeaked
PROPERTIES NoNeedlessSwitch IntentRealised
CHECK_DEADLOCK FALSE
