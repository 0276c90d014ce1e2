SPECIFICATION LiveSpec
CONSTANTS
  w1 = w1  w2 = w2
  None = None
  Renewers = {w1, w2}
  EXPIRY = 3
  RENEWAL = 1
  LEASE = 1
  BACKOFF_INITIAL = 1
  BACKOFF_MAX = 2
  MaxHist = 3
  MaxFaults = 3
INVARIANTS TypeOK BeliefWithinGrant LapseLosesNothing
PROPERTY WatchComesBack
CHECK_DEADLOCK FALSE
