SPECIFICATION LiveSpec
CONSTANTS
  w1 = w1  w2 = w2
  None = None
  Workers = {w1}
  MaxHist = 3
  MaxGen = 4
  MaxFaults = 1
  LEASE = 1
  MAX_ATTEMPTS = 2
  BACKOFF_INITIAL = 1
  BACKOFF_MAX = 1
  RESYNC_MAX = 2
  HISTORY_MAX = 1
  PAGE = 1
INVARIANTS TypeOK DeadLetterIsFlagged OnlyRecoveryPasses
PROPERTY EveryJobSettles
CHECK_DEADLOCK FALSE
