SPECIFICATION Spec
CONSTANTS
  w1 = w1  w2 = w2
  None = None
  Workers = {w1, w2}
  MaxHist = 2
  MaxGen = 2
  MaxFaults = 1
  LEASE = 1
  MAX_ATTEMPTS = 1
  BACKOFF_INITIAL = 1
  BACKOFF_MAX = 1
  RESYNC_MAX = 2
  HISTORY_MAX = 1
  PAGE = 1
INVARIANTS SucceededIsCovered PassedWasBegun
PROPERTIES CursorNeverMovesBack RecoveryFreezesCursor
SYMMETRY Symmetry
CHECK_DEADLOCK FALSE
