SPECIFICATION LoopSpec
CONSTANTS
  read = read  write = write  other = other
  gmail = gmail
  None = None
  Calls = {read, write, other}
  Resources = {gmail}
  ResourceOf <- MCResourceOf
  Writes = {write}
  SLOTS = 2
  MAX_ATTEMPTS = 2
INVARIANTS TypeOK ThreadsWithinPool OneThreadPerResource NothingLeaked WriteSentOnce
PROPERTY EveryCallReturns
CHECK_DEADLOCK FALSE
