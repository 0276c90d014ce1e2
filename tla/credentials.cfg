SPECIFICATION Spec
CONSTANTS
  l1 = l1  l2 = l2  c1 = c1  c2 = c2  k1 = k1  k2 = k2
  None = None
  Backfill = Backfill
  Loads = {l1, l2}
  Callbacks = {c1, c2}
  States = {s1, s2}
  Emails = {e1, e2}
  Keys = {k1, k2}
  ActiveKey <- MCActiveKey
  MaxToken = 3
INVARIANTS TypeOK ConnectionUsable
PROPERTIES RefreshBuildsOnStored FlowsStayBound LoadReturns
CHECK_DEADLOCK FALSE
