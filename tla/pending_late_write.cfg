SPECIFICATION Spec
CONSTANTS
  a1 = a1  a2 = a2  k1 = k1  k2 = k2  pg = pg  pc = pc  pt = pt
  t1 = t1  t2 = t2  c1 = c1  c2 = c2  o1 = o1  o2 = o2
  None = None
  KindOf <- MCKindOf
  Actions = {a1}
  Keys = {k1}
  Payloads = {pg, pc, pt}
  Tokens = {t1}
  Creators = {c1}
  Operators = {o1}
  TTL = 2
  LEASE = 1
  RETENTION = 1
  MaxTime = 3
INVARIANT FailedNeverAccepted
CHECK_DEADLOCK FALSE
