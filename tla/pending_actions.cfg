SPECIFICATION Spec
CONSTANTS
  a1 = a1  a2 = a2  k1 = k1  k2 = k2  pg = pg  pc = pc  pt = pt
  t1 = t1  t2 = t2  c1 = c1  c2 = c2  o1 = o1  o2 = o2
  None = None
  KindOf <- MCKindOf
  Actions = {a1, a2}
  Keys = {k1}
  Payloads = {pg, pc, pt}
  Tokens = {t1, t2}
  Creators = {c1, c2}
  Operators = {o1, o2}
  TTL = 2
  LEASE = 1
  RETENTION = 1
  MaxTime = 3
SYMMETRY Symmetry
INVARIANTS TypeOK OncePerCommand EffectNeedsApproval CreateReturnsItsCommand
  SucceededMeansAccepted ConfirmedFailureNotAccepted AuditEndsAtStatus
PROPERTY LifecycleRefined
CHECK_DEADLOCK FALSE
