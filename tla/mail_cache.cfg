SPECIFICATION Spec
CONSTANTS
  r1 = r1  r2 = r2  r3 = r3  w1 = w1  w2 = w2
  None = None
  Readers = {r1, r2, r3}
  Writers = {w1, w2}
  MaxVersion = 3
  MaxGen = 2
INVARIANTS TypeOK FreshAfterInvalidation
SYMMETRY MCSymmetry
CHECK_DEADLOCK FALSE
