SPECIFICATION Spec
CONSTANTS
  Ids = {i1, i2, i3}
  People = {p1}
  Workers = {w1, w2}
  None = None
  MaxJobs = 3
  DbMayFail = FALSE
  NewMayFail = FALSE
INVARIANTS OneRowPerPerson
SYMMETRY Symmetric
CHECK_DEADLOCK FALSE
