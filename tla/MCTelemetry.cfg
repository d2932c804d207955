SPECIFICATION Spec
CONSTANTS
  c1 = c1
  c2 = c2
  t1 = t1
  e1 = e1
  x1 = x1
  Callers = {c1, c2}
  Tools = {t1}
  Kinds = {e1}
  Other = e1
  Errors = {x1}
  Params = {1}
  MaxSends = 1
  MaxRecords = 2
SYMMETRY CallerSymmetry
INVARIANTS
  TypeOK
  Conservation
  LastFlushIsComplete
