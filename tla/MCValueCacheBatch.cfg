SPECIFICATION Spec
CONSTANTS
  n1 = n1
  n2 = n2
  b1 = b1
  c1 = c1
  c2 = c2
  ValueKeys = {n1, n2}
  MetaKeys = {b1}
  Callers = {c1, c2}
  MaxAges = {1}
  QueueCap = 0
  MaxClock = 2
  MaxVersion = 2
  MaxCalls = 2
  MaxFaults = 0
VIEW LiveView
SYMMETRY CallerSymmetry
INVARIANTS
  BoundedStaleness
