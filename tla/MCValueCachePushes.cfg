SPECIFICATION FairSpec
CONSTANTS
  n1 = n1
  n2 = n2
  b1 = b1
  c1 = c1
  c2 = c2
  ValueKeys = {n1}
  MetaKeys = {}
  Callers = {c1, c2}
  MaxAges = {1}
  QueueCap = 1
  MaxClock = 2
  MaxVersion = 2
  MaxCalls = 2
  MaxFaults = 1
INVARIANTS
  TypeOK
  BoundedStaleness
  OnlyRacesLeaveStaleEntries
PROPERTY
  PushCorrects
