SPECIFICATION FairSpec
CONSTANTS
  c1 = c1
  c2 = c2
  Transports = {"stdio", "http"}
  Callers = {c1, c2}
  MaxCalls = 2
  MaxSends = 2
INVARIANTS
  TypeOK
  StoreOutlivesPump
  FinalFlush
PROPERTY
  ShutdownEnds
