CONSTANTS
  c1 = c1
  c2 = c2
  Callers = {c1, c2}
  Watcher = w
  NoProc = none
  Retries = {1}
  StateChCap = 16
  HttpMode = TRUE
  MaxGen = 7
  MaxOps = 3
  MaxFaults = 1
SPECIFICATION Spec
VIEW LiveView
SYMMETRY CallerSymmetry
INVARIANTS
  TypeOK
  OpenIsOwned
  PublishedIsCurrent
  RecoversOnce
  BoundedCalls
PROPERTIES
  RecoveryNeverConnects
  ImplementsRegister
