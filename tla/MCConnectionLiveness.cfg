CONSTANTS
  Callers = {c1,c2}
  Watcher = w
  NoProc = none
  Retries = {0, 1, 2}
  StateChCap = 2
  HttpMode = FALSE
  MaxGen = 5
  MaxOps = 2
  MaxFaults = 1
  c1 = c1
  c2 = c2
SPECIFICATION FairSpec
VIEW LiveView
CHECK_DEADLOCK FALSE
PROPERTIES
  OperationsEnd
  WatchedDeathRepaired
  StopCompletes
