CONSTANTS
  Callers = {c1}
  Watcher = w
  NoProc = none
  Retries = {1}
  StateChCap = 16
  HttpMode = FALSE
  MaxGen = 4
  MaxOps = 2
  MaxFaults = 1
  c1 = c1
SPECIFICATION Spec
PROPERTY DisconnectStays
