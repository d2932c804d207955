SPECIFICATION Spec
CONSTANTS
  c1 = c1
  c2 = c2
  Transports = {"http"}
  Callers = {c1}
  MaxCalls = 1
  MaxSends = 1
INVARIANT
  ShutdownFinishes
