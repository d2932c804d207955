SPECIFICATION FairSpec
CONSTANTS
  a = a
  b = b
  bad = bad
  Ids = {s1, s2}
  Nodes = {a, b, bad}
  Malformed = {bad}
  Intervals = {10}
  Requests <- OneRequest
  SubIds = {1, 2, 3, 4}
  Main = Main
  Watcher = Watcher
  Recoverers = {c1}
  NotifyCap = 0
  MaxHandles = 6
  MaxChanges = 2
  MaxFaults = 1
CHECK_DEADLOCK FALSE
PROPERTIES
  RestoredAfterReconnect
