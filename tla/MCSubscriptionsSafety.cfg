SPECIFICATION Spec
CONSTANTS
  a = a
  b = b
  bad = bad
  Ids = {s1, s2}
  Nodes = {a, b, bad}
  Malformed = {bad}
  Intervals = {10}
  Requests <- AllRequests
  SubIds = {1, 2, 3, 4}
  Main = Main
  Watcher = Watcher
  Recoverers = {c1}
  NotifyCap = 1
  MaxHandles = 4
  MaxChanges = 2
  MaxFaults = 1
VIEW SafetyView
SYMMETRY IdSymmetry
CHECK_DEADLOCK FALSE
INVARIANTS
  TypeOK
  GroupOutlivesMembers
  SubscribedIsMonitored
  NoMisrouting
  RecordsPersisted
