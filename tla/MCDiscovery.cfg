SPECIFICATION FairSpec
CONSTANTS
  r = r
  x = x
  y = y
  z = z
  w = w
  Nodes = {r, x, y, z, w}
  Root = r
  NoParent = NoParent
  Spaces <- AllSpaces
  MaxDiscoveryDepth = 2
  MaxNodesPerBrowse = 2
  Worker = Worker
  Forcers = {f1}
  NoProc = NoProc
  MaxWalks = 2
  MaxChanges = 1
  MaxFaults = 1
INVARIANTS
  TypeOK
  WalkIsExact
  IndexFollowsCache
  HierarchyIsComplete
PROPERTIES
  NeverSweepsMet
  WalksEnd
