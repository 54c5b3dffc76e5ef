CONSTANTS
  item = item
  api = api
  open = open
  close = close
  Tasks = {item, api}
  ApiTasks = {api}
  AdoTasks = {item}
  AdoStates = {"active", "resolved", "removed"}
  Agents = {a1}
  Sessions = {s1}
  Resources = {open, close}
  Brackets = {open, close}
  NONE = NONE
  Complexities = {3}
  TTLs = {1}
  RemediateAt = 3
  BlockAt = 5
  MaxTime = 2
  MaxReaps = 3
  MaxEdits = 1
  MaxMoves = 3
SPECIFICATION IFairSpec
INVARIANT ITypeOK
INVARIANT LocksHaveHolders
PROPERTY LeftoverLeaseEnds
PROPERTY SyncSettles
