CONSTANTS
  t1 = t1
  t2 = t2
  a1 = a1
  a2 = a2
  Tasks = {t1, t2}
  ApiTasks = {}
  Agents = {a1, a2}
  Sessions = {s1, s2, s3}
  Resources = {}
  NONE = NONE
  Complexities = {5}
  TTLs = {1}
  RemediateAt = 1
  BlockAt = 3
  MaxTime = 3
  MaxReaps = 6
  Cycles = {c1, c2}
  Roster <- TwoAgents
  DependsOn <- SecondAfterFirst
  LeaseTTL = 1
  RunTimeout = 1
  QuotaCooldown = 1
  MaxParallel = 2
  WipPerAgent = 1
  SeedStates = {"ready-for-impl"}
  OtherMoves = {"done"}
  MaxStarts = 2
  MaxCrashes = 1
SPECIFICATION DSpec
INVARIANT DTypeOK
 
INVARIANT FailedRunFreesItsLease
 
 
PROPERTY ImplementsStore
