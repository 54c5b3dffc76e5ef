CONSTANTS
  t1 = t1
  t2 = t2
  a1 = a1
  a2 = a2
  Tasks = {t1, t2}
  ApiTasks = {}
  Agents = {a1, a2}
  Sessions = {s1, s2, s3}
  Resources = {}
  NONE = NONE
  Complexities = {5}
  TTLs = {3}
  RemediateAt = 1
  BlockAt = 3
  MaxTime = 6
  MaxReaps = 6
  Cycles = {c1, c2}
  Roster <- TwoAgents
  DependsOn <- NoDependencies
  LeaseTTL = 3
  RunTimeout = 2
  QuotaCooldown = 1
  MaxParallel = 2
  WipPerAgent = 1
  SeedStates = {"ready-for-impl"}
  OtherMoves = {}
  MaxStarts = 2
  MaxCrashes = 0
SPECIFICATION DSpec
INVARIANT SameStageOnce
