CONSTANTS
  t1 = t1
  t2 = t2
  a1 = a1
  a2 = a2
  Tasks = {t1}
  ApiTasks = {}
  Agents = {a1}
  Sessions = {s1, s2}
  Resources = {r1}
  NONE = NONE
  Complexities = {4}
  TTLs = {1}
  RemediateAt = 3
  BlockAt = 5
  MaxTime = 2
  MaxReaps = 6
  Cycles = {c1, c2}
  Roster <- OneAgent
  DependsOn <- NoDependencies
  LeaseTTL = 1
  RunTimeout = 1
  QuotaCooldown = 1
  MaxParallel = 2
  WipPerAgent = 1
  SeedStates = {"spec", "in-progress"}
  OtherMoves = {"blocked", "done"}
  MaxStarts = 2
  MaxCrashes = 0
SPECIFICATION DFairSpec
PROPERTY CycleEnds
