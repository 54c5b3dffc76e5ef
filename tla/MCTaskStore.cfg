CONSTANTS
  t1 = t1
  t2 = t2
  Tasks = {t1, t2}
  ApiTasks = {}
  Agents = {a1}
  Sessions = {s1, s2}
  Resources = {r1}
  NONE = NONE
  Complexities = {4}
  TTLs = {1}
  RemediateAt = 1
  BlockAt = 3
  MaxTime = 2
  MaxReaps = 3
SPECIFICATION FairSpec
INVARIANT TypeOK
INVARIANT LockLeaseAgreement
INVARIANT ResourceExclusion
INVARIANT HandoffFreesLease
PROPERTY LeaseEnds
PROPERTY ImplementsLeaseLock
