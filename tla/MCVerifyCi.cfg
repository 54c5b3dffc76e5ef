CONSTANTS
  k1 = k1
  k2 = k2
  o1 = o1
  o2 = o2
  o3 = o3
  Tasks = {t1}
  Mode = "verifier_gated"
  MAX_VERIFY_ATTEMPTS = 3
  Ticks = {k1}
  Rounds = {o1, o2}
  CiStates = {"none", "pending", "pass"}
  FounderMoves = {}
  NONE = NONE
  MaxPrs = 1
  MaxPushes = 0
  MaxSubmits = 1
  MaxRestarts = 0
SPECIFICATION FairSpec
PROPERTY PendingCiRechecked
