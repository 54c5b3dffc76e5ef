CONSTANTS
  k1 = k1
  k2 = k2
  o1 = o1
  o2 = o2
  o3 = o3
  Tasks = {t1}
  Mode = "peer_agent_review"
  MAX_VERIFY_ATTEMPTS = 3
  Ticks = {k1}
  Rounds = {o1, o2}
  CiStates = {"none", "pass", "fail"}
  FounderMoves = {"blocked", "in-progress"}
  NONE = NONE
  MaxPrs = 1
  MaxPushes = 1
  MaxSubmits = 3
  MaxRestarts = 1
SPECIFICATION FairSpec
PROPERTY QueueDrains
