CONSTANTS
  k1 = k1
  k2 = k2
  o1 = o1
  o2 = o2
  o3 = o3
  Tasks = {t1}
  Mode = "peer_agent_review"
  MAX_VERIFY_ATTEMPTS = 2
  Ticks = {k1, k2}
  Rounds = {o1, o2, o3}
  CiStates = {"none", "fail"}
  FounderMoves = {"blocked"}
  NONE = NONE
  MaxPrs = 2
  MaxPushes = 0
  MaxSubmits = 2
  MaxRestarts = 1
SPECIFICATION Spec
SYMMETRY Symmetry
INVARIANT TypeOK
 
INVARIANT ChurnBounded
