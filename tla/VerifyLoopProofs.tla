-------------------------- MODULE VerifyLoopProofs --------------------------
(***************************************************************************)
(* Safety properties of the verify loop, for any number of tasks,          *)
(* cycles, check states, requests, pushes, submissions and restarts, and   *)
(* any value of MAX_VERIFY_ATTEMPTS.                                       *)
(*                                                                         *)
(* ChurnBounded follows from a comparison of the two counters: a task is   *)
(* sent back at most as often as an attempt is counted, and only while the *)
(* count is below the limit.  MergeIsReviewed follows from what a cycle    *)
(* holds on to across its awaits: nobody overwrites a check state in use,  *)
(* and its results only grow.  TypeOK follows from the same: an object is  *)
(* filled anew only when nobody has it cached or in hand.                  *)
(***************************************************************************)
EXTENDS VerifyLoop, TLAPS

ChurnInv ==
  /\ attempts \in [Tasks -> Nat]
  /\ bounces \in [Tasks -> Nat]
  /\ \A t \in Tasks : bounces[t] <= attempts[t] /\ bounces[t] < MAX_VERIFY_ATTEMPTS

\* A failed check keeps the invariant: the task goes back only if the attempt
\* that is being counted is not the last.
LEMMA FailureKeepsChurnInv ==
  ASSUME ChurnInv, NEW t, handleFailure(t)
  PROVE  ChurnInv'
<1>a. \A u \in Tasks : attempts[u] + 1 \in Nat /\ bounces[u] + 1 \in Nat
  BY DEF ChurnInv
<1>1. attempts' \in [Tasks -> Nat]
  <2>1. attempts' = [attempts EXCEPT ![t] = attempts[t] + 1]
    BY DEF handleFailure
  <2>2. CASE t \in Tasks
    BY <2>1, <2>2, <1>a DEF ChurnInv
  <2>3. CASE t \notin Tasks
    BY <2>1, <2>3 DEF ChurnInv
  <2> QED
    BY <2>2, <2>3
<1>2. CASE bounces' = bounces
  BY <1>1, <1>2 DEF ChurnInv, handleFailure
<1>3. CASE bounces' # bounces
  <2>1. /\ Disposition(attempts[t] + 1) = "in-progress"
        /\ bounces' = [bounces EXCEPT ![t] = @ + 1]
    BY <1>3 DEF handleFailure, moveFailed
  <2>2. bounces' \in [Tasks -> Nat]
    <3>1. CASE t \in Tasks
      BY <2>1, <3>1, <1>a DEF ChurnInv
    <3>2. CASE t \notin Tasks
      BY <2>1, <3>2 DEF ChurnInv
    <3> QED
      BY <3>1, <3>2
  <2>3. ~(attempts[t] + 1 >= MAX_VERIFY_ATTEMPTS)
    BY <2>1 DEF Disposition
  <2>4. ASSUME NEW u \in Tasks
        PROVE  bounces'[u] <= attempts'[u] /\ bounces'[u] < MAX_VERIFY_ATTEMPTS
    <3>1. CASE u = t
      <4>1. bounces'[u] = bounces[t] + 1 /\ attempts'[u] = attempts[t] + 1
        BY <3>1, <2>1 DEF ChurnInv, handleFailure
      <4>2. bounces[t] \in Nat /\ attempts[t] \in Nat /\ bounces[t] <= attempts[t]
        BY <3>1 DEF ChurnInv
      <4> QED
        BY <4>1, <4>2, <2>3, VerifyAssumption DEF VerifyAssumption
    <3>2. CASE u # t
      BY <3>2, <2>1 DEF ChurnInv, handleFailure
    <3> QED
      BY <3>1, <3>2
  <2> QED
    BY <1>1, <2>2, <2>4 DEF ChurnInv
<1> QED
  BY <1>2, <1>3

LEMMA StepKeepsChurnInv ==
  ASSUME ChurnInv, [Next]_vars
  PROVE  ChurnInv'
<1>1. CASE UNCHANGED vars
  BY <1>1 DEF ChurnInv, vars, store
<1>2. ASSUME NEW k \in Ticks,
             FailChecks(k) \/ Judge(k) \/ ScanFails(k) \/ MergeFailed(k)
      PROVE  ChurnInv'
  <2>1. CASE handleFailure(tick[k].task)
    <3>1. PICK t : t = tick[k].task
      OBVIOUS
    <3> QED
      BY <2>1, <3>1, FailureKeepsChurnInv
  <2>2. CASE UNCHANGED store
    BY <2>2 DEF ChurnInv, store
  <2> QED
    BY <1>2, <2>1, <2>2 DEF FailChecks, Judge, ScanFails, MergeFailed
<1>3. ASSUME NEW k \in Ticks, MergeDone(k)
      PROVE  ChurnInv'
  <2>1. PICK t : t = tick[k].task
    OBVIOUS
  <2>2. /\ attempts' = [attempts EXCEPT ![t] = 0]
        /\ bounces' = [bounces EXCEPT ![t] = 0]
    BY <1>3, <2>1 DEF MergeDone
  <2>3. 0 < MAX_VERIFY_ATTEMPTS
    BY VerifyAssumption DEF VerifyAssumption
  <2>4. attempts' \in [Tasks -> Nat] /\ bounces' \in [Tasks -> Nat]
    BY <2>2 DEF ChurnInv
  <2>5. ASSUME NEW u \in Tasks
        PROVE  bounces'[u] <= attempts'[u] /\ bounces'[u] < MAX_VERIFY_ATTEMPTS
    <3>1. CASE u = t
      <4>1. bounces'[u] = 0 /\ attempts'[u] = 0
        BY <2>2, <3>1 DEF ChurnInv
      <4> QED
        BY <4>1, <2>3
    <3>2. CASE u # t
      BY <2>2, <3>2 DEF ChurnInv
    <3> QED
      BY <3>1, <3>2
  <2> QED
    BY <2>4, <2>5 DEF ChurnInv
<1>4. ASSUME NEW k \in Ticks,
             \/ StartTick(k) \/ EmptyTick(k) \/ EndTick(k) \/ NextTask(k)
             \/ ChecksDone(k) \/ LeavePending(k) \/ BeginScan(k) \/ ScanPasses(k)
             \/ GitHubMerges(k) \/ GitHubRefuses(k)
      PROVE  ChurnInv'
  BY <1>4 DEF ChurnInv, vars, store, StartTick, EmptyTick, EndTick, NextTask, ChecksDone,
     LeavePending, BeginScan, ScanPasses, GitHubMerges, GitHubRefuses
<1>5. ASSUME NEW o \in Rounds, NEW result \in {"pass", "fail"}, ReviewDone(o, result)
      PROVE  ChurnInv'
  BY <1>5 DEF ChurnInv, store, ReviewDone
<1>6. ASSUME NEW t \in Tasks, Submit(t) \/ Push(t) \/ CiReports(t) \/ FounderMove(t)
      PROVE  ChurnInv'
  <2>1. UNCHANGED <<attempts, bounces>>
    BY <1>6 DEF store, Submit, Push, CiReports, FounderMove
  <2> QED
    BY <2>1 DEF ChurnInv
<1>7. CASE Restart
  BY <1>7 DEF ChurnInv, Restart, keepAttempts
<1> QED
  BY <1>1, <1>2, <1>3, <1>4, <1>5, <1>6, <1>7 DEF Next, TickGoesOn

\* A task is never sent back MAX_VERIFY_ATTEMPTS times without a merge or the
\* founder in between, however often the daemon restarts (handleFailure with
\* the persisted verify_attempts).
THEOREM AttemptsBoundChurn == Spec => []ChurnBounded
<1>1. Init => ChurnInv
  BY VerifyAssumption DEF VerifyAssumption, Init, ChurnInv
<1>2. ChurnInv /\ [Next]_vars => ChurnInv'
  BY StepKeepsChurnInv
<1>3. ChurnInv => ChurnBounded
  BY DEF ChurnInv, ChurnBounded
<1> QED
  BY <1>1, <1>2, <1>3, PTL DEF Spec

-----------------------------------------------------------------------------
\* A cycle past its checks holds a check state of the request it looked up.
HasChecks(k) == Phase(k) \in {"decide", "scanning", "merging", "merged", "refused"}
ReviewInv ==
  /\ DOMAIN tick = Ticks /\ DOMAIN round = Rounds
  /\ verifyState \in [Tasks -> Rounds \cup {NONE}]
  /\ \A k \in Ticks :
       /\ \A tp \in tick[k].todo : tp[1] \in Tasks
       /\ HasChecks(k) => tick[k].round \in Rounds /\ Round(k).pr = tick[k].pr
  /\ \A o \in Rounds :
       /\ round[o].checks = "pass" => round[o].pr # 0
       /\ round[o].peer \in {"none", "started", "pass", "fail"}
  /\ MergeIsReviewed

\* A step that changes nothing but what the invariant does not look at.
LEMMA MemoryKept ==
  ASSUME ReviewInv, UNCHANGED <<tick, round, verifyState>>
  PROVE  ReviewInv'
BY DEF ReviewInv, MergeIsReviewed, HasChecks, Phase, Round

\* A cycle that leaves its task, or goes to a phase that merges nothing, with
\* the check states as they are and a Map that has at most lost entries or
\* gained the cycle's own check state.
LEMMA TickMoves ==
  ASSUME ReviewInv, NEW k \in Ticks, NEW r, UNCHANGED round,
         tick' = [tick EXCEPT ![k] = r],
         \A tp \in r.todo : tp[1] \in Tasks,
         r.phase \in {"idle", "next", "checking"} \/
           /\ r.round \in Rounds /\ round[r.round].pr = r.pr
           /\ r.phase \in {"decide", "scanning", "merged", "refused"},
         verifyState' \in [Tasks -> Rounds \cup {NONE}]
  PROVE  ReviewInv'
<1>1. tick'[k] = r /\ DOMAIN tick' = Ticks
  BY DEF ReviewInv
<1>2. \A j \in Ticks : j # k => tick'[j] = tick[j]
  BY DEF ReviewInv
<1>3. ASSUME NEW j \in Ticks
      PROVE  /\ \A tp \in tick'[j].todo : tp[1] \in Tasks
             /\ HasChecks(j)' => tick'[j].round \in Rounds /\ Round(j)'.pr = tick'[j].pr
  BY <1>1, <1>2 DEF ReviewInv, HasChecks, Phase, Round
<1>4. MergeIsReviewed'
  BY <1>1, <1>2 DEF ReviewInv, MergeIsReviewed, Phase, Round
<1> QED
  BY <1>1, <1>3, <1>4 DEF ReviewInv

LEMMA StepKeepsReviewInv ==
  ASSUME ReviewInv, [Next]_vars
  PROVE  ReviewInv'
<1>forget. ASSUME NEW t PROVE [verifyState EXCEPT ![t] = NONE] \in [Tasks -> Rounds \cup {NONE}]
  BY DEF ReviewInv
<1>between. ASSUME NEW k \in Ticks
            PROVE  /\ Between(tick[k].todo).phase = "next"
                   /\ \A tp \in Between(tick[k].todo).todo : tp[1] \in Tasks
  BY DEF Between, ReviewInv
<1>1. ASSUME UNCHANGED <<tick, round, verifyState>>
      PROVE  ReviewInv'
  BY <1>1, MemoryKept
<1>2. ASSUME NEW k \in Ticks, StartTick(k)
      PROVE  ReviewInv'
  <2> DEFINE r == Between({<<t, pr[t]>> : t \in InReview})
  <2>1. tick' = [tick EXCEPT ![k] = r] /\ UNCHANGED round
    BY <1>2 DEF StartTick
  <2>2. r.phase = "next" /\ \A tp \in r.todo : tp[1] \in Tasks
    BY DEF Between, InReview
  <2>3. verifyState' \in [Tasks -> Rounds \cup {NONE}]
    BY <1>2 DEF StartTick, ReviewInv
  <2> HIDE DEF r
  <2> QED
    BY <2>1, <2>2, <2>3, TickMoves
<1>3. ASSUME NEW k \in Ticks, EndTick(k)
      PROVE  ReviewInv'
  <2>1. /\ tick' = [tick EXCEPT ![k] = IdleTick] /\ UNCHANGED round
        /\ UNCHANGED verifyState
    BY <1>3 DEF EndTick
  <2>2. IdleTick.phase = "idle" /\ IdleTick.todo = {}
    BY DEF IdleTick
  <2> QED
    BY <2>1, <2>2, TickMoves DEF ReviewInv
<1>4. ASSUME NEW k \in Ticks, NextTask(k)
      PROVE  ReviewInv'
  <2>1. PICK tp \in tick[k].todo :
          /\ tick' = [tick EXCEPT ![k] =
                        [phase |-> IF Usable(tp[1], tp[2]) THEN "decide" ELSE "checking",
                         todo |-> tick[k].todo \ {tp}, task |-> tp[1], pr |-> tp[2],
                         round |-> IF Usable(tp[1], tp[2]) THEN verifyState[tp[1]] ELSE NONE]]
          /\ verifyState' = IF Usable(tp[1], tp[2]) THEN verifyState
                            ELSE [verifyState EXCEPT ![tp[1]] = NONE]
          /\ UNCHANGED round
    BY <1>4 DEF NextTask
  <2> DEFINE r == [phase |-> IF Usable(tp[1], tp[2]) THEN "decide" ELSE "checking",
                   todo |-> tick[k].todo \ {tp}, task |-> tp[1], pr |-> tp[2],
                   round |-> IF Usable(tp[1], tp[2]) THEN verifyState[tp[1]] ELSE NONE]
  <2>2. \A x \in r.todo : x[1] \in Tasks
    BY DEF ReviewInv
  <2>3. tp[1] \in Tasks
    BY DEF ReviewInv
  <2>4. verifyState' \in [Tasks -> Rounds \cup {NONE}]
    BY <2>1, <1>forget DEF ReviewInv
  <2>5. CASE Usable(tp[1], tp[2])
    <3>1. /\ r.phase = "decide" /\ r.round \in Rounds /\ round[r.round].pr = r.pr
      BY <2>3, <2>5 DEF Usable, ReviewInv
    <3> HIDE DEF r
    <3> QED
      BY <2>1, <2>2, <2>4, <3>1, TickMoves DEF r
  <2>6. CASE ~Usable(tp[1], tp[2])
    <3>1. r.phase = "checking"
      BY <2>6
    <3> HIDE DEF r
    <3> QED
      BY <2>1, <2>2, <2>4, <3>1, TickMoves DEF r
  <2> QED
    BY <2>5, <2>6
<1>5. ASSUME NEW k \in Ticks, ChecksDone(k)
      PROVE  ReviewInv'
  <2>1. PICK o \in Rounds, reached \in BOOLEAN, guardrail \in {"pass", "fail"} :
          /\ Unused(o)
          /\ round' = [round EXCEPT ![o] =
               [pr |-> tick[k].pr,
                checks |-> IF guardrail = "fail" THEN "fail" ELSE testsCheck(k, reached),
                peer |-> "none", pushed |-> {}]]
          /\ verifyState' = [verifyState EXCEPT ![tick[k].task] = o]
          /\ tick' = [tick EXCEPT ![k] = TickNow(k, "decide", o)]
    BY <1>5 DEF ChecksDone
  <2>2. /\ round'[o].pr = tick[k].pr
        /\ round'[o].checks = IF guardrail = "fail" THEN "fail" ELSE testsCheck(k, reached)
        /\ round'[o].peer = "none"
        /\ DOMAIN round' = Rounds
    BY <2>1 DEF ReviewInv
  <2>3. round'[o].checks = "pass" => round'[o].pr # 0
    BY <2>2 DEF testsCheck
  <2>4. \A x \in Rounds : x # o => round'[x] = round[x]
    BY <2>1 DEF ReviewInv
  <2>5. /\ DOMAIN tick' = Ticks /\ tick'[k] = TickNow(k, "decide", o)
        /\ \A j \in Ticks : j # k => tick'[j] = tick[j]
    BY <2>1 DEF ReviewInv
  <2>6. \A j \in Ticks : tick[j].round # o
    BY <2>1 DEF Unused
  <2>7. verifyState' \in [Tasks -> Rounds \cup {NONE}]
    BY <2>1 DEF ReviewInv
  <2>8. ASSUME NEW j \in Ticks
        PROVE  /\ \A tp \in tick'[j].todo : tp[1] \in Tasks
               /\ HasChecks(j)' => tick'[j].round \in Rounds /\ Round(j)'.pr = tick'[j].pr
    <3>1. CASE j = k
      BY <3>1, <2>2, <2>5 DEF TickNow, HasChecks, Phase, Round, ReviewInv
    <3>2. CASE j # k
      BY <3>2, <2>4, <2>5, <2>6 DEF HasChecks, Phase, Round, ReviewInv
    <3> QED
      BY <3>1, <3>2
  <2>9. ASSUME NEW x \in Rounds
        PROVE  /\ round'[x].checks = "pass" => round'[x].pr # 0
               /\ round'[x].peer \in {"none", "started", "pass", "fail"}
    BY <2>2, <2>3, <2>4 DEF ReviewInv
  <2>10. MergeIsReviewed'
    <3> SUFFICES ASSUME NEW j \in Ticks, Phase(j)' = "merging"
                 PROVE  /\ Round(j)'.checks = "pass" /\ Round(j)'.pr = tick'[j].pr
                        /\ Mode = "peer_agent_review" => "pass" \in Round(j)'.pushed
      BY DEF MergeIsReviewed
    <3>1. j # k
      BY <2>5 DEF Phase, TickNow
    <3>2. tick'[j] = tick[j] /\ Phase(j) = "merging"
      BY <3>1, <2>5 DEF Phase
    <3>3. tick[j].round \in Rounds /\ tick[j].round # o
      BY <3>2, <2>6 DEF ReviewInv, HasChecks
    <3> QED
      BY <3>2, <3>3, <2>4 DEF ReviewInv, MergeIsReviewed, Round
  <2> QED
    BY <2>2, <2>5, <2>7, <2>8, <2>9, <2>10 DEF ReviewInv
<1>6. ASSUME NEW k \in Ticks, FailChecks(k) \/ ScanFails(k) \/ MergeFailed(k) \/ MergeDone(k)
      PROVE  ReviewInv'
  <2>1. /\ tick' = [tick EXCEPT ![k] = Between(tick[k].todo)] /\ UNCHANGED round
        /\ verifyState' = [verifyState EXCEPT ![tick[k].task] = NONE]
    BY <1>6 DEF FailChecks, ScanFails, MergeFailed, MergeDone, handleFailure, next
  <2> QED
    BY <2>1, <1>forget, <1>between, TickMoves
<1>7. ASSUME NEW k \in Ticks, LeavePending(k)
      PROVE  ReviewInv'
  <2>1. /\ tick' = [tick EXCEPT ![k] = Between(tick[k].todo)]
        /\ UNCHANGED round /\ UNCHANGED verifyState
    BY <1>7 DEF LeavePending, next
  <2> QED
    BY <2>1, <1>between, TickMoves DEF ReviewInv
<1>8. ASSUME NEW k \in Ticks, BeginScan(k) \/ GitHubMerges(k) \/ GitHubRefuses(k)
      PROVE  ReviewInv'
  <2>1. PICK phase \in {"scanning", "merged", "refused"} :
          /\ tick' = [tick EXCEPT ![k] = TickNow(k, phase, tick[k].round)]
          /\ UNCHANGED round /\ UNCHANGED verifyState
    BY <1>8 DEF BeginScan, GitHubMerges, GitHubRefuses, await
  <2> DEFINE r == TickNow(k, phase, tick[k].round)
  <2>2. /\ r.phase = phase /\ r.todo = tick[k].todo
        /\ r.round = tick[k].round /\ r.pr = tick[k].pr
    BY DEF TickNow
  <2>3. HasChecks(k)
    BY <1>8 DEF BeginScan, GitHubMerges, GitHubRefuses, Deciding, HasChecks
  <2>4. /\ \A tp \in r.todo : tp[1] \in Tasks
        /\ r.round \in Rounds /\ round[r.round].pr = r.pr
    BY <2>2, <2>3 DEF ReviewInv, Round
  <2>5. verifyState' \in [Tasks -> Rounds \cup {NONE}]
    BY <2>1 DEF ReviewInv
  <2>6. tick' = [tick EXCEPT ![k] = r]
    BY <2>1
  <2> HIDE DEF r
  <2> QED
    BY <2>1, <2>2, <2>4, <2>5, <2>6, TickMoves
<1>9. ASSUME NEW k \in Ticks, Judge(k)
      PROVE  ReviewInv'
  <2>0. PICK mine \in Rounds : mine = tick[k].round
    BY <1>9 DEF Judge, Deciding, HasChecks, ReviewInv
  <2>1. /\ round' = [round EXCEPT ![mine] = Joined(mine, Pushed(k))]
        /\ HasChecks(k) /\ Round(k).checks = "pass" /\ ~AwaitsReview(k) /\ ~NeedsReview(k)
    BY <1>9, <2>0 DEF Judge, Deciding, HasChecks
  <2>2. Round(k) = round[mine] /\ round[mine].pr = tick[k].pr /\ tick[k].pr # 0
    BY <2>0, <2>1 DEF ReviewInv, Round
  <2>3. /\ DOMAIN round' = Rounds
        /\ \A x \in Rounds : /\ round'[x].pr = round[x].pr /\ round'[x].peer = round[x].peer
                             /\ round'[x].checks = round[x].checks
                             /\ "pass" \in round[x].pushed => "pass" \in round'[x].pushed
    BY <2>1, <2>2 DEF ReviewInv, Joined, Pushed
  <2>4. Verdict(k) = "pass" /\ Mode = "peer_agent_review" => "pass" \in round'[mine].pushed
    BY <2>1, <2>2 DEF ReviewInv, Joined, Pushed, Verdict, AwaitsReview, NeedsReview
  <2>5. verifyState' \in [Tasks -> Rounds \cup {NONE}]
    BY <1>9, <1>forget DEF Judge, handleFailure, ReviewInv
  <2>7. /\ DOMAIN tick' = Ticks /\ tick'[k].todo = tick[k].todo
        /\ \/ tick'[k].phase = "next"
           \/ /\ tick'[k].phase = "merging" /\ Verdict(k) = "pass"
              /\ tick'[k].round = mine /\ tick'[k].pr = tick[k].pr
        /\ \A j \in Ticks : j # k => tick'[j] = tick[j]
    <3>1. CASE Verdict(k) = "pass"
      <4>1. tick' = [tick EXCEPT ![k] = TickNow(k, "merging", tick[k].round)]
        BY <1>9, <3>1 DEF Judge, await
      <4> QED
        BY <2>0, <3>1, <4>1 DEF TickNow, ReviewInv
    <3>2. CASE Verdict(k) # "pass"
      <4>1. tick' = [tick EXCEPT ![k] = Between(tick[k].todo)]
        BY <1>9, <3>2 DEF Judge, next
      <4> QED
        BY <4>1 DEF Between, ReviewInv
    <3> QED
      BY <3>1, <3>2
  <2>8. ASSUME NEW j \in Ticks
        PROVE  /\ \A tp \in tick'[j].todo : tp[1] \in Tasks
               /\ HasChecks(j)' => tick'[j].round \in Rounds /\ Round(j)'.pr = tick'[j].pr
    <3>1. CASE j = k
      BY <3>1, <2>2, <2>3, <2>7 DEF HasChecks, Phase, Round, ReviewInv
    <3>2. CASE j # k
      BY <3>2, <2>3, <2>7 DEF HasChecks, Phase, Round, ReviewInv
    <3> QED
      BY <3>1, <3>2
  <2>9. MergeIsReviewed'
    <3> SUFFICES ASSUME NEW j \in Ticks, Phase(j)' = "merging"
                 PROVE  /\ Round(j)'.checks = "pass" /\ Round(j)'.pr = tick'[j].pr
                        /\ Mode = "peer_agent_review" => "pass" \in Round(j)'.pushed
      BY DEF MergeIsReviewed
    <3>1. CASE j = k
      BY <3>1, <2>1, <2>2, <2>3, <2>4, <2>7 DEF Phase, Round
    <3>2. CASE j # k
      <4>1. tick'[j] = tick[j] /\ Phase(j) = "merging"
        BY <3>2, <2>7 DEF Phase
      <4>2. tick[j].round \in Rounds
        BY <4>1 DEF ReviewInv, HasChecks
      <4> QED
        BY <4>1, <4>2, <2>3 DEF ReviewInv, MergeIsReviewed, Round
    <3> QED
      BY <3>1, <3>2
  <2> QED
    BY <2>3, <2>5, <2>7, <2>8, <2>9 DEF ReviewInv
<1>10. ASSUME NEW o \in Rounds, NEW result \in {"started", "pass", "fail"},
              round' = [round EXCEPT ![o] = Reviewed(o, result)],
              UNCHANGED <<tick, verifyState>>
       PROVE  ReviewInv'
  <2>1. /\ DOMAIN round' = Rounds
        /\ \A x \in Rounds : /\ round'[x].pr = round[x].pr
                             /\ round'[x].checks = round[x].checks
                             /\ round'[x].pushed = round[x].pushed
                             /\ round'[x].peer \in {"none", "started", "pass", "fail"}
    BY <1>10 DEF ReviewInv, Reviewed
  <2>2. MergeIsReviewed'
    BY <1>10, <2>1 DEF ReviewInv, MergeIsReviewed, HasChecks, Phase, Round
  <2> QED
    BY <1>10, <2>1, <2>2 DEF ReviewInv, HasChecks, Phase, Round
<1>11. ASSUME NEW k \in Ticks, ScanPasses(k)
       PROVE  ReviewInv'
  <2> DEFINE mine == tick[k].round
  <2>1. /\ round' = [round EXCEPT ![mine] = Reviewed(mine, "started")]
        /\ verifyState' = [verifyState EXCEPT ![tick[k].task] = mine]
        /\ tick' = [tick EXCEPT ![k] = Between(tick[k].todo)]
        /\ HasChecks(k)
    BY <1>11 DEF ScanPasses, next, HasChecks
  <2>2. mine \in Rounds
    BY <2>1 DEF ReviewInv
  <2>3. /\ DOMAIN round' = Rounds
        /\ \A x \in Rounds : /\ round'[x].pr = round[x].pr
                             /\ round'[x].checks = round[x].checks
                             /\ round'[x].pushed = round[x].pushed
                             /\ round'[x].peer \in {"none", "started", "pass", "fail"}
    BY <2>1, <2>2 DEF ReviewInv, Reviewed
  <2>4. /\ DOMAIN tick' = Ticks /\ tick'[k].phase = "next"
        /\ \A tp \in tick'[k].todo : tp[1] \in Tasks
        /\ \A j \in Ticks : j # k => tick'[j] = tick[j]
    BY <2>1 DEF ReviewInv, Between
  <2>5. verifyState' \in [Tasks -> Rounds \cup {NONE}]
    BY <2>1, <2>2 DEF ReviewInv
  <2>6. MergeIsReviewed'
    BY <2>3, <2>4 DEF ReviewInv, MergeIsReviewed, HasChecks, Phase, Round
  <2>7. \A j \in Ticks : HasChecks(j)' =>
          tick'[j].round \in Rounds /\ Round(j)'.pr = tick'[j].pr
    BY <2>3, <2>4 DEF ReviewInv, HasChecks, Phase, Round
  <2> QED
    BY <2>3, <2>4, <2>5, <2>6, <2>7 DEF ReviewInv
<1>12. ASSUME NEW o \in Rounds, NEW result \in {"pass", "fail"}, ReviewDone(o, result)
       PROVE  ReviewInv'
  BY <1>10, <1>12 DEF ReviewDone
<1>13. ASSUME Restart
       PROVE  ReviewInv'
  <2>1. /\ tick' = [k \in Ticks |-> IdleTick]
        /\ round' = [o \in Rounds |-> NoRound]
        /\ verifyState' = [t \in Tasks |-> NONE]
    BY <1>13 DEF Restart
  <2>2. /\ \A k \in Ticks : tick'[k].phase = "idle" /\ tick'[k].todo = {}
        /\ \A o \in Rounds : round'[o].checks = "none" /\ round'[o].peer = "none"
    BY <2>1 DEF IdleTick, NoRound
  <2> QED
    BY <2>1, <2>2 DEF ReviewInv, MergeIsReviewed, HasChecks, Phase, Round
<1>14. ASSUME UNCHANGED vars
       PROVE  ReviewInv'
  BY <1>1, <1>14 DEF vars, memory
<1>15. ASSUME NEW k \in Ticks, EmptyTick(k)
       PROVE  ReviewInv'
  BY <1>14, <1>15 DEF EmptyTick
<1>16. ASSUME NEW t \in Tasks, Submit(t) \/ Push(t) \/ CiReports(t) \/ FounderMove(t)
       PROVE  ReviewInv'
  BY <1>1, <1>16 DEF memory, Submit, Push, CiReports, FounderMove
<1> QED
  BY <1>2, <1>3, <1>4, <1>5, <1>6, <1>7, <1>8, <1>9, <1>11, <1>12, <1>13, <1>14, <1>15, <1>16
     DEF Next, TickGoesOn

\* No request is merged but on passed checks of that request and, in peer mode,
\* the reviewer's approval, whatever cycles and restarts come in between
\* (verifyCycle's cached check states).
THEOREM MergesAreReviewed == Spec => []MergeIsReviewed
<1>1. Init => ReviewInv
  BY DEF Init, ReviewInv, MergeIsReviewed, HasChecks, Phase, Round, IdleTick, NoRound
<1>2. ReviewInv /\ [Next]_vars => ReviewInv'
  BY StepKeepsReviewInv
<1>3. ReviewInv => MergeIsReviewed
  BY DEF ReviewInv
<1> QED
  BY <1>1, <1>2, <1>3, PTL DEF Spec

-----------------------------------------------------------------------------
(* Types.                                                                  *)

Results == {"none", "pass", "pending", "fail"}
Phases == {"idle", "next", "checking", "decide", "scanning", "merging", "merged", "refused"}
CycleType == [phase : Phases, todo : SUBSET (Tasks \X (0..MaxPrs)), task : Tasks \cup {NONE},
              pr : 0..MaxPrs, round : Rounds \cup {NONE}]
RoundType == [pr : 0..MaxPrs, checks : Results, peer : {"none", "started", "pass", "fail"},
              pushed : SUBSET {"started", "pass", "fail"}]
HubType == [Tasks -> [1..MaxPrs -> [head : Nat, ci : Results, merged : BOOLEAN]]]

\* A check state that is cached, or that a cycle past its checks holds, has a result: only
\* an object that nobody holds is filled anew.
Checked(o) == o \in Rounds /\ round[o].checks # "none"

BoardInv ==
  /\ status \in [Tasks -> STATES] /\ pr \in [Tasks -> 0..MaxPrs] /\ attempts \in [Tasks -> Nat]
  /\ hub \in HubType
CacheInv ==
  /\ verifyState \in [Tasks -> Rounds \cup {NONE}]
  /\ round \in [Rounds -> RoundType] /\ reviewing \subseteq Rounds
  /\ \A t \in Tasks : verifyState[t] # NONE => Checked(verifyState[t])
CycleInv ==
  /\ thread \in Ticks \cup {NONE} /\ tick \in [Ticks -> CycleType]
  /\ \A k \in Ticks : /\ HasChecks(k) => Checked(tick[k].round)
                      /\ HasChecks(k) \/ Phase(k) = "checking" => tick[k].task \in Tasks
VerifyInv == BoardInv /\ CacheInv /\ CycleInv

\* A cycle goes over to r while no check state loses its result.
LEMMA CycleGoesTo ==
  ASSUME CycleInv, NEW k \in Ticks, NEW r \in CycleType, tick' = [tick EXCEPT ![k] = r],
         thread' \in Ticks \cup {NONE},
         \A o \in Rounds : Checked(o) => Checked(o)',
         r.phase \in {"idle", "next"} \/ r.task \in Tasks,
         r.phase \in {"idle", "next", "checking"} \/ Checked(r.round)'
  PROVE  CycleInv'
<1>1. tick' \in [Ticks -> CycleType] /\ tick'[k] = r /\ \A j \in Ticks : j # k => tick'[j] = tick[j]
  BY DEF CycleInv
<1>2. ASSUME NEW j \in Ticks
      PROVE  /\ HasChecks(j)' => Checked(tick[j].round)'
             /\ HasChecks(j)' \/ Phase(j)' = "checking" => tick'[j].task \in Tasks
  <2>1. CASE j = k
    <3>1. HasChecks(j)' <=> r.phase \in {"decide", "scanning", "merging", "merged", "refused"}
      BY <1>1, <2>1 DEF HasChecks, Phase
    <3>2. Phase(j)' = r.phase /\ tick'[j].task = r.task /\ tick'[j].round = r.round
      BY <1>1, <2>1 DEF Phase
    <3>3. Checked(tick[j].round)' <=> Checked(r.round)'
      BY <3>2 DEF Checked
    <3> QED BY <3>1, <3>2, <3>3
  <2>2. CASE j # k
    <3>1. (HasChecks(j)' <=> HasChecks(j)) /\ Phase(j)' = Phase(j) /\ tick'[j] = tick[j]
      BY <1>1, <2>2 DEF HasChecks, Phase
    <3>2. Checked(tick[j].round) => Checked(tick[j].round)'
      BY <3>1 DEF Checked
    <3> QED BY <3>1, <3>2 DEF CycleInv
  <2> QED BY <2>1, <2>2
<1> QED BY <1>1, <1>2 DEF CycleInv

\* Where check states stay as they are, so do their results.
LEMMA RoundsKept == ASSUME UNCHANGED round PROVE \A o \in Rounds : Checked(o) => Checked(o)'
BY DEF Checked

LEMMA CyclesKept == ASSUME CycleInv, UNCHANGED <<tick, thread>>,
                           \A o \in Rounds : Checked(o) => Checked(o)'
                    PROVE  CycleInv'
<1>1. ASSUME NEW k \in Ticks, HasChecks(k)' PROVE Checked(tick[k].round)'
  <2>1. Checked(tick[k].round)
    BY <1>1 DEF CycleInv, HasChecks, Phase
  <2>2. PICK o \in Rounds : o = tick[k].round
    BY <2>1 DEF Checked
  <2> QED BY <2>1, <2>2 DEF Checked
<1> QED BY <1>1 DEF CycleInv, HasChecks, Phase

\* The Map may lose entries.
LEMMA CacheShrinks ==
  ASSUME CacheInv, UNCHANGED round, reviewing' \subseteq Rounds, DOMAIN verifyState' = Tasks,
         verifyState' = [t \in Tasks |-> verifyState'[t]],
         \A t \in Tasks : verifyState'[t] \in {verifyState[t], NONE}
  PROVE  CacheInv'
<1>1. verifyState' \in [Tasks -> Rounds \cup {NONE}]
  BY DEF CacheInv
<1>2. ASSUME NEW t \in Tasks, verifyState'[t] # NONE PROVE Checked(verifyState[t])'
  BY <1>2 DEF CacheInv, Checked
<1> QED BY <1>1, <1>2 DEF CacheInv

LEMMA FailureTypes ==
  ASSUME BoardInv, CacheInv, NEW t \in Tasks, handleFailure(t), UNCHANGED <<pr, hub, round, reviewing>>
  PROVE  BoardInv' /\ CacheInv'
<1>1. attempts' \in [Tasks -> Nat]
  BY DEF handleFailure, BoardInv
<1>2. status' \in [Tasks -> STATES]
  BY DEF handleFailure, moveFailed, Disposition, BoardInv, STATES
<1>3. verifyState' = [verifyState EXCEPT ![t] = NONE]
  BY DEF handleFailure
<1>4. CacheInv'
  BY <1>3, CacheShrinks DEF CacheInv
<1> QED BY <1>1, <1>2, <1>4 DEF BoardInv

\* A cycle done with its task, or awaiting in the phase given.
LEMMA MovedTypes ==
  ASSUME CycleInv, NEW k \in Ticks
  PROVE  /\ Between(tick[k].todo) \in CycleType /\ Between(tick[k].todo).phase = "next"
         /\ \A phase \in Phases, o \in Rounds \cup {NONE} :
              HasChecks(k) \/ Phase(k) = "checking" =>
                /\ TickNow(k, phase, o) \in CycleType /\ TickNow(k, phase, o).task \in Tasks
                /\ TickNow(k, phase, o).phase = phase /\ TickNow(k, phase, o).round = o
<1>1. tick[k] \in CycleType
  BY DEF CycleInv
<1>2. Between(tick[k].todo) \in CycleType /\ Between(tick[k].todo).phase = "next"
  <2>1. 0 \in 0..MaxPrs
    BY VerifyAssumption
  <2>2. tick[k].todo \subseteq Tasks \X (0..MaxPrs)
    BY <1>1 DEF CycleType
  <2> QED BY <2>1, <2>2 DEF Between, CycleType, Phases
<1>3. ASSUME NEW phase \in Phases, NEW o \in Rounds \cup {NONE}
      PROVE  /\ TickNow(k, phase, o) \in CycleType
             /\ TickNow(k, phase, o).task = tick[k].task
             /\ TickNow(k, phase, o).phase = phase /\ TickNow(k, phase, o).round = o
  BY <1>1 DEF TickNow, CycleType
<1> QED BY <1>2, <1>3 DEF CycleInv

LEMMA NextKeepsCycles ==
  ASSUME CycleInv, NEW k \in Ticks, next(k), \A o \in Rounds : Checked(o) => Checked(o)'
  PROVE  CycleInv'
<1>1. tick' = [tick EXCEPT ![k] = Between(tick[k].todo)] /\ thread' \in Ticks \cup {NONE}
  BY DEF next
<1> QED BY <1>1, MovedTypes, CycleGoesTo

LEMMA FailedKeepsTypes ==
  ASSUME VerifyInv, NEW k \in Ticks, HasChecks(k), handleFailure(tick[k].task), next(k),
         UNCHANGED <<pr, hub, round, reviewing>>
  PROVE  VerifyInv'
<1>1. PICK t \in Tasks : t = tick[k].task
  BY DEF VerifyInv, CycleInv
<1>2. BoardInv' /\ CacheInv'
  BY <1>1, FailureTypes DEF VerifyInv
<1>3. CycleInv'
  BY RoundsKept, NextKeepsCycles DEF VerifyInv
<1> QED BY <1>2, <1>3 DEF VerifyInv

LEMMA TestsHaveResult ==
  ASSUME VerifyInv, NEW k \in Ticks, Phase(k) = "checking", NEW reached
  PROVE  testsCheck(k, reached) \in Results \ {"none"}
<1>1. tick[k].task \in Tasks /\ tick[k].pr \in 0..MaxPrs
  BY DEF VerifyInv, CycleInv, CycleType
<1>2. tick[k].pr # 0 => tick[k].pr \in 1..MaxPrs
  BY <1>1, VerifyAssumption
<1>3. tick[k].pr # 0 => PrOf(k).ci \in Results
  BY <1>1, <1>2 DEF PrOf, VerifyInv, BoardInv, HubType
<1> QED BY <1>3 DEF testsCheck, Results

\* A fresh object: nobody has it cached or in hand.
LEMMA ChecksDoneTypes ==
  ASSUME VerifyInv, NEW k \in Ticks, ChecksDone(k)
  PROVE  VerifyInv'
<1>1. PICK o \in Rounds, reached \in BOOLEAN, guardrail \in {"pass", "fail"} :
        /\ Unused(o)
        /\ round' = [round EXCEPT ![o] =
             [pr |-> tick[k].pr,
              checks |-> IF guardrail = "fail" THEN "fail" ELSE testsCheck(k, reached),
              peer |-> "none", pushed |-> {}]]
        /\ verifyState' = [verifyState EXCEPT ![tick[k].task] = o]
        /\ tick' = [tick EXCEPT ![k] = TickNow(k, "decide", o)]
  BY DEF ChecksDone
<1>2. Phase(k) = "checking" /\ thread' = k /\ UNCHANGED <<store, reviewing, world>>
  BY DEF ChecksDone
<1>3. PICK result \in Results \ {"none"} :
        result = IF guardrail = "fail" THEN "fail" ELSE testsCheck(k, reached)
  BY <1>2, TestsHaveResult DEF Results
<1>4. tick[k].pr \in 0..MaxPrs /\ tick[k].task \in Tasks
  BY <1>2 DEF VerifyInv, CycleInv, CycleType
<1> DEFINE filled == [pr |-> tick[k].pr, checks |-> result, peer |-> "none", pushed |-> {}]
<1>5. filled \in RoundType /\ filled.checks # "none"
  BY <1>3, <1>4 DEF RoundType
<1>6. round' = [round EXCEPT ![o] = filled]
  BY <1>1, <1>3
<1> HIDE DEF filled
<1>7. /\ round' \in [Rounds -> RoundType] /\ round'[o] = filled
      /\ \A x \in Rounds : x # o => round'[x] = round[x]
  BY <1>5, <1>6 DEF VerifyInv, CacheInv
<1>8. \A x \in Rounds : Checked(x) => Checked(x)'
  BY <1>5, <1>7 DEF Checked
<1>9. Checked(o)'
  BY <1>5, <1>7 DEF Checked
<1>10. CacheInv'
  <2>1. verifyState' \in [Tasks -> Rounds \cup {NONE}]
    BY <1>1 DEF VerifyInv, CacheInv
  <2>2. ASSUME NEW t \in Tasks, verifyState'[t] # NONE PROVE Checked(verifyState[t])'
    <3>1. CASE t = tick[k].task
      <4>1. verifyState'[t] = o
        BY <1>1, <3>1 DEF VerifyInv, CacheInv
      <4> QED BY <1>9, <4>1 DEF Checked
    <3>2. CASE t # tick[k].task
      <4>1. verifyState'[t] = verifyState[t] /\ Checked(verifyState[t])
        BY <1>1, <2>2, <3>2 DEF VerifyInv, CacheInv
      <4>2. PICK x \in Rounds : x = verifyState[t]
        BY <4>1 DEF Checked
      <4> QED BY <1>8, <4>1, <4>2 DEF Checked
    <3> QED BY <3>1, <3>2
  <2> QED BY <1>2, <1>7, <2>1, <2>2 DEF VerifyInv, CacheInv
<1>11. CycleInv'
  <2>1. TickNow(k, "decide", o) \in CycleType /\ TickNow(k, "decide", o).task \in Tasks
        /\ TickNow(k, "decide", o).round = o
    BY <1>2, MovedTypes DEF VerifyInv, Phases
  <2>2. PICK r \in CycleType : r = TickNow(k, "decide", o)
    BY <2>1
  <2>3. Checked(r.round)'
    BY <1>9, <2>1, <2>2 DEF Checked
  <2> QED BY <1>1, <1>2, <1>8, <2>1, <2>2, <2>3, CycleGoesTo DEF VerifyInv
<1>12. BoardInv'
  BY <1>2 DEF VerifyInv, BoardInv, store, world
<1> QED BY <1>10, <1>11, <1>12 DEF VerifyInv

\* A check state gets its review, or its review among its results.
LEMMA RoundGrows ==
  ASSUME CacheInv, NEW o \in Rounds, NEW r \in RoundType, r.checks = round[o].checks,
         round' = [round EXCEPT ![o] = r]
  PROVE  /\ round' \in [Rounds -> RoundType]
         /\ \A x \in Rounds : Checked(x) => Checked(x)'
         /\ \A x : Checked(x) => Checked(x)'
<1>1. \A x \in Rounds : round'[x].checks = round[x].checks
  BY DEF CacheInv
<1> QED BY <1>1 DEF CacheInv, Checked

\* One request of one task changes.
LEMMA HubTyped ==
  ASSUME hub \in HubType, NEW t \in Tasks, NEW n, NEW p \in [head : Nat, ci : Results, merged : BOOLEAN],
         NEW to, to = [hub EXCEPT ![t] = [hub[t] EXCEPT ![n] = p]]
  PROVE  to \in HubType
<1>1. [hub[t] EXCEPT ![n] = p] \in [1..MaxPrs -> [head : Nat, ci : Results, merged : BOOLEAN]]
  BY DEF HubType
<1> QED BY <1>1 DEF HubType

LEMMA VerifyInit == Init => VerifyInv
<1> SUFFICES ASSUME Init PROVE VerifyInv
  OBVIOUS
<1>1. 0 \in 0..MaxPrs
  BY VerifyAssumption
<1>2. IdleTick \in CycleType /\ IdleTick.phase = "idle"
  BY <1>1 DEF IdleTick, CycleType, Phases
<1>3. NoRound \in RoundType
  BY <1>1 DEF NoRound, RoundType, Results
<1>4. BoardInv
  BY <1>1 DEF Init, BoardInv, STATES, HubType, NewPr, Results
<1>5. CacheInv
  BY <1>3 DEF Init, CacheInv
<1>6. CycleInv
  BY <1>2 DEF Init, CycleInv, HasChecks, Phase
<1> QED BY <1>4, <1>5, <1>6 DEF VerifyInv

\* The cycle's steps that leave results as they are, or add to them.
LEMMA CycleStepTypes ==
  ASSUME VerifyInv, NEW k \in Ticks, TickGoesOn(k) \/ StartTick(k)
  PROVE  VerifyInv'
<1>a. tick[k] \in CycleType /\ k \in Ticks \cup {NONE}
  BY DEF VerifyInv, CycleInv
<1>b. HasChecks(k) => Checked(tick[k].round) /\ tick[k].round \in Rounds /\ tick[k].task \in Tasks
  BY DEF VerifyInv, CycleInv, Checked
<1>1. CASE StartTick(k)
  <2>0. PICK todo \in SUBSET (Tasks \X (0..MaxPrs)) : todo = {<<t, pr[t]>> : t \in InReview}
    <3>1. \A t \in InReview : t \in Tasks /\ pr[t] \in 0..MaxPrs
      BY DEF InReview, VerifyInv, BoardInv
    <3>2. {<<t, pr[t]>> : t \in InReview} \subseteq Tasks \X (0..MaxPrs)
      BY <3>1
    <3> QED BY <3>2
  <2> DEFINE r == Between(todo)
  <2>1. r \in CycleType /\ r.phase = "next"
    <3>1. 0 \in 0..MaxPrs
      BY VerifyAssumption
    <3> QED BY <3>1 DEF Between, CycleType, Phases
  <2>2. /\ tick' = [tick EXCEPT ![k] = r] /\ thread' = k
        /\ verifyState' = [t \in Tasks |-> IF t \in InReview THEN verifyState[t] ELSE NONE]
        /\ UNCHANGED <<store, round, reviewing, world>>
    BY <1>1, <2>0 DEF StartTick
  <2> HIDE DEF r
  <2>3. CycleInv'
    BY <2>1, <2>2, RoundsKept, CycleGoesTo DEF VerifyInv
  <2>4. CacheInv'
    BY <2>2, CacheShrinks DEF VerifyInv, CacheInv
  <2> QED BY <2>2, <2>3, <2>4 DEF VerifyInv, BoardInv, store, world
<1>2. CASE EndTick(k)
  <2>1. IdleTick \in CycleType /\ IdleTick.phase = "idle"
    BY VerifyAssumption DEF IdleTick, CycleType, Phases
  <2>2. /\ tick' = [tick EXCEPT ![k] = IdleTick] /\ thread' = NONE
        /\ UNCHANGED <<store, verifyState, round, reviewing, world>>
    BY <1>2 DEF EndTick
  <2>3. CycleInv'
    BY <2>1, <2>2, RoundsKept, CycleGoesTo DEF VerifyInv
  <2> QED BY <2>2, <2>3 DEF VerifyInv, BoardInv, CacheInv, Checked, store, world
<1>3. CASE NextTask(k)
  <2>1. PICK tp \in tick[k].todo :
          /\ tick' = [tick EXCEPT ![k] =
                        [phase |-> IF Usable(tp[1], tp[2]) THEN "decide" ELSE "checking",
                         todo |-> tick[k].todo \ {tp}, task |-> tp[1], pr |-> tp[2],
                         round |-> IF Usable(tp[1], tp[2]) THEN verifyState[tp[1]] ELSE NONE]]
          /\ thread' = IF Usable(tp[1], tp[2]) THEN k ELSE NONE
          /\ verifyState' = IF Usable(tp[1], tp[2]) THEN verifyState
                            ELSE [verifyState EXCEPT ![tp[1]] = NONE]
    BY <1>3 DEF NextTask
  <2>2. UNCHANGED <<store, round, reviewing, world>>
    BY <1>3 DEF NextTask
  <2>3. tp[1] \in Tasks /\ tp[2] \in 0..MaxPrs
    <3>1. tick[k].todo \subseteq Tasks \X (0..MaxPrs)
      BY <1>a DEF CycleType
    <3> QED BY <3>1
  <2>4. PICK r \in CycleType :
          r = [phase |-> IF Usable(tp[1], tp[2]) THEN "decide" ELSE "checking",
               todo |-> tick[k].todo \ {tp}, task |-> tp[1], pr |-> tp[2],
               round |-> IF Usable(tp[1], tp[2]) THEN verifyState[tp[1]] ELSE NONE]
    <3>1. tick[k].todo \ {tp} \subseteq Tasks \X (0..MaxPrs)
      BY <1>a DEF CycleType
    <3>2. (IF Usable(tp[1], tp[2]) THEN verifyState[tp[1]] ELSE NONE) \in Rounds \cup {NONE}
      BY <2>3 DEF VerifyInv, CacheInv
    <3>3. PICK o \in Rounds \cup {NONE}, left \in SUBSET (Tasks \X (0..MaxPrs)),
               phase \in {"decide", "checking"} :
            /\ o = IF Usable(tp[1], tp[2]) THEN verifyState[tp[1]] ELSE NONE
            /\ left = tick[k].todo \ {tp}
            /\ phase = IF Usable(tp[1], tp[2]) THEN "decide" ELSE "checking"
      BY <3>1, <3>2
    <3>4. [phase |-> phase, todo |-> left, task |-> tp[1], pr |-> tp[2], round |-> o] \in CycleType
      BY <2>3 DEF CycleType, Phases
    <3> QED BY <3>3, <3>4
  <2>5. r.task \in Tasks /\ tick' = [tick EXCEPT ![k] = r] /\ thread' \in Ticks \cup {NONE}
    BY <2>1, <2>3, <2>4
  <2>6. r.phase = "checking" \/ Checked(r.round)'
    <3>1. CASE Usable(tp[1], tp[2])
      <4>1. Checked(verifyState[tp[1]]) /\ r.round = verifyState[tp[1]]
        BY <2>3, <2>4, <3>1 DEF Usable, VerifyInv, CacheInv
      <4> QED BY <2>2, <4>1 DEF Checked
    <3>2. CASE ~Usable(tp[1], tp[2])
      BY <2>4, <3>2
    <3> QED BY <3>1, <3>2
  <2>7. CycleInv'
    BY <2>2, <2>5, <2>6, RoundsKept, CycleGoesTo DEF VerifyInv
  <2>8. CacheInv'
    BY <2>1, <2>2, CacheShrinks DEF VerifyInv, CacheInv
  <2> QED BY <2>2, <2>7, <2>8 DEF VerifyInv, BoardInv, store, world
<1>4. CASE ChecksDone(k)
  BY <1>4, ChecksDoneTypes
<1>5. CASE FailChecks(k) \/ ScanFails(k) \/ MergeFailed(k)
  <2>1. /\ HasChecks(k) /\ handleFailure(tick[k].task) /\ next(k)
        /\ UNCHANGED <<round, reviewing, world>>
    BY <1>5 DEF FailChecks, Deciding, ScanFails, MergeFailed, HasChecks
  <2> QED BY <2>1, FailedKeepsTypes DEF world
<1>6. CASE LeavePending(k)
  <2>1. next(k) /\ UNCHANGED <<store, verifyState, round, reviewing, world>>
    BY <1>6 DEF LeavePending
  <2>2. CycleInv'
    BY <2>1, RoundsKept, NextKeepsCycles DEF VerifyInv
  <2> QED BY <2>1, <2>2 DEF VerifyInv, BoardInv, CacheInv, Checked, store, world
<1>7. CASE BeginScan(k)
  <2>1. /\ HasChecks(k) /\ await(k, "scanning")
        /\ UNCHANGED <<store, verifyState, round, reviewing, world>>
    BY <1>7 DEF BeginScan, Deciding, HasChecks
  <2>2. CycleInv'
    <3>1. PICK o \in Rounds : o = tick[k].round
      BY <1>b, <2>1
    <3>2. PICK r \in CycleType : r = TickNow(k, "scanning", o)
      BY <2>1, MovedTypes DEF VerifyInv, Phases
    <3>3. r.task \in Tasks /\ r.round = o
      BY <2>1, <3>2, MovedTypes DEF VerifyInv, Phases
    <3>4. Checked(r.round)'
      BY <1>b, <2>1, <3>1, <3>3 DEF Checked
    <3>5. tick' = [tick EXCEPT ![k] = r] /\ thread' \in Ticks \cup {NONE}
      BY <2>1, <3>1, <3>2 DEF await
    <3> QED BY <2>1, <3>3, <3>4, <3>5, RoundsKept, CycleGoesTo DEF VerifyInv
  <2> QED BY <2>1, <2>2 DEF VerifyInv, BoardInv, CacheInv, Checked, store, world
<1>8. CASE Judge(k)
  <2>1. PICK o \in Rounds : o = tick[k].round
    BY <1>8, <1>b DEF Judge, Deciding, HasChecks
  <2>2. HasChecks(k) /\ UNCHANGED <<reviewing, world>>
    BY <1>8 DEF Judge, Deciding, HasChecks
  <2>3. PICK r \in RoundType : r = Joined(o, Pushed(k))
    BY <2>1 DEF Joined, Pushed, Round, RoundType, VerifyInv, CacheInv
  <2>4. r.checks = round[o].checks
    BY <2>3 DEF Joined
  <2>5. round' = [round EXCEPT ![o] = r]
    BY <1>8, <2>1, <2>3 DEF Judge
  <2>6. /\ round' \in [Rounds -> RoundType]
        /\ \A x \in Rounds : Checked(x) => Checked(x)'
    BY <2>4, <2>5, RoundGrows DEF VerifyInv
  <2>7. \A t \in Tasks : verifyState[t] # NONE =>
                           verifyState[t] \in Rounds /\ round'[verifyState[t]].checks # "none"
    BY <2>6 DEF VerifyInv, CacheInv, Checked
  <2>8. CASE await(k, "merging") /\ UNCHANGED <<store, verifyState>>
    <3>1. PICK c \in CycleType : c = TickNow(k, "merging", o)
      BY <2>2, MovedTypes DEF VerifyInv, Phases
    <3>2. c.task \in Tasks /\ c.round = o
      BY <2>2, <3>1, MovedTypes DEF VerifyInv, Phases
    <3>3. Checked(c.round)'
      BY <1>b, <2>1, <2>2, <2>6, <3>2 DEF Checked
    <3>4. tick' = [tick EXCEPT ![k] = c] /\ thread' \in Ticks \cup {NONE}
      BY <2>1, <2>8, <3>1 DEF await
    <3>5. CycleInv'
      BY <2>6, <3>2, <3>3, <3>4, CycleGoesTo DEF VerifyInv
    <3>6. CacheInv'
      BY <2>2, <2>6, <2>7, <2>8 DEF VerifyInv, CacheInv, Checked
    <3> QED BY <2>2, <2>8, <3>5, <3>6 DEF VerifyInv, BoardInv, store, world
  <2>9. CASE handleFailure(tick[k].task) /\ next(k)
    <3>1. PICK t \in Tasks : t = tick[k].task
      BY <1>b, <2>2
    <3>2. CycleInv'
      BY <2>6, <2>9, NextKeepsCycles DEF VerifyInv
    <3>3. verifyState' = [verifyState EXCEPT ![t] = NONE]
      BY <2>9, <3>1 DEF handleFailure
    <3>4. CacheInv'
      <4>1. verifyState' \in [Tasks -> Rounds \cup {NONE}]
        BY <3>3 DEF VerifyInv, CacheInv
      <4>2. \A u \in Tasks : verifyState'[u] # NONE => verifyState'[u] = verifyState[u]
        BY <3>3 DEF VerifyInv, CacheInv
      <4> QED BY <2>2, <2>6, <2>7, <4>1, <4>2 DEF VerifyInv, CacheInv, Checked
    <3>5. attempts' \in [Tasks -> Nat] /\ status' \in [Tasks -> STATES]
      BY <2>9, <3>1 DEF handleFailure, moveFailed, Disposition, VerifyInv, BoardInv, STATES
    <3> QED BY <2>2, <3>2, <3>4, <3>5 DEF VerifyInv, BoardInv, world
  <2> QED BY <1>8, <2>8, <2>9 DEF Judge
<1>9. CASE ScanPasses(k)
  <2>1. HasChecks(k) /\ next(k) /\ UNCHANGED <<store, world>>
    BY <1>9 DEF ScanPasses, HasChecks
  <2>2. PICK o \in Rounds : o = tick[k].round
    BY <1>b, <2>1
  <2>3. PICK r \in RoundType : r = Reviewed(o, "started")
    BY DEF Reviewed, RoundType, VerifyInv, CacheInv
  <2>4. r.checks = round[o].checks
    BY <2>3 DEF Reviewed
  <2>5. /\ round' = [round EXCEPT ![o] = r]
        /\ verifyState' = [verifyState EXCEPT ![tick[k].task] = o]
        /\ reviewing' = reviewing \cup {o}
    BY <1>9, <2>2, <2>3 DEF ScanPasses
  <2>6. /\ round' \in [Rounds -> RoundType]
        /\ \A x \in Rounds : Checked(x) => Checked(x)'
    BY <2>4, <2>5, RoundGrows DEF VerifyInv
  <2>7. Checked(o)'
    BY <1>b, <2>1, <2>2, <2>6 DEF Checked
  <2>8. CacheInv'
    <3>1. verifyState' \in [Tasks -> Rounds \cup {NONE}]
      BY <2>5 DEF VerifyInv, CacheInv
    <3>2. \A t \in Tasks : verifyState'[t] # NONE =>
             verifyState'[t] = o \/ verifyState'[t] = verifyState[t]
      BY <2>5 DEF VerifyInv, CacheInv
    <3>3. \A t \in Tasks : verifyState'[t] # NONE => Checked(verifyState[t])'
      BY <2>6, <2>7, <3>2 DEF VerifyInv, CacheInv, Checked
    <3> QED BY <2>5, <2>6, <3>1, <3>3 DEF VerifyInv, CacheInv
  <2>9. CycleInv'
    BY <2>1, <2>6, NextKeepsCycles DEF VerifyInv
  <2> QED BY <2>1, <2>8, <2>9 DEF VerifyInv, BoardInv, store, world
<1>10. CASE GitHubMerges(k) \/ GitHubRefuses(k)
  <2>1. HasChecks(k) /\ UNCHANGED <<store, verifyState, round, thread, reviewing, pr>>
    BY <1>10 DEF GitHubMerges, GitHubRefuses, HasChecks, world
  <2>2. PICK o \in Rounds : o = tick[k].round
    BY <1>b, <2>1
  <2>3. PICK phase \in {"merged", "refused"} : tick' = [tick EXCEPT ![k] = TickNow(k, phase, o)]
    BY <1>10, <2>2 DEF GitHubMerges, GitHubRefuses
  <2>4. PICK r \in CycleType : r = TickNow(k, phase, o)
    BY <2>1, MovedTypes DEF VerifyInv, Phases
  <2>5. r.task \in Tasks /\ r.round = o
    BY <2>1, <2>4, MovedTypes DEF VerifyInv, Phases
  <2>6. Checked(r.round)'
    BY <1>b, <2>1, <2>2, <2>5 DEF Checked
  <2>7. CycleInv'
    BY <2>1, <2>3, <2>4, <2>5, <2>6, RoundsKept, CycleGoesTo DEF VerifyInv, CycleInv
  <2>8. hub' \in HubType
    <3>1. CASE GitHubMerges(k)
      <4>1. PICK t \in Tasks, n \in 0..MaxPrs : t = tick[k].task /\ n = tick[k].pr
        BY <1>a, <1>b, <2>1 DEF CycleType
      <4>2. hub' = [hub EXCEPT ![t][n].merged = TRUE]
        BY <3>1, <4>1 DEF GitHubMerges, merge
      <4>3. hub \in HubType
        BY DEF VerifyInv, BoardInv
      <4>4. CASE n \in 1..MaxPrs
        <5>1. PICK p \in [head : Nat, ci : Results, merged : BOOLEAN] :
                p = [hub[t][n] EXCEPT !.merged = TRUE]
          BY <4>3, <4>4 DEF HubType
        <5>2. hub' = [hub EXCEPT ![t] = [hub[t] EXCEPT ![n] = p]]
          BY <4>2, <5>1
        <5> QED BY <4>3, <5>2, HubTyped
      <4>5. CASE n \notin 1..MaxPrs
        <5>1. hub[t] \in [1..MaxPrs -> [head : Nat, ci : Results, merged : BOOLEAN]]
          BY <4>3 DEF HubType
        <5>2. [hub[t] EXCEPT ![n].merged = TRUE] = hub[t]
          BY <4>5, <5>1
        <5>3. hub' = [hub EXCEPT ![t] = [hub[t] EXCEPT ![n].merged = TRUE]]
          BY <4>2
        <5>4. hub' = [hub EXCEPT ![t] = hub[t]]
          BY <5>2, <5>3
        <5> QED BY <4>3, <5>4 DEF HubType
      <4> QED BY <4>4, <4>5
    <3>2. CASE GitHubRefuses(k)
      BY <3>2 DEF GitHubRefuses, world, VerifyInv, BoardInv
    <3> QED BY <1>10, <3>1, <3>2
  <2> QED BY <2>1, <2>7, <2>8 DEF VerifyInv, BoardInv, CacheInv, Checked, store
<1>11. CASE MergeDone(k)
  <2>1. /\ HasChecks(k) /\ next(k) /\ UNCHANGED <<round, reviewing, world>>
        /\ attempts' = [attempts EXCEPT ![tick[k].task] = 0]
        /\ verifyState' = [verifyState EXCEPT ![tick[k].task] = NONE]
        /\ \/ status' = [status EXCEPT ![tick[k].task] = "done"]
           \/ status' = status
    BY <1>11 DEF MergeDone, HasChecks
  <2>2. CycleInv'
    BY <2>1, RoundsKept, NextKeepsCycles DEF VerifyInv
  <2>3. CacheInv'
    BY <2>1, CacheShrinks DEF VerifyInv, CacheInv
  <2>4. BoardInv'
    BY <2>1 DEF VerifyInv, BoardInv, STATES, world
  <2> QED BY <2>2, <2>3, <2>4 DEF VerifyInv
<1> QED
  BY <1>1, <1>2, <1>3, <1>4, <1>5, <1>6, <1>7, <1>8, <1>9, <1>10, <1>11 DEF TickGoesOn

LEMMA VerifyStep == VerifyInv /\ [Next]_vars => VerifyInv'
<1> SUFFICES ASSUME VerifyInv, [Next]_vars PROVE VerifyInv'
  OBVIOUS
<1>1. CASE UNCHANGED vars
  BY <1>1 DEF vars, store, memory, world, VerifyInv, BoardInv, CacheInv, CycleInv, Checked,
              HasChecks, Phase
<1>2. ASSUME NEW k \in Ticks, StartTick(k) \/ TickGoesOn(k) PROVE VerifyInv'
  BY <1>2, CycleStepTypes
<1>3. ASSUME NEW k \in Ticks, EmptyTick(k) PROVE VerifyInv'
  BY <1>1, <1>3 DEF EmptyTick
<1>4. ASSUME NEW o \in Rounds, NEW result \in {"pass", "fail"}, ReviewDone(o, result)
      PROVE  VerifyInv'
  <2>1. /\ round' = [round EXCEPT ![o] = Reviewed(o, result)]
        /\ reviewing' \subseteq reviewing
        /\ UNCHANGED <<store, verifyState, tick, thread, world>>
    BY <1>4 DEF ReviewDone
  <2>2. PICK r \in RoundType : r = Reviewed(o, result)
    BY DEF Reviewed, RoundType, VerifyInv, CacheInv
  <2>3. r.checks = round[o].checks
    BY <2>2 DEF Reviewed
  <2>4. /\ round' \in [Rounds -> RoundType]
        /\ \A x \in Rounds : Checked(x) => Checked(x)'
    BY <2>1, <2>2, <2>3, RoundGrows DEF VerifyInv
  <2>5. CycleInv'
    BY <2>1, <2>4, CyclesKept DEF VerifyInv
  <2>6. CacheInv'
    BY <2>1, <2>4 DEF VerifyInv, CacheInv, Checked
  <2> QED BY <2>1, <2>5, <2>6 DEF VerifyInv, BoardInv, store, world
<1>5. ASSUME NEW t \in Tasks, Submit(t) \/ Push(t) \/ CiReports(t) \/ FounderMove(t)
      PROVE  VerifyInv'
  <2>1. UNCHANGED memory /\ UNCHANGED attempts
    BY <1>5 DEF Submit, Push, CiReports, FounderMove, store
  <2>2. CacheInv' /\ CycleInv'
    BY <2>1 DEF memory, VerifyInv, CacheInv, CycleInv, Checked, HasChecks, Phase
  <2>3. CASE Submit(t)
    <3>1. PICK n \in 0..MaxPrs : pr' = [pr EXCEPT ![t] = n]
      BY <2>3 DEF Submit
    <3>2. status' = [status EXCEPT ![t] = "in-review"] /\ hub' = hub
      BY <2>3 DEF Submit
    <3>3. BoardInv'
      BY <2>1, <3>1, <3>2 DEF VerifyInv, BoardInv, STATES
    <3> QED BY <2>2, <3>3 DEF VerifyInv
  <2>4. CASE Push(t)
    <3>1. PICK n \in 1..MaxPrs : n = pr[t]
      BY <2>4, VerifyAssumption DEF Push, VerifyInv, BoardInv
    <3>2. hub' = [hub EXCEPT ![t][n] = [head |-> hub[t][n].head + 1, ci |-> "none", merged |-> FALSE]]
      BY <2>4, <3>1 DEF Push, push
    <3>3. hub \in HubType
      BY DEF VerifyInv, BoardInv
    <3>4. hub' \in HubType
      <4>1. PICK h \in Nat : h = hub[t][n].head + 1
        <5>1. hub[t][n].head \in Nat
          BY <3>3 DEF HubType
        <5> QED BY <5>1
      <4>2. PICK p \in [head : Nat, ci : Results, merged : BOOLEAN] :
              p = [head |-> hub[t][n].head + 1, ci |-> "none", merged |-> FALSE]
        <5>1. [head |-> h, ci |-> "none", merged |-> FALSE] \in [head : Nat, ci : Results, merged : BOOLEAN]
          BY DEF Results
        <5> QED BY <4>1, <5>1
      <4>3. hub' = [hub EXCEPT ![t] = [hub[t] EXCEPT ![n] = p]]
        BY <3>2, <4>2
      <4> QED BY <3>3, <4>3, HubTyped
    <3>5. BoardInv'
      BY <2>1, <2>4, <3>4 DEF Push, store, VerifyInv, BoardInv
    <3> QED BY <2>2, <3>5 DEF VerifyInv
  <2>5. CASE CiReports(t)
    <3>1. PICK n \in 1..MaxPrs : n = pr[t]
      BY <2>5, VerifyAssumption DEF CiReports, VerifyInv, BoardInv
    <3>2. PICK ci \in Results : hub' = [hub EXCEPT ![t][n].ci = ci]
      BY <2>5, <3>1, VerifyAssumption DEF CiReports, report, Results
    <3>3. hub \in HubType
      BY DEF VerifyInv, BoardInv
    <3>4. hub' \in HubType
      <4>1. hub[t][n] \in [head : Nat, ci : Results, merged : BOOLEAN]
        BY <3>3 DEF HubType
      <4>2. PICK p \in [head : Nat, ci : Results, merged : BOOLEAN] : p = [hub[t][n] EXCEPT !.ci = ci]
        BY <4>1
      <4>3. hub' = [hub EXCEPT ![t] = [hub[t] EXCEPT ![n] = p]]
        BY <3>2, <4>2
      <4> QED BY <3>3, <4>3, HubTyped
    <3>5. BoardInv'
      BY <2>1, <2>5, <3>4 DEF CiReports, store, VerifyInv, BoardInv
    <3> QED BY <2>2, <3>5 DEF VerifyInv
  <2>6. CASE FounderMove(t)
    <3>1. PICK to \in STATES : status' = [status EXCEPT ![t] = to]
      BY <2>6, VerifyAssumption DEF FounderMove
    <3>2. BoardInv'
      BY <2>1, <2>6, <3>1 DEF FounderMove, world, VerifyInv, BoardInv
    <3> QED BY <2>2, <3>2 DEF VerifyInv
  <2> QED BY <1>5, <2>3, <2>4, <2>5, <2>6
<1>6. CASE Restart
  <2>1. 0 \in 0..MaxPrs
    BY VerifyAssumption
  <2>2. IdleTick \in CycleType /\ IdleTick.phase = "idle"
    BY <2>1 DEF IdleTick, CycleType, Phases
  <2>3. NoRound \in RoundType
    BY <2>1 DEF NoRound, RoundType, Results
  <2>4. CacheInv'
    BY <1>6, <2>3 DEF Restart, CacheInv
  <2>5. CycleInv'
    BY <1>6, <2>2 DEF Restart, CycleInv, HasChecks, Phase
  <2> QED BY <1>6, <2>4, <2>5 DEF Restart, keepAttempts, VerifyInv, BoardInv
<1> QED BY <1>1, <1>2, <1>3, <1>4, <1>5, <1>6 DEF Next

\* The verifier's state keeps its types, and a check state found in the Map always holds a
\* result (verify-loop.mjs:251-257 reads it without looking).
THEOREM VerifyTypeCorrect == Spec => []TypeOK
<1>1. VerifyInv => TypeOK
  BY DEF VerifyInv, BoardInv, CacheInv, CycleInv, TypeOK, CycleType, RoundType, Results, Checked
<1> QED BY <1>1, VerifyInit, VerifyStep, PTL DEF Spec
=============================================================================
