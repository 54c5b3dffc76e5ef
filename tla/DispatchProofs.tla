--------------------------- MODULE DispatchProofs ---------------------------
(***************************************************************************)
(* Theorems about the runner over the task store, for every set of tasks,  *)
(* agents, sessions and cycles and for every bound.  The first is that the *)
(* runner implements the store, so that what TaskStoreProofs shows of the  *)
(* store holds of every behaviour of the runner, agents and daemon.        *)
(***************************************************************************)
EXTENDS Dispatch, TaskStoreProofs

Busy == {"working", "exited", "orphan"}

\* A session that is under way names the agent and the task it works on.
LEMMA BusyRun ==
  ASSUME DTypeOK, NEW s \in Sessions, run[s].phase \in Busy
  PROVE  /\ run[s].agent \in Agents
         /\ run[s].task \in Tasks
         /\ run[s].was \in STATES
<1>1. run[s] \in Run
  BY DEF DTypeOK
<1> QED
  BY <1>1 DEF Run, Busy

\* What cycles and sessions have to do with each other: a cycle that waits for
\* a session waits for one that is under way, and alone; a recovery has the
\* event loop, which stands still while the daemon is not up.
CycleRuns ==
  \A c \in Cycles :
    /\ cycle[c].phase \in {"waiting", "recovering"} =>
         cycle[c].cur \in Sessions /\ run[cycle[c].cur].phase \in {"working", "exited"}
    /\ cycle[c].phase = "recovering" => thread = c /\ run[cycle[c].cur].phase = "exited"
    /\ cycle[c].phase \in {"idle", "claiming"} => cycle[c].cur = NONE
OneCyclePerRun ==
  \A c, e \in Cycles : c # e /\ cycle[c].cur # NONE => cycle[c].cur # cycle[e].cur
LoopStops == daemon # "up" => thread = NONE
DInv == DTypeOK /\ CycleRuns /\ OneCyclePerRun /\ LoopStops

\* The task moves of the agents and of the recovery are moves of the store.
LEMMA AgentTargetState ==
  ASSUME NEW st PROVE AgentTarget(st) \in STATES
BY DEF AgentTarget, STATES

\* A claim's decision is one of the router's.
LEMMA DecisionType ==
  ASSUME DTypeOK, NEW c \in Cycles, Todo(c) # <<>>
  PROVE  /\ NextDecision(c) \in Decision
         /\ Tail(Todo(c)) \in Seq(Decision)
         /\ At(c) \in 0..now
<1>1. cycle[c] \in Cycle
  BY DEF DTypeOK
<1>2. Todo(c) \in Seq(Decision)
  BY <1>1 DEF Cycle, Todo
<1>3. At(c) \in Nat /\ At(c) <= now /\ now \in Nat
  BY <1>1 DEF DTypeOK, TypeOK, Cycle, At
<1> QED
  BY <1>2, <1>3 DEF NextDecision

\* Every step of a runner cycle is a step of the store, or leaves it alone.
LEMMA CycleStoreStep ==
  ASSUME DInv, NEW c \in Cycles, StartCycle(c) \/ CycleGoesOn(c)
  PROVE  [Next]_vars
<1> USE DEF DInv
<1>1. CASE StartCycle(c)
  BY <1>1 DEF StartCycle
<1>2. CASE LoseClaim(c)
  BY <1>2 DEF LoseClaim
<1>3. CASE AbortCycle(c)
  BY <1>3 DEF AbortCycle
<1>4. CASE EndCycle(c)
  BY <1>4 DEF EndCycle
<1>5. ASSUME NEW s \in Sessions, ClaimAndLaunch(c, s)
      PROVE  [Next]_vars
  <2>1. PICK d \in Decision, at \in 0..now : Claim(d.task, d.agent, s, LeaseTTL, at)
    BY <1>5, DecisionType DEF ClaimAndLaunch
  <2>2. PICK t \in Tasks, a \in Agents : Claim(t, a, s, LeaseTTL, at)
    BY <2>1 DEF Decision
  <2> QED
    BY <2>2, DispatchAssumption DEF Next
<1>6. ASSUME NEW s \in Sessions, FinishMoved(c, s)
      PROVE  [Next]_vars
  BY <1>6 DEF FinishMoved
<1>7. ASSUME NEW s \in Sessions, FinishFailed(c, s)
      PROVE  [Next]_vars
  <2>1. run[s].phase \in Busy
    BY <1>7 DEF FinishFailed, RunFailed, Resolved, Recovering, CycleRuns, Busy
  <2>2. PICK t \in Tasks, a \in Agents :
          \/ Release(t, s)
          \/ ForceRelease(t, a)
          \/ UNCHANGED vars
    BY <1>7, <2>1, BusyRun DEF FinishFailed, releaseFailed
  <2> QED
    BY <2>2 DEF Next
<1>8. ASSUME NEW s \in Sessions, StartRecovery(c, s)
      PROVE  [Next]_vars
  <2>1. run[s].phase \in Busy
    BY <1>8 DEF StartRecovery, Resolved, Busy
  <2>2. PICK t \in Tasks :
          Transition(t, "in-progress", NONE, FALSE) \/ UNCHANGED vars
    BY <1>8, <2>1, BusyRun DEF StartRecovery, FirstMove
  <2> QED
    BY <2>2 DEF Next, STATES
<1>9. ASSUME NEW s \in Sessions, FinishRecovery(c, s)
      PROVE  [Next]_vars
  <2>1. run[s].phase \in Busy
    BY <1>9 DEF FinishRecovery, Recovering, CycleRuns, Busy
  <2>2. PICK t \in Tasks : Transition(t, "in-review", NONE, FALSE)
    BY <1>9, <2>1, BusyRun DEF FinishRecovery
  <2> QED
    BY <2>2 DEF Next, STATES
<1> QED
  BY <1>1, <1>2, <1>3, <1>4, <1>5, <1>6, <1>7, <1>8, <1>9 DEF CycleGoesOn

\* So is every step of an agent, alive or orphaned.
LEMMA AgentStoreStep ==
  ASSUME DInv, NEW s \in Sessions, AgentStep(s)
  PROVE  [Next]_vars
<1> USE DEF DInv
<1>1. ASSUME AgentMove(s)
      PROVE  [Next]_vars
  <2>1. run[s].task \in Tasks
    BY <1>1, BusyRun DEF AgentMove, Alive, Busy
  <2>2. PICK t \in Tasks, to \in STATES, ss \in Sessions \cup {NONE} :
          Transition(t, to, ss, FALSE)
    BY <1>1, <2>1, AgentTargetState DEF AgentMove, STATES
  <2> QED
    BY <2>2 DEF Next
<1>2. ASSUME AgentHandoff(s)
      PROVE  [Next]_vars
  <2>1. run[s].task \in Tasks
    BY <1>2, BusyRun DEF AgentHandoff, Alive, Busy
  <2>2. PICK t \in Tasks : Transition(t, "ready-for-impl", s, TRUE)
    BY <1>2, <2>1 DEF AgentHandoff
  <2> QED
    BY <2>2 DEF Next, STATES
<1>3. ASSUME AgentHeartbeat(s)
      PROVE  [Next]_vars
  <2>1. run[s].task \in Tasks
    BY <1>3, BusyRun DEF AgentHeartbeat, Alive, Busy
  <2>2. PICK t \in Tasks : Heartbeat(t, s, LeaseTTL)
    BY <1>3, <2>1 DEF AgentHeartbeat
  <2> QED
    BY <2>2, DispatchAssumption DEF Next
<1>4. CASE AgentOpensPr(s)
  BY <1>4 DEF AgentOpensPr
<1>5. ASSUME NEW out, AgentExit(s, out)
      PROVE  [Next]_vars
  BY <1>5 DEF AgentExit
<1>6. CASE OrphanExit(s)
  BY <1>6 DEF OrphanExit
<1> QED
  BY <1>1, <1>2, <1>3, <1>4, <1>5, <1>6 DEF AgentStep

\* And every step of the watchdog, of the boot and of the world around it.
LEMMA StoreStep ==
  ASSUME DInv, [DNext]_dvars
  PROVE  [Next]_vars
<1> USE DEF DInv
<1>1. ASSUME NEW t \in Tasks, WatchdogReap(t)
      PROVE  [Next]_vars
  BY <1>1 DEF WatchdogReap, Next
<1>2. ASSUME NEW t \in Tasks, WatchdogForce(t)
      PROVE  [Next]_vars
  <2>1. lease[t] \in Lease /\ lease[t] # NoLease
    BY <1>2 DEF WatchdogForce, DTypeOK, TypeOK, Live, NoLease
  <2>2. PICK a \in Agents : ForceRelease(t, a)
    BY <1>2, <2>1 DEF WatchdogForce, Lease
  <2> QED
    BY <2>2 DEF Next
<1>3. ASSUME NEW t \in Tasks, BootFree(t)
      PROVE  [Next]_vars
  BY <1>3 DEF BootFree, Next
<1>4. ASSUME NEW t \in Tasks, SeedTask(t)
      PROVE  [Next]_vars
  <2>1. Insert(t)
    BY <1>4, DispatchAssumption DEF SeedTask, Insert
  <2> QED
    BY <2>1 DEF Next
<1>5. ASSUME NEW t \in Tasks, OtherMove(t)
      PROVE  [Next]_vars
  <2>1. PICK to \in STATES : Transition(t, to, NONE, FALSE)
    BY <1>5, DispatchAssumption DEF OtherMove
  <2> QED
    BY <2>1 DEF Next
<1>6. ASSUME NEW t \in Tasks, ClosePr(t)
      PROVE  [Next]_vars
  BY <1>6 DEF ClosePr
<1>7. CASE Crash \/ Boot \/ BootDone \/ BoundsReached
  BY <1>7 DEF Crash, Boot, BootDone, BoundsReached, dvars
<1>8. CASE TimePasses
  BY <1>8 DEF TimePasses, Next
<1>9. CASE UNCHANGED dvars
  BY <1>9 DEF dvars
<1> QED
  BY <1>1, <1>2, <1>3, <1>4, <1>5, <1>6, <1>7, <1>8, <1>9,
     CycleStoreStep, AgentStoreStep DEF DNext

-----------------------------------------------------------------------------
\* The clock never goes back.
LEMMA ClockStep ==
  ASSUME TypeOK, [Next]_vars
  PROVE  now' \in Nat /\ now <= now'
<1>1. now \in Nat
  BY DEF TypeOK
<1> QED
  BY <1>1 DEF Next, vars, Tick, Insert, RestWrite, Claim, Heartbeat, Release,
     ForceRelease, BootRelease, Reap, Transition

\* The records the runner writes have their types.
LEMMA RunOverType ==
  ASSUME NEW ph \in {"free", "ended", "failed", "lost"}
  PROVE  RunOver(ph) \in Run
BY DEF RunOver, Run

LEMMA RunNowType ==
  ASSUME DTypeOK, NEW s \in Sessions, run[s].phase \in Busy,
         NEW ph \in Busy, NEW out \in {NONE, "ok", "quota", "failed"}
  PROVE  RunNow(s, ph, out) \in Run
BY BusyRun DEF RunNow, Run, Busy

LEMMA IdleCycleType == IdleCycle \in Cycle
BY DEF IdleCycle, Cycle

\* A plan is a sequence of decisions.
LEMMA PlanType ==
  ASSUME DTypeOK, NEW at, NEW plan \in planRun(at)
  PROVE  plan \in Seq(Decision)
<1>1. PICK n \in 1..Len(Roster) : plan \in [1..n -> Offers(at)]
  BY DEF planRun
<1>2. Len(Roster) \in Nat
  BY DispatchAssumption
<1>3. \A u \in Tasks : Eligible(u, at) => status[u] \in STATES
  BY DEF Eligible, CLAIMABLE_STATUSES, STATES
<1>4. Offers(at) \subseteq Decision
  BY <1>3 DEF Offers, Decision
<1> QED
  BY <1>1, <1>2, <1>4

\* What a step of a cycle leaves of the runner's state.
LEMMA RecordType ==
  ASSUME DTypeOK, NEW c \in Cycles, NEW s \in Sessions, run[s].phase \in Busy,
         NEW ph \in {"ended", "failed"}, NEW until \in Nat,
         recordRun(c, s, ph, until)
  PROVE  /\ cycle' \in [Cycles -> Cycle]
         /\ \A e \in Cycles : cycle'[e].at = cycle[e].at
         /\ thread' \in Cycles
         /\ run' \in [Sessions -> Run]
         /\ hold' \in [Agents -> Nat]
         /\ prs' = prs /\ daemon' = daemon /\ starts' = starts /\ crashes' = crashes
<1>1. CycleNow(c, "claiming", Todo(c), NONE) \in Cycle
  BY DEF DTypeOK, Cycle, CycleNow, Todo
<1>2. RunOver(ph) \in Run
  BY RunOverType
<1> QED
  BY <1>1, <1>2, BusyRun DEF recordRun, DTypeOK, CycleNow

\* The part of the type invariant that is about the runner.
RunnerTypes ==
  /\ cycle \in [Cycles -> Cycle]
  /\ \A c \in Cycles : At(c) <= now
  /\ thread \in Cycles \cup {NONE}
  /\ run \in [Sessions -> Run]
  /\ hold \in [Agents -> Nat]
  /\ prs \subseteq Tasks
  /\ daemon \in {"up", "down", "booting"}
  /\ starts \in Nat /\ crashes \in Nat

LEMMA CycleTypeStep ==
  ASSUME DInv, now' \in Nat, now <= now', NEW c \in Cycles,
         StartCycle(c) \/ CycleGoesOn(c)
  PROVE  RunnerTypes'
<1> USE DEF DInv
<1>a. DTypeOK /\ now \in Nat /\ \A e \in Cycles : cycle[e].at \in Nat
  BY DEF DTypeOK, TypeOK, Cycle
<1>1. CASE StartCycle(c)
  <2>1. PICK plan \in planRun(now) :
          cycle' = [cycle EXCEPT ![c] =
                      [phase |-> "claiming", at |-> now, todo |-> plan, cur |-> NONE]]
    BY <1>1 DEF StartCycle
  <2>2. plan \in Seq(Decision)
    BY <2>1, PlanType
  <2>3. cycle' \in [Cycles -> Cycle]
    BY <2>1, <2>2, <1>a DEF DTypeOK, Cycle
  <2>4. \A e \in Cycles : At(e)' <= now'
    BY <2>1, <1>a DEF DTypeOK, At
  <2> QED
    BY <1>1, <2>3, <2>4 DEF StartCycle, DTypeOK, RunnerTypes
<1>2. CASE LoseClaim(c)
  <2>1. /\ NextDecision(c).agent \in Agents
        /\ CycleNow(c, "claiming", Tail(Todo(c)), NONE) \in Cycle
    BY <1>2, DecisionType DEF LoseClaim, Remaining, CycleNow, Cycle, DTypeOK, Decision
  <2> QED
    BY <1>2, <2>1, <1>a DEF LoseClaim, Remaining, DTypeOK, RunnerTypes, At, CycleNow
<1>3. CASE AbortCycle(c) \/ EndCycle(c)
  <2>1. cycle' = [cycle EXCEPT ![c] = IdleCycle]
    BY <1>3 DEF AbortCycle, EndCycle
  <2>2. cycle' \in [Cycles -> Cycle]
    BY <2>1, <1>a, IdleCycleType DEF DTypeOK
  <2>3. \A e \in Cycles : At(e)' <= now'
    BY <2>1, <1>a DEF DTypeOK, At, IdleCycle
  <2> QED
    BY <1>3, <1>a, <2>2, <2>3 DEF AbortCycle, EndCycle, DTypeOK, RunnerTypes
<1>4. ASSUME NEW s \in Sessions, ClaimAndLaunch(c, s)
      PROVE  RunnerTypes'
  <2>1. CycleNow(c, "waiting", Tail(Todo(c)), s) \in Cycle
    BY <1>4, DecisionType DEF ClaimAndLaunch, CycleNow, Cycle, DTypeOK
  <2> DEFINE d == NextDecision(c)
             r == [phase |-> "working", agent |-> d.agent, task |-> d.task,
                   was |-> d.was, due |-> now + RunTimeout, out |-> NONE]
  <2>2. d \in Decision
    BY <1>4, DecisionType DEF ClaimAndLaunch
  <2>3. now + RunTimeout \in Nat
    BY <1>a, DispatchAssumption
  <2>4. r \in Run
    BY <2>2, <2>3 DEF Run, Decision
  <2>5. run' \in [Sessions -> Run]
    BY <1>4, <2>4 DEF ClaimAndLaunch, DTypeOK
  <2> QED
    BY <1>4, <2>1, <2>5, <1>a DEF ClaimAndLaunch, DTypeOK, RunnerTypes, At, CycleNow
<1>5. ASSUME NEW s \in Sessions, FinishMoved(c, s) \/ FinishFailed(c, s) \/ FinishRecovery(c, s)
      PROVE  RunnerTypes'
  <2>1. run[s].phase \in Busy
    BY <1>5 DEF FinishMoved, FinishFailed, FinishRecovery, RunFailed, Resolved,
                Recovering, CycleRuns, Busy
  <2>2. At(c) + QuotaCooldown \in Nat
    BY <1>a, DispatchAssumption DEF At
  <2>3. PICK ph \in {"ended", "failed"}, until \in Nat : recordRun(c, s, ph, until)
    BY <1>5, <2>2 DEF FinishMoved, FinishFailed, FinishRecovery
  <2> QED
    BY <2>1, <2>3, <1>a, RecordType DEF DTypeOK, RunnerTypes, At
<1>6. ASSUME NEW s \in Sessions, StartRecovery(c, s)
      PROVE  RunnerTypes'
  <2>1. CycleNow(c, "recovering", Todo(c), s) \in Cycle
    BY DEF CycleNow, Cycle, DTypeOK, Todo
  <2> QED
    BY <1>6, <2>1, <1>a DEF StartRecovery, DTypeOK, RunnerTypes, At, CycleNow
<1> QED
  BY <1>1, <1>2, <1>3, <1>4, <1>5, <1>6 DEF CycleGoesOn

LEMMA OtherTypeStep ==
  ASSUME DInv, now' \in Nat, now <= now',
         \/ \E s \in Sessions : AgentStep(s)
         \/ \E t \in Tasks :
              \/ WatchdogReap(t) \/ WatchdogForce(t) \/ BootFree(t)
              \/ SeedTask(t) \/ OtherMove(t) \/ ClosePr(t)
         \/ Crash \/ Boot \/ BootDone \/ TimePasses \/ BoundsReached
         \/ UNCHANGED dvars
  PROVE  RunnerTypes'
<1> USE DEF DInv, DTypeOK, RunnerTypes, At
<1>a. now \in Nat /\ \A e \in Cycles : cycle[e].at \in Nat
  BY DEF TypeOK, Cycle
<1>1. CASE UNCHANGED dispatchVars
  BY <1>1, <1>a DEF dispatchVars
<1>2. ASSUME NEW s \in Sessions, AgentOpensPr(s)
      PROVE  RunnerTypes'
  BY <1>2, <1>a, BusyRun DEF AgentOpensPr, Alive, Busy
<1>3. ASSUME NEW s \in Sessions, NEW out \in {"ok", "quota", "failed"}, AgentExit(s, out)
      PROVE  RunnerTypes'
  BY <1>3, <1>a, RunNowType DEF AgentExit, Working, Busy
<1>4. ASSUME NEW s \in Sessions, OrphanExit(s)
      PROVE  RunnerTypes'
  BY <1>4, <1>a, RunOverType DEF OrphanExit
<1>5. ASSUME NEW t \in Tasks, ClosePr(t)
      PROVE  RunnerTypes'
  BY <1>5, <1>a DEF ClosePr
<1>6. CASE Crash
  <2>1. \A s \in Sessions : Working(s) => RunNow(s, "orphan", NONE) \in Run
    BY RunNowType DEF Working, Busy
  <2>2. PICK dead \in SUBSET {s \in Sessions : Working(s)} :
          run' = [s \in Sessions |->
                    IF s \in dead \/ run[s].phase = "exited"
                    THEN RunOver("lost")
                    ELSE IF Working(s) THEN RunNow(s, "orphan", NONE) ELSE run[s]]
    BY <1>6 DEF Crash
  <2>3. run' \in [Sessions -> Run]
    BY <2>1, <2>2, RunOverType
  <2> QED
    BY <1>6, <2>3, <1>a, IdleCycleType DEF Crash, IdleCycle
<1>7. CASE Boot \/ BootDone
  BY <1>7, <1>a DEF Boot, BootDone
<1> QED
  BY <1>1, <1>2, <1>3, <1>4, <1>5, <1>6, <1>7
     DEF AgentStep, AgentMove, AgentHandoff, AgentHeartbeat, WatchdogReap,
         WatchdogForce, BootFree, SeedTask, OtherMove, TimePasses, BoundsReached,
         dvars, dispatchVars

\* No step leaves the types of the runner's state.
LEMMA DTypeStep ==
  ASSUME DInv, [DNext]_dvars
  PROVE  DTypeOK'
<1>1. [Next]_vars
  BY StoreStep
<1>2. TypeOK /\ TypeOK'
  BY <1>1, TypeStep DEF DInv, DTypeOK
<1>3. now' \in Nat /\ now <= now'
  BY <1>1, <1>2, ClockStep
<1>4. RunnerTypes'
  BY <1>3, CycleTypeStep, OtherTypeStep DEF DNext
<1> QED
  BY <1>2, <1>4 DEF DTypeOK, RunnerTypes

-----------------------------------------------------------------------------
\* The actions that end a cycle's wait record a run that is under way.
LEMMA RecordStep ==
  ASSUME DInv, NEW c \in Cycles, NEW s \in Sessions,
         FinishMoved(c, s) \/ FinishFailed(c, s) \/ FinishRecovery(c, s)
  PROVE  /\ cycle[c].cur = s /\ run[s].phase = "exited"
         /\ thread \in {NONE, c} /\ daemon = "up"
         /\ \E ph \in {"ended", "failed"}, until \in Nat : recordRun(c, s, ph, until)
<1>1. cycle[c] \in Cycle /\ At(c) \in Nat
  BY DEF DInv, DTypeOK, Cycle, At
<1>2. At(c) + QuotaCooldown \in Nat
  BY <1>1, DispatchAssumption
<1>3. c # NONE
  BY DispatchAssumption
<1> QED
  BY <1>2, <1>3 DEF FinishMoved, FinishFailed, FinishRecovery, RunFailed, Resolved,
     Recovering, DInv, CycleRuns, LoopStops

\* No step parts a cycle from its session.
LEMMA CycleRunsStep ==
  ASSUME DInv, [DNext]_dvars
  PROVE  CycleRuns' /\ OneCyclePerRun' /\ LoopStops'
<1> DEFINE Goal == CycleRuns' /\ OneCyclePerRun' /\ LoopStops'
<1> SUFFICES Goal
  OBVIOUS
<1> USE DEF DInv, CycleRuns, OneCyclePerRun, LoopStops
<1>a. /\ cycle \in [Cycles -> Cycle] /\ run \in [Sessions -> Run]
      /\ NONE \notin Sessions /\ NONE \notin Cycles
      /\ \A c \in Cycles : cycle[c].phase \in {"idle", "claiming", "waiting", "recovering"}
  BY TaskStoreAssumption, DispatchAssumption DEF DTypeOK, Cycle
<1>1. ASSUME NEW c \in Cycles, StartCycle(c)
      PROVE  Goal
  BY <1>1, <1>a DEF StartCycle
<1>2. ASSUME NEW c \in Cycles, LoseClaim(c)
      PROVE  Goal
  BY <1>2, <1>a DEF LoseClaim, Remaining, Claiming, CycleNow
<1>3. ASSUME NEW c \in Cycles, AbortCycle(c) \/ EndCycle(c)
      PROVE  Goal
  BY <1>3, <1>a DEF AbortCycle, EndCycle, Claiming, IdleCycle
<1>4. ASSUME NEW c \in Cycles, NEW s \in Sessions, ClaimAndLaunch(c, s)
      PROVE  Goal
  <2>1. run[s].phase \in {"free", "ended", "failed", "lost"}
    BY <1>4 DEF ClaimAndLaunch, FreshSession, Fresh
  <2>2. /\ thread = c /\ thread' = NONE /\ daemon' = daemon
        /\ cycle' = [cycle EXCEPT ![c] = CycleNow(c, "waiting", Tail(Todo(c)), s)]
    BY <1>4 DEF ClaimAndLaunch, Claiming
  <2>3. /\ \A u \in Sessions \ {s} : run'[u] = run[u]
        /\ run'[s].phase = "working"
    BY <1>4, <1>a DEF ClaimAndLaunch
  <2>4. \A e \in Cycles : cycle[e].cur # s
    BY <2>1, <1>a
  <2>5. cycle'[c].phase = "waiting" /\ cycle'[c].cur = s
    BY <2>2, <1>a DEF CycleNow
  <2>6. \A e \in Cycles \ {c} : cycle'[e] = cycle[e]
    BY <2>2, <1>a
  <2> QED
    BY <2>1, <2>2, <2>3, <2>4, <2>5, <2>6, <1>a
<1>5. ASSUME NEW c \in Cycles, NEW s \in Sessions,
             FinishMoved(c, s) \/ FinishFailed(c, s) \/ FinishRecovery(c, s)
      PROVE  Goal
  <2>1. PICK ph \in {"ended", "failed"}, until \in Nat : recordRun(c, s, ph, until)
    BY <1>5, RecordStep
  <2>2. /\ cycle[c].cur = s /\ run[s].phase = "exited"
        /\ thread \in {NONE, c} /\ daemon = "up"
    BY <1>5, RecordStep
  <2>3. /\ \A e \in Cycles \ {c} : cycle'[e] = cycle[e]
        /\ cycle'[c].phase = "claiming" /\ cycle'[c].cur = NONE
        /\ \A u \in Sessions \ {s} : run'[u] = run[u]
        /\ thread' = c /\ daemon' = daemon
    BY <2>1, <1>a DEF recordRun, CycleNow
  <2>4. \A e \in Cycles \ {c} : cycle[e].cur # s /\ cycle[e].phase # "recovering"
    BY <2>2, <1>a
  <2> QED
    BY <2>2, <2>3, <2>4, <1>a
<1>6. ASSUME NEW c \in Cycles, NEW s \in Sessions, StartRecovery(c, s)
      PROVE  Goal
  <2>1. /\ thread = NONE /\ daemon = "up" /\ cycle[c].phase = "waiting"
        /\ cycle[c].cur = s /\ run[s].phase = "exited"
        /\ run' = run /\ thread' = c /\ daemon' = daemon
        /\ cycle' = [cycle EXCEPT ![c] = CycleNow(c, "recovering", Todo(c), s)]
    BY <1>6 DEF StartRecovery, Resolved
  <2>2. /\ cycle'[c].phase = "recovering" /\ cycle'[c].cur = s
        /\ \A e \in Cycles \ {c} : cycle'[e] = cycle[e] /\ cycle[e].phase # "recovering"
    BY <2>1, <1>a DEF CycleNow
  <2> QED
    BY <2>1, <2>2, <1>a
<1>7. ASSUME NEW s \in Sessions, NEW out, AgentExit(s, out)
      PROVE  Goal
  BY <1>7, <1>a DEF AgentExit, Working, RunNow
<1>8. ASSUME NEW s \in Sessions, OrphanExit(s)
      PROVE  Goal
  BY <1>8, <1>a DEF OrphanExit
<1>9. CASE Crash
  BY <1>9, <1>a DEF Crash, IdleCycle
<1>10. CASE Boot \/ BootDone
  BY <1>10 DEF Boot, BootDone
<1>11. CASE UNCHANGED <<cycle, thread, run, daemon>>
  BY <1>11
<1> QED
  BY <1>1, <1>2, <1>3, <1>4, <1>5, <1>6, <1>7, <1>8, <1>9, <1>10, <1>11
     DEF DNext, CycleGoesOn, AgentStep, AgentMove, AgentHandoff, AgentHeartbeat,
         AgentOpensPr, WatchdogReap, WatchdogForce, BootFree, SeedTask, OtherMove,
         ClosePr, TimePasses, BoundsReached, dvars, dispatchVars

LEMMA DInvInit == DInit => DInv
<1> SUFFICES ASSUME DInit PROVE DInv
  OBVIOUS
<1>1. TypeOK
  BY TaskStoreAssumption DEF DInit, Init, TypeOK, NoLease, Lease
<1>2. NoRun \in Run /\ IdleCycle \in Cycle
  BY RunOverType, IdleCycleType DEF NoRun
<1> QED
  BY <1>1, <1>2 DEF DInit, DInv, DTypeOK, CycleRuns, OneCyclePerRun, LoopStops,
     IdleCycle, At, Init

\* The invariant everything below rests on.
LEMMA DInvariant == DSpec => []DInv
<1>1. DInv /\ [DNext]_dvars => DInv'
  BY DTypeStep, CycleRunsStep DEF DInv
<1> QED
  BY <1>1, DInvInit, PTL DEF DSpec

\* The runner's state keeps its types, whatever crashes and interleavings
\* happen (DTypeOK, the state of runner.mjs and scheduler.mjs).
THEOREM DispatchTypeCorrect == DSpec => []DTypeOK
BY DInvariant, PTL DEF DInv

\* The runner, the agents, the watchdog and the boot recovery implement the
\* task store: they touch it only through the operations of state.mjs.
THEOREM DispatchImplementsStore == DSpec => ImplementsStore
<1>1. DInit => Init
  BY DEF DInit
<1>2. DInv /\ [DNext]_dvars => [Next]_vars
  BY StoreStep
<1> QED
  BY <1>1, <1>2, DInvariant, PTL DEF DSpec, Spec, ImplementsStore

\* So no lease survives a handoff in a running daemon either (state.mjs,
\* LEASE_FREEING_STATES): what is proved of the store is inherited.
THEOREM DispatchFreesOnHandoff == DSpec => []HandoffFreesLease
BY DispatchImplementsStore, NoLeaseAfterHandoff, PTL DEF ImplementsStore

-----------------------------------------------------------------------------
\* A lease that is there after the step was there before, for the same session.
LeasesKept ==
  \A t \in Tasks : Held(t)' => Held(t) /\ lease'[t].session = lease[t].session

\* Every operation of the store but a claim and a heartbeat changes a lease
\* only by freeing it.
LEMMA StoreKeepsLeases ==
  ASSUME TypeOK, NEW t \in Tasks,
         \/ Tick \/ Insert(t) \/ RestWrite(t) \/ BootRelease(t) \/ Reap(t)
         \/ \E s \in Sessions : Release(t, s)
         \/ \E a \in Agents : ForceRelease(t, a)
         \/ \E to \in STATES, s \in Sessions \cup {NONE}, rel \in BOOLEAN :
              Transition(t, to, s, rel)
         \/ UNCHANGED vars
  PROVE  LeasesKept
<1>1. CASE freeLease(t)
  BY <1>1 DEF LeasesKept, TypeOK, freeLease, Freed, Held, NoLease
<1>2. CASE lease' = lease
  BY <1>2 DEF LeasesKept, Held
<1> QED
  BY <1>1, <1>2 DEF Tick, storeVars, Insert, insertTask, keepLease, RestWrite,
     Redeclare, updateTask, deleteTask, BootRelease, releaseOnBoot, Reap,
     reapExpiredLease, Release, releaseLease, ForceRelease, forceReleaseLease,
     Transition, transition, vars

LEMMA HeartbeatKeepsLeases ==
  ASSUME TypeOK, NEW t \in Tasks, NEW s \in Sessions, Heartbeat(t, s, LeaseTTL)
  PROVE  LeasesKept
<1>1. Held(t)
  BY DEF Heartbeat, heartbeat, Live, Held, NoLease, TypeOK
<1>2. \A u \in Tasks : u # t => lease'[u] = lease[u]
  BY DEF Heartbeat, heartbeat, TypeOK
<1>3. lease'[t].session = lease[t].session
  BY DEF Heartbeat, heartbeat, TypeOK
<1> QED
  BY <1>1, <1>2, <1>3 DEF LeasesKept, Held

\* Only a cycle that launches an agent makes a new lease.
LEMMA OnlyLaunchLeases ==
  ASSUME DInv, [DNext]_dvars,
         ~ \E c \in Cycles, s \in Sessions : ClaimAndLaunch(c, s)
  PROVE  LeasesKept
<1> USE DEF DInv, DTypeOK
<1>1. CASE UNCHANGED vars
  BY <1>1 DEF LeasesKept, Held, vars
<1>2. ASSUME NEW c \in Cycles, NEW s \in Sessions,
             FinishFailed(c, s) \/ FinishRecovery(c, s) \/ StartRecovery(c, s)
      PROVE  LeasesKept
  <2>1. run[s].phase \in Busy
    BY <1>2 DEF FinishFailed, FinishRecovery, StartRecovery, RunFailed, Resolved,
                Recovering, CycleRuns, Busy
  <2>2. run[s].task \in Tasks /\ run[s].agent \in Agents
    BY <2>1, BusyRun
  <2>3. PICK t \in Tasks, a \in Agents :
          \/ Release(t, s) \/ ForceRelease(t, a) \/ UNCHANGED vars
          \/ \E to \in {"in-progress", "in-review"} : Transition(t, to, NONE, FALSE)
    BY <1>2, <2>2 DEF FinishFailed, releaseFailed, FinishRecovery, StartRecovery, FirstMove
  <2> QED
    BY <2>3, StoreKeepsLeases DEF STATES
<1>3. ASSUME NEW s \in Sessions, AgentMove(s) \/ AgentHandoff(s)
      PROVE  LeasesKept
  <2>1. run[s].task \in Tasks
    BY <1>3, BusyRun DEF AgentMove, AgentHandoff, Alive, Busy
  <2>2. PICK t \in Tasks, to \in STATES, ss \in Sessions \cup {NONE}, rel \in BOOLEAN :
          Transition(t, to, ss, rel)
    BY <1>3, <2>1, AgentTargetState DEF AgentMove, AgentHandoff, STATES
  <2> QED
    BY <2>2, StoreKeepsLeases
<1>4. ASSUME NEW s \in Sessions, AgentHeartbeat(s)
      PROVE  LeasesKept
  <2>1. PICK t \in Tasks : Heartbeat(t, s, LeaseTTL)
    BY <1>4, BusyRun DEF AgentHeartbeat, Alive, Busy
  <2> QED
    BY <2>1, HeartbeatKeepsLeases
<1>5. ASSUME NEW t \in Tasks, WatchdogReap(t) \/ BootFree(t)
      PROVE  LeasesKept
  BY <1>5, StoreKeepsLeases DEF WatchdogReap, BootFree
<1>6. ASSUME NEW t \in Tasks, WatchdogForce(t)
      PROVE  LeasesKept
  <2>1. lease[t] \in Lease /\ lease[t] # NoLease
    BY <1>6 DEF WatchdogForce, TypeOK, Live, NoLease
  <2>2. PICK a \in Agents : ForceRelease(t, a)
    BY <1>6, <2>1 DEF WatchdogForce, Lease
  <2> QED
    BY <2>2, StoreKeepsLeases
<1>7. ASSUME NEW t \in Tasks, SeedTask(t)
      PROVE  LeasesKept
  BY <1>7 DEF SeedTask, insertTask, keepLease, LeasesKept, Held
<1>8. ASSUME NEW t \in Tasks, OtherMove(t)
      PROVE  LeasesKept
  <2>1. PICK to \in STATES : Transition(t, to, NONE, FALSE)
    BY <1>8, DispatchAssumption DEF OtherMove
  <2> QED
    BY <2>1, StoreKeepsLeases
<1>9. CASE TimePasses
  BY <1>9 DEF TimePasses, Tick, storeVars, LeasesKept, Held
<1> QED
  BY <1>1, <1>2, <1>3, <1>4, <1>5, <1>6, <1>7, <1>8, <1>9
     DEF DNext, CycleGoesOn, AgentStep, StartCycle, LoseClaim, AbortCycle, EndCycle,
         FinishMoved, AgentOpensPr, AgentExit, OrphanExit, ClosePr, Crash, Boot,
         BootDone, BoundsReached, dvars

\* What a launch does to the leases: the new one is for a session that no
\* other lease names and that works on the leased task.
LEMMA LaunchLeases ==
  ASSUME DInv, NEW c \in Cycles, NEW s \in Sessions, ClaimAndLaunch(c, s)
  PROVE  \E t \in Tasks :
           /\ lease'[t].session = s /\ run'[s].phase = "working" /\ run'[s].task = t
           /\ \A u \in Tasks \ {t} : lease'[u] = lease[u]
           /\ \A u \in Sessions \ {s} : run'[u] = run[u]
           /\ \A u \in Tasks : lease[u].session # s
           /\ daemon' = daemon
<1> DEFINE t == NextDecision(c).task
<1>1. t \in Tasks
  BY DecisionType DEF ClaimAndLaunch, DInv, Decision
<1>2. lease'[t].session = s /\ \A u \in Tasks \ {t} : lease'[u] = lease[u]
  BY <1>1 DEF ClaimAndLaunch, Claim, claimTask, DInv, DTypeOK, TypeOK
<1>3. /\ run'[s].phase = "working" /\ run'[s].task = t
      /\ \A u \in Sessions \ {s} : run'[u] = run[u]
  BY DEF ClaimAndLaunch, DInv, DTypeOK
<1>4. \A u \in Tasks : lease[u].session # s
  BY DEF ClaimAndLaunch, FreshSession, Fresh
<1>5. daemon' = daemon
  BY DEF ClaimAndLaunch
<1> HIDE DEF t
<1> QED
  BY <1>1, <1>2, <1>3, <1>4, <1>5

-----------------------------------------------------------------------------
\* The leases and the runs: a lease of a session under way is for its task.
LeaseRuns ==
  \A t \in Tasks :
    Held(t) =>
      /\ run[lease[t].session].phase # "failed"
      /\ run[lease[t].session].phase \in Busy => run[lease[t].session].task = t
      /\ daemon = "up" => run[lease[t].session].phase \notin {"orphan", "lost"}

\* No step leaves a lease to a run that failed, nor to a dead daemon's.
LEMMA LeaseRunsStep ==
  ASSUME DInv, LeaseRuns, [DNext]_dvars
  PROVE  LeaseRuns'
<1> USE DEF LeaseRuns
<1>a. /\ run \in [Sessions -> Run] /\ cycle \in [Cycles -> Cycle]
      /\ \A t \in Tasks : Held(t) => lease[t].session \in Sessions
  BY DEF DInv, DTypeOK, TypeOK, Lease, Held
<1>1. ASSUME NEW c \in Cycles, NEW s \in Sessions, ClaimAndLaunch(c, s)
      PROVE  LeaseRuns'
  BY <1>1, <1>a, LaunchLeases DEF Held, Busy
<1>2. ASSUME LeasesKept
      PROVE  LeaseRuns'
  <2> USE <1>2 DEF LeasesKept
  <2>1. CASE run' = run /\ daemon' = daemon
    BY <2>1, <1>a
  <2>2. ASSUME NEW c \in Cycles, NEW s \in Sessions,
               FinishMoved(c, s) \/ FinishFailed(c, s) \/ FinishRecovery(c, s)
        PROVE  LeaseRuns'
    <3>1. PICK ph \in {"ended", "failed"}, until \in Nat : recordRun(c, s, ph, until)
      BY <2>2, RecordStep
    <3>2. run[s].phase = "exited" /\ run[s].task \in Tasks
      BY <2>2, RecordStep, BusyRun DEF DInv, Busy
    <3>3. /\ run'[s].phase = ph /\ \A u \in Sessions \ {s} : run'[u] = run[u]
          /\ daemon' = daemon
      BY <3>1, <1>a DEF recordRun, RunOver
    <3>4. FinishFailed(c, s) => \A t \in Tasks : Held(t)' => lease'[t].session # s
      <4> SUFFICES ASSUME FinishFailed(c, s), NEW t \in Tasks, Held(t)',
                          lease'[t].session = s
                   PROVE  FALSE
        OBVIOUS
      <4>1. Held(t) /\ lease[t].session = s
        BY <1>2
      <4>2. run[s].task = t
        BY <4>1, <3>2 DEF Busy
      <4>3. Release(t, s)
        BY <4>1, <4>2 DEF FinishFailed, releaseFailed
      <4>4. lease' = Freed(t)
        BY <4>3 DEF Release, releaseLease, freeLease
      <4>5. lease'[t] = NoLease
        BY <4>4 DEF Freed, DInv, DTypeOK, TypeOK
      <4> QED
        BY <4>5, TaskStoreAssumption DEF NoLease
    <3>5. ~FinishFailed(c, s) => run'[s].phase = "ended"
      <4>1. ASSUME FinishMoved(c, s) \/ FinishRecovery(c, s)
            PROVE  run' = [run EXCEPT ![s] = RunOver("ended")]
        BY <4>1 DEF FinishMoved, FinishRecovery, recordRun
      <4>2. ASSUME run' = [run EXCEPT ![s] = RunOver("ended")]
            PROVE  run'[s].phase = "ended"
        BY <4>2, <1>a DEF RunOver
      <4> QED
        BY <2>2, <4>1, <4>2
    <3> QED
      BY <3>2, <3>3, <3>4, <3>5, <1>a DEF Busy
  <2>3. ASSUME NEW s \in Sessions, NEW out, AgentExit(s, out)
        PROVE  LeaseRuns'
    BY <2>3, <1>a DEF AgentExit, Working, RunNow, Busy
  <2>4. ASSUME NEW s \in Sessions, OrphanExit(s)
        PROVE  LeaseRuns'
    BY <2>4, <1>a DEF OrphanExit, RunOver, Busy
  <2>5. CASE Crash
    <3>1. \A s \in Sessions :
            \/ run'[s].phase = "lost"
            \/ run'[s].phase = "orphan" /\ run'[s].task = run[s].task /\ run[s].phase \in Busy
            \/ run'[s] = run[s]
      BY <2>5, <1>a DEF Crash, RunNow, RunOver, Working, Busy
    <3> QED
      BY <2>5, <3>1, <1>a DEF Crash, Busy
  <2>6. CASE Boot \/ BootDone
    BY <2>6, <1>a DEF Boot, BootDone, AllFreed
  <2> QED
    BY <2>1, <2>2, <2>3, <2>4, <2>5, <2>6, <1>1
       DEF DNext, CycleGoesOn, AgentStep, StartCycle, LoseClaim, AbortCycle, EndCycle,
           StartRecovery, AgentMove, AgentHandoff, AgentHeartbeat, AgentOpensPr,
           WatchdogReap, WatchdogForce, BootFree, SeedTask, OtherMove, ClosePr,
           TimePasses, BoundsReached, dvars, dispatchVars
<1> QED
  BY <1>1, <1>2, OnlyLaunchLeases

LEMMA LeaseRunsInvariant == DSpec => [](DInv /\ LeaseRuns)
<1>1. DInit => LeaseRuns
  BY DEF DInit, Init, LeaseRuns, Held
<1>2. LeaseRuns /\ DInv /\ [DNext]_dvars => LeaseRuns'
  BY LeaseRunsStep
<1> QED
  BY <1>1, <1>2, DInvariant, PTL DEF DSpec

\* A failed run never leaves its lease behind, in any interleaving of cycles,
\* agents and watchdog (executeRun's release after a failure).
THEOREM FailureFreesLease == DSpec => []FailedRunFreesItsLease
<1>1. LeaseRuns => FailedRunFreesItsLease
  BY DEF LeaseRuns, FailedRunFreesItsLease
<1> QED
  BY <1>1, LeaseRunsInvariant, PTL

\* Once the daemon is up again, no lease of an earlier daemon is left
\* (releaseAllLeases at start), however often it crashed.
THEOREM BootLeavesNoOrphanLease == DSpec => []BootFreesOrphans
<1>1. LeaseRuns => BootFreesOrphans
  BY DEF LeaseRuns, BootFreesOrphans
<1> QED
  BY <1>1, LeaseRunsInvariant, PTL

-----------------------------------------------------------------------------
\* What a plan keeps when its first decision is carried out.
LEMMA TailOfPlan ==
  ASSUME NEW plan \in Seq(Decision), plan # <<>>, TasksDistinct(plan)
  PROVE  /\ TasksDistinct(Tail(plan))
         /\ Assigned(Tail(plan)) \subseteq Assigned(plan)
         /\ Head(plan).task \in Assigned(plan) \ Assigned(Tail(plan))
<1>1. /\ Len(plan) \in Nat /\ Len(plan) >= 1
      /\ Len(Tail(plan)) = Len(plan) - 1
      /\ \A i \in 1..(Len(plan) - 1) : Tail(plan)[i] = plan[i + 1]
      /\ Head(plan) = plan[1]
  OBVIOUS
<1>2. \A i \in 1..(Len(plan) - 1) : i + 1 \in 1..Len(plan) /\ i + 1 # 1
  BY <1>1
<1>3. TasksDistinct(Tail(plan))
  BY <1>1, <1>2 DEF TasksDistinct
<1>4. Assigned(Tail(plan)) \subseteq Assigned(plan)
  BY <1>1, <1>2 DEF Assigned
<1>5. Head(plan).task \in Assigned(plan)
  BY <1>1 DEF Assigned
<1>6. Head(plan).task \notin Assigned(Tail(plan))
  BY <1>1, <1>2 DEF Assigned, TasksDistinct
<1> QED
  BY <1>3, <1>4, <1>5, <1>6

LEMMA PlannedTasks ==
  ASSUME NEW plan \in Seq(Decision) PROVE Assigned(plan) \subseteq Tasks
<1>1. \A i \in 1..Len(plan) : plan[i] \in Decision
  OBVIOUS
<1> QED
  BY <1>1 DEF Assigned, Decision

LEMMA EmptyPlan == TasksDistinct(<<>>) /\ Assigned(<<>>) = {}
BY DEF TasksDistinct, Assigned

\* A plan of the router: tasks apart, each with its dependencies done.
LEMMA NewPlan ==
  ASSUME NEW at, NEW plan \in planRun(at)
  PROVE  TasksDistinct(plan) /\ \A t \in Assigned(plan) : DepsDone(t)
<1>1. PICK n \in 1..Len(Roster) : plan \in [1..n -> Offers(at)]
  BY DEF planRun
<1>2. Len(plan) = n
  BY <1>1, DispatchAssumption
<1>3. \A o \in Offers(at) : DepsDone(o.task)
  BY DEF Offers, Eligible
<1>4. TasksDistinct(plan)
  BY DEF planRun
<1> QED
  BY <1>1, <1>2, <1>3, <1>4 DEF Assigned

\* What is done stays done: the runner, its agents and the others in this module
\* delete no row, and the state machine has no move from done.
DoneKept == \A t \in Tasks : status[t] = "done" => status'[t] = "done"

LEMMA StoreKeepsDone ==
  ASSUME TypeOK, NEW t \in Tasks,
         \/ Tick \/ Insert(t) \/ BootRelease(t) \/ Reap(t)
         \/ \E s \in Sessions : Release(t, s) \/ Heartbeat(t, s, LeaseTTL)
         \/ \E a \in Agents : ForceRelease(t, a)
         \/ \E to, s, rel : Transition(t, to, s, rel)
         \/ \E a, s, at : Claim(t, a, s, LeaseTTL, at)
         \/ UNCHANGED vars
  PROVE  DoneKept
<1>1. CASE UNCHANGED status
  BY <1>1 DEF DoneKept
<1>2. CASE Insert(t)
  BY <1>2 DEF Insert, insertTask, Exists, DoneKept, TypeOK
<1>3. CASE Reap(t)
  BY <1>3 DEF Reap, reapExpiredLease, Stalled, DoneKept, TypeOK
<1>4. ASSUME NEW to, NEW s, NEW rel, Transition(t, to, s, rel)
      PROVE  DoneKept
  <2>1. isLegalTransition(status[t], to) /\ status' = [status EXCEPT ![t] = to]
    BY <1>4 DEF Transition, transition, assertTransition
  <2>2. isLegalTransition("done", to) => to = "done"
    BY DEF isLegalTransition, TRANSITIONS
  <2> QED
    BY <2>1, <2>2 DEF DoneKept, TypeOK
<1> QED
  BY <1>1, <1>2, <1>3, <1>4
     DEF Tick, storeVars, BootRelease, releaseOnBoot, Release, releaseLease, Heartbeat,
         heartbeat, ForceRelease, forceReleaseLease, Claim, claimTask, vars

LEMMA DispatchKeepsDone ==
  ASSUME DInv, [DNext]_dvars
  PROVE  DoneKept
<1> USE DEF DInv, DTypeOK
<1>1. CASE UNCHANGED vars
  BY <1>1 DEF DoneKept, vars
<1>2. ASSUME NEW c \in Cycles, NEW s \in Sessions,
             FinishFailed(c, s) \/ FinishRecovery(c, s) \/ StartRecovery(c, s)
      PROVE  DoneKept
  <2>1. run[s].phase \in Busy
    BY <1>2 DEF FinishFailed, FinishRecovery, StartRecovery, RunFailed, Resolved,
                Recovering, CycleRuns, Busy
  <2>2. run[s].task \in Tasks /\ run[s].agent \in Agents
    BY <2>1, BusyRun
  <2>3. PICK t \in Tasks, a \in Agents :
          \/ Release(t, s) \/ ForceRelease(t, a) \/ UNCHANGED vars
          \/ \E to : Transition(t, to, NONE, FALSE)
    BY <1>2, <2>2 DEF FinishFailed, releaseFailed, FinishRecovery, StartRecovery, FirstMove
  <2> QED
    BY <2>3, StoreKeepsDone
<1>3. ASSUME NEW s \in Sessions, AgentMove(s) \/ AgentHandoff(s) \/ AgentHeartbeat(s)
      PROVE  DoneKept
  <2>1. run[s].task \in Tasks
    BY <1>3, BusyRun DEF AgentMove, AgentHandoff, AgentHeartbeat, Alive, Busy
  <2>2. PICK t \in Tasks :
          (\E to, ss, rel : Transition(t, to, ss, rel)) \/ Heartbeat(t, s, LeaseTTL)
    BY <1>3, <2>1 DEF AgentMove, AgentHandoff, AgentHeartbeat
  <2> QED
    BY <2>2, StoreKeepsDone
<1>4. ASSUME NEW t \in Tasks, WatchdogReap(t) \/ BootFree(t)
      PROVE  DoneKept
  BY <1>4, StoreKeepsDone DEF WatchdogReap, BootFree
<1>5. ASSUME NEW t \in Tasks, WatchdogForce(t)
      PROVE  DoneKept
  BY <1>5 DEF WatchdogForce, ForceRelease, forceReleaseLease, DoneKept
<1>6. ASSUME NEW t \in Tasks, SeedTask(t)
      PROVE  DoneKept
  BY <1>6 DEF SeedTask, insertTask, Exists, DoneKept, TypeOK
<1>7. ASSUME NEW t \in Tasks, OtherMove(t)
      PROVE  DoneKept
  BY <1>7, StoreKeepsDone DEF OtherMove
<1>8. CASE TimePasses
  BY <1>8 DEF TimePasses, Tick, storeVars, DoneKept
<1>9. ASSUME NEW c \in Cycles, NEW s \in Sessions, ClaimAndLaunch(c, s)
      PROVE  DoneKept
  BY <1>9 DEF ClaimAndLaunch, Claim, claimTask, DoneKept
<1> QED
  BY <1>1, <1>2, <1>3, <1>4, <1>5, <1>6, <1>7, <1>8, <1>9
     DEF DNext, CycleGoesOn, AgentStep, StartCycle, LoseClaim, AbortCycle, EndCycle,
         FinishMoved, AgentOpensPr, AgentExit, OrphanExit, ClosePr, Crash, Boot,
         BootDone, BoundsReached, dvars

-----------------------------------------------------------------------------
\* The plans in flight and the runs under way.
PlanInv ==
  /\ \A c \in Cycles :
       /\ TasksDistinct(Todo(c))
       /\ cycle[c].cur # NONE => run[cycle[c].cur].task \notin Assigned(Todo(c))
       /\ \A t \in Assigned(Todo(c)) : DepsDone(t)
  /\ \A s \in Sessions : run[s].phase \in Busy => DepsDone(run[s].task)

\* A cycle's plan is as it was, or new, or has lost its first decision or all; a run
\* under way has the task it had, unless the step launched it.
LEMMA TodoStep ==
  ASSUME DInv, [DNext]_dvars, NEW c \in Cycles
  PROVE  \/ /\ cycle'[c].todo = cycle[c].todo
            /\ \/ cycle'[c].cur = cycle[c].cur
               \/ cycle'[c].cur = NONE
         \/ cycle'[c].todo = <<>> /\ cycle'[c].cur = NONE
         \/ cycle'[c].todo \in planRun(now) /\ cycle'[c].cur = NONE
         \/ /\ cycle[c].todo # <<>> /\ cycle'[c].todo = Tail(cycle[c].todo)
            /\ \/ cycle'[c].cur = NONE
               \/ \E s \in Sessions : ClaimAndLaunch(c, s) /\ cycle'[c].cur = s
<1> USE DEF DInv, DTypeOK, Todo
<1>1. ASSUME NEW e \in Cycles, StartCycle(e)
      PROVE  \/ cycle'[c] = cycle[c]
             \/ cycle'[c].todo \in planRun(now) /\ cycle'[c].cur = NONE
  <2>1. PICK plan \in planRun(now) :
          cycle' = [cycle EXCEPT ![e] =
                      [phase |-> "claiming", at |-> now, todo |-> plan, cur |-> NONE]]
    BY <1>1 DEF StartCycle
  <2>2. cycle \in [Cycles -> Cycle]
    OBVIOUS
  <2> HIDE DEF DInv, DTypeOK
  <2> QED
    BY <2>1, <2>2
<1>2. ASSUME NEW e \in Cycles, LoseClaim(e)
      PROVE  \/ cycle'[c] = cycle[c]
             \/ /\ cycle[c].todo # <<>> /\ cycle'[c].todo = Tail(cycle[c].todo)
                /\ cycle'[c].cur = NONE
  BY <1>2 DEF LoseClaim, Remaining, CycleNow
<1>3. ASSUME NEW e \in Cycles, AbortCycle(e) \/ EndCycle(e)
      PROVE  \/ cycle'[c] = cycle[c]
             \/ cycle'[c].todo = <<>> /\ cycle'[c].cur = NONE
  <2>1. cycle' = [cycle EXCEPT ![e] = IdleCycle]
    BY <1>3 DEF AbortCycle, EndCycle
  <2>2. cycle \in [Cycles -> Cycle]
    OBVIOUS
  <2>3. IdleCycle.todo = <<>> /\ IdleCycle.cur = NONE
    BY DEF IdleCycle
  <2> HIDE DEF DInv, DTypeOK
  <2> QED
    BY <2>1, <2>2, <2>3
<1>4. ASSUME NEW e \in Cycles, NEW s \in Sessions, ClaimAndLaunch(e, s)
      PROVE  \/ cycle'[c] = cycle[c]
             \/ /\ e = c /\ cycle[c].todo # <<>> /\ cycle'[c].todo = Tail(cycle[c].todo)
                /\ cycle'[c].cur = s
  BY <1>4 DEF ClaimAndLaunch, CycleNow
<1>5. ASSUME NEW e \in Cycles, NEW s \in Sessions,
             FinishMoved(e, s) \/ FinishFailed(e, s) \/ FinishRecovery(e, s)
      PROVE  \/ cycle'[c] = cycle[c]
             \/ cycle'[c].todo = cycle[c].todo /\ cycle'[c].cur = NONE
  <2>1. PICK ph \in {"ended", "failed"}, until \in Nat : recordRun(e, s, ph, until)
    BY <1>5, RecordStep
  <2> QED
    BY <2>1 DEF recordRun, CycleNow
<1>6. ASSUME NEW e \in Cycles, NEW s \in Sessions, StartRecovery(e, s)
      PROVE  cycle'[c].todo = cycle[c].todo /\ cycle'[c].cur = cycle[c].cur
  BY <1>6 DEF StartRecovery, Resolved, CycleNow
<1>7. CASE Crash
  BY <1>7 DEF Crash, IdleCycle
<1>8. CASE UNCHANGED cycle
  BY <1>8
<1> QED
  BY <1>1, <1>2, <1>3, <1>4, <1>5, <1>6, <1>7, <1>8
     DEF DNext, CycleGoesOn, AgentStep, AgentMove, AgentHandoff, AgentHeartbeat,
         AgentOpensPr, AgentExit, OrphanExit, WatchdogReap, WatchdogForce, BootFree,
         SeedTask, OtherMove, ClosePr, Boot, BootDone, TimePasses, BoundsReached,
         dvars, dispatchVars

LEMMA RunStep ==
  ASSUME DInv, [DNext]_dvars, NEW s \in Sessions, run'[s].phase \in Busy,
         ~ \E c \in Cycles : ClaimAndLaunch(c, s)
  PROVE  run[s].phase \in Busy /\ run'[s].task = run[s].task
<1>a. run \in [Sessions -> Run]
  BY DEF DInv, DTypeOK
<1>1. ASSUME NEW c \in Cycles, NEW u \in Sessions, ClaimAndLaunch(c, u)
      PROVE  run'[s] = run[s]
  BY <1>1, <1>a DEF ClaimAndLaunch
<1>2. ASSUME NEW c \in Cycles, NEW u \in Sessions,
             FinishMoved(c, u) \/ FinishFailed(c, u) \/ FinishRecovery(c, u)
      PROVE  run'[s] = run[s] \/ run'[s].phase \notin Busy
  <2>1. PICK ph \in {"ended", "failed"}, until \in Nat : recordRun(c, u, ph, until)
    BY <1>2, RecordStep
  <2> QED
    BY <2>1, <1>a DEF recordRun, RunOver, Busy
<1>3. ASSUME NEW u \in Sessions, NEW out, AgentExit(u, out)
      PROVE  run[s].phase \in Busy /\ run'[s].task = run[s].task
  BY <1>3, <1>a DEF AgentExit, RunNow, Working, Busy
<1>4. ASSUME NEW u \in Sessions, OrphanExit(u)
      PROVE  run'[s] = run[s]
  BY <1>4, <1>a DEF OrphanExit, RunOver, Busy
<1>5. CASE Crash
  BY <1>5, <1>a DEF Crash, RunOver, RunNow, Working, Busy
<1>6. CASE run' = run
  BY <1>6
<1> QED
  BY <1>1, <1>2, <1>3, <1>4, <1>5, <1>6
     DEF DNext, CycleGoesOn, AgentStep, AgentMove, AgentHandoff, AgentHeartbeat,
         AgentOpensPr, StartCycle, LoseClaim, AbortCycle, EndCycle, StartRecovery,
         WatchdogReap, WatchdogForce, BootFree, SeedTask, OtherMove, ClosePr, Boot,
         BootDone, TimePasses, BoundsReached, dvars, dispatchVars

\* A launch takes the first task of the plan, which is not in the rest of it.
LEMMA LaunchTakesFirst ==
  ASSUME DInv, PlanInv, NEW c \in Cycles, NEW s \in Sessions, ClaimAndLaunch(c, s)
  PROVE  /\ run'[s].task \in Assigned(Todo(c)) \ Assigned(Tail(Todo(c)))
         /\ DepsDone(run'[s].task)
<1>1. Todo(c) \in Seq(Decision) /\ Todo(c) # <<>>
  BY DEF DInv, DTypeOK, Cycle, Todo, ClaimAndLaunch
<1>2. run'[s].task = Head(Todo(c)).task
  BY DEF ClaimAndLaunch, NextDecision, DInv, DTypeOK
<1> QED
  BY <1>1, <1>2, TailOfPlan DEF PlanInv

LEMMA PlanStep ==
  ASSUME DInv, DInv', PlanInv, [DNext]_dvars
  PROVE  PlanInv'
<1>a. DoneKept
  BY DispatchKeepsDone
<1>b. ASSUME NEW t \in Tasks, DepsDone(t) PROVE DepsDone(t)'
  <2>1. DependsOn[t] \subseteq Tasks
    BY DispatchAssumption
  <2> QED
    BY <1>a, <1>b, <2>1 DEF DepsDone, DoneKept
<1>c. \A c \in Cycles : Todo(c) \in Seq(Decision) /\ Assigned(Todo(c)) \subseteq Tasks
  BY PlannedTasks DEF DInv, DTypeOK, Cycle, Todo
<1>1. ASSUME NEW c \in Cycles
      PROVE  /\ TasksDistinct(Todo(c)')
             /\ \A t \in Assigned(Todo(c)') : t \in Tasks /\ DepsDone(t)
  <2>1. \/ Todo(c)' = Todo(c) \/ Todo(c)' = <<>> \/ Todo(c)' \in planRun(now)
        \/ Todo(c) # <<>> /\ Todo(c)' = Tail(Todo(c))
    BY TodoStep DEF Todo
  <2>2. CASE Todo(c)' \in planRun(now)
    <3>1. PICK plan \in planRun(now) : Todo(c)' = plan
      BY <2>2
    <3>2. plan \in Seq(Decision)
      BY PlanType DEF DInv
    <3>3. Assigned(plan) \subseteq Tasks
      BY <3>2, PlannedTasks
    <3> QED
      BY <3>1, <3>3, NewPlan
  <2>3. CASE Todo(c) # <<>> /\ Todo(c)' = Tail(Todo(c))
    BY <2>3, <1>c, TailOfPlan DEF PlanInv
  <2>4. CASE Todo(c)' = Todo(c)
    BY <2>4, <1>c DEF PlanInv
  <2>5. CASE Todo(c)' = <<>>
    BY <2>5, EmptyPlan
  <2> QED
    BY <2>1, <2>2, <2>3, <2>4, <2>5
<1>2. ASSUME NEW s \in Sessions, run'[s].phase \in Busy
      PROVE  \A d \in DependsOn[run'[s].task] : status'[d] = "done"
  <2>1. CASE \E c \in Cycles : ClaimAndLaunch(c, s)
    <3>1. PICK t \in Tasks : run'[s].task = t /\ DepsDone(t)
      BY <2>1, <1>c, LaunchTakesFirst
    <3>2. DepsDone(t)'
      BY <3>1, <1>b
    <3> QED
      BY <3>1, <3>2 DEF DepsDone
  <2>2. CASE ~ \E c \in Cycles : ClaimAndLaunch(c, s)
    <3>1. run[s].phase \in Busy /\ run'[s].task = run[s].task
      BY <1>2, <2>2, RunStep
    <3>2. PICK t \in Tasks : run'[s].task = t /\ DepsDone(t)
      BY <3>1, BusyRun DEF PlanInv, DInv
    <3>3. DepsDone(t)'
      BY <3>2, <1>b
    <3> QED
      BY <3>2, <3>3 DEF DepsDone
  <2> QED
    BY <2>1, <2>2
<1>3. ASSUME NEW c \in Cycles, cycle'[c].cur # NONE
      PROVE  run'[cycle'[c].cur].task \notin Assigned(Todo(c)')
  <2>1. PICK s \in Sessions : cycle'[c].cur = s /\ run'[s].phase \in Busy
    BY <1>3 DEF DInv, CycleRuns, DTypeOK, Cycle, Busy
  <2>2. CASE ClaimAndLaunch(c, s) /\ Todo(c)' = Tail(Todo(c))
    BY <2>1, <2>2, LaunchTakesFirst
  <2>3. CASE Todo(c)' = Todo(c) /\ cycle[c].cur = s
    <3>1. run[s].phase \in {"working", "exited"}
      BY <2>3, <1>3, <2>1, TaskStoreAssumption DEF DInv, CycleRuns, DTypeOK, Cycle
    <3>2. ~ \E e \in Cycles : ClaimAndLaunch(e, s)
      BY <3>1 DEF ClaimAndLaunch, FreshSession, Fresh
    <3>3. run'[s].task = run[s].task
      BY <2>1, <3>2, RunStep
    <3> QED
      BY <2>1, <2>3, <3>3, TaskStoreAssumption DEF PlanInv
  <2> QED
    BY <1>3, <2>1, <2>2, <2>3, TodoStep DEF Todo
<1>4. ASSUME NEW c \in Cycles
      PROVE  /\ TasksDistinct(Todo(c))'
             /\ cycle'[c].cur # NONE => run'[cycle'[c].cur].task \notin Assigned(Todo(c))'
             /\ \A t \in Assigned(Todo(c))' : DepsDone(t)'
  <2>1. TasksDistinct(Todo(c))'
    BY <1>1 DEF TasksDistinct
  <2>2. \A t \in Assigned(Todo(c))' : DepsDone(t)'
    BY <1>1, <1>b DEF Assigned
  <2>3. cycle'[c].cur # NONE => run'[cycle'[c].cur].task \notin Assigned(Todo(c))'
    BY <1>3 DEF Assigned
  <2> QED
    BY <2>1, <2>2, <2>3
<1>5. \A s \in Sessions : run'[s].phase \in Busy => DepsDone(run[s].task)'
  BY <1>2 DEF DepsDone
<1> QED
  BY <1>4, <1>5 DEF PlanInv

LEMMA PlanInvariant == DSpec => []PlanInv
<1>1. DInit => PlanInv
  BY EmptyPlan DEF DInit, PlanInv, IdleCycle, NoRun, RunOver, Busy, Todo
<1> QED
  BY <1>1, PlanStep, DInvariant, PTL DEF DSpec

\* One plan never gives a task to two agents, nor the task its cycle is running
\* (planRun's excludeTasks), for any roster and any number of overlapping cycles.
THEOREM PlansAreDistinct == DSpec => []PlanDistinct
<1>1. PlanInv => PlanDistinct
  BY DEF PlanInv, PlanDistinct, TasksDistinct
<1> QED
  BY <1>1, PlanInvariant, PTL

\* No agent works on a task whose dependencies are not all done (router.mjs,
\* decide), for any dependencies and however long the claim came after the plan.
THEOREM DependenciesFirst == DSpec => []DependsFirst
<1>1. PlanInv => DependsFirst
  BY DEF PlanInv, DependsFirst, Alive, Busy, DepsDone
<1> QED
  BY <1>1, PlanInvariant, PTL
=============================================================================
