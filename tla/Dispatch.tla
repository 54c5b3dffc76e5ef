------------------------------ MODULE Dispatch ------------------------------
(***************************************************************************)
(* The runner over the task store: runner.mjs (planRun, executeRun,        *)
(* recoverPr), router.mjs (decide), the runner and watchdog timers of      *)
(* scheduler.mjs, the agent processes launcher.mjs spawns and the calls    *)
(* they make over bus.mjs, and a daemon that crashes and boots again.      *)
(*                                                                         *)
(* The daemon is one event loop: `thread` is the cycle that runs, and a    *)
(* cycle gives the loop up only while it awaits launch().  Cycles overlap, *)
(* because the timer and "run now" start one without looking for another.  *)
(* The agents, the command line and the founder are processes of their     *)
(* own: their store transactions fall between any two of the daemon's.     *)
(*                                                                         *)
(* The budget, quiet-hours, capability, sprint and sensitive-action gates  *)
(* read policy that can change at any time; here an agent may be denied at *)
(* any time.  Model, provider and harness selection is left out.           *)
(***************************************************************************)
EXTENDS TaskStore, Sequences, FiniteSets

CONSTANTS
  Cycles,        \* runner cycles that may be in flight at once
  Roster,        \* the agents, in the order the runner decides for them
  DependsOn,     \* tasks.depends_on
  LeaseTTL,      \* work.lease_ttl_min, in clock ticks
  RunTimeout,    \* launcher's DEFAULT_TIMEOUT_MS, in clock ticks
  QuotaCooldown, \* how long a quota failure closes an agent's window
  MaxParallel,   \* work.max_parallel
  WipPerAgent,   \* work.wip_per_agent
  SeedStates,    \* statuses the board seeds its tasks in
  OtherMoves,    \* statuses the planner, verifier and founder move tasks to
  MaxStarts,     \* bound: cycles started
  MaxCrashes     \* bound: crashes of the daemon

ASSUME DispatchAssumption ==
  /\ NONE \notin Cycles
  /\ Roster \in Seq(Agents)
  /\ \A i, j \in 1..Len(Roster) : i # j => Roster[i] # Roster[j]
  /\ DependsOn \in [Tasks -> SUBSET Tasks]
  /\ LeaseTTL \in TTLs
  /\ RunTimeout \in Nat \ {0}
  /\ QuotaCooldown \in Nat
  /\ SeedStates \subseteq STATES
  /\ OtherMoves \subseteq STATES
  /\ MaxStarts \in Nat
  /\ MaxCrashes \in Nat

VARIABLES
  cycle,    \* the runner cycles in flight
  thread,   \* the cycle the event loop is running, or NONE
  run,      \* the agent run of each session
  hold,     \* per agent, when its quota window reopens (0: no hold)
  prs,      \* tasks with an open pull request on one of their branches
  daemon,   \* "up", "down" or "booting"
  starts,   \* cycles started
  crashes   \* crashes so far

dispatchVars == <<cycle, thread, run, hold, prs, daemon, starts, crashes>>
dvars == <<vars, dispatchVars>>

\* phase "claiming": the cycle's next claim is due; "waiting": it awaits the
\* run of session `cur`; "recovering": recoverPr is between its two moves.
IdleCycle == [phase |-> "idle", at |-> 0, todo |-> <<>>, cur |-> NONE]
RunOver(phase) == [phase |-> phase, agent |-> NONE, task |-> NONE, was |-> NONE,
                   due |-> 0, out |-> NONE]
NoRun == RunOver("free")

\* A cycle that has gone on to another phase; a run that has.
CycleNow(c, phase, todo, cur) ==
  [phase |-> phase, at |-> cycle[c].at, todo |-> todo, cur |-> cur]
RunNow(s, phase, out) ==
  [phase |-> phase, agent |-> run[s].agent, task |-> run[s].task,
   was |-> run[s].was, due |-> 0, out |-> out]

Working(s) == run[s].phase = "working"
Alive(s) == run[s].phase \in {"working", "orphan"}
Todo(c) == cycle[c].todo
At(c) == cycle[c].at

\* What an agent is asked to do with a task it finds in a given status.
AgentTarget(st) ==
  CASE st = "spec" -> "designing"
    [] st = "designing" -> "ready-for-impl"
    [] st = "ready-for-impl" -> "in-progress"
    [] st = "in-progress" -> "in-review"
    [] OTHER -> "blocked"
Implementing(st) == st \in {"ready-for-impl", "in-progress"}

-----------------------------------------------------------------------------
\* planRun and decide: in roster order, each agent that no gate denies is given
\* one task that nobody holds a live lease on, whose dependencies are done, and
\* that no earlier agent of this plan was given.
LiveLeases(at) == {t \in Tasks : lease[t].expires > at}
quotaHold(a, at) == at < hold[a]
DepsDone_notChecked(t) == TRUE
DepsDone(t) == \A d \in DependsOn[t] : status[d] = "done"
Eligible(t, at) ==
  /\ status[t] \in CLAIMABLE_STATUSES
  /\ t \notin LiveLeases(at)
  /\ DepsDone(t)
Gated(a, at) ==
  \/ quotaHold(a, at)
  \/ Cardinality(LiveLeases(at)) >= MaxParallel
  \/ Cardinality({t \in LiveLeases(at) : lease[t].owner = a}) >= WipPerAgent

Decision == [agent : Agents, task : Tasks, was : STATES]
Assigned(plan) == {plan[i].task : i \in 1..Len(plan)}
Offers(at) ==
  {[agent |-> a, task |-> t, was |-> status[t]] :
     a \in {b \in Agents : ~Gated(b, at)}, t \in {u \in Tasks : Eligible(u, at)}}
Before(a, b) ==
  \E i, j \in 1..Len(Roster) : i < j /\ Roster[i] = a /\ Roster[j] = b
TasksDistinct_forgotten(plan) == TRUE
TasksDistinct(plan) ==
  \A i, j \in 1..Len(plan) : i # j => plan[i].task # plan[j].task
planRun(at) ==
  {plan \in UNION {[1..n -> Offers(at)] : n \in 1..Len(Roster)} :
     /\ \A i, j \in 1..Len(plan) : i < j => Before(plan[i].agent, plan[j].agent)
     /\ TasksDistinct(plan)}

StartCycle(c) ==
  /\ daemon = "up" /\ thread = NONE /\ cycle[c].phase = "idle"
  /\ starts < MaxStarts /\ now + LeaseTTL <= MaxTime
  /\ starts' = starts + 1
  /\ \E plan \in planRun(now) :
       cycle' = [cycle EXCEPT ![c] =
                   [phase |-> "claiming", at |-> now, todo |-> plan, cur |-> NONE]]
  /\ thread' = c
  /\ UNCHANGED <<vars, run, hold, prs, daemon, crashes>>

-----------------------------------------------------------------------------
\* executeRun: the claims of a plan, one after the other, with the time the
\* cycle began.
NextDecision(c) == Head(Todo(c))
Claiming(c) == thread = c /\ cycle[c].phase = "claiming"
\* randomUUID: a session id that nothing refers to; which one does not matter.
Fresh == {x \in Sessions : /\ run[x].phase \in {"free", "ended", "failed", "lost"}
                           /\ \A t \in Tasks : lease[t].session # x}
FreshSession(s) == s \in Fresh /\ s = CHOOSE x \in Fresh : TRUE

\* A claim wins: the agent is launched and the cycle waits for it.
ClaimAndLaunch(c, s) ==
  LET d == NextDecision(c) IN
  /\ Claiming(c) /\ Todo(c) # <<>> /\ FreshSession(s)
  /\ Claim(d.task, d.agent, s, LeaseTTL, At(c))
  /\ run' = [run EXCEPT ![s] =
               [phase |-> "working", agent |-> d.agent, task |-> d.task,
                was |-> d.was, due |-> now + RunTimeout, out |-> NONE]]
  /\ cycle' = [cycle EXCEPT ![c] = CycleNow(c, "waiting", Tail(Todo(c)), s)]
  /\ thread' = NONE
  /\ UNCHANGED <<hold, prs, daemon, starts, crashes>>

\* claimTask answers won:false.  The decision is dropped and logged as a
\* skipped run; being the agent's latest run, it ends a quota hold on it.
ClaimRefused(t, at) ==
  \/ status[t] \notin CLAIMABLE_STATUSES
  \/ lease[t].expires > at
  \/ \E r \in resources[t] : lock[r] \notin {NONE, t}
Remaining_retried(c) == Todo(c)
Remaining(c) == Tail(Todo(c))
LoseClaim(c) ==
  LET d == NextDecision(c) IN
  /\ Claiming(c) /\ Todo(c) # <<>> /\ ClaimRefused(d.task, At(c))
  /\ cycle' = [cycle EXCEPT ![c] = CycleNow(c, "claiming", Remaining(c), NONE)]
  /\ hold' = [hold EXCEPT ![d.agent] = 0]
  /\ UNCHANGED <<vars, thread, run, prs, daemon, starts, crashes>>

\* claimTask throws, for the task's own lock rows are still there.  Nothing in
\* the cycle catches before its outermost handler: the rest of the plan is lost.
ClaimThrows(t, at) == ~ClaimRefused(t, at) /\ \E r \in resources[t] : lock[r] = t
AbortCycle(c) ==
  /\ Claiming(c) /\ Todo(c) # <<>> /\ ClaimThrows(NextDecision(c).task, At(c))
  /\ cycle' = [cycle EXCEPT ![c] = IdleCycle]
  /\ thread' = NONE
  /\ UNCHANGED <<vars, run, hold, prs, daemon, starts, crashes>>

EndCycle(c) ==
  /\ Claiming(c) /\ Todo(c) = <<>>
  /\ cycle' = [cycle EXCEPT ![c] = IdleCycle]
  /\ thread' = NONE
  /\ UNCHANGED <<vars, run, hold, prs, daemon, starts, crashes>>

-----------------------------------------------------------------------------
\* executeRun after launch() resolves: the loop goes back to cycle c, whose
\* agent ran in session s.  The cycle's own clock dates the run record, and so
\* the quota hold the record starts.
Resolved(c, s) ==
  /\ daemon = "up" /\ thread = NONE
  /\ cycle[c].phase = "waiting" /\ cycle[c].cur = s
  /\ run[s].phase = "exited"
Recovering(c, s) ==
  thread = c /\ cycle[c].phase = "recovering" /\ cycle[c].cur = s
Unmoved(s) == status[run[s].task] = run[s].was

\* The run is recorded, and the cycle goes on with its next claim.
recordRun(c, s, phase, until) ==
  /\ run' = [run EXCEPT ![s] = RunOver(phase)]
  /\ hold' = [hold EXCEPT ![run[s].agent] = until]
  /\ cycle' = [cycle EXCEPT ![c] = CycleNow(c, "claiming", Todo(c), NONE)]
  /\ thread' = c
  /\ UNCHANGED <<prs, daemon, starts, crashes>>

\* The agent said ok and its task is no longer where it was: nothing to do,
\* and the lease stays as the agent left it.
FinishMoved(c, s) ==
  /\ Resolved(c, s) /\ run[s].out = "ok" /\ ~Unmoved(s)
  /\ recordRun(c, s, "ended", 0)
  /\ UNCHANGED vars

\* recoverPr: the agent said ok but did not move its task, and gh shows an
\* open pull request for it.  Two moves at most, each a transaction.
FirstMove_skipsAhead(t, was) ==
  /\ status' = [status EXCEPT ![t] = "in-review"]
  /\ UNCHANGED <<complexity, resources, reapCount, lease, lock, now>>
FirstMove(t, was) ==
  \/ was = "ready-for-impl" /\ Transition(t, "in-progress", NONE, FALSE)
  \/ was = "in-progress" /\ UNCHANGED vars
StartRecovery(c, s) ==
  LET t == run[s].task IN
  /\ Resolved(c, s) /\ run[s].out = "ok" /\ Unmoved(s)
  /\ Implementing(run[s].was) /\ t \in prs
  /\ FirstMove(t, run[s].was)
  /\ cycle' = [cycle EXCEPT ![c] = CycleNow(c, "recovering", Todo(c), s)]
  /\ thread' = c
  /\ UNCHANGED <<run, hold, prs, daemon, starts, crashes>>
FinishRecovery(c, s) ==
  /\ Recovering(c, s)
  /\ Transition(run[s].task, "in-review", NONE, FALSE)
  /\ recordRun(c, s, "ended", 0)

\* The run failed: the process did, or it said ok and left its task unmoved
\* with no pull request to be found (gh itself may fail), or somebody moved
\* the task away from under the recovery.
RunFailed(c, s) ==
  \/ Resolved(c, s) /\ (run[s].out # "ok" \/ Unmoved(s))
  \/ /\ Recovering(c, s)
     /\ ~(Exists(run[s].task) /\ assertTransition(run[s].task, "in-review"))
releaseFailed_never(s) == UNCHANGED vars
releaseFailed(s) ==
  LET t == run[s].task  a == run[s].agent IN
  \/ Release(t, s)
  \/ lease[t].session # s /\ ForceRelease(t, a)
  \/ lease[t].session # s /\ lease[t].owner # a /\ UNCHANGED vars
FinishFailed(c, s) ==
  /\ RunFailed(c, s)
  /\ releaseFailed(s)
  /\ recordRun(c, s, "failed",
               IF run[s].out = "quota" THEN At(c) + QuotaCooldown ELSE 0)

-----------------------------------------------------------------------------
\* The agent process of session s, over the bus, with or without its session.
OnStage(s) ==
  \/ status[run[s].task] = run[s].was
  \/ Implementing(run[s].was) /\ Implementing(status[run[s].task])
AgentMove(s) ==
  LET t == run[s].task IN
  /\ Alive(s) /\ OnStage(s)
  /\ \E to \in {AgentTarget(status[t]), "blocked"}, session \in {NONE, s} :
       Transition(t, to, session, FALSE)
  /\ UNCHANGED dispatchVars
\* submitHandoff frees the lease on the way when it is told the session.
AgentHandoff(s) ==
  LET t == run[s].task IN
  /\ Alive(s) /\ status[t] = "designing"
  /\ Transition(t, "ready-for-impl", s, TRUE)
  /\ UNCHANGED dispatchVars
AgentHeartbeat(s) ==
  /\ Alive(s)
  /\ Heartbeat(run[s].task, s, LeaseTTL)
  /\ UNCHANGED dispatchVars
AgentOpensPr(s) ==
  /\ Alive(s) /\ Implementing(run[s].was)
  /\ prs' = prs \cup {run[s].task}
  /\ UNCHANGED <<vars, cycle, thread, run, hold, daemon, starts, crashes>>
\* The process ends; spawnAndWait kills it when its time is up.
AgentExit(s, out) ==
  /\ Working(s)
  /\ run' = [run EXCEPT ![s] = RunNow(s, "exited", out)]
  /\ UNCHANGED <<vars, cycle, thread, hold, prs, daemon, starts, crashes>>
OrphanExit(s) ==
  /\ run[s].phase = "orphan"
  /\ run' = [run EXCEPT ![s] = RunOver("lost")]
  /\ UNCHANGED <<vars, cycle, thread, hold, prs, daemon, starts, crashes>>

-----------------------------------------------------------------------------
\* The watchdog tick: reap what has expired, then free the live leases of every
\* agent whose latest run hit its quota.
WatchdogReap(t) ==
  /\ daemon = "up" /\ thread = NONE
  /\ Reap(t)
  /\ UNCHANGED dispatchVars
WatchdogForce(t) ==
  /\ daemon = "up" /\ thread = NONE
  /\ Live(t) /\ quotaHold(lease[t].owner, now)
  /\ ForceRelease(t, lease[t].owner)
  /\ UNCHANGED dispatchVars

\* The daemon stops, at any point, and takes its cycles with it.  The agents it
\* spawned may die with it or run on; nothing times the survivors any more.
Crash ==
  /\ daemon # "down" /\ crashes < MaxCrashes
  /\ \E dead \in SUBSET {s \in Sessions : Working(s)} :
       run' = [s \in Sessions |->
                 IF s \in dead \/ run[s].phase = "exited"
                 THEN RunOver("lost")
                 ELSE IF Working(s) THEN RunNow(s, "orphan", NONE)
                 ELSE run[s]]
  /\ cycle' = [c \in Cycles |-> IdleCycle]
  /\ thread' = NONE
  /\ daemon' = "down"
  /\ crashes' = crashes + 1
  /\ UNCHANGED <<vars, hold, prs, starts>>

\* start: the leases of the previous daemon are freed, one transaction each,
\* before the timers are set.
Boot ==
  /\ daemon = "down"
  /\ daemon' = "booting"
  /\ UNCHANGED <<vars, cycle, thread, run, hold, prs, starts, crashes>>
BootFree(t) ==
  /\ daemon = "booting"
  /\ BootRelease(t)
  /\ UNCHANGED dispatchVars
AllFreed_assumed == TRUE
AllFreed == \A t \in Tasks : ~Held(t)
BootDone ==
  /\ daemon = "booting" /\ AllFreed
  /\ daemon' = "up"
  /\ UNCHANGED <<vars, cycle, thread, run, hold, prs, starts, crashes>>

\* The rest of the program, and of the world, as far as it touches the store:
\* the board is seeded; the planner, the verifier and the founder move tasks;
\* pull requests are merged or closed; time passes, by minutes: the event loop
\* does what it has to do, and a run that has used up its time is killed, first.
SeedTask(t) ==
  /\ t \notin ApiTasks
  /\ \E st \in SeedStates, c \in Complexities, res \in SUBSET Resources :
       insertTask(t, st, c, res)
  /\ UNCHANGED <<now, dispatchVars>>
OtherMove(t) ==
  /\ \E to \in OtherMoves \ {status[t]} : Transition(t, to, NONE, FALSE)
  /\ UNCHANGED dispatchVars
ClosePr(t) ==
  /\ t \in prs
  /\ prs' = prs \ {t}
  /\ UNCHANGED <<vars, cycle, thread, run, hold, daemon, starts, crashes>>
TimePasses ==
  /\ thread = NONE
  /\ \A s \in Sessions : run[s].phase # "exited" /\ (Working(s) => now < run[s].due)
  /\ Tick
  /\ UNCHANGED dispatchVars

\* The bounds are used up and nothing is in flight: the model stops here.
BoundsReached ==
  /\ starts = MaxStarts \/ now + LeaseTTL > MaxTime
  /\ \A c \in Cycles : cycle[c].phase = "idle"
  /\ \A s \in Sessions : ~Alive(s)
  /\ UNCHANGED dvars

-----------------------------------------------------------------------------
DInit ==
  /\ Init
  /\ cycle = [c \in Cycles |-> IdleCycle]
  /\ thread = NONE
  /\ run = [s \in Sessions |-> NoRun]
  /\ hold = [a \in Agents |-> 0]
  /\ prs = {}
  /\ daemon = "up"
  /\ starts = 0
  /\ crashes = 0

CycleGoesOn(c) ==
  \/ LoseClaim(c) \/ AbortCycle(c) \/ EndCycle(c)
  \/ \E s \in Sessions :
       \/ ClaimAndLaunch(c, s)
       \/ FinishMoved(c, s) \/ FinishFailed(c, s)
       \/ StartRecovery(c, s) \/ FinishRecovery(c, s)
AgentStep(s) ==
  \/ AgentMove(s) \/ AgentHandoff(s) \/ AgentHeartbeat(s) \/ AgentOpensPr(s)
  \/ \E out \in {"ok", "quota", "failed"} : AgentExit(s, out)
  \/ OrphanExit(s)
DNext ==
  \/ \E c \in Cycles : StartCycle(c) \/ CycleGoesOn(c)
  \/ \E s \in Sessions : AgentStep(s)
  \/ \E t \in Tasks :
       \/ WatchdogReap(t) \/ WatchdogForce(t) \/ BootFree(t)
       \/ SeedTask(t) \/ OtherMove(t) \/ ClosePr(t)
  \/ Crash \/ Boot \/ BootDone
  \/ TimePasses \/ BoundsReached

DSpec == DInit /\ [][DNext]_dvars

\* The event loop runs what is ready, and spawnAndWait ends every run in time.
\* Nothing says that a cycle is ever started.
DFairSpec ==
  /\ DSpec
  /\ \A c \in Cycles : WF_dvars(CycleGoesOn(c))
  /\ \A s \in Sessions :
       WF_dvars(\E out \in {"ok", "quota", "failed"} : AgentExit(s, out))

-----------------------------------------------------------------------------
\* The runner's state has its type: a run that is under way names its agent and
\* its task, and a cycle plans decisions of the router only.
Run ==
  [phase : {"free", "ended", "failed", "lost"}, agent : {NONE}, task : {NONE},
   was : {NONE}, due : {0}, out : {NONE}]
  \cup [phase : {"working", "exited", "orphan"}, agent : Agents, task : Tasks,
        was : STATES, due : Nat, out : {NONE, "ok", "quota", "failed"}]
Cycle ==
  [phase : {"idle", "claiming", "waiting", "recovering"}, at : Nat,
   todo : Seq(Decision), cur : Sessions \cup {NONE}]
DTypeOK ==
  /\ TypeOK
  /\ cycle \in [Cycles -> Cycle]
  /\ \A c \in Cycles : At(c) <= now
  /\ thread \in Cycles \cup {NONE}
  /\ run \in [Sessions -> Run]
  /\ hold \in [Agents -> Nat]
  /\ prs \subseteq Tasks
  /\ daemon \in {"up", "down", "booting"}
  /\ starts \in Nat /\ crashes \in Nat

\* One plan never gives a task to two agents, nor plans the task it is running
\* (planRun's excludeTasks, RCA-2: "two agents never contend for one task").
PlanDistinct ==
  \A c \in Cycles :
    /\ \A i, j \in 1..Len(Todo(c)) : i # j => Todo(c)[i].task # Todo(c)[j].task
    /\ cycle[c].cur # NONE => run[cycle[c].cur].task \notin Assigned(Todo(c))

\* A failed run never leaves its lease behind, whoever moved, freed or claimed
\* its task meanwhile (executeRun's release after a failure).
FailedRunFreesItsLease ==
  \A t \in Tasks : Held(t) => run[lease[t].session].phase # "failed"

\* No agent ever works on a task whose dependencies are not all done, although
\* they were checked when the plan was made and other agents ran in between.
DependsFirst ==
  \A s \in Sessions : Alive(s) =>
    \A d \in DependsOn[run[s].task] : status[d] = "done"

\* Once the daemon is up again no lease of an earlier daemon is left, so a
\* crash never wedges a max_parallel slot (releaseAllLeases, RCA-4).
BootFreesOrphans ==
  daemon = "up" =>
    \A t \in Tasks : Held(t) => run[lease[t].session].phase \notin {"orphan", "lost"}

\* The runner, the agents, the watchdog and the boot recovery use the store
\* only through its operations: every behaviour here is one of TaskStore, and
\* all that is shown of TaskStore holds here.
ImplementsStore == Spec

\* A cycle that starts ends, whatever its agents do (spawnAndWait's timeout).
CycleEnds ==
  \A c \in Cycles : cycle[c].phase # "idle" ~> cycle[c].phase = "idle"
-----------------------------------------------------------------------------
(* What the comments say of the program and the code does not keep.          *)

\* Two agents never do the same stage of a task at once: "Holding a live lease
\* === mutual exclusion" (schema.sql), and a run is killed no later than its
\* lease expires ("30 min - matches default lease TTL", launcher.mjs).
SameStageOnce ==
  \A s, u \in Sessions :
    Working(s) /\ Working(u) /\ s # u /\ run[s].task = run[u].task
      => ~(status[run[s].task] = run[s].was /\ run[s].was = run[u].was)
=============================================================================
