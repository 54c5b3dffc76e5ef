----------------------------- MODULE Governance -----------------------------
(***************************************************************************)
(* planner.mjs: the planner cycle of a watchdog tick, and the founder's    *)
(* actions on tasks (dashboard/actions.mjs) it has to respect.             *)
(*                                                                         *)
(* A cycle reads the board and the policy once and then works through six  *)
(* phases on that snapshot: hold the sensitive stories, release those the  *)
(* policy permits again, roll the sprint over, plan stories into it,       *)
(* accept proposals, start designs.  Every write is a transaction of its   *)
(* own.  The cycle never awaits, so the founder, whose actions and policy  *)
(* edits run in the same process, cannot fall inside one; agents and the   *)
(* command line are processes of their own, and can.  The daemon may die   *)
(* between any two writes.                                                 *)
(*                                                                         *)
(* Leases and locks are in TaskStore.  Titles, criteria and owners are the *)
(* verdicts definition-of-ready.mjs reads off them; within a phase the     *)
(* tasks are taken in any order.                                           *)
(***************************************************************************)
EXTENDS Integers, FiniteSets, TaskMachine

CONSTANTS
  Tasks,
  Stories,      \* the tasks of type story
  Parent,       \* tasks.parent_id
  Deps,         \* tasks.depends_on
  Actions,      \* sensitive actions: spend_money, external_send, ...
  Risks,        \* the sensitive actions a task's own risk_tags map to
  SpecEntry,    \* tasks that meet the bar for entering spec
  Specced,      \* tasks with a spec file
  Ready,        \* tasks that meet the full Definition of Ready
  SeedStates,   \* the statuses each task may start with
  NONE,
  MaxEvents     \* bound: moves of the founder, agents and crashes, together

ASSUME GovernanceAssumption ==
  /\ IsFiniteSet(Tasks)
  /\ Stories \subseteq Tasks
  /\ Parent \in [Tasks -> Tasks \cup {NONE}]
  /\ Deps \in [Tasks -> SUBSET Tasks]
  /\ Risks \in [Tasks -> SUBSET Actions]
  /\ SpecEntry \subseteq Tasks /\ Specced \subseteq Tasks /\ Ready \subseteq Tasks
  /\ Tasks \ Stories \subseteq SpecEntry \cap Ready
  /\ SeedStates \in [Tasks -> SUBSET STATES]
  /\ NONE \notin Tasks \cup Nat
  /\ MaxEvents \in Nat

VARIABLES
  status,       \* tasks.status
  note,         \* tasks.note, as far as the planner tells notes apart
  blockedBy,    \* history: from_state and actor of the last move into blocked
  approved,     \* tasks with approved_at set
  policy,       \* the actions policy.yaml sets to block_and_ask
  sprint,       \* tasks.sprint_id as the sprint's number, 0 for none
  active,       \* the latest sprint: its number, and whether it is active
  cycle,        \* the planner cycle under way
  events        \* moves so far (bounded)

board == <<status, note, blockedBy>>
founder == <<approved, policy>>
scrum == <<sprint, active>>
vars == <<board, founder, scrum, cycle, events>>

Notes == {"none", "hold", "not-ready", "needs-work", "other"}
Never == [from |-> NONE, by |-> NONE]

\* The phases of a cycle and their order.
Follows == [hold |-> "release", release |-> "rollover", rollover |-> "plan",
            plan |-> "accept", accept |-> "design", design |-> "idle"]
Phases == DOMAIN Follows \cup {"idle", "new-sprint"}
Idle == [phase |-> "idle", todo |-> {}, seen |-> [t \in Tasks |-> NONE],
         notes |-> [t \in Tasks |-> "none"]]

\* A task and its ancestors along parent_id, and the actions their tags map to.
Lineage(t) ==
  LET up[n \in Nat] ==
        IF n = 0 THEN {t}
        ELSE up[n - 1] \cup {u \in Tasks : \E c \in up[n - 1] : Parent[c] = u}
  IN  up[Cardinality(Tasks)]
effectiveRisks(t) == UNION {Risks[u] : u \in Lineage(t)}
sensitiveBlock(t) == effectiveRisks(t) \cap policy # {}

-----------------------------------------------------------------------------
\* state.transition as far as the board goes; an illegal move throws.
transition(t, to, by, why) ==
  /\ isLegalTransition(status[t], to)
  /\ status' = [status EXCEPT ![t] = to]
  /\ note' = [note EXCEPT ![t] = why]
  /\ blockedBy' = IF to = "blocked"
                  THEN [blockedBy EXCEPT ![t] = [from |-> status[t], by |-> by]]
                  ELSE blockedBy

\* The planner swallows a refused move and goes on with the next task.
tryTransition(t, to, why) ==
  \/ transition(t, to, "planner", why)
  \/ ~isLegalTransition(status[t], to) /\ UNCHANGED board

setTaskNote(t, why) ==
  note' = [note EXCEPT ![t] = why] /\ UNCHANGED <<status, blockedBy>>

\* What each phase has to do, by the snapshot the cycle took.
Workable(t) == cycle.seen[t] \notin {"done", "blocked"}
SeenHeld(t) == cycle.seen[t] = "blocked" /\ cycle.notes[t] = "hold"
ToRelease_anyPolicy == {t \in Tasks : SeenHeld(t)}
ToRelease_anyBlock ==
  {t \in Tasks : cycle.seen[t] = "blocked" /\ ~sensitiveBlock(t)}
ToRelease == {t \in Tasks : SeenHeld(t) /\ ~sensitiveBlock(t)}
Backlog == {t \in Stories : Workable(t) /\ sprint[t] = 0 /\ Parent[t] # NONE
                              /\ cycle.seen[Parent[t]] = "in-progress"}
Stranded == {t \in Stories : Workable(t) /\ sprint[t] \notin {0, active.number}}
ToPlan_backlogOnly == IF active.open THEN Backlog ELSE {}
ToPlan == IF active.open THEN Backlog \cup Stranded ELSE {}
ToAccept == {t \in Tasks : cycle.seen[t] = "proposed"}
ToDesign == {t \in Tasks : cycle.seen[t] = "spec" /\ t \in Specced}
Work(phase) == CASE phase = "release" -> ToRelease
                 [] phase = "plan"    -> ToPlan
                 [] phase = "accept"  -> ToAccept
                 [] phase = "design"  -> ToDesign
                 [] OTHER             -> {}

goto(phase, todo) ==
  cycle' = [phase |-> phase, todo |-> todo, seen |-> cycle.seen, notes |-> cycle.notes]
On(phase, t) ==
  /\ cycle.phase = phase
  /\ t \in cycle.todo
  /\ goto(phase, cycle.todo \ {t})
  /\ UNCHANGED <<founder, active, events>>

-----------------------------------------------------------------------------
Init ==
  /\ status \in {f \in [Tasks -> STATES] : \A t \in Tasks : f[t] \in SeedStates[t]}
  /\ note = [t \in Tasks |-> "none"]
  /\ blockedBy = [t \in Tasks |-> Never]
  /\ approved = {}
  /\ policy = Actions
  /\ sprint \in [Stories -> {0, 1}]
  /\ active = [number |-> 1, open |-> TRUE]
  /\ cycle = Idle
  /\ events = 0

\* plannerCycle reads the board; the hold phase goes over the snapshot.
StartCycle ==
  /\ cycle.phase = "idle"
  /\ cycle' = [phase |-> "hold", seen |-> status, notes |-> note,
               todo |-> {t \in Stories : status[t] \notin {"done", "blocked"}
                                           /\ t \notin approved /\ sensitiveBlock(t)}]
  /\ UNCHANGED <<board, founder, scrum, events>>

HoldTask(t) ==
  On("hold", t) /\ tryTransition(t, "blocked", "hold") /\ UNCHANGED sprint

\* A release restores the status before the hold, if blocked may move there.
ReleaseTarget_asBefore(t) == blockedBy[t].from
ReleaseTarget(t) ==
  IF blockedBy[t].from \in {"ready-for-impl", "in-progress", "designing", "spec"}
  THEN blockedBy[t].from ELSE "ready-for-impl"
ReleaseTask(t) ==
  On("release", t) /\ tryTransition(t, ReleaseTarget(t), "other") /\ UNCHANGED sprint

\* A sprint all of whose stories are done or blocked is completed, and the
\* next number's sprint is started by a second statement.
Committed == {t \in Stories : sprint[t] = active.number}
SprintOver == active.open /\ Committed # {} /\ \A t \in Committed : ~Workable(t)
CompleteSprint ==
  /\ cycle.phase = "rollover" /\ SprintOver
  /\ active' = [number |-> active.number, open |-> FALSE]
  /\ goto("new-sprint", {})
  /\ UNCHANGED <<board, founder, sprint, events>>

NextSprint_unparsed == NONE
NextSprint == active.number + 1
UpsertSprint ==
  /\ cycle.phase = "new-sprint"
  /\ active' = [number |-> NextSprint, open |-> TRUE]
  /\ goto("rollover", {})
  /\ UNCHANGED <<board, founder, sprint, events>>

PlanTask(t) ==
  /\ On("plan", t)
  /\ sprint' = [sprint EXCEPT ![t] = active.number]
  /\ UNCHANGED board

\* The dependencies are counted on the live board.  A note is written when it
\* differs from the one in the snapshot.
AcceptTask(t) ==
  /\ On("accept", t)
  /\ \/ \E d \in Deps[t] : status[d] # "done" /\ UNCHANGED board
     \/ /\ \A d \in Deps[t] : status[d] = "done"
        /\ \/ t \in SpecEntry /\ tryTransition(t, "spec", "other")
           \/ t \notin SpecEntry /\ cycle.notes[t] # "not-ready"
                 /\ setTaskNote(t, "not-ready")
           \/ t \notin SpecEntry /\ cycle.notes[t] = "not-ready" /\ UNCHANGED board
  /\ UNCHANGED sprint

DesignTask(t) ==
  /\ On("design", t)
  /\ \/ t \in Ready /\ tryTransition(t, "designing", "other")
     \/ t \notin Ready /\ cycle.notes[t] # "needs-work" /\ setTaskNote(t, "needs-work")
     \/ t \notin Ready /\ cycle.notes[t] = "needs-work" /\ UNCHANGED board
  /\ UNCHANGED sprint

NextPhase ==
  /\ cycle.phase \in DOMAIN Follows
  /\ cycle.todo = {}
  /\ ~(cycle.phase = "rollover" /\ SprintOver)
  /\ IF cycle.phase = "design" THEN cycle' = Idle
     ELSE goto(Follows[cycle.phase], Work(Follows[cycle.phase]))
  /\ UNCHANGED <<board, founder, scrum, events>>

Cycle ==
  \/ StartCycle \/ CompleteSprint \/ UpsertSprint \/ NextPhase
  \/ \E t \in Tasks : HoldTask(t) \/ ReleaseTask(t) \/ AcceptTask(t) \/ DesignTask(t)
  \/ \E t \in Stories : PlanTask(t)

\* The daemon dies between two writes; the next one starts over.
Crash ==
  /\ cycle.phase # "idle"
  /\ events < MaxEvents /\ events' = events + 1
  /\ cycle' = Idle
  /\ UNCHANGED <<board, founder, scrum>>

-----------------------------------------------------------------------------
\* The founder acts while no cycle runs: one process, one thread.
FounderTurn ==
  /\ cycle.phase = "idle"
  /\ events < MaxEvents /\ events' = events + 1
  /\ UNCHANGED <<scrum, cycle>>

Block(t) ==
  FounderTurn /\ transition(t, "blocked", "founder", "other") /\ UNCHANGED founder

\* The move and the approval are two transactions: a crash can lose the second.
Unblock(t) ==
  /\ FounderTurn
  /\ transition(t, "ready-for-impl", "founder", "other")
  /\ approved' \in {approved, approved \cup {t}}
  /\ UNCHANGED policy

Bounce(t) ==
  /\ FounderTurn
  /\ \/ status[t] = "in-review" /\ transition(t, "in-progress", "founder", "other")
     \/ status[t] = "ready-for-impl" /\ transition(t, "designing", "founder", "other")
  /\ UNCHANGED founder

SetPolicy(actions) ==
  FounderTurn /\ policy' = actions /\ UNCHANGED <<board, approved>>

\* An agent or the command line moves a task, at any time.
AgentMove(t, to) ==
  /\ events < MaxEvents /\ events' = events + 1
  /\ transition(t, to, "agent", "other")
  /\ UNCHANGED <<founder, scrum, cycle>>

Next ==
  \/ Cycle
  \/ Crash
  \/ \E t \in Tasks : Block(t) \/ Unblock(t) \/ Bounce(t)
  \/ \E t \in Tasks, to \in STATES : AgentMove(t, to)
  \/ \E actions \in SUBSET Actions : SetPolicy(actions)

Spec == Init /\ [][Next]_vars

\* The watchdog interval starts a cycle again and again, and a cycle that
\* nobody interrupts goes on; nobody else has to act.
FairSpec == Spec /\ WF_vars(Cycle)

-----------------------------------------------------------------------------
\* The columns keep their types; a cycle works on tasks of the board.
GTypeOK ==
  /\ status \in [Tasks -> STATES]
  /\ note \in [Tasks -> Notes]
  /\ blockedBy \in [Tasks -> [from : STATES, by : {"planner", "founder", "agent"}] \cup {Never}]
  /\ approved \subseteq Tasks
  /\ policy \subseteq Actions
  /\ sprint \in [Stories -> Nat]
  /\ active \in [number : Nat, open : BOOLEAN]
  /\ cycle \in [phase : Phases, todo : SUBSET Tasks,
                 seen : [Tasks -> STATES \cup {NONE}], notes : [Tasks -> Notes]]
  /\ events \in Nat

\* A block the founder placed is the founder's or an agent's to lift: whatever
\* the policy says later, no write of any cycle moves the task ("never manual
\* dashboard blocks", planner.mjs).
FounderBlockKept ==
  [][\A t \in Tasks :
       Cycle /\ status[t] = "blocked" /\ blockedBy[t].by = "founder"
         => status'[t] = "blocked"]_vars

\* Whatever the founder, agents and crashes did, in the end every story whose
\* own or inherited risks the policy blocks, and that the founder has not
\* approved, is parked (or done): no later phase and no later cycle keeps
\* letting it out.
GovernanceSettles ==
  <>[](\A t \in Stories :
         sensitiveBlock(t) /\ t \notin approved => status[t] \in {"blocked", "done"})

\* A story held by the planner that the policy in force permits flows again:
\* here for stories that meet the bar of the stage they are in.
OnHold(t) == status[t] = "blocked" /\ blockedBy[t].by = "planner" /\ ~sensitiveBlock(t)
WellFormed(t) == t \in SpecEntry /\ (t \in Specced => t \in Ready)
WellFormedIsReleased ==
  \A t \in Stories : WellFormed(t) => (OnHold(t) ~> ~OnHold(t))

\* A story somebody reopened after its sprint was over does not stay invisible
\* to the router: it gets into the active sprint (or stops being workable).
Invisible(t) ==
  active.open /\ sprint[t] \notin {0, active.number}
              /\ status[t] \notin {"done", "blocked"}
StrandedCarriedOver == \A t \in Stories : Invisible(t) ~> ~Invisible(t)

-----------------------------------------------------------------------------
\* What the comments of planner.mjs say of the code, and it does not keep.

\* "let a previously governance-held task flow again automatically": every
\* held story, whatever its title or spec.
HeldIsReleased == \A t \in Stories : OnHold(t) ~> ~OnHold(t)
=============================================================================
