-------------------------- MODULE GovernanceProofs --------------------------
(***************************************************************************)
(* The planner's types, and that no cycle ever lifts a founder's block.    *)
(***************************************************************************)
EXTENDS Governance, TLAPS

USE GovernanceAssumption

\* A step of the board keeps its types.
BoardOK ==
  /\ status \in [Tasks -> STATES]
  /\ note \in [Tasks -> Notes]
  /\ blockedBy \in [Tasks -> [from : STATES, by : {"planner", "founder", "agent"}] \cup {Never}]

CycleOK ==
  cycle \in [phase : Phases, todo : SUBSET Tasks,
             seen : [Tasks -> STATES \cup {NONE}], notes : [Tasks -> Notes]]

\* A move by any actor keeps the board's types (state.transition).
LEMMA TransitionTypes ==
  ASSUME BoardOK, NEW t \in Tasks, NEW to \in STATES,
         NEW by \in {"planner", "founder", "agent"}, NEW why \in Notes,
         transition(t, to, by, why)
  PROVE  BoardOK'
<1>1. [from |-> status[t], by |-> by]
        \in [from : STATES, by : {"planner", "founder", "agent"}]
  BY DEF BoardOK
<1>2. blockedBy' \in [Tasks -> [from : STATES, by : {"planner", "founder", "agent"}] \cup {Never}]
  <2>1. CASE to = "blocked"
    BY <1>1, <2>1 DEF BoardOK, transition
  <2>2. CASE to # "blocked"
    BY <2>2 DEF BoardOK, transition
  <2> QED BY <2>1, <2>2
<1> QED BY <1>2 DEF BoardOK, transition

\* So does a planner's move, refused or not.
LEMMA TryTypes ==
  ASSUME BoardOK, NEW t \in Tasks, NEW to \in STATES, NEW why \in Notes,
         tryTransition(t, to, why)
  PROVE  BoardOK'
<1>1. CASE transition(t, to, "planner", why)
  BY <1>1, TransitionTypes
<1>2. CASE UNCHANGED board
  BY <1>2 DEF BoardOK, board
<1> QED BY <1>1, <1>2 DEF tryTransition

\* A cycle goes to a phase with some of the board's tasks to do.
LEMMA GotoTypes ==
  ASSUME CycleOK, NEW phase \in Phases, NEW todo \in SUBSET Tasks, goto(phase, todo)
  PROVE  CycleOK'
BY DEF CycleOK, goto

\* The work of every phase is a set of tasks.
LEMMA WorkTypes == ASSUME NEW phase PROVE Work(phase) \in SUBSET Tasks
<1>1. ToRelease \in SUBSET Tasks
  BY DEF ToRelease
<1>2. ToPlan \in SUBSET Tasks
  BY DEF ToPlan, Backlog, Stranded
<1>3. ToAccept \in SUBSET Tasks /\ ToDesign \in SUBSET Tasks
  BY DEF ToAccept, ToDesign
<1>4. phase # "design" => Work(phase) \in SUBSET Tasks
  BY <1>1, <1>2, <1>3 DEF Work
<1>5. phase = "design" => Work(phase) \in SUBSET Tasks
  BY <1>3 DEF Work
<1> QED BY <1>4, <1>5

\* Each phase comes before a phase.
LEMMA FollowsTypes == ASSUME NEW phase \in DOMAIN Follows PROVE Follows[phase] \in Phases
BY DEF Follows, Phases

-----------------------------------------------------------------------------
\* A planner's step on one task keeps the types, whatever its phase.
LEMMA OnTypes ==
  ASSUME GTypeOK, NEW phase \in Phases, NEW t \in Tasks, On(phase, t),
         BoardOK', sprint' \in [Stories -> Nat]
  PROVE  GTypeOK'
<1>1. CycleOK /\ cycle.todo \ {t} \in SUBSET Tasks
  BY DEF GTypeOK, CycleOK
<1>2. CycleOK'
  BY <1>1, GotoTypes DEF On
<1>3. UNCHANGED <<approved, policy, active, events>>
  BY DEF On, founder
<1> QED BY <1>2, <1>3 DEF GTypeOK, BoardOK, CycleOK

LEMMA HoldTypes ==
  ASSUME GTypeOK, NEW t \in Tasks, HoldTask(t) PROVE GTypeOK'
<1>1. BoardOK /\ "blocked" \in STATES /\ "hold" \in Notes /\ "hold" \in Phases
  BY DEF GTypeOK, BoardOK, STATES, Notes, Phases, Follows
<1>2. BoardOK'
  BY <1>1, TryTypes DEF HoldTask
<1> QED BY <1>1, <1>2, OnTypes DEF HoldTask, GTypeOK

LEMMA ReleaseTypes ==
  ASSUME GTypeOK, NEW t \in Tasks, ReleaseTask(t) PROVE GTypeOK'
<1>1. BoardOK /\ "other" \in Notes /\ "release" \in Phases
  BY DEF GTypeOK, BoardOK, Notes, Phases, Follows
<1>2. ReleaseTarget(t) \in STATES
  BY DEF ReleaseTarget, STATES
<1>3. BoardOK'
  BY <1>1, <1>2, TryTypes DEF ReleaseTask
<1> QED BY <1>1, <1>3, OnTypes DEF ReleaseTask, GTypeOK

LEMMA AcceptTypes ==
  ASSUME GTypeOK, NEW t \in Tasks, AcceptTask(t) PROVE GTypeOK'
<1>1. BoardOK /\ "spec" \in STATES /\ {"other", "not-ready"} \subseteq Notes /\ "accept" \in Phases
  BY DEF GTypeOK, BoardOK, STATES, Notes, Phases, Follows
<1>2. CASE tryTransition(t, "spec", "other")
  BY <1>1, <1>2, TryTypes, OnTypes DEF AcceptTask, GTypeOK
<1>3. CASE setTaskNote(t, "not-ready")
  <2>1. BoardOK'
    BY <1>1, <1>3 DEF BoardOK, setTaskNote
  <2> QED BY <1>1, <2>1, OnTypes DEF AcceptTask, GTypeOK
<1>4. CASE UNCHANGED board
  <2>1. BoardOK'
    BY <1>1, <1>4 DEF BoardOK, board
  <2> QED BY <1>1, <2>1, OnTypes DEF AcceptTask, GTypeOK
<1> QED BY <1>2, <1>3, <1>4 DEF AcceptTask

LEMMA DesignTypes ==
  ASSUME GTypeOK, NEW t \in Tasks, DesignTask(t) PROVE GTypeOK'
<1>1. BoardOK /\ "designing" \in STATES /\ {"other", "needs-work"} \subseteq Notes /\ "design" \in Phases
  BY DEF GTypeOK, BoardOK, STATES, Notes, Phases, Follows
<1>2. CASE tryTransition(t, "designing", "other")
  BY <1>1, <1>2, TryTypes, OnTypes DEF DesignTask, GTypeOK
<1>3. CASE setTaskNote(t, "needs-work")
  <2>1. BoardOK'
    BY <1>1, <1>3 DEF BoardOK, setTaskNote
  <2> QED BY <1>1, <2>1, OnTypes DEF DesignTask, GTypeOK
<1>4. CASE UNCHANGED board
  <2>1. BoardOK'
    BY <1>1, <1>4 DEF BoardOK, board
  <2> QED BY <1>1, <2>1, OnTypes DEF DesignTask, GTypeOK
<1> QED BY <1>2, <1>3, <1>4 DEF DesignTask

LEMMA PlanTypes ==
  ASSUME GTypeOK, NEW t \in Stories, PlanTask(t) PROVE GTypeOK'
<1>1. BoardOK' /\ "plan" \in Phases /\ t \in Tasks
  BY DEF GTypeOK, BoardOK, PlanTask, board, Phases, Follows
<1>2. sprint' \in [Stories -> Nat]
  BY DEF GTypeOK, PlanTask
<1> QED BY <1>1, <1>2, OnTypes DEF PlanTask

\* The steps of a cycle between its phases.
LEMMA PhaseTypes ==
  ASSUME GTypeOK, StartCycle \/ CompleteSprint \/ UpsertSprint \/ NextPhase
  PROVE  GTypeOK'
<1>1. CycleOK /\ active \in [number : Nat, open : BOOLEAN]
  BY DEF GTypeOK, CycleOK
<1>2. {"hold", "rollover", "new-sprint"} \subseteq Phases /\ {} \in SUBSET Tasks
  BY DEF Phases, Follows
<1>3. CASE StartCycle
  <2> DEFINE todo == {t \in Stories : status[t] \notin {"done", "blocked"}
                                        /\ t \notin approved /\ sensitiveBlock(t)}
  <2>1. todo \in SUBSET Tasks
    OBVIOUS
  <2>2. cycle' = [phase |-> "hold", seen |-> status, notes |-> note, todo |-> todo]
    BY <1>3 DEF StartCycle
  <2> HIDE DEF todo
  <2>3. CycleOK'
    BY <1>2, <2>1, <2>2 DEF CycleOK, GTypeOK
  <2> QED BY <1>3, <2>3 DEF StartCycle, GTypeOK, CycleOK, board, founder, scrum
<1>4. CASE CompleteSprint
  <2>1. CycleOK'
    BY <1>1, <1>2, <1>4, GotoTypes DEF CompleteSprint
  <2> QED BY <1>1, <1>4, <2>1 DEF CompleteSprint, GTypeOK, CycleOK, board, founder
<1>5. CASE UpsertSprint
  <2>1. CycleOK'
    BY <1>1, <1>2, <1>5, GotoTypes DEF UpsertSprint
  <2> QED BY <1>1, <1>5, <2>1 DEF UpsertSprint, NextSprint, GTypeOK, CycleOK, board, founder
<1>6. CASE NextPhase
  <2>1. CASE cycle.phase = "design"
    <3>1. CycleOK'
      BY <1>6, <2>1 DEF NextPhase, Idle, CycleOK, Phases, Notes
    <3> QED BY <1>6, <3>1 DEF NextPhase, GTypeOK, CycleOK, board, founder, scrum
  <2>2. CASE cycle.phase # "design"
    <3>1. cycle.phase \in DOMAIN Follows
            /\ goto(Follows[cycle.phase], Work(Follows[cycle.phase]))
      BY <1>6, <2>2 DEF NextPhase
    <3>2. CycleOK'
      BY <1>1, <3>1, FollowsTypes, WorkTypes, GotoTypes
    <3> QED BY <1>6, <3>2 DEF NextPhase, GTypeOK, CycleOK, board, founder, scrum
  <2> QED BY <2>1, <2>2
<1> QED BY <1>3, <1>4, <1>5, <1>6

\* The steps of the founder, of agents, and a crash.
LEMMA OtherTypes ==
  ASSUME GTypeOK,
         \/ Crash
         \/ \E t \in Tasks : Block(t) \/ Unblock(t) \/ Bounce(t)
         \/ \E t \in Tasks, to \in STATES : AgentMove(t, to)
         \/ \E actions \in SUBSET Actions : SetPolicy(actions)
  PROVE  GTypeOK'
<1>1. BoardOK /\ CycleOK /\ events \in Nat
  BY DEF GTypeOK, BoardOK, CycleOK
<1>2. {"blocked", "ready-for-impl", "in-progress", "designing"} \subseteq STATES /\ "other" \in Notes
  BY DEF STATES, Notes
<1>3. CASE Crash
  <2>1. CycleOK'
    BY <1>3 DEF Crash, Idle, CycleOK, Phases, Notes
  <2> QED BY <1>1, <1>3, <2>1 DEF Crash, GTypeOK, CycleOK, board, founder, scrum
<1>4. ASSUME NEW t \in Tasks, Block(t) \/ Unblock(t) \/ Bounce(t) PROVE GTypeOK'
  <2>1. BoardOK'
    BY <1>1, <1>2, <1>4, TransitionTypes DEF Block, Unblock, Bounce
  <2>2. approved' \subseteq Tasks /\ policy' = policy
    BY <1>4 DEF Block, Unblock, Bounce, founder, GTypeOK
  <2>3. events' \in Nat /\ UNCHANGED <<sprint, active, cycle>>
    BY <1>1, <1>4 DEF Block, Unblock, Bounce, FounderTurn, scrum
  <2> QED BY <2>1, <2>2, <2>3 DEF GTypeOK, BoardOK
<1>5. ASSUME NEW t \in Tasks, NEW to \in STATES, AgentMove(t, to) PROVE GTypeOK'
  <2>1. BoardOK'
    BY <1>1, <1>2, <1>5, TransitionTypes DEF AgentMove
  <2>2. events' \in Nat /\ UNCHANGED <<approved, policy, sprint, active, cycle>>
    BY <1>1, <1>5 DEF AgentMove, founder, scrum
  <2> QED BY <2>1, <2>2 DEF GTypeOK, BoardOK
<1>6. ASSUME NEW actions \in SUBSET Actions, SetPolicy(actions) PROVE GTypeOK'
  <2>1. events' \in Nat /\ UNCHANGED <<status, note, blockedBy, approved, sprint, active, cycle>>
    BY <1>1, <1>6 DEF SetPolicy, FounderTurn, board, scrum
  <2> QED BY <1>6, <2>1 DEF SetPolicy, GTypeOK
<1> QED BY <1>3, <1>4, <1>5, <1>6

\* The types hold of every reachable state, for any board, policy and number
\* of events.
THEOREM GovernanceTypeCorrect == Spec => []GTypeOK
<1>1. Init => GTypeOK
  <2> SUFFICES ASSUME Init PROVE GTypeOK
    OBVIOUS
  <2>1. status \in [Tasks -> STATES] /\ sprint \in [Stories -> Nat]
    BY DEF Init
  <2>2. cycle \in [phase : Phases, todo : SUBSET Tasks,
                   seen : [Tasks -> STATES \cup {NONE}], notes : [Tasks -> Notes]]
    BY DEF Init, Idle, Phases, Notes
  <2>3. note \in [Tasks -> Notes] /\ active \in [number : Nat, open : BOOLEAN]
    BY DEF Init, Notes
  <2> QED BY <2>1, <2>2, <2>3 DEF Init, GTypeOK
<1>2. GTypeOK /\ [Next]_vars => GTypeOK'
  <2> SUFFICES ASSUME GTypeOK, [Next]_vars PROVE GTypeOK'
    OBVIOUS
  <2>1. CASE Cycle
    BY <2>1, PhaseTypes, HoldTypes, ReleaseTypes, AcceptTypes, DesignTypes, PlanTypes DEF Cycle
  <2>2. CASE Next /\ ~Cycle
    BY <2>2, OtherTypes DEF Next
  <2>3. CASE UNCHANGED vars
    BY <2>3 DEF vars, board, founder, scrum, GTypeOK
  <2> QED BY <2>1, <2>2, <2>3
<1> QED BY <1>1, <1>2, PTL DEF Spec

-----------------------------------------------------------------------------
(* The inductive invariant behind FounderBlockKept.  A founder's block never *)
(* carries the planner's note; a cycle saw it as it is, because the founder  *)
(* cannot act inside a cycle; and the tasks a phase has left to do look in   *)
(* the snapshot the way that phase asks for.                                 *)
FounderBlocked(t) == status[t] = "blocked" /\ blockedBy[t].by = "founder"

BlockNoteInv == \A t \in Tasks : FounderBlocked(t) => note[t] # "hold"

SeenInv ==
  cycle.phase # "idle" =>
    \A t \in Tasks :
      FounderBlocked(t) => cycle.seen[t] = "blocked" /\ cycle.notes[t] # "hold"

TodoInv ==
  \A t \in cycle.todo :
    /\ cycle.phase = "release" => SeenHeld(t)
    /\ cycle.phase = "accept" => cycle.seen[t] = "proposed"
    /\ cycle.phase = "design" => cycle.seen[t] = "spec"

FInv == GTypeOK /\ BlockNoteInv /\ SeenInv /\ TodoInv

\* A phase that goes on with a part of its work, or the next with its own.
LEMMA TodoAfterOn ==
  ASSUME FInv, NEW phase, NEW t \in Tasks, On(phase, t)
  PROVE  TodoInv' /\ cycle'.phase = cycle.phase /\ cycle'.seen = cycle.seen
           /\ cycle'.notes = cycle.notes
BY DEF FInv, TodoInv, On, goto, SeenHeld, GTypeOK

LEMMA TodoAfterGoto ==
  ASSUME NEW phase, goto(phase, Work(phase)) PROVE TodoInv'
<1>1. cycle' = [phase |-> phase, todo |-> Work(phase), seen |-> cycle.seen, notes |-> cycle.notes]
  BY DEF goto
<1>2. phase = "release" => Work(phase) = ToRelease
  BY DEF Work
<1>3. phase = "accept" => Work(phase) = ToAccept
  BY DEF Work
<1>4. phase = "design" => Work(phase) = ToDesign
  BY DEF Work
<1> HIDE DEF Work
<1> QED BY <1>1, <1>2, <1>3, <1>4 DEF TodoInv, SeenHeld, ToRelease, ToAccept, ToDesign

\* After a planner's step on a task the founder's blocks are those there were:
\* the step either leaves the task's board row alone, or moves or notes a task
\* the founder has not blocked.
LEMMA PlannerKeepsBlocks ==
  ASSUME FInv, NEW phase, NEW t \in Tasks, On(phase, t),
         NEW to \in STATES, NEW why,
         \/ tryTransition(t, to, why)
         \/ setTaskNote(t, why) /\ ~FounderBlocked(t)
         \/ UNCHANGED board
  PROVE  BlockNoteInv' /\ SeenInv' /\ TodoInv'
<1>1. TodoInv' /\ cycle'.phase = cycle.phase /\ cycle'.seen = cycle.seen
        /\ cycle'.notes = cycle.notes
  BY TodoAfterOn
<1>2. ASSUME NEW u \in Tasks, FounderBlocked(u)'
      PROVE  FounderBlocked(u) /\ note'[u] = note[u]
  <2>1. CASE transition(t, to, "planner", why)
    <3>1. CASE u # t
      BY <1>2, <2>1, <3>1 DEF transition, FounderBlocked, FInv, GTypeOK
    <3>2. CASE u = t
      <4>1. to = "blocked"
        BY <1>2, <2>1, <3>2 DEF transition, FounderBlocked, FInv, GTypeOK
      <4>2. blockedBy'[t] = [from |-> status[t], by |-> "planner"]
        BY <2>1, <4>1 DEF transition, FInv, GTypeOK
      <4> QED BY <1>2, <3>2, <4>2 DEF FounderBlocked
    <3> QED BY <3>1, <3>2
  <2>2. CASE setTaskNote(t, why) /\ ~FounderBlocked(t)
    BY <1>2, <2>2 DEF setTaskNote, FounderBlocked, FInv, GTypeOK
  <2>3. CASE UNCHANGED board
    BY <1>2, <2>3 DEF board, FounderBlocked
  <2> QED BY <2>1, <2>2, <2>3 DEF tryTransition
<1> QED BY <1>1, <1>2 DEF FInv, BlockNoteInv, SeenInv

\* A founder's or an agent's move outside the planner's hand: a founder acts
\* between cycles only.
LEMMA MoveKeepsBlocks ==
  ASSUME FInv, NEW t \in Tasks, NEW to \in STATES, NEW by \in {"founder", "agent"},
         transition(t, to, by, "other"), UNCHANGED cycle,
         by = "founder" => cycle.phase = "idle"
  PROVE  BlockNoteInv' /\ SeenInv' /\ TodoInv'
<1>1. TodoInv'
  BY DEF FInv, TodoInv, SeenHeld
<1>2. BlockNoteInv'
  <2> SUFFICES ASSUME NEW u \in Tasks, FounderBlocked(u)' PROVE note'[u] # "hold"
    BY DEF BlockNoteInv
  <2>1. CASE u = t
    BY <2>1 DEF transition, FInv, GTypeOK
  <2>2. CASE u # t
    BY <2>2 DEF transition, FounderBlocked, FInv, GTypeOK, BlockNoteInv
  <2> QED BY <2>1, <2>2
<1>3. SeenInv'
  <2> SUFFICES ASSUME cycle.phase # "idle", NEW u \in Tasks, FounderBlocked(u)'
               PROVE  FounderBlocked(u)
    BY DEF SeenInv, FInv
  <2>1. by = "agent"
    OBVIOUS
  <2>2. CASE u = t
    <3>1. to = "blocked"
      BY <2>2 DEF transition, FounderBlocked, FInv, GTypeOK
    <3>2. blockedBy'[t] = [from |-> status[t], by |-> "agent"]
      BY <2>1, <3>1 DEF transition, FInv, GTypeOK
    <3> QED BY <2>2, <3>2 DEF FounderBlocked
  <2>3. CASE u # t
    BY <2>3 DEF transition, FounderBlocked, FInv, GTypeOK
  <2> QED BY <2>2, <2>3
<1> QED BY <1>1, <1>2, <1>3

LEMMA CycleKeepsBlocks ==
  ASSUME FInv, Cycle
  PROVE  BlockNoteInv' /\ SeenInv' /\ TodoInv'
<1>1. CASE StartCycle
  BY <1>1 DEF StartCycle, FInv, BlockNoteInv, SeenInv, TodoInv, FounderBlocked, board
<1>2. CASE CompleteSprint \/ UpsertSprint
  BY <1>2 DEF CompleteSprint, UpsertSprint, goto, FInv, BlockNoteInv, SeenInv, TodoInv,
     FounderBlocked, board
<1>3. CASE NextPhase
  <2>1. BlockNoteInv'
    BY <1>3 DEF NextPhase, FInv, BlockNoteInv, FounderBlocked, board
  <2>2. CASE cycle.phase = "design"
    BY <1>3, <2>1, <2>2 DEF NextPhase, Idle, SeenInv, TodoInv
  <2>3. CASE cycle.phase # "design"
    <3>1. goto(Follows[cycle.phase], Work(Follows[cycle.phase])) /\ UNCHANGED board
            /\ cycle.phase \in DOMAIN Follows
      BY <1>3, <2>3 DEF NextPhase
    <3>2. TodoInv'
      BY <3>1, TodoAfterGoto
    <3>3. cycle'.seen = cycle.seen /\ cycle'.notes = cycle.notes /\ cycle.phase # "idle"
      BY <3>1 DEF goto, Follows
    <3>4. SeenInv'
      BY <3>1, <3>3 DEF FInv, SeenInv, FounderBlocked, board
    <3> QED BY <2>1, <3>2, <3>4
  <2> QED BY <2>2, <2>3
<1>4. ASSUME NEW t \in Tasks, HoldTask(t) PROVE BlockNoteInv' /\ SeenInv' /\ TodoInv'
  BY <1>4, PlannerKeepsBlocks DEF HoldTask, STATES
<1>5. ASSUME NEW t \in Tasks, ReleaseTask(t) PROVE BlockNoteInv' /\ SeenInv' /\ TodoInv'
  <2>1. ReleaseTarget(t) \in STATES
    BY DEF ReleaseTarget, STATES
  <2> QED BY <1>5, <2>1, PlannerKeepsBlocks DEF ReleaseTask
<1>6. ASSUME NEW t \in Tasks, AcceptTask(t) PROVE BlockNoteInv' /\ SeenInv' /\ TodoInv'
  <2>1. ~FounderBlocked(t) /\ "spec" \in STATES
    BY <1>6 DEF AcceptTask, On, FInv, TodoInv, SeenInv, STATES
  <2> QED BY <1>6, <2>1, PlannerKeepsBlocks DEF AcceptTask
<1>7. ASSUME NEW t \in Tasks, DesignTask(t) PROVE BlockNoteInv' /\ SeenInv' /\ TodoInv'
  <2>1. ~FounderBlocked(t) /\ "designing" \in STATES
    BY <1>7 DEF DesignTask, On, FInv, TodoInv, SeenInv, STATES
  <2> QED BY <1>7, <2>1, PlannerKeepsBlocks DEF DesignTask
<1>8. ASSUME NEW t \in Stories, PlanTask(t) PROVE BlockNoteInv' /\ SeenInv' /\ TodoInv'
  BY <1>8, PlannerKeepsBlocks DEF PlanTask, STATES
<1> QED BY <1>1, <1>2, <1>3, <1>4, <1>5, <1>6, <1>7, <1>8 DEF Cycle

LEMMA OthersKeepBlocks ==
  ASSUME FInv,
         \/ Crash
         \/ \E t \in Tasks : Block(t) \/ Unblock(t) \/ Bounce(t)
         \/ \E t \in Tasks, to \in STATES : AgentMove(t, to)
         \/ \E actions \in SUBSET Actions : SetPolicy(actions)
  PROVE  BlockNoteInv' /\ SeenInv' /\ TodoInv'
<1>1. CASE Crash
  BY <1>1 DEF Crash, Idle, FInv, BlockNoteInv, SeenInv, TodoInv, FounderBlocked, board
<1>2. ASSUME NEW t \in Tasks, Block(t) \/ Unblock(t) \/ Bounce(t)
      PROVE  BlockNoteInv' /\ SeenInv' /\ TodoInv'
  <2>1. cycle.phase = "idle" /\ UNCHANGED cycle
    BY <1>2 DEF Block, Unblock, Bounce, FounderTurn
  <2>2. \E to \in {"blocked", "ready-for-impl", "in-progress", "designing"} :
          transition(t, to, "founder", "other")
    BY <1>2 DEF Block, Unblock, Bounce
  <2>3. {"blocked", "ready-for-impl", "in-progress", "designing"} \subseteq STATES
    BY DEF STATES
  <2> QED BY <2>1, <2>2, <2>3, MoveKeepsBlocks
<1>3. ASSUME NEW t \in Tasks, NEW to \in STATES, AgentMove(t, to)
      PROVE  BlockNoteInv' /\ SeenInv' /\ TodoInv'
  BY <1>3, MoveKeepsBlocks DEF AgentMove
<1>4. ASSUME NEW actions \in SUBSET Actions, SetPolicy(actions)
      PROVE  BlockNoteInv' /\ SeenInv' /\ TodoInv'
  BY <1>4 DEF SetPolicy, FounderTurn, FInv, BlockNoteInv, SeenInv, TodoInv, SeenHeld,
     FounderBlocked, board
<1> QED BY <1>1, <1>2, <1>3, <1>4

LEMMA FounderInvariant == Spec => []FInv
<1>1. Init => BlockNoteInv /\ SeenInv /\ TodoInv
  BY DEF Init, Idle, BlockNoteInv, SeenInv, TodoInv
<1>2. FInv /\ [Next]_vars => BlockNoteInv' /\ SeenInv' /\ TodoInv'
  <2> SUFFICES ASSUME FInv, [Next]_vars PROVE BlockNoteInv' /\ SeenInv' /\ TodoInv'
    OBVIOUS
  <2>1. CASE Cycle
    BY <2>1, CycleKeepsBlocks
  <2>2. CASE Next /\ ~Cycle
    BY <2>2, OthersKeepBlocks DEF Next
  <2>3. CASE UNCHANGED vars
    BY <2>3 DEF vars, board, founder, scrum, FInv, BlockNoteInv, SeenInv, TodoInv, SeenHeld,
       FounderBlocked
  <2> QED BY <2>1, <2>2, <2>3
<1> QED BY <1>1, <1>2, GovernanceTypeCorrect, PTL DEF Spec, FInv

\* A planner's step leaves a task the founder blocked in blocked.
LEMMA CycleRespectsFounder ==
  ASSUME FInv, Cycle, NEW t \in Tasks, FounderBlocked(t)
  PROVE  status'[t] = "blocked"
<1>1. CASE StartCycle \/ CompleteSprint \/ UpsertSprint \/ NextPhase
  BY <1>1 DEF StartCycle, CompleteSprint, UpsertSprint, NextPhase, board, FounderBlocked
<1>2. ASSUME NEW u \in Tasks, NEW to \in STATES, NEW why, u # t \/ to = "blocked",
             tryTransition(u, to, why)
      PROVE  status'[t] = "blocked"
  BY <1>2 DEF tryTransition, transition, board, FounderBlocked, FInv, GTypeOK
<1>3. ASSUME NEW u \in Tasks, HoldTask(u) PROVE status'[t] = "blocked"
  BY <1>2, <1>3 DEF HoldTask, STATES
<1>4. ASSUME NEW u \in Tasks, ReleaseTask(u) PROVE status'[t] = "blocked"
  <2>1. u # t
    BY <1>4 DEF ReleaseTask, On, FInv, TodoInv, SeenInv, SeenHeld
  <2>2. ReleaseTarget(u) \in STATES
    BY DEF ReleaseTarget, STATES
  <2> QED BY <1>2, <1>4, <2>1, <2>2 DEF ReleaseTask
<1>5. ASSUME NEW u \in Tasks, AcceptTask(u) PROVE status'[t] = "blocked"
  <2>1. u # t /\ "spec" \in STATES
    BY <1>5 DEF AcceptTask, On, FInv, TodoInv, SeenInv, STATES
  <2>2. CASE tryTransition(u, "spec", "other")
    BY <1>2, <2>1, <2>2
  <2>3. CASE ~tryTransition(u, "spec", "other")
    BY <1>5, <2>3 DEF AcceptTask, setTaskNote, board, FounderBlocked
  <2> QED BY <2>2, <2>3
<1>6. ASSUME NEW u \in Tasks, DesignTask(u) PROVE status'[t] = "blocked"
  <2>1. u # t /\ "designing" \in STATES
    BY <1>6 DEF DesignTask, On, FInv, TodoInv, SeenInv, STATES
  <2>2. CASE tryTransition(u, "designing", "other")
    BY <1>2, <2>1, <2>2
  <2>3. CASE ~tryTransition(u, "designing", "other")
    BY <1>6, <2>3 DEF DesignTask, setTaskNote, board, FounderBlocked
  <2> QED BY <2>2, <2>3
<1>7. ASSUME NEW u \in Stories, PlanTask(u) PROVE status'[t] = "blocked"
  BY <1>7 DEF PlanTask, board, FounderBlocked
<1> QED BY <1>1, <1>3, <1>4, <1>5, <1>6, <1>7 DEF Cycle

\* No cycle lifts a founder's block, for any board, any policies and any
\* number of crashes and of other processes' moves inside a cycle.
THEOREM PlannerKeepsFounderBlocks == Spec => FounderBlockKept
<1>1. FInv => [\A t \in Tasks :
        Cycle /\ status[t] = "blocked" /\ blockedBy[t].by = "founder"
          => status'[t] = "blocked"]_vars
  BY CycleRespectsFounder DEF FounderBlocked
<1> QED BY <1>1, FounderInvariant, PTL DEF FounderBlockKept
=============================================================================
