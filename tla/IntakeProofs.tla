---------------------------- MODULE IntakeProofs ----------------------------
(***************************************************************************)
(* Theorems about the task store as the REST API and the Azure DevOps sync *)
(* use it, for any tasks, work items, states and bounds: neither asks the  *)
(* state machine or looks at the lease, so the store's own theorems, of    *)
(* its own callers, do not carry over.                                     *)
(***************************************************************************)
EXTENDS Intake, TLAPS

Statuses == STATES \cup {"absent", "archived"}

ColumnsInv ==
  /\ status \in [Tasks -> Statuses]
  /\ \A t \in Tasks : status[t] = "archived" => t \in AdoTasks
  /\ resources \in [Tasks -> SUBSET Resources]
  /\ lease \in [Tasks -> Lease]
  /\ lock \in [Resources -> Tasks \cup {NONE}]
  /\ now \in Nat

\* What a PATCH carries from one of its steps to the next: a status read from the row.
CarriedInv ==
  /\ depth \in [Tasks -> 0..2]
  /\ \A t \in Tasks : depth[t] # 0 => t \in AdoTasks
  /\ sourceless \subseteq Tasks
  /\ sync.todo \subseteq AdoTasks
  /\ patch \in [phase : {"idle", "body", "upsert", "write"}, task : Tasks \cup {NONE},
                seen : Statuses \cup {NONE}, to : Statuses \cup {NONE}]
  /\ patch.phase # "idle" => patch.task \in Tasks
  /\ patch.phase = "write" => /\ patch.to \in Statuses
                              /\ patch.to = "archived" => patch.task \in AdoTasks

IntakeInv == ColumnsInv /\ CarriedInv /\ LocksHaveHolders

\* Writing a row touches no lease and no lock.
LEMMA RowWritten ==
  ASSUME ColumnsInv, LocksHaveHolders, NEW t \in Tasks, NEW st \in Statuses, NEW res \in SUBSET Resources,
         st = "archived" => t \in AdoTasks,
         status' = [status EXCEPT ![t] = st], resources' = [resources EXCEPT ![t] = res],
         keepLease, now' = now
  PROVE  ColumnsInv' /\ LocksHaveHolders'
<1>1. ColumnsInv'
  BY DEF ColumnsInv, keepLease
<1> QED BY <1>1 DEF LocksHaveHolders, keepLease, Held

\* However a lease ends, its locks go with it.
LEMMA LeaseFreed ==
  ASSUME ColumnsInv, LocksHaveHolders, NEW t \in Tasks, freeLease(t)
  PROVE  /\ lease' \in [Tasks -> Lease] /\ lock' \in [Resources -> Tasks \cup {NONE}]
         /\ LocksHaveHolders'
<1>1. NoLease \in Lease
  BY DEF NoLease, Lease
<1>2. lease' \in [Tasks -> Lease] /\ lock' \in [Resources -> Tasks \cup {NONE}]
  BY <1>1 DEF ColumnsInv, freeLease, Freed, Unlocked
<1>3. ASSUME NEW r \in Resources, lock'[r] # NONE PROVE Held(lock[r])'
  <2>1. lock'[r] = lock[r] /\ lock[r] # t
    BY <1>3 DEF freeLease, Unlocked
  <2>2. lock[r] \in Tasks /\ lease[lock[r]] # NoLease
    BY <1>3, <2>1 DEF ColumnsInv, LocksHaveHolders, Held
  <2>3. lease'[lock[r]] = lease[lock[r]]
    BY <2>1, <2>2 DEF freeLease, Freed, ColumnsInv
  <2> QED BY <2>1, <2>2, <2>3 DEF Held
<1> QED BY <1>2, <1>3 DEF LocksHaveHolders

LEMMA ColumnsKept ==
  ASSUME ColumnsInv, LocksHaveHolders, UNCHANGED <<status, resources, lease, lock>>, now' \in Nat
  PROVE  ColumnsInv' /\ LocksHaveHolders'
BY DEF ColumnsInv, LocksHaveHolders, Held

\* The store's own transactions, whichever of them an agent, the founder or the watchdog
\* makes.
LEMMA ClaimKeeps ==
  ASSUME ColumnsInv, LocksHaveHolders, NEW t \in Tasks, NEW a \in Agents, NEW s \in Sessions,
         NEW ttl \in TTLs, Claim(t, a, s, ttl, now)
  PROVE  ColumnsInv' /\ LocksHaveHolders'
<1> DEFINE new == [owner |-> a, session |-> s, expires |-> now + ttl]
<1>1. new \in Lease /\ new # NoLease
  <2>1. now + ttl \in Nat
    BY TaskStoreAssumption DEF ColumnsInv
  <2>2. new \in [owner : Agents, session : Sessions, expires : Nat]
    BY <2>1
  <2>3. new.session # NoLease.session
    BY TaskStoreAssumption DEF NoLease
  <2> QED BY <2>2, <2>3 DEF Lease
<1>2. /\ lease' = [lease EXCEPT ![t] = new]
      /\ lock' = [r \in Resources |-> IF r \in resources[t] THEN t ELSE lock[r]]
      /\ UNCHANGED <<status, resources, now>>
  BY DEF Claim, claimTask
<1> HIDE DEF new
<1>3. ColumnsInv'
  BY <1>1, <1>2 DEF ColumnsInv
<1>4. ASSUME NEW r \in Resources, lock'[r] # NONE PROVE Held(lock[r])'
  <2>1. CASE lock'[r] = t
    BY <1>1, <1>2, <2>1 DEF ColumnsInv, Held
  <2>2. CASE lock'[r] # t
    <3>1. lock'[r] = lock[r] /\ lock[r] \in Tasks
      BY <1>2, <1>4, <2>2 DEF ColumnsInv
    <3>2. lease[lock[r]] # NoLease /\ lease'[lock[r]] = lease[lock[r]]
      BY <1>2, <1>4, <2>2, <3>1 DEF ColumnsInv, LocksHaveHolders, Held
    <3> QED BY <3>1, <3>2 DEF Held
  <2> QED BY <2>1, <2>2
<1> QED BY <1>3, <1>4 DEF LocksHaveHolders

LEMMA TransitionKeeps ==
  ASSUME ColumnsInv, LocksHaveHolders, NEW t \in Tasks, NEW to \in STATES,
         transition(t, to, NONE, FALSE), now' = now
  PROVE  ColumnsInv' /\ LocksHaveHolders'
<1>1. status' = [status EXCEPT ![t] = to] /\ resources' = resources /\ to # "archived"
  BY DEF transition, STATES
<1>2. lease' \in [Tasks -> Lease] /\ lock' \in [Resources -> Tasks \cup {NONE}] /\ LocksHaveHolders'
  <2>1. CASE to \in LEASE_FREEING_STATES
    <3>1. freeLease(t)
      BY <2>1 DEF transition
    <3> QED BY <3>1, LeaseFreed
  <2>2. CASE to \notin LEASE_FREEING_STATES
    BY <2>2 DEF transition, keepLease, ColumnsInv, LocksHaveHolders, Held
  <2> QED BY <2>1, <2>2
<1>3. ColumnsInv'
  BY <1>1, <1>2 DEF ColumnsInv, Statuses
<1> QED BY <1>2, <1>3

LEMMA ReapKeeps ==
  ASSUME ColumnsInv, LocksHaveHolders, NEW t \in Tasks, Reap(t)
  PROVE  ColumnsInv' /\ LocksHaveHolders'
<1>1. freeLease(t) /\ resources' = resources /\ now' = now
  BY DEF Reap, reapExpiredLease
<1>2. status' = [status EXCEPT ![t] = "blocked"] \/ status' = status
  BY DEF Reap, reapExpiredLease
<1>3. lease' \in [Tasks -> Lease] /\ lock' \in [Resources -> Tasks \cup {NONE}] /\ LocksHaveHolders'
  BY <1>1, LeaseFreed
<1>4. status' \in [Tasks -> Statuses] /\ \A u \in Tasks : status'[u] = "archived" => u \in AdoTasks
  BY <1>2 DEF ColumnsInv, Statuses, STATES
<1> QED BY <1>1, <1>3, <1>4 DEF ColumnsInv

LEMMA FreedKeeps ==
  ASSUME ColumnsInv, LocksHaveHolders, NEW t \in Tasks, freeLease(t),
         UNCHANGED <<resources, now>>,
         status' = [status EXCEPT ![t] = "absent"] \/ status' = status
  PROVE  ColumnsInv' /\ LocksHaveHolders'
<1>1. lease' \in [Tasks -> Lease] /\ lock' \in [Resources -> Tasks \cup {NONE}] /\ LocksHaveHolders'
  BY LeaseFreed
<1>2. status' \in [Tasks -> Statuses] /\ \A u \in Tasks : status'[u] = "archived" => u \in AdoTasks
  BY DEF ColumnsInv, Statuses
<1> QED BY <1>1, <1>2 DEF ColumnsInv

LEMMA MappedStatus == ASSUME NEW state PROVE mapAdoState(state) \in STATES \cup {"archived"}
BY DEF mapAdoState, STATES

LEMMA IntakeInit == IInit => IntakeInv
<1> SUFFICES ASSUME IInit PROVE IntakeInv
  OBVIOUS
<1>1. NoLease \in Lease
  BY DEF NoLease, Lease
<1>2. ColumnsInv /\ LocksHaveHolders
  BY <1>1 DEF IInit, Init, ColumnsInv, Statuses, LocksHaveHolders
<1>3. CarriedInv
  BY DEF IInit, CarriedInv, IdleSync, IdlePatch
<1> QED BY <1>2, <1>3 DEF IntakeInv

\* The sync: only its last phase writes rows.
LEMMA SyncKeeps == ASSUME IntakeInv, Sync PROVE IntakeInv'
<1>0. ColumnsInv /\ CarriedInv /\ LocksHaveHolders
  BY DEF IntakeInv
<1>1. CASE StartSync \/ Pulled \/ EndSync \/ \E t \in AdoTasks : PullItem(t)
  <2>1. /\ UNCHANGED vars /\ UNCHANGED <<depth, sourceless, patch>>
        /\ sync'.todo \subseteq AdoTasks
    BY <1>0, <1>1 DEF StartSync, Pulled, EndSync, PullItem, IdleSync, CarriedInv
  <2>2. ColumnsInv' /\ LocksHaveHolders'
    BY <1>0, <2>1, ColumnsKept DEF vars, ColumnsInv
  <2> QED BY <1>0, <2>1, <2>2 DEF IntakeInv, CarriedInv
<1>2. ASSUME NEW t \in AdoTasks, ApplyItem(t) PROVE IntakeInv'
  <2>1. t \in Tasks /\ Brackets \in SUBSET Resources
    BY IntakeAssumption
  <2>2. PICK st \in STATES \cup {"archived"} : st = mapAdoState(sync.items[t])
    BY MappedStatus
  <2>3. st \in Statuses
    BY DEF Statuses
  <2>4. sync'.todo \subseteq AdoTasks /\ UNCHANGED <<now, sourceless, patch>>
    BY <1>0, <1>2 DEF ApplyItem, CarriedInv
  <2>5. \/ insertTask(t, st, 3, {}) /\ UNCHANGED depth
        \/ updateTask(t, st, Brackets) /\ depth' = [depth EXCEPT ![t] = IF @ = 2 THEN 2 ELSE @ + 1]
        \/ UNCHANGED <<storeVars, depth>>
    BY <1>2, <2>2 DEF ApplyItem
  <2>6. ColumnsInv' /\ LocksHaveHolders'
    <3>1. CASE insertTask(t, st, 3, {})
      BY <1>0, <2>1, <2>3, <2>4, <3>1, RowWritten DEF insertTask
    <3>2. CASE updateTask(t, st, Brackets)
      BY <1>0, <2>1, <2>3, <2>4, <3>2, RowWritten DEF updateTask
    <3>3. CASE UNCHANGED storeVars
      BY <1>0, <2>4, <3>3, ColumnsKept DEF storeVars, ColumnsInv
    <3> QED BY <2>5, <3>1, <3>2, <3>3
  <2>7. depth' \in [Tasks -> 0..2] /\ \A u \in Tasks : depth'[u] # 0 => u \in AdoTasks
    BY <1>0, <2>1, <2>5 DEF CarriedInv
  <2> QED BY <1>0, <2>4, <2>6, <2>7 DEF IntakeInv, CarriedInv
<1> QED BY <1>1, <1>2 DEF Sync

\* A PATCH: what it writes in the end is a status it read, whatever happened to the row.
LEMMA PatchKeeps ==
  ASSUME IntakeInv,
         \/ \E t \in Tasks : PatchRead(t)
         \/ \E to \in STATES \cup {NONE} : PatchMoves(to)
         \/ PatchUpserts \/ PatchWrites
  PROVE  IntakeInv'
<1>0. ColumnsInv /\ CarriedInv /\ LocksHaveHolders
  BY DEF IntakeInv
<1> DEFINE Patches == [phase : {"idle", "body", "upsert", "write"}, task : Tasks \cup {NONE},
                       seen : Statuses \cup {NONE}, to : Statuses \cup {NONE}]
<1>a. patch \in Patches /\ IdlePatch \in Patches /\ IdlePatch.phase = "idle"
  BY <1>0 DEF CarriedInv, IdlePatch
<1>1. ASSUME NEW t \in Tasks, PatchRead(t) PROVE IntakeInv'
  <2>1. /\ UNCHANGED vars /\ UNCHANGED <<depth, sourceless, sync>>
        /\ patch' = [phase |-> "body", task |-> t, seen |-> status[t], to |-> NONE]
    BY <1>1 DEF PatchRead
  <2>2. ColumnsInv' /\ LocksHaveHolders'
    BY <1>0, <2>1, ColumnsKept DEF vars, ColumnsInv
  <2>3. CarriedInv'
    BY <1>0, <2>1 DEF CarriedInv, ColumnsInv
  <2> QED BY <2>2, <2>3 DEF IntakeInv
<1>2. ASSUME NEW to \in STATES \cup {NONE}, PatchMoves(to) PROVE IntakeInv'
  <2>1. /\ patch.phase = "body" /\ patch.task \in Tasks
        /\ UNCHANGED <<now, depth, sourceless, sync>>
    BY <1>0, <1>2 DEF PatchMoves, CarriedInv
  <2>2. patch' = [patch EXCEPT !.phase = "upsert"] \/ patch' = IdlePatch
    BY <1>2 DEF PatchMoves
  <2>3. PICK t \in Tasks : t = patch.task
    BY <2>1
  <2>4. UNCHANGED storeVars \/ (to \in STATES /\ transition(t, to, NONE, FALSE))
    BY <1>2, <2>3 DEF PatchMoves
  <2>5. ColumnsInv' /\ LocksHaveHolders'
    <3>1. CASE UNCHANGED storeVars
      BY <1>0, <2>1, <3>1, ColumnsKept DEF storeVars, ColumnsInv
    <3>2. CASE to \in STATES /\ transition(t, to, NONE, FALSE)
      BY <1>0, <2>1, <3>2, TransitionKeeps
    <3> QED BY <2>4, <3>1, <3>2
  <2>6. /\ patch' \in Patches /\ patch'.phase # "write"
        /\ patch'.phase # "idle" => patch'.task \in Tasks
    BY <1>a, <2>1, <2>2
  <2>7. CarriedInv'
    BY <1>0, <2>1, <2>6 DEF CarriedInv
  <2> QED BY <2>5, <2>7 DEF IntakeInv
<1>3. CASE PatchUpserts
  <2>1. PICK t \in Tasks : t = patch.task
    BY <1>0, <1>3 DEF PatchUpserts, CarriedInv
  <2>2. /\ UNCHANGED vars /\ UNCHANGED <<depth, sourceless, sync>>
        /\ patch' = [patch EXCEPT !.phase = "write", !.to = status[t]]
    BY <1>3, <2>1 DEF PatchUpserts
  <2>3. ColumnsInv' /\ LocksHaveHolders'
    BY <1>0, <2>2, ColumnsKept DEF vars, ColumnsInv
  <2>4. status[t] \in Statuses /\ (status[t] = "archived" => t \in AdoTasks)
    BY <1>0 DEF ColumnsInv
  <2>5. /\ patch' \in Patches /\ patch'.task = t /\ patch'.to = status[t]
    BY <1>a, <2>1, <2>2, <2>4
  <2>6. CarriedInv'
    BY <1>0, <2>2, <2>4, <2>5 DEF CarriedInv
  <2> QED BY <2>3, <2>6 DEF IntakeInv
<1>4. CASE PatchWrites
  <2>1. PICK t \in Tasks, st \in Statuses : t = patch.task /\ st = patch.to
    BY <1>0, <1>4 DEF PatchWrites, CarriedInv
  <2>2. /\ st = "archived" => t \in AdoTasks
        /\ patch' = IdlePatch /\ UNCHANGED <<now, sync>>
        /\ \/ updateTask(t, st, {}) /\ depth' = [depth EXCEPT ![t] = 0] /\ UNCHANGED sourceless
           \/ UNCHANGED <<storeVars, depth, sourceless>>
           \/ insertTask(t, "proposed", 3, {}) /\ sourceless' = sourceless \cup {t} /\ UNCHANGED depth
    BY <1>0, <1>4, <2>1 DEF PatchWrites, CarriedInv
  <2>3. "proposed" \in Statuses
    BY DEF Statuses, STATES
  <2>4. ColumnsInv' /\ LocksHaveHolders'
    <3>1. CASE updateTask(t, st, {})
      BY <1>0, <2>2, <3>1, RowWritten DEF updateTask
    <3>2. CASE UNCHANGED storeVars
      BY <1>0, <2>2, <3>2, ColumnsKept DEF storeVars, ColumnsInv
    <3>3. CASE insertTask(t, "proposed", 3, {})
      <4>1. /\ status' = [status EXCEPT ![t] = "proposed"] /\ keepLease /\ now' = now
            /\ resources' = [resources EXCEPT ![t] = {}]
        BY <2>2, <3>3 DEF insertTask
      <4> QED BY <1>0, <2>3, <4>1, RowWritten
    <3> QED BY <2>2, <3>1, <3>2, <3>3
  <2>5. /\ depth' \in [Tasks -> 0..2] /\ sourceless' \subseteq Tasks
        /\ \A u \in Tasks : depth'[u] # 0 => u \in AdoTasks
    BY <1>0, <2>2 DEF CarriedInv
  <2>6. CarriedInv'
    BY <1>0, <1>a, <2>2, <2>5 DEF CarriedInv
  <2> QED BY <2>4, <2>6 DEF IntakeInv
<1> QED BY <1>1, <1>2, <1>3, <1>4

LEMMA IntakeStep == IntakeInv /\ [INext]_ivars => IntakeInv'
<1> SUFFICES ASSUME IntakeInv, [INext]_ivars PROVE IntakeInv'
  OBVIOUS
<1>0. ColumnsInv /\ CarriedInv /\ LocksHaveHolders
  BY DEF IntakeInv
<1>kept. ASSUME ColumnsInv' /\ LocksHaveHolders', UNCHANGED <<depth, sourceless, sync, patch>>
         PROVE  IntakeInv'
  BY <1>0, <1>kept DEF IntakeInv, CarriedInv
<1>1. CASE Sync
  BY <1>1, SyncKeeps
<1>2. ASSUME NEW t \in AdoTasks, NEW state, PullFails(t) \/ AdoEdit(t, state)
      PROVE  IntakeInv'
  <2>1. /\ UNCHANGED vars /\ UNCHANGED <<depth, sourceless, patch>>
        /\ sync'.todo \subseteq AdoTasks
    BY <1>0, <1>2 DEF PullFails, AdoEdit, CarriedInv
  <2>2. ColumnsInv' /\ LocksHaveHolders'
    BY <1>0, <2>1, ColumnsKept DEF vars, ColumnsInv
  <2> QED BY <1>0, <2>1, <2>2 DEF IntakeInv, CarriedInv
<1>3. CASE \/ \E t \in Tasks : PatchRead(t)
           \/ \E to \in STATES \cup {NONE} : PatchMoves(to)
           \/ PatchUpserts \/ PatchWrites
  BY <1>3, PatchKeeps
<1>4. ASSUME NEW t \in Tasks, Post(t) PROVE IntakeInv'
  <2>1. insertTask(t, "proposed", 3, {}) /\ UNCHANGED <<now, depth, sourceless, sync, patch>>
    BY <1>4, IntakeAssumption DEF Post, Insert
  <2>2. "proposed" \in Statuses
    BY DEF Statuses, STATES
  <2>3. ColumnsInv' /\ LocksHaveHolders'
    BY <1>0, <2>1, <2>2, RowWritten DEF insertTask
  <2> QED BY <1>kept, <2>1, <2>3
<1>5. ASSUME NEW t \in Tasks, ApiDelete(t) PROVE IntakeInv'
  <2>1. /\ freeLease(t) /\ UNCHANGED <<resources, now>> /\ UNCHANGED intakeVars
        /\ status' = [status EXCEPT ![t] = "absent"]
    BY <1>5 DEF ApiDelete, deleteTask
  <2>2. ColumnsInv' /\ LocksHaveHolders'
    BY <1>0, <2>1, FreedKeeps
  <2> QED BY <1>kept, <2>1, <2>2 DEF intakeVars
<1>6. ASSUME NEW t \in Tasks, Others(t) PROVE IntakeInv'
  <2>1. UNCHANGED <<depth, sourceless, sync, patch>>
    BY <1>6 DEF Others, intakeVars
  <2>2. CASE \E a \in Agents, s \in Sessions, ttl \in TTLs : Claim(t, a, s, ttl, now)
    BY <1>0, <1>kept, <2>1, <2>2, ClaimKeeps
  <2>3. CASE \E to \in STATES : Transition(t, to, NONE, FALSE)
    BY <1>0, <1>kept, <2>1, <2>3, TransitionKeeps DEF Transition
  <2>4. CASE \E s \in Sessions : Release(t, s)
    <3>1. freeLease(t) /\ UNCHANGED <<status, resources, now>>
      BY <2>4 DEF Release, releaseLease
    <3>2. ColumnsInv' /\ LocksHaveHolders'
      BY <1>0, <3>1, FreedKeeps
    <3> QED BY <1>kept, <2>1, <3>2
  <2> QED BY <1>6, <2>2, <2>3, <2>4 DEF Others
<1>7. ASSUME NEW t \in Tasks, Reaped(t) PROVE IntakeInv'
  BY <1>0, <1>kept, <1>7, ReapKeeps DEF Reaped, intakeVars
<1>8. CASE Ticked \/ UNCHANGED ivars
  <2>1. UNCHANGED storeVars /\ UNCHANGED intakeVars /\ now' \in Nat
    BY <1>0, <1>8 DEF Ticked, Tick, ivars, vars, storeVars, ColumnsInv
  <2>2. ColumnsInv' /\ LocksHaveHolders'
    BY <1>0, <2>1, ColumnsKept DEF storeVars
  <2> QED BY <1>kept, <2>1, <2>2 DEF intakeVars
<1> QED
  BY <1>1, <1>2, <1>3, <1>4, <1>5, <1>6, <1>7, <1>8 DEF INext, pushPrLink

\* The columns keep their types and "archived", which only the sync writes, stays with
\* its tasks: a PATCH that read it there writes it there (azure-devops-source.mjs:388,
\* api/v1/tasks.mjs:125-130).
THEOREM IntakeTypeCorrect == ISpec => []ITypeOK
<1>1. IntakeInv => ITypeOK
  BY DEF IntakeInv, ColumnsInv, CarriedInv, Statuses, ITypeOK
<1> QED BY <1>1, IntakeInit, IntakeStep, PTL DEF ISpec

\* Rows may be overwritten, deleted and made again under a lease: no lock row is left
\* without a leased task to free it (state.mjs' freeLease, and the cascade of a DELETE).
THEOREM NoOrphanLocks == ISpec => []LocksHaveHolders
<1>1. IntakeInv => LocksHaveHolders
  BY DEF IntakeInv
<1> QED BY <1>1, IntakeInit, IntakeStep, PTL DEF ISpec
=============================================================================
