-------------------------- MODULE TaskStoreProofs --------------------------
(***************************************************************************)
(* Theorems about the task store, for every set of tasks, agents, sessions *)
(* and resources and for every bound.                                      *)
(***************************************************************************)
EXTENDS TaskStore, TLAPS

\* Freeing a lease keeps the types of the lease columns and of the locks.
LEMMA FreeLeaseType ==
  ASSUME TypeOK, NEW t \in Tasks, freeLease(t)
  PROVE  /\ lease' \in [Tasks -> Lease]
         /\ lock' \in [Resources -> Tasks \cup {NONE}]
<1>1. NoLease \in Lease
  BY DEF NoLease, Lease
<1> QED
  BY <1>1 DEF TypeOK, freeLease, Freed, Unlocked

\* No step leaves the column types.
LEMMA TypeStep == TypeOK /\ [Next]_vars => TypeOK'
<1> SUFFICES ASSUME TypeOK, [Next]_vars
             PROVE  TypeOK'
  OBVIOUS
<1> USE TaskStoreAssumption DEF TypeOK, storeVars
<1>1. CASE Tick
  BY <1>1 DEF Tick
<1>2. ASSUME NEW t \in Tasks, Insert(t)
      PROVE  TypeOK'
  BY <1>2 DEF Insert, insertTask, keepLease, STATES
<1>3. ASSUME NEW t \in Tasks, Redeclare(t), UNCHANGED now
      PROVE  TypeOK'
  BY <1>3 DEF Redeclare, updateTask, keepLease
<1>4. ASSUME NEW t \in Tasks, deleteTask(t), UNCHANGED now
      PROVE  TypeOK'
  BY <1>4, FreeLeaseType DEF deleteTask
<1>5. ASSUME NEW t \in Tasks, NEW a \in Agents, NEW s \in Sessions,
             NEW ttl \in TTLs, NEW at \in 0..now, Claim(t, a, s, ttl, at)
      PROVE  TypeOK'
  <2>1. [owner |-> a, session |-> s, expires |-> at + ttl] \in Lease
    BY DEF Lease
  <2> QED
    BY <1>5, <2>1 DEF Claim, claimTask
<1>6. ASSUME NEW t \in Tasks, NEW s \in Sessions, NEW ttl \in TTLs,
             Heartbeat(t, s, ttl)
      PROVE  TypeOK'
  <2>1. now + ttl \in Nat
    OBVIOUS
  <2>2. lease[t] # NoLease
    BY <1>6 DEF Heartbeat, heartbeat, NoLease
  <2>3. lease[t].owner \in Agents
    BY <2>2 DEF Lease
  <2>4. [owner |-> lease[t].owner, session |-> s, expires |-> now + ttl] \in Lease
    BY <2>1, <2>3 DEF Lease
  <2> QED
    BY <1>6, <2>4 DEF Heartbeat, heartbeat
<1>7. ASSUME NEW t \in Tasks, NEW s \in Sessions, Release(t, s)
      PROVE  TypeOK'
  BY <1>7, FreeLeaseType DEF Release, releaseLease
<1>8. ASSUME NEW t \in Tasks, NEW a \in Agents, ForceRelease(t, a)
      PROVE  TypeOK'
  BY <1>8, FreeLeaseType DEF ForceRelease, forceReleaseLease
<1>9. ASSUME NEW t \in Tasks, BootRelease(t)
      PROVE  TypeOK'
  BY <1>9, FreeLeaseType DEF BootRelease, releaseOnBoot
<1>10. ASSUME NEW t \in Tasks, Reap(t)
       PROVE  TypeOK'
  <2>1. lease' \in [Tasks -> Lease] /\ lock' \in [Resources -> Tasks \cup {NONE}]
    BY <1>10, FreeLeaseType DEF Reap, reapExpiredLease
  <2>2. reapCount' \in [Tasks -> Nat] /\ status' \in [Tasks -> STATES \cup {"absent"}]
    BY <1>10 DEF Reap, reapExpiredLease, STATES
  <2>3. complexity' \in [Tasks -> 1..5]
    BY <1>10 DEF Reap, reapExpiredLease, Remediated
  <2> QED
    BY <1>10, <2>1, <2>2, <2>3 DEF Reap, reapExpiredLease
<1>11. ASSUME NEW t \in Tasks, NEW to \in STATES,
              NEW s \in Sessions \cup {NONE}, NEW rel \in BOOLEAN,
              Transition(t, to, s, rel)
       PROVE  TypeOK'
  <2>1. lease' \in [Tasks -> Lease] /\ lock' \in [Resources -> Tasks \cup {NONE}]
    BY <1>11, FreeLeaseType DEF Transition, transition, keepLease
  <2> QED
    BY <1>11, <2>1 DEF Transition, transition
<1>12. CASE UNCHANGED vars
  BY <1>12 DEF vars
<1> QED
  BY <1>1, <1>2, <1>3, <1>4, <1>5, <1>6, <1>7, <1>8, <1>9, <1>10, <1>11, <1>12
     DEF Next, RestWrite

\* The store's columns keep their types for ever.
THEOREM TypeCorrect == Spec => []TypeOK
<1>1. Init => TypeOK
  <2>1. NoLease \in Lease
    BY DEF NoLease, Lease
  <2> QED
    BY <2>1 DEF Init, TypeOK
<1> QED
  BY <1>1, TypeStep, PTL DEF Spec
-----------------------------------------------------------------------------
\* The inductive invariant: locks follow leases, and a task that nobody works
\* on any more (or that has no row) has no lease.  Neither half is inductive
\* without the other: Insert gives a task new resources, which would break the
\* agreement if a task without a row could still be leased.
LeaseInv == LockLeaseAgreement /\ HandoffFreesLease

\* Ending the lease of one task, whatever happens to its status, keeps locks
\* and leases in agreement.
LEMMA FreeLeaseAgreement ==
  ASSUME TypeOK, LockLeaseAgreement, NEW t \in Tasks, freeLease(t),
         resources' = resources
  PROVE  /\ LockLeaseAgreement'
         /\ ~Held(t)'
         /\ \A u \in Tasks : u # t => lease'[u] = lease[u]
<1> USE TaskStoreAssumption DEF TypeOK, Held, freeLease, Freed, Unlocked
<1>1. ~Held(t)'
  OBVIOUS
<1>2. \A u \in Tasks : u # t => lease'[u] = lease[u]
  OBVIOUS
<1>3. ASSUME NEW r \in Resources, lock'[r] # NONE
      PROVE  lease'[lock'[r]] # NoLease
  <2>1. lock[r] # t /\ lock'[r] = lock[r] /\ lock[r] \in Tasks
    BY <1>3
  <2> QED
    BY <2>1, <1>2 DEF LockLeaseAgreement
<1>4. ASSUME NEW u \in Tasks, Held(u)', NEW r \in resources'[u]
      PROVE  lock'[r] = u
  <2>1. u # t /\ Held(u) /\ r \in Resources
    BY <1>4, <1>1, <1>2
  <2> QED
    BY <2>1 DEF LockLeaseAgreement
<1> QED
  BY <1>1, <1>2, <1>3, <1>4 DEF LockLeaseAgreement

\* A step that touches neither leases nor locks keeps both halves, provided
\* it does not add resources to a leased task or retire a leased task.
LEMMA KeepLeaseInv ==
  ASSUME LeaseInv, keepLease,
         \A t \in Tasks : Held(t) =>
            /\ resources'[t] \subseteq resources[t]
            /\ status'[t] \notin {"in-review", "done", "blocked", "absent"}
  PROVE  LeaseInv'
BY DEF LeaseInv, LockLeaseAgreement, HandoffFreesLease, keepLease, Held

\* Ending a lease keeps both halves, provided no other task changes status.
LEMMA FreeLeaseInv ==
  ASSUME TypeOK, LeaseInv, NEW t \in Tasks, freeLease(t),
         resources' = resources,
         \A u \in Tasks : u # t => status'[u] = status[u]
  PROVE  LeaseInv'
<1>1. LockLeaseAgreement' /\ ~Held(t)'
      /\ \A u \in Tasks : u # t => lease'[u] = lease[u]
  BY FreeLeaseAgreement DEF LeaseInv
<1>2. HandoffFreesLease'
  BY <1>1 DEF LeaseInv, HandoffFreesLease, Held
<1> QED
  BY <1>1, <1>2 DEF LeaseInv

LEMMA LeaseInvStep == TypeOK /\ LeaseInv /\ [Next]_vars => LeaseInv'
<1> SUFFICES ASSUME TypeOK, LeaseInv, [Next]_vars
             PROVE  LeaseInv'
  OBVIOUS
<1> USE TaskStoreAssumption
<1>1. CASE Tick
  BY <1>1, KeepLeaseInv DEF Tick, storeVars, keepLease, LeaseInv, HandoffFreesLease
<1>2. ASSUME NEW t \in Tasks, Insert(t)
      PROVE  LeaseInv'
  <2>1. keepLease /\ ~Held(t)
        /\ \A u \in Tasks : u # t => status'[u] = status[u] /\ resources'[u] = resources[u]
    BY <1>2 DEF Insert, insertTask, Exists, LeaseInv, HandoffFreesLease, TypeOK
  <2> QED
    BY <2>1, KeepLeaseInv DEF LeaseInv, HandoffFreesLease
<1>3. ASSUME NEW t \in Tasks, Redeclare(t), UNCHANGED now
      PROVE  LeaseInv'
  <2>1. keepLease /\ \A u \in Tasks : resources'[u] \subseteq resources[u]
                                       /\ status'[u] = status[u]
    BY <1>3 DEF Redeclare, updateTask, TypeOK
  <2> QED
    BY <2>1, KeepLeaseInv DEF LeaseInv, HandoffFreesLease
<1>4. ASSUME NEW t \in Tasks, deleteTask(t), UNCHANGED now
      PROVE  LeaseInv'
  BY <1>4, FreeLeaseInv DEF deleteTask, TypeOK
<1>5. ASSUME NEW t \in Tasks, NEW a \in Agents, NEW s \in Sessions,
             NEW ttl \in TTLs, NEW at \in 0..now, Claim(t, a, s, ttl, at)
      PROVE  LeaseInv'
  <2>1. /\ status[t] \in CLAIMABLE_STATUSES /\ status' = status
        /\ resources' = resources
        /\ \A r \in resources[t] : lock[r] = NONE
        /\ lease'[t].session = s
        /\ \A u \in Tasks : u # t => lease'[u] = lease[u]
        /\ lock' = [r \in Resources |-> IF r \in resources[t] THEN t ELSE lock[r]]
    BY <1>5 DEF Claim, claimTask, ResourcesFree, TypeOK
  <2>2. Held(t)'
    BY <2>1 DEF Held, NoLease
  <2>3. ASSUME NEW r \in Resources, lock'[r] # NONE
        PROVE  lease'[lock'[r]] # NoLease
    <3>1. CASE r \in resources[t]
      <4>1. lock'[r] = t
        BY <3>1, <2>1
      <4> QED
        BY <4>1, <2>2 DEF Held
    <3>2. CASE r \notin resources[t]
      <4>1. lock'[r] = lock[r] /\ lock[r] \in Tasks /\ Held(lock[r])
        BY <3>2, <2>1, <2>3 DEF TypeOK, LeaseInv, LockLeaseAgreement
      <4> QED
        BY <4>1, <2>1, <2>2 DEF Held
    <3> QED
      BY <3>1, <3>2
  <2>4. ASSUME NEW u \in Tasks, Held(u)', NEW r \in resources'[u]
        PROVE  lock'[r] = u
    <3>1. r \in Resources
      BY <2>1, <2>4 DEF TypeOK
    <3>2. CASE u = t
      BY <3>1, <3>2, <2>1, <2>4
    <3>3. CASE u # t
      <4>1. Held(u) /\ lock[r] = u /\ u # NONE
        BY <3>3, <2>1, <2>4 DEF LeaseInv, LockLeaseAgreement, Held
      <4> QED
        BY <4>1, <3>1, <2>1
    <3> QED
      BY <3>2, <3>3
  <2>5. HandoffFreesLease'
    BY <2>1 DEF LeaseInv, HandoffFreesLease, Held, CLAIMABLE_STATUSES
  <2>6. LockLeaseAgreement'
    BY <2>3, <2>4 DEF LockLeaseAgreement, Held
  <2> QED
    BY <2>5, <2>6 DEF LeaseInv
<1>6. ASSUME NEW t \in Tasks, NEW s \in Sessions, NEW ttl \in TTLs,
             Heartbeat(t, s, ttl)
      PROVE  LeaseInv'
  <2>1. /\ status' = status /\ resources' = resources /\ lock' = lock
        /\ Held(t) /\ Held(t)'
        /\ \A u \in Tasks : u # t => lease'[u] = lease[u]
    BY <1>6 DEF Heartbeat, heartbeat, TypeOK, Held, NoLease, Lease
  <2> QED
    BY <2>1 DEF LeaseInv, LockLeaseAgreement, HandoffFreesLease, Held, TypeOK
<1>7. ASSUME NEW t \in Tasks, NEW s \in Sessions, Release(t, s)
      PROVE  LeaseInv'
  BY <1>7, FreeLeaseInv DEF Release, releaseLease
<1>8. ASSUME NEW t \in Tasks, NEW a \in Agents, ForceRelease(t, a)
      PROVE  LeaseInv'
  BY <1>8, FreeLeaseInv DEF ForceRelease, forceReleaseLease
<1>9. ASSUME NEW t \in Tasks, BootRelease(t)
      PROVE  LeaseInv'
  BY <1>9, FreeLeaseInv DEF BootRelease, releaseOnBoot
<1>10. ASSUME NEW t \in Tasks, Reap(t)
       PROVE  LeaseInv'
  BY <1>10, FreeLeaseInv DEF Reap, reapExpiredLease, TypeOK
<1>11. ASSUME NEW t \in Tasks, NEW to \in STATES,
              NEW s \in Sessions \cup {NONE}, NEW rel \in BOOLEAN,
              Transition(t, to, s, rel)
       PROVE  LeaseInv'
  <2>1. /\ resources' = resources /\ status'[t] = to
        /\ \A u \in Tasks : u # t => status'[u] = status[u]
    BY <1>11 DEF Transition, transition, TypeOK
  <2>2. CASE rel \/ to \in LEASE_FREEING_STATES
    BY <1>11, <2>1, <2>2, FreeLeaseInv DEF Transition, transition
  <2>3. CASE ~(rel \/ to \in LEASE_FREEING_STATES)
    <3>1. keepLease
      BY <1>11, <2>3 DEF Transition, transition
    <3>2. to # "absent"
      BY DEF STATES
    <3> QED
      BY <3>1, <3>2, <2>1, <2>3, KeepLeaseInv DEF LeaseInv, HandoffFreesLease,
                                              LEASE_FREEING_STATES
  <2> QED
    BY <2>2, <2>3
<1>12. CASE UNCHANGED vars
  BY <1>12 DEF vars, LeaseInv, LockLeaseAgreement, HandoffFreesLease, Held
<1> QED
  BY <1>1, <1>2, <1>3, <1>4, <1>5, <1>6, <1>7, <1>8, <1>9, <1>10, <1>11, <1>12
     DEF Next, RestWrite

LEMMA LeaseInvariant == Spec => [](TypeOK /\ LeaseInv)
<1>1. Init => LeaseInv
  BY TaskStoreAssumption DEF Init, LeaseInv, LockLeaseAgreement, HandoffFreesLease, Held
<1> QED
  BY <1>1, LeaseInvStep, TypeCorrect, PTL DEF Spec

\* Locks follow leases: no orphan lock row, no leased task without its locks.
THEOREM LocksFollowLeases == Spec => []LockLeaseAgreement
BY LeaseInvariant, PTL DEF LeaseInv

\* No lease outlives the work: in review, done and blocked tasks have none.
THEOREM NoLeaseAfterHandoff == Spec => []HandoffFreesLease
BY LeaseInvariant, PTL DEF LeaseInv

\* Two leased tasks never share a resource: both would be named by the one
\* lock row of that resource.
THEOREM NoSharedResource == Spec => []ResourceExclusion
<1>1. LeaseInv => ResourceExclusion
  <2> SUFFICES ASSUME LeaseInv, NEW t \in Tasks, NEW u \in Tasks, t # u,
                      Held(t), Held(u), NEW r \in resources[t] \cap resources[u]
               PROVE  FALSE
    BY DEF ResourceExclusion
  <2> QED
    BY DEF LeaseInv, LockLeaseAgreement
<1> QED
  BY <1>1, LeaseInvariant, PTL
-----------------------------------------------------------------------------
\* The reaper writes "blocked" without asking the state machine; the move is
\* legal all the same, because a leased task is never done (LeaseInv).
LEMMA StatusStep ==
  ASSUME TypeOK, LeaseInv, [Next]_vars, NEW t \in Tasks,
         status[t] # "absent", status'[t] # "absent"
  PROVE  isLegalTransition(status[t], status'[t])
<1>1. status[t] \in STATES
  BY DEF TypeOK
<1>2. CASE status'[t] = status[t]
  BY <1>1, <1>2 DEF isLegalTransition
<1>3. ASSUME NEW u \in Tasks, Reap(u)
      PROVE  isLegalTransition(status[t], status'[t])
  <2>1. CASE t # u \/ status' = status
    <3>1. status'[t] = status[t]
      BY <1>3, <2>1 DEF Reap, reapExpiredLease, TypeOK
    <3> QED
      BY <3>1, <1>2
  <2>2. CASE t = u /\ status' # status
    <3>1. status'[t] = "blocked" /\ status[t] # "done" /\ Held(t)
      BY <1>3, <2>2 DEF Reap, reapExpiredLease, Expired, Stalled, TypeOK
    <3>2. status[t] # "blocked"
      BY <3>1 DEF LeaseInv, HandoffFreesLease
    <3> QED
      BY <1>1, <3>1, <3>2 DEF isLegalTransition, STATES, TRANSITIONS
  <2> QED
    BY <2>1, <2>2
<1>4. ASSUME NEW u \in Tasks, NEW to \in STATES,
             NEW s \in Sessions \cup {NONE}, NEW rel \in BOOLEAN,
             Transition(u, to, s, rel)
      PROVE  isLegalTransition(status[t], status'[t])
  <2>1. CASE t = u
    BY <1>4, <2>1 DEF Transition, transition, assertTransition, TypeOK
  <2>2. CASE t # u
    <3>1. status'[t] = status[t]
      BY <1>4, <2>2 DEF Transition, transition, TypeOK
    <3> QED
      BY <3>1, <1>2
  <2> QED
    BY <2>1, <2>2
<1>5. ASSUME NEW u \in Tasks, Insert(u) \/ RestWrite(u)
      PROVE  status'[t] = status[t]
  BY <1>5 DEF Insert, insertTask, RestWrite, Redeclare, updateTask, deleteTask,
              Exists, TypeOK
<1>6. CASE Tick \/ UNCHANGED vars
  BY <1>6, <1>2 DEF Tick, storeVars, vars
<1>7. ASSUME NEW u \in Tasks,
             \/ \E a \in Agents, s \in Sessions, ttl \in TTLs, at \in 0..now :
                  Claim(u, a, s, ttl, at)
             \/ \E s \in Sessions, ttl \in TTLs : Heartbeat(u, s, ttl)
             \/ \E s \in Sessions : Release(u, s)
             \/ \E a \in Agents : ForceRelease(u, a)
             \/ BootRelease(u)
      PROVE  status'[t] = status[t]
  BY <1>7 DEF Claim, claimTask, Heartbeat, heartbeat, Release, releaseLease,
              ForceRelease, forceReleaseLease, BootRelease, releaseOnBoot
<1> QED
  BY <1>2, <1>3, <1>4, <1>5, <1>6, <1>7 DEF Next

\* Every status change of a row is a move of the state machine.
THEOREM StatusFollowsMachine == Spec => StatusStepsLegal
<1>1. TypeOK /\ LeaseInv /\ [Next]_vars
        => [\A t \in Tasks :
              status[t] # "absent" /\ status'[t] # "absent"
                => isLegalTransition(status[t], status'[t])]_vars
  BY StatusStep
<1> QED
  BY <1>1, LeaseInvariant, PTL DEF Spec, StatusStepsLegal
-----------------------------------------------------------------------------
\* Which store steps move a lease, and how: a claim by a session that finds the
\* task unleased, expired or its own; a renewal by the holder; an end.
LEMMA LeaseStep ==
  ASSUME TypeOK, [Next]_vars
  PROVE  \/ UNCHANGED <<lease, lock>> /\ now' = now
         \/ Tick
         \/ \E t \in Tasks : Held(t) /\ freeLease(t) /\ now' = now
         \/ \E t \in Tasks : ~Held(t) /\ freeLease(t) /\ now' = now
         \/ \E t \in Tasks, a \in Agents, s \in Sessions, ttl \in TTLs, at \in 0..now :
              Claim(t, a, s, ttl, at)
         \/ \E t \in Tasks, s \in Sessions, ttl \in TTLs : Heartbeat(t, s, ttl)
<1>1. ASSUME NEW t \in Tasks,
             \/ (deleteTask(t) /\ UNCHANGED now) \/ BootRelease(t) \/ Reap(t)
             \/ \E s \in Sessions : Release(t, s)
             \/ \E a \in Agents : ForceRelease(t, a)
      PROVE  freeLease(t) /\ now' = now
  BY <1>1 DEF deleteTask, BootRelease, releaseOnBoot, Reap, reapExpiredLease,
              Release, releaseLease, ForceRelease, forceReleaseLease
<1>2. ASSUME NEW t \in Tasks, Insert(t) \/ (Redeclare(t) /\ UNCHANGED now)
      PROVE  UNCHANGED <<lease, lock>> /\ now' = now
  BY <1>2 DEF Insert, insertTask, Redeclare, updateTask, keepLease
<1>3. ASSUME NEW t \in Tasks, NEW to \in STATES, NEW s \in Sessions \cup {NONE},
             NEW rel \in BOOLEAN, Transition(t, to, s, rel)
      PROVE  (UNCHANGED <<lease, lock>> \/ freeLease(t)) /\ now' = now
  BY <1>3 DEF Transition, transition, keepLease
<1> QED
  BY <1>1, <1>2, <1>3 DEF Next, RestWrite, vars

\* Freeing the lease of a task that has none changes neither leases nor locks.
LEMMA FreeNothing ==
  ASSUME TypeOK, LeaseInv, NEW t \in Tasks, ~Held(t), freeLease(t)
  PROVE  UNCHANGED <<lease, lock>>
<1>1. lease' = lease
  BY DEF TypeOK, Held, freeLease, Freed
<1>2. \A r \in Resources : lock[r] # t
  BY TaskStoreAssumption DEF LeaseInv, LockLeaseAgreement
<1> QED
  BY <1>1, <1>2 DEF TypeOK, freeLease, Unlocked

\* A live lease never passes straight from one session to another.
THEOREM LiveLeaseNotStolen == Spec => NoLeaseTheft
<1>1. ASSUME TypeOK, [Next]_vars, NEW t \in Tasks, Live(t), lease'[t] # NoLease
      PROVE  lease'[t].session = lease[t].session
  <2>1. CASE \E u \in Tasks, a \in Agents, s \in Sessions, ttl \in TTLs, at \in 0..now :
               Claim(u, a, s, ttl, at)
    <3>1. PICK u \in Tasks, a \in Agents, s \in Sessions, ttl \in TTLs, at \in 0..now :
            /\ ~(lease[u].expires > at /\ lease[u].session # s)
            /\ lease' = [lease EXCEPT ![u] =
                           [owner |-> a, session |-> s, expires |-> at + ttl]]
      BY <2>1 DEF Claim, claimTask, LeasedToOther
    <3>2. CASE t = u
      <4>1. lease[t].expires \in Nat
        BY <1>1 DEF TypeOK, Lease, NoLease
      <4>2. lease[t].expires > at
        BY <1>1, <4>1 DEF Live, TypeOK
      <4>3. lease'[t].session = s
        BY <1>1, <3>1, <3>2 DEF TypeOK
      <4> QED
        BY <3>1, <3>2, <4>2, <4>3
    <3>3. CASE t # u
      BY <1>1, <3>1, <3>3 DEF TypeOK
    <3> QED
      BY <3>2, <3>3
  <2>2. CASE \E u \in Tasks, s \in Sessions, ttl \in TTLs : Heartbeat(u, s, ttl)
    BY <1>1, <2>2 DEF Heartbeat, heartbeat, TypeOK
  <2>3. CASE \E u \in Tasks : freeLease(u)
    BY <1>1, <2>3 DEF freeLease, Freed, TypeOK
  <2>4. CASE lease' = lease
    BY <2>4
  <2> QED
    BY <1>1, <2>1, <2>2, <2>3, <2>4, LeaseStep DEF Tick, storeVars
<1>2. TypeOK /\ [Next]_vars
        => [\A t \in Tasks :
              Live(t) /\ lease'[t] # NoLease
                => lease'[t].session = lease[t].session]_vars
  BY <1>1
<1> QED
  BY <1>2, TypeCorrect, PTL DEF Spec, NoLeaseTheft

\* A store step is a step of the lease lock, or changes none of its state.
LEMMA LeaseLockStep ==
  TypeOK /\ LeaseInv /\ [Next]_vars => [LL!Next]_(LL!lvars)
<1> SUFFICES ASSUME TypeOK, LeaseInv, [Next]_vars
             PROVE  [LL!Next]_(LL!lvars)
  OBVIOUS
<1> USE TaskStoreAssumption DEF LL!lvars, holderOf, liveNow, Live
<1>1. CASE UNCHANGED <<lease, lock>> /\ now' = now
  BY <1>1
<1>2. CASE Tick
  <2>1. PICK lapsed \in SUBSET Tasks :
          lapsed = {t \in Tasks : lease[t].expires <= now'}
    OBVIOUS
  <2>2. LL!Expire(lapsed)
    BY <1>2, <2>1 DEF Tick, storeVars, LL!Expire, TypeOK, Lease, NoLease
  <2> QED
    BY <2>2 DEF LL!Next
<1>3. ASSUME NEW t \in Tasks, Held(t), freeLease(t), now' = now
      PROVE  LL!Next
  <2>1. holderOf[t] # NONE
    BY <1>3 DEF TypeOK, Lease, Held
  <2>2. holderOf' = [holderOf EXCEPT ![t] = NONE]
    BY <1>3 DEF freeLease, Freed, NoLease, TypeOK
  <2>3. lease' = [lease EXCEPT ![t] = NoLease] /\ NoLease.expires = 0
    BY <1>3 DEF freeLease, Freed, NoLease
  <2>4. ASSUME NEW u \in Tasks
        PROVE  u \in liveNow' <=> u \in liveNow \ {t}
    BY <1>3, <2>3 DEF TypeOK
  <2>5. liveNow' = liveNow \ {t}
    BY <2>4
  <2>6. lock' = [r \in Resources |-> IF lock[r] = t THEN NONE ELSE lock[r]]
    BY <1>3 DEF freeLease, Unlocked
  <2>7. LL!Free(t)
    BY <2>1, <2>2, <2>5, <2>6 DEF LL!Free
  <2> QED
    BY <2>7 DEF LL!Next
<1>4. ASSUME NEW t \in Tasks, NEW a \in Agents, NEW s \in Sessions, NEW ttl \in TTLs,
             NEW at \in 0..now, Claim(t, a, s, ttl, at)
      PROVE  LL!Next
  <2>1. /\ ~(lease[t].expires > at /\ lease[t].session # s)
        /\ lease' = [lease EXCEPT ![t] =
                       [owner |-> a, session |-> s, expires |-> at + ttl]]
        /\ now' = now
    BY <1>4 DEF Claim, claimTask, LeasedToOther
  <2>2. lease'[t].session = s /\ lease'[t].expires = at + ttl
        /\ \A u \in Tasks : u # t => lease'[u] = lease[u]
    BY <2>1 DEF TypeOK
  <2>3. holderOf' = [holderOf EXCEPT ![t] = s]
    BY <2>2
  <2>4. liveNow' \in {liveNow \cup {t}, liveNow \ {t}}
    <3>1. CASE at + ttl > now
      <4>1. ASSUME NEW u \in Tasks
            PROVE  u \in liveNow' <=> u \in liveNow \cup {t}
        BY <2>1, <2>2, <3>1
      <4> QED
        BY <4>1
    <3>2. CASE ~(at + ttl > now)
      <4>1. ASSUME NEW u \in Tasks
            PROVE  u \in liveNow' <=> u \in liveNow \ {t}
        BY <2>1, <2>2, <3>2
      <4> QED
        BY <4>1
    <3> QED
      BY <3>1, <3>2
  <2>5. t \notin liveNow \/ holderOf[t] = s
    BY <2>1 DEF TypeOK, Lease, NoLease
  <2>6. PICK needs \in SUBSET Resources : needs = resources[t]
    BY DEF TypeOK
  <2>7. LL!Acquire(t, s, needs)
    BY <1>4, <2>3, <2>4, <2>5, <2>6 DEF Claim, claimTask, ResourcesFree, LL!Acquire
  <2> QED
    BY <2>7 DEF LL!Next
<1>5. ASSUME NEW t \in Tasks, NEW s \in Sessions, NEW ttl \in TTLs,
             Heartbeat(t, s, ttl)
      PROVE  UNCHANGED LL!lvars
  BY <1>5 DEF Heartbeat, heartbeat, TypeOK
<1> QED
  BY <1>1, <1>2, <1>3, <1>4, <1>5, LeaseStep, FreeNothing

\* The task store implements the lease lock.
THEOREM StoreImplementsLeaseLock == Spec => ImplementsLeaseLock
<1>1. Init => LL!Init
  BY DEF Init, LL!Init, holderOf, liveNow, Live, NoLease
<1> QED
  BY <1>1, LeaseLockStep, LeaseInvariant, PTL DEF Spec, ImplementsLeaseLock, LL!Spec
=============================================================================
