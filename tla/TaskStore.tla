----------------------------- MODULE TaskStore -----------------------------
(***************************************************************************)
(* state.mjs: the only writer of task state.  An operation that returns a  *)
(* refusal, or throws and rolls back, changes nothing and is not an        *)
(* action.  Every other operation is one BEGIN IMMEDIATE transaction (or   *)
(* one statement) on the SQLite store, and one action; upsertTask of a     *)
(* known id reads the row and writes it back in two statements, which is   *)
(* one action here and is taken apart in the module Intake.                *)
(*                                                                         *)
(* Titles, notes, owners, priorities, specs and the audit rows are         *)
(* abstracted: no property here tells them apart.  The governance columns  *)
(* and the verify-attempt counter are in the modules that read them.       *)
(***************************************************************************)
EXTENDS Integers, TaskMachine

CONSTANTS
  Tasks,         \* ids a task row may have
  ApiTasks,      \* the ids created over the REST API (source = 'api')
  Agents,        \* lease_owner values
  Sessions,      \* lease_session values
  Resources,     \* directories and contracts a task may lock
  NONE,          \* SQL NULL
  Complexities,  \* complexities a seeded board may give a task
  TTLs,          \* lease lengths callers pass, in clock ticks
  RemediateAt,   \* reaps before complexity is raised (3 in the code)
  BlockAt,       \* reaps before the task is auto-blocked (5 in the code)
  MaxTime,       \* bound: the clock, and every lease, stops here
  MaxReaps       \* bound: a task reaped this often is not claimed again

ASSUME TaskStoreAssumption ==
  /\ ApiTasks \subseteq Tasks
  /\ NONE \notin Tasks \cup Agents \cup Sessions
  /\ Complexities \subseteq 1..5
  /\ TTLs \subseteq Nat \ {0}
  /\ RemediateAt \in Nat \ {0}
  /\ BlockAt \in Nat \ {0}
  /\ MaxTime \in Nat
  /\ MaxReaps \in Nat

VARIABLES
  status,        \* tasks.status, or "absent" when there is no row
  complexity,    \* tasks.complexity
  resources,     \* tasks.resources, the locks a claim must take
  reapCount,     \* tasks.reap_count
  lease,         \* the lease columns of a task
  lock,          \* resource_locks: resource -> task_id
  now            \* the wall clock

storeVars == <<status, complexity, resources, reapCount, lease, lock>>
vars == <<status, complexity, resources, reapCount, lease, lock, now>>

NoLease == [owner |-> NONE, session |-> NONE, expires |-> 0]
Lease == [owner : Agents, session : Sessions, expires : Nat] \cup {NoLease}

Exists(t) == status[t] # "absent"
Held(t)   == lease[t] # NoLease
Live(t)   == lease[t].expires > now

LEASE_FREEING_STATES_notReview == {"done", "blocked"}
LEASE_FREEING_STATES == {"in-review", "done", "blocked"}

-----------------------------------------------------------------------------
\* freeLease: clear the lease columns and delete the task's lock rows.
Freed(t) == [lease EXCEPT ![t] = NoLease]
Unlocked_keepsRows(t) == lock
Unlocked(t) == [r \in Resources |-> IF lock[r] = t THEN NONE ELSE lock[r]]
freeLease(t) == lease' = Freed(t) /\ lock' = Unlocked(t)
keepLease == UNCHANGED <<lease, lock>>

\* upsertTask of an unknown id: a row with no lease and a zero reap count.
insertTask(t, st, c, res) ==
  /\ ~Exists(t)
  /\ status' = [status EXCEPT ![t] = st]
  /\ complexity' = [complexity EXCEPT ![t] = c]
  /\ resources' = [resources EXCEPT ![t] = res]
  /\ reapCount' = [reapCount EXCEPT ![t] = 0]
  /\ keepLease

\* upsertTask of a known id writes the declared columns, the status among
\* them, and neither checks the state machine nor looks at the lease.
updateTask(t, st, res) ==
  /\ Exists(t)
  /\ status' = [status EXCEPT ![t] = st]
  /\ resources' = [resources EXCEPT ![t] = res]
  /\ keepLease
  /\ UNCHANGED <<complexity, reapCount>>

\* claimTask's refusals.  A live lease of another session loses the claim, and
\* so does a lock row of another task; a lock row of this very task makes the
\* INSERT violate the primary key, and the transaction rolls back.
LeasedToOther(t, s, at) == lease[t].expires > at /\ lease[t].session # s
ResourcesFree_unchecked(t) == TRUE
ResourcesFree(t) == \A r \in resources[t] : lock[r] = NONE

\* claimTask, the winning branch, with the time `at` its caller read.
claimTask(t, a, s, ttl, at) ==
  /\ Exists(t)
  /\ ~LeasedToOther(t, s, at)
  /\ status[t] \in CLAIMABLE_STATUSES
  /\ ResourcesFree(t)
  /\ lease' = [lease EXCEPT ![t] =
                 [owner |-> a, session |-> s, expires |-> at + ttl]]
  /\ lock' = [r \in Resources |-> IF r \in resources[t] THEN t ELSE lock[r]]
  /\ UNCHANGED <<status, complexity, resources, reapCount>>

heartbeat(t, s, ttl) ==
  /\ lease[t].session = s
  /\ Live(t)
  /\ lease' = [lease EXCEPT ![t] =
                 [owner |-> lease[t].owner, session |-> s, expires |-> now + ttl]]
  /\ UNCHANGED <<status, complexity, resources, reapCount, lock>>

releaseLease(t, s) ==
  /\ lease[t].session = s
  /\ freeLease(t)
  /\ UNCHANGED <<status, complexity, resources, reapCount>>

\* forceReleaseLease looks at the owner only: any session of the agent will do.
forceReleaseLease(t, a) ==
  /\ lease[t].owner = a
  /\ freeLease(t)
  /\ UNCHANGED <<status, complexity, resources, reapCount>>

\* releaseAllLeases at daemon boot: one transaction per leased task.
releaseOnBoot(t) ==
  /\ Held(t)
  /\ freeLease(t)
  /\ UNCHANGED <<status, complexity, resources, reapCount>>

\* reapExpiredLeases: one transaction per expired lease, re-checked inside it.
\* A leftover on handed-off work is freed and not counted as a stall.
Expired_workOnly(t) ==
  Held(t) /\ lease[t].expires <= now /\ status[t] \in CLAIMABLE_STATUSES
Expired_strict(t) == Held(t) /\ lease[t].expires < now
Expired(t) == Held(t) /\ lease[t].expires <= now
Stalled(t) == status[t] \notin {"done", "in-review"}
Remediated_uncapped(t, reaps) == reaps < BlockAt /\ reaps >= RemediateAt
Remediated(t, reaps) ==
  reaps < BlockAt /\ reaps >= RemediateAt /\ complexity[t] < 5
reapExpiredLease(t) ==
  LET reaps == reapCount[t] + 1 IN
  /\ Expired(t)
  /\ freeLease(t)
  /\ reapCount' = IF Stalled(t) THEN [reapCount EXCEPT ![t] = reaps] ELSE reapCount
  /\ status' = IF Stalled(t) /\ reaps >= BlockAt
               THEN [status EXCEPT ![t] = "blocked"] ELSE status
  /\ complexity' = IF Stalled(t) /\ Remediated(t, reaps)
                   THEN [complexity EXCEPT ![t] = @ + 1] ELSE complexity
  /\ UNCHANGED resources

assertTransition(t, to) == isLegalTransition(status[t], to)

\* transition: requireSession is NONE when the caller passes no session.
transition(t, to, requireSession, doRelease) ==
  /\ Exists(t)
  /\ assertTransition(t, to)
  /\ requireSession # NONE => lease[t].session = requireSession
  /\ status' = [status EXCEPT ![t] = to]
  /\ reapCount' = IF to = "done" THEN [reapCount EXCEPT ![t] = 0] ELSE reapCount
  /\ IF doRelease \/ to \in LEASE_FREEING_STATES THEN freeLease(t) ELSE keepLease
  /\ UNCHANGED <<complexity, resources>>

\* DELETE /api/v1/tasks/:id; the lock rows go with the row (ON DELETE CASCADE).
deleteTask(t) ==
  /\ t \in ApiTasks
  /\ Exists(t)
  /\ status' = [status EXCEPT ![t] = "absent"]
  /\ freeLease(t)
  /\ UNCHANGED <<complexity, resources, reapCount>>

-----------------------------------------------------------------------------
Init ==
  /\ status = [t \in Tasks |-> "absent"]
  /\ complexity = [t \in Tasks |-> 3]
  /\ resources = [t \in Tasks |-> {}]
  /\ reapCount = [t \in Tasks |-> 0]
  /\ lease = [t \in Tasks |-> NoLease]
  /\ lock = [r \in Resources |-> NONE]
  /\ now = 0

Tick == now < MaxTime /\ now' = now + 1 /\ UNCHANGED storeVars

\* A board seed inserts a row in any status with any declared resources; the
\* REST API inserts a proposed row that declares none.
Insert(t) ==
  /\ \/ \E st \in STATES, c \in Complexities, res \in SUBSET Resources :
          t \notin ApiTasks /\ insertTask(t, st, c, res)
     \/ t \in ApiTasks /\ insertTask(t, "proposed", 3, {})
  /\ UNCHANGED now

\* PATCH /api/v1/tasks/:id keeps the status and passes no resources, which
\* upsertTask stores as the empty list.
Redeclare_declares(t) == updateTask(t, status[t], Resources)
Redeclare(t) == updateTask(t, status[t], {})

\* The caller reads the clock before it claims, and may claim much later: the
\* runner uses the time its cycle began for every claim of the cycle.
Claim(t, a, s, ttl, at) ==
  /\ at <= now /\ at + ttl <= MaxTime /\ reapCount[t] < MaxReaps
  /\ claimTask(t, a, s, ttl, at)
  /\ UNCHANGED now
Heartbeat(t, s, ttl) ==
  now + ttl <= MaxTime /\ heartbeat(t, s, ttl) /\ UNCHANGED now
Release(t, s) == releaseLease(t, s) /\ UNCHANGED now
ForceRelease(t, a) == forceReleaseLease(t, a) /\ UNCHANGED now
BootRelease(t) == releaseOnBoot(t) /\ UNCHANGED now
Reap(t) == reapExpiredLease(t) /\ UNCHANGED now
Transition(t, to, s, rel) == transition(t, to, s, rel) /\ UNCHANGED now
RestWrite(t) == (Redeclare(t) \/ deleteTask(t)) /\ UNCHANGED now

Next ==
  \/ Tick
  \/ \E t \in Tasks :
       \/ Insert(t) \/ RestWrite(t)
       \/ \E a \in Agents, s \in Sessions, ttl \in TTLs, at \in 0..now :
            Claim(t, a, s, ttl, at)
       \/ \E s \in Sessions, ttl \in TTLs : Heartbeat(t, s, ttl)
       \/ \E s \in Sessions : Release(t, s)
       \/ \E a \in Agents : ForceRelease(t, a)
       \/ BootRelease(t)
       \/ Reap(t)
       \/ \E to \in STATES, s \in Sessions \cup {NONE}, rel \in BOOLEAN :
            Transition(t, to, s, rel)

Spec == Init /\ [][Next]_vars

\* The watchdog interval reaps every expired lease and time passes; nothing
\* else has to happen.
Fairness == WF_vars(Tick) /\ \A t \in Tasks : WF_vars(Reap(t))
FairSpec == Spec /\ Fairness

-----------------------------------------------------------------------------
\* The columns keep their types: a held lease names an owner and a session.
TypeOK ==
  /\ status \in [Tasks -> STATES \cup {"absent"}]
  /\ complexity \in [Tasks -> 1..5]
  /\ resources \in [Tasks -> SUBSET Resources]
  /\ reapCount \in [Tasks -> Nat]
  /\ lease \in [Tasks -> Lease]
  /\ lock \in [Resources -> Tasks \cup {NONE}]
  /\ now \in Nat

\* Leases and locks never come apart, whichever of the six ways ends a lease:
\* a lock row belongs to a leased task, and a leased task has a lock row for
\* every resource it declares (claimTask's "all of its declared resource
\* locks in one transaction, or nothing", freeLease).
LockLeaseAgreement ==
  /\ \A r \in Resources : lock[r] # NONE => Held(lock[r])
  /\ \A t \in Tasks : Held(t) => \A r \in resources[t] : lock[r] = t

\* Two leased tasks never declare a common resource, so two agents never work
\* in the same directory at once (the purpose of resource_locks).
ResourceExclusion ==
  \A t, u \in Tasks :
    t # u /\ Held(t) /\ Held(u) => resources[t] \cap resources[u] = {}

\* No lease survives a handoff: whatever sequence of claims, bounces, reaps
\* and moves led there, a task that is in review, done or blocked (or gone)
\* has no lease left for the watchdog to reap and to count as a stall.
HandoffFreesLease ==
  \A t \in Tasks :
    status[t] \in {"in-review", "done", "blocked", "absent"} => ~Held(t)

\* Every change of an existing task's status is a move of the state machine,
\* the reaper's auto-block, which writes the column directly, included.
StatusStepsLegal ==
  [][\A t \in Tasks :
       status[t] # "absent" /\ status'[t] # "absent"
         => isLegalTransition(status[t], status'[t])]_vars

\* A live lease may be ended, but it never passes straight to another session:
\* two agents racing for a task cannot both believe they won it.
NoLeaseTheft ==
  [][\A t \in Tasks :
       Live(t) /\ lease'[t] # NoLease
         => lease'[t].session = lease[t].session]_vars

\* An agent that falls silent does not keep a task: no session holds a lease
\* for ever (reapExpiredLeases on the watchdog interval).
LeaseEnds ==
  \A t \in Tasks, s \in Sessions :
    lease[t].session = s ~> lease[t].session # s
-----------------------------------------------------------------------------
\* The store implements the lease lock: the holder is the lease's session, and
\* the lease is live while its expiry is ahead of the clock.
holderOf == [t \in Tasks |-> lease[t].session]
liveNow == {t \in Tasks : Live(t)}
LL == INSTANCE LeaseLock WITH holder <- holderOf, live <- liveNow

\* Every operation of the store is a step of the lease lock or changes none of
\* its state ("Holding a live lease === mutual exclusion", schema.sql).
ImplementsLeaseLock == LL!Spec
=============================================================================
