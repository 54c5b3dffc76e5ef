------------------------------- MODULE Intake -------------------------------
(***************************************************************************)
(* Work that comes from outside: the public REST API (api/v1/tasks.mjs)    *)
(* and the Azure DevOps sync (azure-devops-source.mjs), which write the    *)
(* task rows of TaskStore beside the agents, the runner and the reaper.    *)
(*                                                                         *)
(* A PATCH reads the row, awaits the request's body, moves the task, and   *)
(* then has upsertTask read the row again and write it back.  A sync pulls *)
(* the work items one by one and then overwrites the rows whose status is  *)
(* not the one Azure DevOps' state maps to.  Both run in the daemon, whose *)
(* writes other processes' writes can fall between.                        *)
(*                                                                         *)
(* upsertTask encodes the list columns it is given as JSON.  The sync      *)
(* gives it a row's columns, encoded already: depth counts the encodings   *)
(* too many.  A column encoded once too often reads back as a string, and  *)
(* its characters are what a claim locks.  Tags, titles and criteria are   *)
(* left out, and so are dependencies, which neither source declares.       *)
(***************************************************************************)
EXTENDS TaskStore

CONSTANTS
  AdoTasks,      \* the ids ADO-<n> of the work items the query finds
  AdoStates,     \* the work item states that occur
  Brackets,      \* "[" and "]": what an empty list, encoded twice, locks
  MaxEdits,      \* bound: edits of work items and failed requests
  MaxMoves       \* bound: API requests and moves by agents and the founder

ASSUME IntakeAssumption ==
  /\ AdoTasks \subseteq Tasks \ ApiTasks
  /\ Brackets \subseteq Resources
  /\ {MaxEdits, MaxMoves} \subseteq Nat

VARIABLES
  ado,           \* Azure DevOps: the state of each work item
  sync,          \* the sync under way: what is still to pull, what was pulled
  depth,         \* encodings too many of a row's list columns (2: two or more)
  sourceless,    \* API ids whose row has lost its source
  patch,         \* the PATCH under way
  edits, moves

intakeVars == <<ado, sync, depth, sourceless, patch, edits, moves>>
ivars == <<vars, intakeVars>>

IdleSync == [phase |-> "idle", todo |-> {}, items |-> [t \in AdoTasks |-> NONE]]
IdlePatch == [phase |-> "idle", task |-> NONE, seen |-> NONE, to |-> NONE]

mapAdoState_raw(state) == state
\* mapAdoState; "archived" is not a status of the state machine.
mapAdoState(state) ==
  CASE state \in {"active", "doing", "in progress"} -> "designing"
    [] state \in {"resolved", "in review"}          -> "in-review"
    [] state \in {"done", "closed"}                 -> "done"
    [] state = "removed"                            -> "archived"
    [] OTHER                                        -> "proposed"

-----------------------------------------------------------------------------
IInit ==
  /\ Init
  /\ ado \in [AdoTasks -> AdoStates]
  /\ sync = IdleSync
  /\ depth = [t \in Tasks |-> 0]
  /\ sourceless = {}
  /\ patch = IdlePatch
  /\ edits = 0 /\ moves = 0

\* pullWorkItems: the query, then one request per item, each of which may fail.
StartSync ==
  /\ sync.phase = "idle"
  /\ sync' = [phase |-> "pull", todo |-> AdoTasks, items |-> [t \in AdoTasks |-> NONE]]
  /\ UNCHANGED <<vars, ado, depth, sourceless, patch, edits, moves>>

PullItem(t) ==
  /\ sync.phase = "pull" /\ t \in sync.todo
  /\ sync' = [phase |-> "pull", todo |-> sync.todo \ {t},
              items |-> [sync.items EXCEPT ![t] = ado[t]]]
  /\ UNCHANGED <<vars, ado, depth, sourceless, patch, edits, moves>>

\* An item whose request fails is left out of the pull.
PullFails(t) ==
  /\ sync.phase = "pull" /\ t \in sync.todo
  /\ edits < MaxEdits /\ edits' = edits + 1
  /\ sync' = [phase |-> "pull", todo |-> sync.todo \ {t}, items |-> sync.items]
  /\ UNCHANGED <<vars, ado, depth, sourceless, patch, moves>>

Pulled ==
  /\ sync.phase = "pull" /\ sync.todo = {}
  /\ sync' = [phase |-> "apply", todo |-> {t \in AdoTasks : sync.items[t] # NONE},
              items |-> sync.items]
  /\ UNCHANGED <<vars, ado, depth, sourceless, patch, edits, moves>>

\* One item: created, overwritten (the lease stays as it is), or skipped.
Overwritten_createOnly(t) == FALSE
Overwritten(t) == Exists(t) /\ status[t] # mapAdoState(sync.items[t])
ApplyItem(t) ==
  /\ sync.phase = "apply" /\ t \in sync.todo
  /\ sync' = [phase |-> "apply", todo |-> sync.todo \ {t}, items |-> sync.items]
  /\ \/ /\ insertTask(t, mapAdoState(sync.items[t]), 3, {})
        /\ UNCHANGED depth
     \/ /\ Overwritten(t)
        /\ updateTask(t, mapAdoState(sync.items[t]), Brackets)
        /\ depth' = [depth EXCEPT ![t] = IF @ = 2 THEN 2 ELSE @ + 1]
     \/ /\ Exists(t) /\ ~Overwritten(t)
        /\ UNCHANGED <<storeVars, depth>>
  /\ UNCHANGED <<now, ado, sourceless, patch, edits, moves>>

EndSync ==
  /\ sync.phase = "apply" /\ sync.todo = {}
  /\ sync' = IdleSync
  /\ UNCHANGED <<vars, ado, depth, sourceless, patch, edits, moves>>

Sync ==
  \/ StartSync \/ Pulled \/ EndSync
  \/ \E t \in AdoTasks : PullItem(t) \/ ApplyItem(t)

\* Somebody edits a work item; the runner writes a pull request's link back.
AdoEdit(t, state) ==
  /\ edits < MaxEdits /\ edits' = edits + 1
  /\ ado' = [ado EXCEPT ![t] = state]
  /\ UNCHANGED <<vars, sync, depth, sourceless, patch, moves>>
pushPrLink(t) ==
  status[t] = "in-review" /\ "resolved" \in AdoStates /\ AdoEdit(t, "resolved")

-----------------------------------------------------------------------------
\* PATCH: the row is read, then the body is awaited.
PatchRead(t) ==
  /\ patch.phase = "idle" /\ Exists(t)
  /\ moves < MaxMoves /\ moves' = moves + 1
  /\ patch' = [phase |-> "body", task |-> t, seen |-> status[t], to |-> NONE]
  /\ UNCHANGED <<vars, ado, sync, depth, sourceless, edits>>

\* The body asks for no status, or for one; a move the store refuses is a 400.
PatchMoves(to) ==
  LET t == patch.task IN
  /\ patch.phase = "body"
  /\ IF to \in {NONE, patch.seen}
     THEN patch' = [patch EXCEPT !.phase = "upsert"] /\ UNCHANGED storeVars
     ELSE \/ transition(t, to, NONE, FALSE) /\ patch' = [patch EXCEPT !.phase = "upsert"]
          \/ /\ ~(Exists(t) /\ assertTransition(t, to))
             /\ patch' = IdlePatch /\ UNCHANGED storeVars
  /\ UNCHANGED <<now, ado, sync, depth, sourceless, edits, moves>>

\* upsertTask reads the row again.
PatchUpserts ==
  /\ patch.phase = "upsert"
  /\ patch' = [patch EXCEPT !.phase = "write", !.to = status[patch.task]]
  /\ UNCHANGED <<vars, ado, sync, depth, sourceless, edits, moves>>

\* It writes the status it read and, none being passed, empty lists; a row that
\* is gone by then is not updated, and one that was gone before is inserted
\* anew, without a source.
PatchWrites ==
  LET t == patch.task IN
  /\ patch.phase = "write"
  /\ \/ /\ patch.to # "absent" /\ updateTask(t, patch.to, {})
        /\ depth' = [depth EXCEPT ![t] = 0] /\ UNCHANGED sourceless
     \/ /\ patch.to # "absent" /\ ~Exists(t)
        /\ UNCHANGED <<storeVars, depth, sourceless>>
     \/ /\ patch.to = "absent" /\ insertTask(t, "proposed", 3, {})
        /\ sourceless' = sourceless \cup {t} /\ UNCHANGED depth
  /\ patch' = IdlePatch
  /\ UNCHANGED <<now, ado, sync, edits, moves>>

\* POST makes a proposed row under a new id; an id is not given out twice.
Post(t) ==
  /\ t \in ApiTasks /\ patch.task # t
  /\ moves < MaxMoves /\ moves' = moves + 1
  /\ Insert(t)
  /\ UNCHANGED <<ado, sync, depth, sourceless, patch, edits>>
ApiDelete(t) ==
  /\ t \notin sourceless
  /\ deleteTask(t)
  /\ UNCHANGED <<now, intakeVars>>

-----------------------------------------------------------------------------
\* A claim by id over the bus.  A list encoded once too often is claimed with
\* its characters for locks; twice, it holds a quote twice and the claim throws.
Others(t) ==
  \/ /\ depth[t] < 2 /\ moves < MaxMoves /\ moves' = moves + 1
     /\ \E a \in Agents, s \in Sessions, ttl \in TTLs : Claim(t, a, s, ttl, now)
     /\ UNCHANGED <<ado, sync, depth, sourceless, patch, edits>>
  \/ /\ moves < MaxMoves /\ moves' = moves + 1
     /\ \E to \in STATES : Transition(t, to, NONE, FALSE)
     /\ UNCHANGED <<ado, sync, depth, sourceless, patch, edits>>
  \/ \E s \in Sessions : Release(t, s) /\ UNCHANGED intakeVars
Reaped(t) == Reap(t) /\ UNCHANGED intakeVars
Ticked == Tick /\ UNCHANGED intakeVars

INext ==
  \/ Sync
  \/ \E t \in AdoTasks : PullFails(t) \/ pushPrLink(t)
  \/ \E t \in AdoTasks, state \in AdoStates : AdoEdit(t, state)
  \/ \E t \in Tasks : PatchRead(t)
  \/ \E to \in STATES \cup {NONE} : PatchMoves(to)
  \/ PatchUpserts \/ PatchWrites
  \/ \E t \in Tasks : Post(t) \/ ApiDelete(t) \/ Others(t) \/ Reaped(t)
  \/ Ticked

ISpec == IInit /\ [][INext]_ivars

\* The watchdog syncs and reaps again and again, a PATCH whose body came goes
\* on, and time passes.
IFairSpec ==
  ISpec /\ WF_ivars(Sync) /\ WF_ivars(Ticked) /\ WF_ivars(PatchUpserts \/ PatchWrites)
        /\ \A t \in Tasks : WF_ivars(Reaped(t))

-----------------------------------------------------------------------------
\* The columns keep their types, with the status the sync brings from outside
\* the state machine; sourceless rows are API rows.
ITypeOK ==
  /\ status \in [Tasks -> STATES \cup {"absent", "archived"}]
  /\ \A t \in Tasks : status[t] = "archived" => t \in AdoTasks
  /\ lease \in [Tasks -> Lease]
  /\ depth \in [Tasks -> 0..2]
  /\ \A t \in Tasks : depth[t] # 0 => t \in AdoTasks
  /\ sourceless \subseteq Tasks

\* Rows may be overwritten, deleted and made again under a lease, and their
\* declared resources replaced: even so no lock row is left without a leased
\* task to free it.
LocksHaveHolders == \A r \in Resources : lock[r] # NONE => Held(lock[r])

\* The sync may put a task past a handoff under a live lease, which transition
\* never does; the reaper's branch for "leftover leases" ends it all the same.
LeftoverLeaseEnds ==
  \A t \in Tasks :
    Held(t) /\ status[t] \in {"in-review", "done"}
      ~> ~(Held(t) /\ status[t] \in {"in-review", "done"})

\* Once nobody edits a work item or moves its task any more, the board shows
\* what Azure DevOps shows, however stale the pulls before were.
SyncSettles ==
  <>[](\A t \in AdoTasks : status[t] = mapAdoState(ado[t]))

-----------------------------------------------------------------------------
\* What the code says of itself, and does not keep.

\* nextEligibleTask answers with the next task, or none: no claimable row it
\* scans has a depends_on that is not a list (schema.sql: "JSON array of task
\* ids that must be 'done' first"), at which it throws.
ScanAnswers ==
  \A t \in Tasks : status[t] \in CLAIMABLE_STATUSES /\ ~Live(t) => depth[t] = 0
=============================================================================
