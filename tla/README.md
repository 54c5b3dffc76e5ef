# Models of MeridianOS core

MeridianOS runs AI coding agents over a board of tasks. A daemon plans which
agent works on which task, launches agent processes, verifies and merges what
they hand in, and answers a founder's dashboard, a REST API and agents on a bus.
All of them share one SQLite database. These modules describe how the parts
take turns on that database, and what holds whatever the order.

Every definition is a translation of code under `src/`; `PROJECT.json` gives
the lines. Contents:

1. The system and its parts
2. The modules, and how they correspond to the code
3. The runs, their bounds, and what they show
4. Fairness
5. What is proved, and how
6. Where the code and its comments disagree
7. What is not modelled
8. Plan

## 1. The system and its parts

| Part | State | Operations | Hard parts |
|---|---|---|---|
| Task state machine (`machine.mjs`) | none | the legal moves | every mover has to go through it |
| Task store (`state.mjs`, `schema.sql`, `db.mjs`) | task rows with status, lease and reap count; `resource_locks` | claim, heartbeat, release, forced release, boot release, reap, transition, upsert | six ways end a lease, and each has to free its locks; clocks read long before they are used |
| Runner and router (`runner.mjs`, `router.mjs`, `runlog.mjs`) | cycles in flight, run records, quota holds | plan, claim, launch, recover, record | a plan is carried out over hours; cycles overlap; runs fail after their task moved |
| Agents, bus, launcher (`launcher.mjs`, `bus.mjs`) | processes | moves, handoffs, heartbeats; time-outs | processes of their own, which may outlive the daemon |
| Watchdog (`watchdog.mjs`) | none | reap, forced release on quota | acts beside runs in flight |
| Scheduler (`scheduler.mjs`) | timers | start, tick, run now, shutdown | crash, and boot over leases left behind |
| Verifier (`verify-loop.mjs`, `verifier.mjs`) | check cache (memory), attempts (database) | check, scan, review, merge, send back | overlapping ticks over one cache; GitHub changes in between; restarts |
| Planner and governance (`planner.mjs`, `sensitive.mjs`, `definition-of-ready.mjs`) | notes, sprints, the audit log | hold, release, roll over, plan, accept, design | six phases over one snapshot; crash between two writes |
| Founder's actions (`dashboard/actions.mjs`) | approvals | block, unblock, bounce | two transactions in one action |
| REST API (`api/v1/tasks.mjs`) | task rows | POST, PATCH, DELETE | a row read before an await, written after |
| Azure DevOps sync (`azure-devops-source.mjs`) | task rows | pull, create, overwrite | stale pulls, statuses outside the machine, double encoding |
| Gateway (`gateway/`), budget (`budget.mjs`) | requests in flight, provider keys, the ledger, two readings of its windows | admit, forward, meter, rotate keys; gate the runner | requests in flight together against one cap; seven ways a request ends; windows anchored differently |
| Model choice (`model-router.mjs`, `router.mjs`, `providers.mjs`, `harness-adapters.mjs`, `model-fallback.mjs`) | none beyond the plan; circuits in memory | choose tier, provider and harness; report answers, fall back | chosen when the cycle is planned, looked up again at launch; answers of requests sent before a circuit opened |
| Catalogue of models (`model-registry.mjs`, `model-discovery.mjs`, `pricing-refresh.mjs`) | rows with status and tier | discover, deprecate, price, assign or set a tier | jobs of several processes over one table, waiting for networks |
| Worktrees (`worktree.mjs`, `boot-guard.mjs`) | git worktrees and branches | make, remove, prune at boot, merge | commits that are nowhere else; agents that outlive the daemon |
| Control plane (`control-plane.mjs`) | project rows, processes, restart timers | start, stop, restart, delete, reconcile | calls that overlap exits and each other |
| Cloud (`cloud/`) | reports, pushes and previews in two databases, the agent's cursor | report, push, preview and confirm, apply | reports and answers lost or late; either side dies |
| Accounts (`auth/user-store.mjs`, `dashboard/management-access.mjs`) | accounts, invitations, memberships | invite, accept, supersede, revoke | three writes without a transaction |
| API keys (`auth/api-tokens.mjs`) | key and lifecycle rows | create, revoke, two rotations | two processes, check before transaction |
| Licensing (`licensing/`) | licence rows, event log, tier cache | payment events, validate, refresh | events delivered again, late, out of order, after a crash |
| Management state (`dashboard/management-router.mjs`, `management-state.mjs`) | maps shared by all tenants, one saved row for each | load, answer, save, test an integration | one set of maps, awaited while held |
| Webhooks, rate limiter (`api/webhooks.mjs`, `api/rate-limiter.mjs`) | endpoints, delivery logs; request times by key | deliver, retry, replay; admit or refuse | a failure count read before an await |
| Alerts, escalations (`alerts.mjs`, `escalation-push.mjs`) | rules, occurrences, ids posted in a session | evaluate, notify, acknowledge, push | evaluations and ticks overlap while a channel is slow |
| Policy file (`policy-write.mjs`, `policy-backups.mjs`, `config-hot-reload.mjs`) | `policy.yaml`, its lock, backups, a snapshot | save, push, restore, reload | four writers in several processes, writing in place |
| Live pages (`dashboard/operational-events.mjs`, `realtime-coordinator.mjs`) | a ring of events, a page's last id | publish, resume, refetch, poll | a page resumes a stream that has moved on or started anew |
| Setup (`setup-wizard-core.mjs`, `setup-validation-session.mjs`) | sessions with keys, the files of an installation | validate, review, commit | three programs may set up one repository |
| Roll-ups (`aggregation.mjs`) | hourly and daily rows | summarise, recount | events that land in a summarised hour; deaths between rows |
| Command line, MCP server, plugins, desktop and editor, reports, other intake | files, processes, views | transports and displays | see section 7 |

How they interact. The **store** is the only shared state; every other part
calls its functions, each one an `IMMEDIATE` transaction. The **daemon** is one
Node event loop: the runner, the watchdog, the planner, the verifier, the REST
API and the dashboard interleave at their `await`s only. **Agents** and the
command line are processes of their own: their transactions fall anywhere. The
daemon hands an agent its task by claiming a lease for it and passing the
session id; the agent answers by moving the task. The verifier picks up tasks
that reached `in-review`, the planner those that are `proposed` or in `spec`.
The **services** around the store (gateway, licensing, webhooks, control plane
and so on) keep tables, files or memory of their own and meet the store only
through the daemon's calls: the gateway counts what agents spend, the budget
gate tells the runner to halt, the watchdog's escalations are pushed to a chat.

For each part, what makes it correct: a lease is exclusive and ends, and its
locks end with it (store); one task is not given to two agents, a failed run
leaves nothing behind, a dependency comes first, cycles end (runner); what is
merged was checked and reviewed, a broken task is not sent back for ever, the
review queue drains (verifier); what policy blocks ends up parked, what it
permits flows, what the founder blocked stays blocked (planner); rows written
from outside leave no lock or lease behind and show in the end what the source
shows (intake); a cap is overrun by no more than what was in flight, each
request is metered once, and no run draws on an account nobody asked it to
(gateway, routing); what is delivered again works once, what was acknowledged is
kept, what was ended stays ended, what belongs together is written whole, what
is cached is recent, and those who work beside each other keep apart (services).

## 2. The modules

| Module | What it models | Extends |
|---|---|---|
| `TaskMachine` | `machine.mjs`: statuses, legal moves, claimable statuses | |
| `LeaseLock` | abstract: an exclusive lease that takes all its resources or none, lapses, and frees them all | |
| `TaskStore` | every transaction of `state.mjs` that touches status, lease, locks or reap count | `TaskMachine` |
| `Dispatch` | runner, router, agents, watchdog, scheduler, crash and boot, over the store | `TaskStore` |
| `VerifyLoop` | the verify cycle, GitHub, the reviewers | `TaskMachine` |
| `Governance` | the planner cycle and the founder | `TaskMachine` |
| `Intake` | REST API and Azure DevOps sync, over the store | `TaskStore` |
| `Gateway` | the metering proxy: requests in flight, ledger, windows, key rotation, budget gate | |
| `Routing` | provider, tier and harness of a run, and who pays for it | |
| `Providers` | circuit breaker and fallback over tiers | |
| `ModelCatalog` | discoveries, price refreshes and tiers of the catalogue of models | |
| `Worktrees` | git worktrees of the runs, boot, merge | |
| `Fleet` | one project of the control plane: its processes, timers and calls | |
| `CloudSync` | control plane in the cloud and one machine's agent | |
| `Access` | accounts, invitations, memberships | |
| `ApiKeys` | keys of the REST API with both their rotations | |
| `Licence` | payment events, licence rows, the validator's cache | |
| `Management` | the workflow state of all tenants behind one lock | |
| `Webhooks` | deliveries, retries and replays for one endpoint | |
| `RateLimiter` | the sliding window of requests | |
| `Alerts` | one rule's evaluations, its occurrences, operators | |
| `Push` | escalations posted to a chat webhook | |
| `PolicyFile` | `policy.yaml`, its writers, lock, backups, watcher | |
| `Realtime` | the event broker and a page that follows it | |
| `Setup` | setup sessions and the writing of an installation | |
| `Rollup` | hourly and daily summaries of the ledger | |
| `Services` | the nineteen modules above, one moving at a time, and the promises they share | all of them |
| `TaskStoreProofs`, `DispatchProofs`, `VerifyLoopProofs`, `GovernanceProofs`, `IntakeProofs` | theorems | their component, `TLAPS` |
| `RoutingProofs` | theorems about `Routing`, `Push`, `ModelCatalog`, `Realtime`, `RateLimiter`, `Rollup` | those, `TLAPS` |
| `WorkshopProofs` | theorems about `Management`, `ApiKeys`, `Worktrees`, `Access`, `Setup`, `Fleet`, `PolicyFile` | those, `TLAPS` |
| `ServicesProofs` | theorems about `Gateway`, `Providers`, `Alerts`, `Licence`, `CloudSync`, `Webhooks`, and about `Services` | `Services`, the two above, `TLAPS` |
| `MCTaskStore`, `MCDispatch`, `MCVerifyLoop`, `MCGovernance`, `MCIntake`, `MCServices` | constants for TLC | their component |

**TaskStore.** One action per exported function. `status`, `complexity`,
`resources`, `reapCount` and `lease` are columns of `tasks`; `lock` is the table
`resource_locks`; `now` is the clock. A lower-case operator (`claimTask`,
`transition`, ...) is the transaction, the capitalised action around it adds the
clock and the bounds, so that other modules can use the transaction alone. A
claim takes the time `at` its caller read, which may be any earlier time: the
runner reads the clock once per cycle. A thrown error rolls the transaction back
and is no step. `Insert` and `RestWrite` are what the rest of the program does
with whole rows: a board seed, a POST, a PATCH, a DELETE (whose locks go by the
foreign key's cascade).

**LeaseLock** is what the store promises, with neither board nor clock, and
`ImplementsLeaseLock` is the refinement: the holder is the lease's session, and
a lease is live while its expiry lies ahead.

**Dispatch** extends the store and uses its actions. `thread` is the event loop:
the cycle that holds it, or nobody. A cycle gives it up while it awaits
`launch()` (`ClaimAndLaunch`) and gets it back when the run has ended
(`FinishMoved`, `FinishFailed`, `StartRecovery`, then `FinishRecovery`).
`planRun` is the set of plans the router may make; the gates that read policy
are one nondeterministic denial, those that read leases, dependencies and quota
holds are exact. `AgentMove`, `AgentHandoff`, `AgentHeartbeat`, `AgentOpensPr`
and `AgentExit` are the agent's process, `OrphanExit` is one that outlived its
daemon. The two awaits after a successful run, which assign reviewers and write
a link back to Azure DevOps, hold no store state; the second is an action of
`Intake`.

**VerifyLoop.** `verifyState` is the Map, `round` the objects in it: two cycles
can hold the same object, as in the code, or one that has been dropped from the
Map. A cycle awaits the checks, the scan and the merge; GitHub's merge and the
moment the cycle hears of it are two steps.

**Governance.** One action per write of `plannerCycle`, by phase; `cycle.seen`
and `cycle.notes` are the snapshot that the code takes with `listTasks()` and
keeps to the end. The cycle never awaits, so the founder's actions need an idle
cycle; agents do not. `blockedBy` is the part of the audit log that
`lastTransitionInto` reads. Titles, criteria and owners are reduced to the
verdicts that `definition-of-ready.mjs` reads off them.

**Intake.** A PATCH in its four steps (read, move after the body was awaited,
upsert's read, upsert's write) and a sync item by item. `depth` counts the JSON
encodings too many in a row's list columns.

**Gateway.** `handleRequest` has no await from its first line to the reading of
the body, so admission is one step (`Arrive`, with the ways it refuses); each
await after it (body, headers of the upstream, its body or stream) is a step.
`ledger` is the table both readers add up: the gateway's windows (`Deny`) and
the gate the runner asks (`GateHalt`), with their two anchorings. What SQL's SUM
over a window comes to is the `RunningTotal` of the `Amounts` the window's rows
hold, request by request in order of arrival.

**Routing** plans for every agent at once (`planRun`) and launches one run after
the other (`launch`, `RunOver`), while `EditProviders` changes the two files and
the keys. `Pays` says whose account the environment of a command line leads to.

**Providers.** `circuit` is the breaker's entry for a model; an answer
(`recordSuccess`, `recordFailure`) may come any time after the request.

**ModelCatalog.** A job is a process: a discovery, which asks all providers and
writes each answer in one run of rows (`Answers`, `upsertModel`,
`markUnseenAsDeprecated`), or a refresh of the prices, which lists the rows first
(`refreshAllModelPricing`, `PriceModel`). The three statements of
`autoAssignTiers` are `assignBest`, `assignQuick` and `assignMedium`.

**Worktrees** counts commits by branch and remembers which are on origin; the
agents of a dead daemon go on. **Push** has ticks that collect, wait and post.

**Fleet.** `start`, `stop` and `restart` are calls in flight with their awaits;
exits, timers, a deletion and a new manager fall between. **CloudSync** keeps the
two databases apart, with one report out that may be lost on either way.

**Access**, **ApiKeys** and **Setup** split an operation where the process can
die or another can come between: handlers of one process do not interleave, but
none of `Access` is a transaction. **Licence** has the row a handler writes and
the row that says the event was processed as two steps with a crash between.

**Management.** `queue` is the chain of promises; the request at its head loads
its tenant's row, works, answers and saves. **Webhooks**, **Alerts**: each await
of a delivery, a replay or an evaluation is a step; the counters and occurrences
they read before it may have changed. **RateLimiter** keeps instants in fractions
of a second because what a caller is told is rounded.

**PolicyFile.** A write empties the file and then fills it, in two steps.
**Realtime** has `stale` for the data a page shows; `source.chan` holds the ids a
stream has yet to deliver, which it delivers in order. **Rollup** has one row for
each hour and day, and the pass that writes them row by row, the earliest hour
that is left (`pass.todo`) first.

The services use helpers of the same few kinds: an operator in lower case is a
function of the source, one that begins with a capital is a step without a
function of its own, and a variable marked *history* in its declaration is
written by the steps and read by properties only.

## 3. The runs

| Run | Instance | Checks | Shows |
|---|---|---|---|
| `store` | 2 tasks, 1 agent, 2 sessions, 1 resource | `TypeOK`, `LockLeaseAgreement`, `ResourceExclusion`, `HandoffFreesLease`, `LeaseEnds`, `ImplementsLeaseLock` | leases, locks and statuses stay in step under every order of operations |
| `dispatch_safety` | 2 tasks (the second depends on the first), 2 agents, 3 sessions, 2 cycles, 1 crash | `DTypeOK`, `PlanDistinct`, `FailedRunFreesItsLease`, `DependsFirst`, `BootFreesOrphans`, `ImplementsStore` | the runner's promises, and that it uses the store only through its operations |
| `dispatch_live` | 1 task with a resource, 1 agent, 2 cycles | `CycleEnds` | every cycle ends, refused and throwing claims and failed recoveries included |
| `dispatch_stale_clock` | 2 tasks, leases of 3 ticks, runs of 2 | `SameStageOnce`, violated | section 6 |
| `verify_safety` | 1 task, 2 overlapping cycles, 2 requests, 1 restart | `TypeOK`, `MergeIsReviewed`, `ChurnBounded` | merges rest on the right checks and a review; attempts bound the churn |
| `verify_live` | 1 task, 1 cycle, 3 submissions, a push, a restart | `QueueDrains` | every task in review leaves it |
| `verify_ci_pending` | 1 task, CI that is pending first | `PendingCiRechecked`, violated | section 6 |
| `governance` | an epic, a story under it, a story alone that depends on it; 2 sensitive actions; 2 events | `GTypeOK`, `FounderBlockKept`, `GovernanceSettles`, `WellFormedIsReleased`, `StrandedCarriedOver` | parked, released and carried over as the policy says |
| `governance_held` | the same with a placeholder title | `HeldIsReleased`, violated | section 6 |
| `intake` | a work item, an API task, a session | `ITypeOK`, `LocksHaveHolders`, `LeftoverLeaseEnds`, `SyncSettles` | outside writers leave nothing behind, and the sync settles |
| `intake_ado` | the same with one edit of the work item | `ScanAnswers`, violated | section 6 |
| `services` | the nineteen services, one moving at a time (below) | `ServicesTypeOK`, `AtMostOnce`, `MeteredOnce`, `BudgetHolds`, `EndedStaysEnded`, `AllOrNothing`, `KeptApart`, `CooldownHolds`, `EscalationHeard`, `NothingLost`, `NeverMisled`, `LapsedForGood`, `DisabledForFailing`, `ActedOnWhatWasSeen` | the promises that several services make, each with the exceptions the code leaves |

The properties of `services` are conjunctions of what each module states
(`Services.tla`):

| Promise | Parts |
|---|---|
| `AtMostOnce` | `AppliedOnce` (payment events), `ReplayedOnce` (webhook replays), `ConfirmedOnce` (policy previews), `ToldOnce` (escalations) |
| `MeteredOnce` | a request that ended as the code meters has one row in the ledger, no request has two |
| `BudgetHolds` | `OverrunBounded` (caps), `GateHaltMeansDeny` (both readers agree), `NoSurpriseSpend` (no run on Anthropic unasked), `NeverUnderServed` (tiers), `RateKept` (requests in a window) |
| `EndedStaysEnded` | `StoppedStaysStopped` (projects), `SecretsEnd` (keys of a setup session), `EndedKeysStayOut` (API keys) |
| `AllOrNothing` | `AcceptanceWhole` (account and membership), `InstallationWhole` (files), `RotationWhole` (API keys) |
| `KeptApart` | `TreesApart` (worktrees), `TenantsApart` (workflow state) |
| `CooldownHolds` | no model answers before its cooldown is over |
| `EscalationHeard` | an alert that got worse is announced |
| `NothingLost` | `LastPushWins`, `OwedIsReported` (cloud), `EditsKept` (policy file), `HourlyExact` (roll-ups), `UnpushedKept`, `FounderWorkStays` (git), `PushedWasShown` (escalations), `FounderTierKept` (models) |
| `NeverMisled` | `CachedTierRecent` (licence), `SnapshotCurrent`, `NeverMisconfigured` (policy), `PageCurrent` (pages), `RetryHonoured` (rate limiter), `CatalogFollowsAnswers`, `OfferedAreTiered` (models) |
| `LapsedForGood` | a licence that was revoked is never active again |
| `DisabledForFailing` | an endpoint is disabled for failures in a row only |
| `ActedOnWhatWasSeen` | an operator acts on the occurrence as it was displayed |

The services keep variables of their own and no property relates those of two,
so a violation in their product is one in the service alone: exploring each with
the others at rest loses nothing, and `part` says which one moves. A service's
types are judged where it moves. There are about 1.55 million states.

Bounds, each a constant in a guard:

- `MaxTime`, `MaxReaps` (store, dispatch, intake): the clock and the reaps of a
  task. Two ticks hold a claim, its expiry and a claim made with a stale clock;
  three reaps pass the remediation and the block limit of the cfg (1 and 3: the
  code's 3 and 5, scaled down; the theorems have any values). `MaxReaps` is a
  guard on claims only: a lease that exists can always be reaped.
- `MaxStarts`, `MaxCrashes` (dispatch): two cycles overlap at every await of
  each other; a crash can come at any point of either.
- `MaxPrs`, `MaxPushes`, `MaxSubmits`, `MaxRestarts` (verify): a resubmission
  with a second request, a push between check and merge, a restart between any
  two awaits. Two overlapping cycles are all that share one cached object.
- `MaxEvents` (governance): moves of the founder, of agents, and crashes. Two
  are a founder's block and a policy change, or a crash and a policy change, in
  any order around a cycle's writes.
- `MaxEdits`, `MaxMoves` (intake): edits of the work item and failed requests;
  API requests, claims and moves.
- `services`: two of whatever overlaps (requests, calls, deliveries,
  evaluations, replays, jobs, ticks, processes), so that one can act on what the
  other has changed, and one crash, death or restart of each kind, at any point.
  Where a count decides, the bound passes it: 2 attempts and 3 log rows for a
  webhook, 2 failures that open a circuit, 2 restarts an hour that refuse a
  third, windows of 1 and 2 ticks in 3 ticks of time, a payload that shows 1 of 2
  escalations, a ring that holds 2 of 4 events, limits of 2 requests in 3 of 7
  instants. Limits are the code's, scaled down; the cfg names all of them.

In `store` both rows are board rows, because only those declare resources: two
tasks that compete for one are the point of that run. A row of the REST API is
deleted under a lease, overwritten and made anew in `intake`.

Where the system may stop. TLC checks every run for deadlock except `services`,
whose parts use up their bounds and stop. `Dispatch` has an
action `BoundsReached` that stutters when its bounds are used up and nothing is
in flight, so that a run that hangs earlier is reported; the verifier, the planner
and the intakes have loops that always go on (a cycle, a sync), the store a reap
or a tick.

Symmetry is used in `verify_safety` only: no run with a liveness property uses it.

## 4. Fairness

Only what the code schedules is fair; no agent, founder, request or crash is.

- `TaskStore`: time passes, and an expired lease is reaped in the end
  (`setInterval(watchdogTick)`).
- `Dispatch`: a cycle that can go on does (the event loop), and a process exits
  (`spawnAndWait` kills it at its time-out). No cycle need ever start.
- `VerifyLoop`: the interval starts a cycle (weak). A cycle's own steps and the
  reviewer's result are strongly fair: the event loop is a queue, so an event
  that has arrived is handled although others that come first make it wait, and
  with another cycle at work the action is enabled only now and then. CI reports.
- `Governance`: weak fairness of the cycle as a whole: a cycle starts again
  whenever none runs, and one that is under way goes on. Every cycle has finitely
  many writes.
- `Intake`: syncs go on, a PATCH whose body has arrived goes on, leases are
  reaped, time passes.
- The services state safety only and assume no fairness: their retries stop after
  a count, and whether an answer, an operator or a payment event ever comes is
  not the code's to say.

## 5. What is proved

The theorems hold for every finite or infinite set of tasks, agents, sessions
and resources, every limit and every bound, under the assumptions named in the
modules (`TaskStoreAssumption`, `DispatchAssumption`, `VerifyAssumption`,
`GovernanceAssumption`, `IntakeAssumption`: `NONE` is not one of the values it
stands beside, limits are numbers, statuses are statuses; the only finite set is
the tasks of `Governance`, whose ancestors are counted). Those of the services
(one to a module: `GatewayAssumption`, `LicenceAssumption`, `CloudAssumption` and
so on) say that times, counts and caps are numbers, that limits the code divides
by or shifts a window by are not zero, and that tables fixed elsewhere (the
events of the payment provider, the tiers a provider serves, what an answer may
report) are functions of the right kind. Only two say more. The policy file's
has 1 among the values of a setting. The gateway's says that answers report
tokens at all and that one reports most (an answer's length is bounded by its
model), since what a cap may be overrun by is counted in answers; and that five
hours are no longer than a week.

**Store.** `TypeCorrect`; `LocksFollowLeases` and `NoLeaseAfterHandoff` from one
inductive invariant, `LeaseInv` = `LockLeaseAgreement` and `HandoffFreesLease`.
Neither is inductive alone: an insertion, which keeps locks as they are, is
harmless only because an absent row has no lease. All ways of ending a lease go
through two lemmas about `freeLease`, and all steps that keep leases through
`KeepLeaseInv`, so a step's proof says only what it does to status and declared
resources. `NoSharedResource` follows: two holders would be named by one lock
row. `StatusFollowsMachine` needs `LeaseInv` for the reaper's auto-block, which
writes the column without asking the machine: it may, since a leased task is
never done or blocked. `LiveLeaseNotStolen` and `StoreImplementsLeaseLock` go
through `LeaseStep`, which says how any step moves a lease.

**Dispatch.** `DispatchImplementsStore`: every step is a step of `TaskStore` or
leaves its variables alone; so the store's theorems hold of the composition
(`DispatchFreesOnHandoff` is one). `DispatchTypeCorrect` needs `DInv`: types,
each waiting cycle has its own run, and no cycle survives the daemon.
`FailureFreesLease` and `BootLeavesNoOrphanLease` need `LeaseRuns` on top: the
run of a lease's session has not failed, works on the leased task if it works at
all, and, while the daemon is up, is not one of an earlier daemon.

`PlansAreDistinct` and `DependenciesFirst` from `PlanInv`: `planRun` names a task
once and only where its dependencies are done, later steps only shorten the plan,
and what is done stays done (`DoneKept`): nothing in the module deletes a row, and
the machine has no move from done.

**VerifyLoop.** `VerifyTypeCorrect` from three parts: `BoardInv` (tasks and
requests), `CacheInv` (objects of the Map) and `CycleInv` (what a cycle holds by
phase). `AttemptsBoundChurn`: the bounces of a task never exceed its
counted attempts, and the attempt that would be one too many blocks.
`MergesAreReviewed`: the proof follows the objects of the Map through the
phases of the cycles that hold them: an object's request never changes while
it is in use, its checks never change once made, and a review joins it before
it is judged.

**Governance.** `GovernanceTypeCorrect`; `PlannerKeepsFounderBlocks` from `FInv`:
a task the founder blocked carries no hold note, a snapshot under way has seen
it blocked and without one (the founder cannot act within a cycle), and what a
phase has left to do fits the snapshot.

**Intake.** `IntakeTypeCorrect` and `NoOrphanLocks` from `IntakeInv`: columns keep
their types (`ColumnsInv`), what a PATCH carries over its awaits is a status of
its row (`CarriedInv`), and every lock row names a task with a lease, which a
sync that overwrites a leased row keeps, since it leaves lease and locks both.

**Services.** Each of the nineteen modules has its type invariant and all its
safety properties proved, from an inductive invariant of its own:

- `Gateway`: `RequestsMeteredOnce` from `GInv`, which ties the rows of the
  ledger to the stage a request is in: none before its end. `CapsHold` has two
  halves. The overrun (`OverrunInv`): when a request is admitted, what the
  window holds is below the cap, and what may still come of the requests so far
  is that and one answer for each in flight (`Outlook`). From then on this only
  falls: a request that ends turns an answer's worth of outlook into the tokens
  it did report, which are no more, and a later one is not counted. That the
  recursive function `RunningTotal` satisfies its equation (`RunningTotalIs`),
  that totals rise with their amounts and count a set of requests at an answer
  each (`TotalGrows`, `TotalRises`, `FlightTotal`) go through `ByNumber`, an
  induction stated with a set in place of a predicate and proved from the
  library's theorem that finite sets are well-founded under inclusion
  (`LeastIs`). The agreement of the two readers (`HaltMeansDeny`): the session
  the gate is in began within the last five hours and its week within the last
  week (`SessionTypes`, `WholeWeeks`, `WindowsBegin`), so its windows lie within
  the gateway's and hold no more.
- `Providers`: `CircuitHoldsForItsCooldown` from `BreakerInv`: a model whose
  circuit opened is in that state still, and its cooldown, if it was not cleared,
  ends five minutes after the opening.
- `Alerts`: `WorseIsAnnounced` from `AlertsInv`: besides the property, that the
  severities of an opened occurrence are severities, so that worse is an order.
  `OperatorsActOnWhatTheySee` from `ScreenInv`: what is on an operator's screen
  under the version the row has now is the row; versions only rise.
- `Licence`: `NoLicenceRevived` from `LicenceInv`: rows are numbered without
  gaps, and a customer has one row where the schema says so; then no event and
  no refresh writes "active" over "revoked". `EventsAppliedOnce` and
  `CachedTiersRecent` from `RecordsInv`: an event has worked no more often than
  it was logged or its log row was lost to a death, and a cached tier that
  differs has changed since.
- `CloudSync`: `LastPushesWin`, `OwedEventsReported` and `PreviewsPushedOnce`
  from `SyncInv`. Updates are listed in the order of their pushes, so what a
  path will hold when an answer has been applied is known however much of it is
  left (`WillHold`); what the agent owes was recorded since its cursor, is in
  the report that is out, and is stored when that has been answered (`OwedInv`).
- `Webhooks`: `AttemptsReplayedOnce` and `DisabledOnlyForFailing` from
  `WebhooksInv`: the count on the row never exceeds the run of failures unless a
  replay wrote a stale one, and an attempt that was sent again is reserved.
- `Management`: `TenantsStayApart` from `MgmtInv`: only the head of the queue has
  loaded, what it holds is its tenant's row with its own entry, and the others
  have neither loaded nor answered.
- `ApiKeys`: `EndedKeysNeverPass` from `KeysInv`: ends are never taken back, and
  what a rotation in flight has read cannot clear one. `RotationsWhole` from
  `SuccessorInv`: a deadline is only written for a key that has a successor.
- `Worktrees`: `UnpushedWorkKept` and `AgentsApart` from `TreeInv`: a branch never
  has less than what is counted for it, and every tree in use is of one run.
  `FounderKeepsWork` is inductive by itself.
- `Access`: `AcceptancesWhole` from `AccessInv`: an address founds its account
  only once, so whoever joined has one and cannot be brought in again.
- `Setup`: `InstallationsWhole` from `FilesInv`: every plan begins with the same
  target, so whoever has created any file has created that one and is alone.
  `KeysEndWithTheirSession` from `KeysHeldInv`: a key that is still asked about
  when its session ends is marked by it.
- `Fleet`: `StoppedProjectsStay` from `FleetInv`: as long as no process has lost
  its entry, the one that is tracked is the only one running and the only one
  whose exit may have scheduled a restart (`Accounted`).
- `PolicyFile`: `SavedSettingsStand` and `ProjectsGetValidPolicies` from
  `PolicyInv`: who writes under the lock is alone in that and carries every
  setting that stands; who writes without it voids them.
- `Push`: `FounderToldOnce` from `PushInv`: an escalation that two ticks have in
  hand, that is in hand and marked, or that was shown and never marked, is one of
  those the property excuses.
- `Routing`: `RunsDrawOnWhatWasAsked` and `SignalsAreServed` from `RoutingInv`,
  which says how a dispatch follows from what was asked; the second rests on
  `TierCoversSignals`, a lemma about the choice of a tier.
- `ModelCatalog`: `CatalogKeepsUp` and `OfferedGetTiers` from `CatalogInv`. A
  discovery that writes alone has offered what it has written so far and agrees
  with the last answer (`WritersInv`); what a refresh has yet to price is on
  offer or was missed since it listed (`RefreshInv`); a row without a tier has a
  discovery at work that will come to it (`TiersInv`). Without these the
  properties, which only speak of quiet moments, are not inductive.
- `Realtime`: `PagesCurrent` from `PageInv`: while the page's cursor is an id of
  the broker's present life, what the page does not know lies ahead of it in the
  buffer or on the open stream, or a reset comes.
- `RateLimiter`: `RatesKept` and `RetriesHonoured` from `RateInv`: the log of a key
  is the end of what was let through, and what is before it is out of the
  window. `SinceIs` says that a filter leaves the end of an ordered log.
- `Rollup`: `SummariesExact` from `RollupInv`: before any hour that has a row every
  hour is settled, whichever pass wrote the row and whichever died.

**The services together.** In a behaviour of `Services` every step is one of the
part that moves or leaves a part alone (`PartsStep`), so the composition is a
behaviour of each part (`PartsAreThemselves`). With it the theorems above give
every invariant and action property of the run `services` for every value of the
constants: `ServicesTypeCorrect`, `WorkDoneOnce`, `AcknowledgedIsKept`,
`AnswersHold`, `WritesWhole`, `EndsAreFinal`, `NeighboursApart` and `BudgetsHold`
for the promises that are conjunctions, and the theorems of the parts for the
others.

Every invariant and action property of every run that passes is the statement of
a theorem. Two that no run repeats, `StatusStepsLegal` and `NoLeaseTheft` of the
store, are theorems only.

**Model-checked only.** The liveness properties (`LeaseEnds`, `CycleEnds`,
`QueueDrains`, `GovernanceSettles`, `WellFormedIsReleased`,
`StrandedCarriedOver`, `LeftoverLeaseEnds`, `SyncSettles`): liveness under
fairness is out of the prover's reach. The four violated properties of section 6
are found by TLC.

## 6. Where the code and its comments disagree

- **A lease shorter than its run** (`dispatch_stale_clock`). `executeRun` claims
  every decision of a plan with the time read at its start (`runner.mjs:152`).
  The second claim is made after the first agent ended, with a lease that starts
  in the past; it ends before its own run does, and another cycle starts the
  same stage beside it. `schema.sql:64` has it that "Holding a live lease ===
  mutual exclusion."
- **Pending CI is never looked at again** (`verify_ci_pending`). A pending result
  is cached like any other (`verify-loop.mjs:258`), and the checks of a cached
  state are not repeated until the daemon restarts.
- **A hold that is never released** (`governance_held`). The accept phase works on
  the snapshot from before the hold phase and overwrites the hold's note of a
  story with a placeholder title (`planner.mjs:203`); the release phase knows its
  holds by that note.
- **A sync that breaks the scan** (`intake_ado`). The sync writes JSON columns
  back as they were read (`azure-devops-source.mjs:388`) and `upsertTask` encodes
  them again; `nextEligibleTask` then throws on the row, for every agent.

The following were met while modelling and are stated by no run. Where a model
contains the step, the property that would be violated names it as an exception.

*Store, runner, verifier.*
- `max_parallel` counts live leases, not the decisions already made in a plan
  (`router.mjs:107`). A lookup of the first eligible task only lets a sensitive
  task, or one whose provider lacks a key, hold back the ones below it.
- A routing entry that names an unknown provider throws through `planRun` and
  ends the cycle for every agent; validation does not look at `model_routing`.
- A shutdown leaves its agents running and boot frees their leases
  (`scheduler.mjs:698`). On POSIX a timed-out agent's group is killed although it
  was not spawned detached, so the kill misses it.
- In verifier_gated mode no reviewer is asked and the tests check passes when gh
  is unreachable (`verifier.mjs:121`).
- `operational-recovery.mjs:51-53` frees a live lease.
- After any push, commits made later go with `branch -D`: `worktree.mjs:160-173`
  asks only whether `origin/<branch>` exists.

*Gateway, routing, models.*
- `gateway/server.mjs:24-26` promises one token event for every request; a
  refusal for want of a route or key, an aborted client and a cut body emit none.
- A provider that is gone from the repository's file at launch is taken for
  Anthropic's own login (`launcher.mjs:265`), which `router.mjs:136-138` says must
  never happen silently.
- `recordSuccess` on an open circuit clears the cooldown and leaves it open, so it
  never heals (`model-fallback.mjs:11-16` says it does). The breaker, the spend
  pause and the key rotators are not passed to the assembled gateway.
- A price refresh brings back a model that a discovery withdrew meanwhile, and
  writes `{}` over its features (`model-registry.mjs:112`, under a COALESCE that
  cannot help). Every discovery puts a model with a large window back to `best`
  over the founder's choice. A model with unknown window and price gets `medium`
  for good, whatever is learnt later; a cheap one with a large window gets `best`,
  although the comment says `quick`.
- An applied or dismissed recommendation is active again after the next day's run
  (`optimization.mjs`), whose comment says it persists.

*Services.*
- Escalation ids are never cleared: a second budget halt is not pushed in the same
  session, and what came after the tenth of a payload is marked unseen.
- Licensing: SQLite's error code never equals the string compared with
  (`stripe-webhook.mjs:258`); a deletion before its checkout is forgotten;
  `docs/user-guide.md:128-130` promises a grace of 72 hours that no reader grants.
- Fleet: the restart after a crash is always refused ("already running"); a forced
  stop deletes its entry before the exit, so the project restarts, against
  `control-plane.mjs:358-359`; overlapping starts spawn two.
- Alerts: the last value of a budget rule never falls, so it fires again on an
  escalation only; failed channels count as fired.
- Webhooks: a replay writes back a stale count; one pending at a crash is a
  duplicate for ever. Access: a crash in an acceptance leaves an account without a
  membership and an invitation nobody can accept.
- Cloud: updates are never acknowledged, so every answer applies all of them anew;
  events recorded while a report is out are never reported.
- Policy file: a dead writer's lock is never broken; restoring and the wizard take
  none; the dashboard validates before it locks and the agent not at all, against
  `dashboard/server.mjs:331-337`.
- Pages: after a restart ids begin at 1 and the page ignores the reset, against
  `docs/incident-response.md:43`.
- Roll-ups: a day is summarised with its first hour and never again
  (`aggregation.mjs:166-168` and `205-222`), and the analytics prefer that row.
- Setup: a process killed in a write leaves files every later setup refuses.
- API keys: one rotation checks before its transaction and can give a revoked key
  a successor. Management: the lock is lost where the pruning of the audit throws
  (line 40).

## 7. What is not modelled

- *Of the modelled parts*: sprints other than the rollover, snooze and skip,
  audit and event rows, prompts, spec files, log lines; the run registry and the
  routes of the gateway (a refusal), its prompt injection and body formats; the
  fallback of the budget gate over log files; scores and price sources; creation
  and configuration of projects, organisations and machines; sessions and tokens;
  the formats of alert channels. `PROJECT.json` has them by component.
- *Gateway: registry pull*. The store of versions is used by its own command
  line; in the assembled gateway a request reads its route once.
- *Wire formats, logging, command lines, MCP server, IDE proxy*: translations and
  transports of calls that other modules have.
- *Compliance and event logs*: append-only rows in the store's transactions.
  *Backups*: a copy of a file.
- *Other intake adapters, task comments*: proposed rows as the modelled intakes
  make them, and rows of their own.
- *Plugins, bus guard*: pattern scans and loading of modules; a scan's verdict is
  a choice of `VerifyLoop`.
- *Row validation, reports, rendering, optimisation, analytics*: read-only, or
  rows computed from others.
- *The dashboard's pages, desktop shell, editor extension, animation, packaging*:
  views and I/O. Most of the repository's lines are here, in command lines and in
  tables of data, which is why the map covers a small part of them.

## 8. Plan

Order: what everything rests on first, then what runs over it.

1. *Done.* `TaskMachine`, `LeaseLock`, `TaskStore` with its refinement and proofs.
2. *Done.* `Dispatch` over `TaskStore`, with the refinement and proofs.
3. *Done.* `VerifyLoop`, `Governance`, `Intake` with proofs.
4. *Done.* The services around the store, checked together by the promises they
   share; all of them with theorems, and their composition.
5. The refinement of the store by those steps of `Intake` that go through its
   operations, with the sync as the named exception.
6. Abstract specifications that services implement, as `LeaseLock` is of the store:
   one tenant's workflow state alone for `Management`, a policy of settings that
   are each saved at once for `PolicyFile`.
7. Snoozing and skipping in `Governance`; the gateway with a registry replaced
   under its requests.
