----------------------------- MODULE VerifyLoop -----------------------------
(***************************************************************************)
(* verify-loop.mjs and verifier.mjs: the verify cycle of a watchdog tick.  *)
(* It lists the tasks in review, runs their checks once per pull request,  *)
(* has another agent review them, merges what passes and sends back what   *)
(* does not, three times at most.                                          *)
(*                                                                         *)
(* A cycle holds the event loop (`thread`) between two awaits: the checks, *)
(* the scan of the pull request, the merge.  The interval starts a cycle   *)
(* without looking for another, so cycles overlap at the awaits, and so do *)
(* the founder, the agents and GitHub.  Each works on the snapshot it took *)
(* when it began.                                                          *)
(*                                                                         *)
(* Leases, notes and the rest of a task are in TaskStore; the mode is      *)
(* fixed, and founder_only, in which a cycle does nothing, is left out.    *)
(***************************************************************************)
EXTENDS Integers, TaskMachine

CONSTANTS
  Tasks,
  Mode,         \* "peer_agent_review" or "verifier_gated"
  MAX_VERIFY_ATTEMPTS,
  Ticks,        \* watchdog ticks that may be in flight at once
  Rounds,       \* check states (objects of verifyState) that may exist at once
  CiStates,     \* what CI may say of a pushed head, sooner or later
  FounderMoves, \* statuses the founder moves tasks to
  NONE,
  MaxPrs,       \* bound: pull requests per task
  MaxPushes,    \* bound: pushes per pull request
  MaxSubmits,   \* bound: submissions per task
  MaxRestarts   \* bound: restarts of the daemon

ASSUME VerifyAssumption ==
  /\ Mode \in {"peer_agent_review", "verifier_gated"}
  /\ MAX_VERIFY_ATTEMPTS \in Nat \ {0}
  /\ CiStates \subseteq {"none", "pending", "pass", "fail"}
  /\ FounderMoves \subseteq STATES
  /\ NONE \notin Tasks \cup Ticks \cup Rounds
  /\ {MaxPrs, MaxPushes, MaxSubmits, MaxRestarts} \subseteq Nat

VARIABLES
  status,       \* tasks.status
  pr,           \* tasks.pr: the number of the task's pull request, 0 if none
  hub,          \* GitHub: the head, the CI state and the merge of each request
  attempts,     \* the verify_attempts table
  verifyState,  \* the Map: the check state a task is cached with, or NONE
  round,        \* the check states themselves
  tick,         \* the cycles in flight
  thread,       \* the cycle that has the event loop, or NONE
  reviewing,    \* check states a reviewer process is out for
  submits,      \* submissions so far (bounded)
  bounces,      \* times the verifier sent the task back since its last merge
  restarts

store == <<status, attempts, bounces>>
memory == <<verifyState, round, tick, thread, reviewing>>
world == <<pr, hub, submits, restarts>>
vars == <<store, memory, world>>

IdleTick == [phase |-> "idle", todo |-> {}, task |-> NONE, pr |-> 0, round |-> NONE]
NoRound == [pr |-> 0, checks |-> "none", peer |-> "none", pushed |-> {}]
NewPr == [head |-> 0, ci |-> "none", merged |-> FALSE]

InReview == {t \in Tasks : status[t] = "in-review"}
Phase(k) == tick[k].phase
Round(k) == round[tick[k].round]
PrOf(k) == hub[tick[k].task][tick[k].pr]
\* A cycle in another phase of its task, or between two tasks.
TickNow(k, phase, o) ==
  [phase |-> phase, todo |-> tick[k].todo, task |-> tick[k].task,
   pr |-> tick[k].pr, round |-> o]
Between(todo) == [phase |-> "next", todo |-> todo, task |-> NONE, pr |-> 0, round |-> NONE]
await(k, phase) ==
  tick' = [tick EXCEPT ![k] = TickNow(k, phase, tick[k].round)] /\ thread' = NONE
next(k) == tick' = [tick EXCEPT ![k] = Between(tick[k].todo)] /\ thread' = k
\* A check state with its reviewer's result, or with that result among its checks.
Reviewed(o, result) ==
  [pr |-> round[o].pr, checks |-> round[o].checks, peer |-> result,
   pushed |-> round[o].pushed]
Joined(o, results) ==
  [pr |-> round[o].pr, checks |-> round[o].checks, peer |-> round[o].peer,
   pushed |-> results]

-----------------------------------------------------------------------------
\* A cycle begins: the tasks in review and their requests, as they are now; the
\* Map forgets everything else.
StartTick(k) ==
  /\ thread = NONE /\ Phase(k) = "idle" /\ InReview # {}
  /\ tick' = [tick EXCEPT ![k] =
                Between({<<t, pr[t]>> : t \in InReview})]
  /\ thread' = k
  /\ verifyState' = [t \in Tasks |-> IF t \in InReview THEN verifyState[t] ELSE NONE]
  /\ UNCHANGED <<store, round, reviewing, world>>

\* With nothing in review a cycle returns at once.
EmptyTick(k) ==
  /\ thread = NONE /\ Phase(k) = "idle" /\ InReview = {}
  /\ UNCHANGED vars

EndTick(k) ==
  /\ thread = k /\ Phase(k) = "next" /\ tick[k].todo = {}
  /\ tick' = [tick EXCEPT ![k] = IdleTick]
  /\ thread' = NONE
  /\ UNCHANGED <<store, verifyState, round, reviewing, world>>

\* The next task of the snapshot: its cached checks count as long as they are
\* for the same request number; otherwise the cycle awaits new ones.
Usable(t, n) == verifyState[t] # NONE /\ round[verifyState[t]].pr = n
NextTask(k) ==
  /\ thread = k /\ Phase(k) = "next"
  /\ \E tp \in tick[k].todo :
       LET t == tp[1]
           fits == Usable(t, tp[2])
       IN  /\ tick' = [tick EXCEPT ![k] =
                         [phase |-> IF fits THEN "decide" ELSE "checking",
                          todo |-> tick[k].todo \ {tp}, task |-> t, pr |-> tp[2],
                          round |-> IF fits THEN verifyState[t] ELSE NONE]]
           /\ thread' = IF fits THEN k ELSE NONE
           /\ verifyState' = IF fits THEN verifyState
                             ELSE [verifyState EXCEPT ![t] = NONE]
  /\ UNCHANGED <<store, round, reviewing, world>>

\* The check runners: CI as `gh pr checks` reports it, which passes when there
\* is nothing to report or gh cannot be reached, and the guardrail script.
testsCheck_unmapped(k, reached) == IF tick[k].pr = 0 THEN "fail" ELSE PrOf(k).ci
testsCheck(k, reached) ==
  IF tick[k].pr = 0 THEN "fail"
  ELSE IF ~reached \/ PrOf(k).ci = "none" THEN "pass"
  ELSE PrOf(k).ci
Unused(o) == /\ \A t \in Tasks : verifyState[t] # o
             /\ \A k \in Ticks : tick[k].round # o
             /\ o \notin reviewing
ChecksDone(k) ==
  /\ thread = NONE /\ Phase(k) = "checking"
  /\ \E o \in {x \in Rounds : Unused(x)}, reached \in BOOLEAN, guardrail \in {"pass", "fail"} :
       /\ round' = [round EXCEPT ![o] =
            [pr |-> tick[k].pr,
             checks |-> IF guardrail = "fail" THEN "fail" ELSE testsCheck(k, reached),
             peer |-> "none", pushed |-> {}]]
       /\ verifyState' = [verifyState EXCEPT ![tick[k].task] = o]
       /\ tick' = [tick EXCEPT ![k] = TickNow(k, "decide", o)]
  /\ thread' = k
  /\ UNCHANGED <<store, reviewing, world>>

-----------------------------------------------------------------------------
\* handleFailure: count the attempt, forget the checks, and move the task to
\* rework, or to the founder after the third failure.  A move the machine
\* forbids is not made, but the attempt has been counted.
Disposition(n) == IF n >= MAX_VERIFY_ATTEMPTS THEN "blocked" ELSE "in-progress"
moveFailed(t, to) ==
  IF isLegalTransition(status[t], to)
  THEN /\ status' = [status EXCEPT ![t] = to]
       /\ bounces' = IF to = "in-progress" THEN [bounces EXCEPT ![t] = @ + 1] ELSE bounces
  ELSE UNCHANGED <<status, bounces>>
handleFailure(t) ==
  /\ attempts' = [attempts EXCEPT ![t] = @ + 1]
  /\ verifyState' = [verifyState EXCEPT ![t] = NONE]
  /\ moveFailed(t, Disposition(attempts[t] + 1))

\* What the cycle does with the checks it has, up to its next await.
Deciding(k) == thread = k /\ Phase(k) = "decide"
AwaitsReview_not(k) == FALSE
AwaitsReview_untilPass(k) ==
  Mode = "peer_agent_review" /\ Round(k).peer \in {"started", "fail"}
AwaitsReview(k) == Mode = "peer_agent_review" /\ Round(k).peer = "started"
NeedsReview(k) == Mode = "peer_agent_review" /\ Round(k).peer = "none" /\ tick[k].pr # 0

FailChecks(k) ==
  /\ Deciding(k) /\ Round(k).checks = "fail"
  /\ handleFailure(tick[k].task)
  /\ next(k)
  /\ UNCHANGED <<round, reviewing, world>>
LeavePending(k) ==
  /\ Deciding(k)
  /\ \/ Round(k).checks = "pending"
     \/ Round(k).checks = "pass" /\ AwaitsReview(k)
  /\ next(k)
  /\ UNCHANGED <<store, verifyState, round, reviewing, world>>
BeginScan(k) ==
  /\ Deciding(k) /\ Round(k).checks = "pass" /\ NeedsReview(k)
  /\ await(k, "scanning")
  /\ UNCHANGED <<store, verifyState, round, reviewing, world>>
\* The peer's result joins the checks; a failure in them outweighs a pass.
Pushed(k) == Round(k).pushed \cup (IF Round(k).peer = "none" THEN {} ELSE {Round(k).peer})
Verdict(k) == IF "fail" \in Pushed(k) THEN "needs_changes" ELSE "pass"
Judge(k) ==
  /\ Deciding(k) /\ Round(k).checks = "pass" /\ ~AwaitsReview(k) /\ ~NeedsReview(k)
  /\ round' = [round EXCEPT ![tick[k].round] = Joined(tick[k].round, Pushed(k))]
  /\ IF Verdict(k) = "pass"
     THEN await(k, "merging") /\ UNCHANGED <<store, verifyState>>
     ELSE handleFailure(tick[k].task) /\ next(k)
  /\ UNCHANGED <<reviewing, world>>

\* scanPrForInjection: a poisoned request is sent back; any other is handed to
\* the reviewer, whose process runs beside the cycles.
ScanFails(k) ==
  /\ thread = NONE /\ Phase(k) = "scanning"
  /\ handleFailure(tick[k].task)
  /\ next(k)
  /\ UNCHANGED <<round, reviewing, world>>
ScanPasses(k) ==
  /\ thread = NONE /\ Phase(k) = "scanning"
  /\ round' = [round EXCEPT ![tick[k].round] = Reviewed(tick[k].round, "started")]
  /\ verifyState' = [verifyState EXCEPT ![tick[k].task] = tick[k].round]
  /\ reviewing' = reviewing \cup {tick[k].round}
  /\ next(k)
  /\ UNCHANGED <<store, world>>
ReviewDone(o, result) ==
  /\ thread = NONE /\ o \in reviewing
  /\ round' = [round EXCEPT ![o] = Reviewed(o, result)]
  /\ reviewing' = reviewing \ {o}
  /\ UNCHANGED <<store, verifyState, tick, thread, world>>

\* gh pr merge: GitHub merges, or refuses; the cycle hears of it later.
merge(t, n) == hub' = [hub EXCEPT ![t][n].merged = TRUE]
GitHubMerges(k) ==
  /\ Phase(k) = "merging"
  /\ merge(tick[k].task, tick[k].pr)
  /\ tick' = [tick EXCEPT ![k] = TickNow(k, "merged", tick[k].round)]
  /\ UNCHANGED <<store, verifyState, round, thread, reviewing, pr, submits, restarts>>
GitHubRefuses(k) ==
  /\ Phase(k) = "merging"
  /\ tick' = [tick EXCEPT ![k] = TickNow(k, "refused", tick[k].round)]
  /\ UNCHANGED <<store, verifyState, round, thread, reviewing, world>>
\* applyVerdict moves the task to done if it may; nobody looks at its answer.
MergeDone(k) ==
  LET t == tick[k].task IN
  /\ thread = NONE /\ Phase(k) = "merged"
  /\ status' = IF isLegalTransition(status[t], "done")
               THEN [status EXCEPT ![t] = "done"] ELSE status
  /\ attempts' = [attempts EXCEPT ![t] = 0]
  /\ bounces' = [bounces EXCEPT ![t] = 0]
  /\ verifyState' = [verifyState EXCEPT ![t] = NONE]
  /\ next(k)
  /\ UNCHANGED <<round, reviewing, world>>
MergeFailed(k) ==
  /\ thread = NONE /\ Phase(k) = "refused"
  /\ handleFailure(tick[k].task)
  /\ next(k)
  /\ UNCHANGED <<round, reviewing, world>>

-----------------------------------------------------------------------------
\* The agent submits its task with a request, the one it had or a new one, or
\* without any; it may push to a request at any time.  CI reports on a head.
Submit(t) ==
  /\ status[t] = "in-progress" /\ submits[t] < MaxSubmits
  /\ status' = [status EXCEPT ![t] = "in-review"]
  /\ submits' = [submits EXCEPT ![t] = @ + 1]
  /\ \E n \in {pr[t], pr[t] + 1} \cap 0..MaxPrs : pr' = [pr EXCEPT ![t] = n]
  /\ UNCHANGED <<attempts, bounces, memory, hub, restarts>>
push(t, n) ==
  hub' = [hub EXCEPT ![t][n] = [head |-> @.head + 1, ci |-> "none", merged |-> FALSE]]
report(t, n, ci) == hub' = [hub EXCEPT ![t][n].ci = ci]
Push(t) ==
  LET p == hub[t][pr[t]] IN
  /\ pr[t] # 0 /\ ~p.merged /\ p.head < MaxPushes
  /\ push(t, pr[t])
  /\ UNCHANGED <<store, memory, pr, submits, restarts>>
CiReports(t) ==
  /\ pr[t] # 0 /\ hub[t][pr[t]].ci \in {"none", "pending"}
  /\ \E ci \in CiStates \ {"none", hub[t][pr[t]].ci} : report(t, pr[t], ci)
  /\ UNCHANGED <<store, memory, pr, submits, restarts>>
FounderMove(t) ==
  /\ \E to \in FounderMoves \ {status[t]} :
       /\ isLegalTransition(status[t], to)
       /\ status' = [status EXCEPT ![t] = to]
  /\ UNCHANGED <<attempts, bounces, memory, world>>

\* The daemon restarts: the Map, the cycles and the reviewers' results are
\* gone, the attempts are not.
keepAttempts_inMemory == attempts' = [t \in Tasks |-> 0]
keepAttempts == attempts' = attempts
Restart ==
  /\ restarts < MaxRestarts
  /\ verifyState' = [t \in Tasks |-> NONE]
  /\ round' = [o \in Rounds |-> NoRound]
  /\ tick' = [k \in Ticks |-> IdleTick]
  /\ thread' = NONE
  /\ reviewing' = {}
  /\ restarts' = restarts + 1
  /\ keepAttempts
  /\ UNCHANGED <<status, bounces, pr, hub, submits>>

-----------------------------------------------------------------------------
Init ==
  /\ status = [t \in Tasks |-> "in-progress"]
  /\ pr = [t \in Tasks |-> 0]
  /\ hub = [t \in Tasks |-> [n \in 1..MaxPrs |-> NewPr]]
  /\ attempts = [t \in Tasks |-> 0]
  /\ verifyState = [t \in Tasks |-> NONE]
  /\ round = [o \in Rounds |-> NoRound]
  /\ tick = [k \in Ticks |-> IdleTick]
  /\ thread = NONE
  /\ reviewing = {}
  /\ submits = [t \in Tasks |-> 0]
  /\ bounces = [t \in Tasks |-> 0]
  /\ restarts = 0

TickGoesOn(k) ==
  \/ EndTick(k) \/ NextTask(k) \/ ChecksDone(k)
  \/ FailChecks(k) \/ LeavePending(k) \/ BeginScan(k) \/ Judge(k)
  \/ ScanFails(k) \/ ScanPasses(k)
  \/ GitHubMerges(k) \/ GitHubRefuses(k) \/ MergeDone(k) \/ MergeFailed(k)
Next ==
  \/ \E k \in Ticks : StartTick(k) \/ EmptyTick(k) \/ TickGoesOn(k)
  \/ \E o \in Rounds, result \in {"pass", "fail"} : ReviewDone(o, result)
  \/ \E t \in Tasks : Submit(t) \/ Push(t) \/ CiReports(t) \/ FounderMove(t)
  \/ Restart

Spec == Init /\ [][Next]_vars

\* The interval starts cycles; every await ends (each command and the reviewer
\* have a timeout) and the event loop takes up every event it is handed, though
\* others come first; and CI reports in the end.
Fairness ==
  /\ \A k \in Ticks : WF_vars(StartTick(k)) /\ SF_vars(TickGoesOn(k))
  /\ \A o \in Rounds : SF_vars(\E result \in {"pass", "fail"} : ReviewDone(o, result))
  /\ \A t \in Tasks : WF_vars(CiReports(t))
FairSpec == Spec /\ Fairness

-----------------------------------------------------------------------------
\* The verifier's state has its type; a cached check state holds a result.
TypeOK ==
  /\ status \in [Tasks -> STATES]
  /\ pr \in [Tasks -> 0..MaxPrs]
  /\ attempts \in [Tasks -> Nat]
  /\ verifyState \in [Tasks -> Rounds \cup {NONE}]
  /\ thread \in Ticks \cup {NONE}
  /\ reviewing \subseteq Rounds
  /\ \A k \in Ticks :
       /\ tick[k].task \in Tasks \cup {NONE}
       /\ tick[k].pr \in 0..MaxPrs
       /\ tick[k].round \in Rounds \cup {NONE}
  /\ \A o \in Rounds :
       /\ round[o].checks \in {"none", "pass", "pending", "fail"}
       /\ round[o].peer \in {"none", "started", "pass", "fail"}
  /\ \A t \in Tasks : verifyState[t] # NONE => round[verifyState[t]].checks # "none"

\* Nothing is merged unreviewed: whatever cycles, restarts and pushes come in
\* between, the checks a merge rests on are of the request it merges, passed,
\* and in peer mode hold the reviewer's approval ("The writer never approves
\* their own work", verify-loop.mjs).
MergeIsReviewed ==
  \A k \in Ticks : Phase(k) = "merging" =>
    /\ Round(k).checks = "pass" /\ Round(k).pr = tick[k].pr
    /\ Mode = "peer_agent_review" => "pass" \in Round(k).pushed

\* The verifier sends a task back fewer than MAX_VERIFY_ATTEMPTS times before
\* it merges or leaves it to the founder, restarts or not ("the counter MUST
\* survive daemon restarts, or a permanently-broken task ... churns forever").
ChurnBounded == \A t \in Tasks : bounces[t] < MAX_VERIFY_ATTEMPTS

\* As long as CI is never seen pending, every task in review is merged or sent
\* back in the end: no check result keeps it there tick after tick.
QueueDrains == \A t \in Tasks : status[t] = "in-review" ~> status[t] # "in-review"
-----------------------------------------------------------------------------
(* What the comments say and the code does not keep.                         *)

\* A task whose CI has reported leaves review: "infra flakiness must never
\* permanently wedge the queue" (verifier.mjs).
PendingCiRechecked ==
  \A t \in Tasks :
    [](status[t] = "in-review" /\ pr[t] # 0 /\ hub[t][pr[t]].ci \in {"pass", "fail"}
       => <>(status[t] # "in-review"))
=============================================================================
