---------------------------- MODULE CloudSync ----------------------------
(***************************************************************************)
(* The hybrid cloud of cloud/: the control plane an operator pushes policy *)
(* through (cloud-control-plane.mjs behind cloud-server.mjs) and one       *)
(* machine's agent (local-agent.mjs), a process of its own that reports    *)
(* what the ledger holds and writes what was pushed into the policy file,  *)
(* which the founder's dashboard writes too.                               *)
(*                                                                         *)
(* One report is out at a time: the interval is never below thirty seconds *)
(* and a report is given up after ten.  A report may be lost before or     *)
(* after the cloud has stored it; the agent and the cloud may die.         *)
(***************************************************************************)
EXTENDS Integers, Sequences, FiniteSets

CONSTANTS
    Paths, Values,  \* dotted paths of policy.yaml; what may be set there
    MaxPushes,      \* bound: rows of cloud_policy_updates
    MaxEvents,      \* bound: rows of the ledger, named in order
    CloudTime,      \* bound: the clock, in seconds, stops here
    MaxDeaths       \* bound: deaths of the agent and of the cloud server

ASSUME CloudAssumption == MaxPushes \in Nat /\ MaxEvents \in Nat /\ CloudTime \in Nat

Events == 1..MaxEvents
NotYet == -1
NoValue == "none"
NoPreview == [state |-> "none"]

VARIABLES
    csNow,
    policyUpdates, \* cloud_policy_updates, ORDER BY created_at: path and value
    preview,       \* the management console's preview of a push
    cloudMetadata, \* the events stored, some of them more than once
    tokenEvents,   \* when each event was recorded, NotYet before
    report,        \* the agent's report: where it is, its events, its answer
    sinceTs,       \* the agent's cursor
    localPolicy,   \* policy.yaml: the value at each path
    deaths,
    due,           \* history: recorded between reports, of no answered report yet
    expected,      \* history: what the last answer would leave at each path
    pushes,        \* history: times the preview was pushed
    unmarked       \* history: times the cloud died before marking it confirmed

cloudVars == <<csNow, policyUpdates, preview, cloudMetadata, tokenEvents, report, sinceTs,
               localPolicy, deaths, due, expected, pushes, unmarked>>

NoReport == [step |-> "none", batch |-> {}, todo |-> <<>>]

CloudInit ==
    /\ csNow = 0
    /\ policyUpdates = <<>> /\ preview = NoPreview
    /\ cloudMetadata = {}
    /\ tokenEvents = [e \in Events |-> NotYet]
    /\ report = NoReport /\ sinceTs = 0
    /\ \E v \in Values : localPolicy = [p \in Paths |-> v]
    /\ deaths = 0
    /\ due = {} /\ expected = [p \in Paths |-> NoValue]
    /\ pushes = 0 /\ unmarked = 0

---------------------------------------------------------------------------
(* The operator and the cloud.                                             *)

Pushed(update) ==
    /\ Len(policyUpdates) < MaxPushes
    /\ policyUpdates' = Append(policyUpdates, update)

CloudElsewhere == UNCHANGED <<csNow, cloudMetadata, tokenEvents, report, sinceTs, localPolicy,
                              due, expected>>

pushPolicy(update) ==
    /\ Pushed(update)
    /\ UNCHANGED <<preview, deaths, pushes, unmarked>> /\ CloudElsewhere

previewPolicyPush(update) ==
    /\ preview = NoPreview
    /\ preview' = [state |-> "previewed", update |-> update]
    /\ UNCHANGED <<policyUpdates, deaths, pushes, unmarked>> /\ CloudElsewhere

Confirmable_again == preview # NoPreview
Confirmable == preview.state = "previewed"

\* A preview that is confirmed already is answered as a duplicate.
confirmPolicyPush ==
    /\ Confirmable /\ Pushed(preview.update)
    /\ preview' = [preview EXCEPT !.state = "confirmed"]
    /\ pushes' = pushes + 1
    /\ UNCHANGED <<deaths, unmarked>> /\ CloudElsewhere

\* The push and the mark are separate statements: the server dies between them.
confirmAndDie ==
    /\ deaths < MaxDeaths /\ deaths' = deaths + 1
    /\ Confirmable /\ Pushed(preview.update)
    /\ pushes' = pushes + 1 /\ unmarked' = unmarked + 1
    /\ UNCHANGED preview /\ CloudElsewhere

\* Nothing acknowledges an update, so every answer lists every update again.
pendingPolicyForMachine_newest ==
    [i \in 1..Len(policyUpdates) |-> policyUpdates[Len(policyUpdates) + 1 - i]]
pendingPolicyForMachine == policyUpdates

\* The report arrives: its events are stored, and the answer made.
reportMetadata ==
    /\ report.step = "sent"
    /\ cloudMetadata' = cloudMetadata \cup report.batch
    /\ report' = [report EXCEPT !.step = "answered", !.todo = pendingPolicyForMachine]
    /\ UNCHANGED <<csNow, policyUpdates, preview, tokenEvents, sinceTs, localPolicy, deaths, due,
                   expected, pushes, unmarked>>

---------------------------------------------------------------------------
(* The agent.                                                              *)

AgentElsewhere == UNCHANGED <<csNow, policyUpdates, preview, cloudMetadata, tokenEvents, deaths,
                              pushes, unmarked>>

\* reportOnce up to its await: the events since the last answer that came.
reportOnce ==
    /\ report.step = "none"
    /\ report' = [NoReport EXCEPT !.step = "sent",
                     !.batch = {e \in Events : tokenEvents[e] # NotYet /\ tokenEvents[e] >= sinceTs}]
    /\ UNCHANGED <<sinceTs, localPolicy, due, expected>> /\ AgentElsewhere

\* Timed out or broken off, before the cloud stored it or after.
ReportFails_advances ==
    /\ report.step \in {"sent", "answered"}
    /\ report' = NoReport /\ sinceTs' = csNow
    /\ UNCHANGED <<localPolicy, due, expected>> /\ AgentElsewhere
ReportFails ==
    /\ report.step \in {"sent", "answered"}
    /\ report' = NoReport
    /\ UNCHANGED <<sinceTs, localPolicy, due, expected>> /\ AgentElsewhere

\* What the updates of an answer leave at a path, applied in their order.
LastOf(updates, p) ==
    LET at == {i \in DOMAIN updates : updates[i].path = p}
    IN IF at = {} THEN NoValue
       ELSE updates[CHOOSE i \in at : \A j \in at : j <= i].value

\* The answer has come: the cursor moves to the present, not to the query.  The
\* answer was made from a prefix of the updates there are now.
AnswerArrives ==
    /\ report.step = "answered"
    /\ sinceTs' = csNow
    /\ report' = [report EXCEPT !.step = "applying"]
    /\ due' = {}
    /\ expected' = [p \in Paths |->
                       LastOf(SubSeq(policyUpdates, 1, Len(report.todo)), p)]
    /\ UNCHANGED localPolicy /\ AgentElsewhere

\* applyPolicyUpdates: one write of the file for each, between which the others
\* may read and write it.  A write that cannot have the lock in time is skipped.
ApplyNext(skipped) ==
    /\ report.step = "applying" /\ report.todo # <<>>
    /\ LET update == Head(report.todo) IN
          /\ localPolicy' = IF skipped THEN localPolicy
                            ELSE [localPolicy EXCEPT ![update.path] = update.value]
          /\ expected' = IF skipped THEN [expected EXCEPT ![update.path] = NoValue] ELSE expected
    /\ report' = [report EXCEPT !.todo = Tail(@)]
    /\ UNCHANGED <<sinceTs, due>> /\ AgentElsewhere

Applied ==
    /\ report.step = "applying" /\ report.todo = <<>>
    /\ report' = NoReport
    /\ UNCHANGED <<sinceTs, localPolicy, due, expected>> /\ AgentElsewhere

\* The cursor is not kept: what was recorded and not reported stays unreported.
AgentRestarts ==
    /\ deaths < MaxDeaths /\ deaths' = deaths + 1
    /\ report' = NoReport /\ sinceTs' = csNow
    /\ due' = {} /\ expected' = [p \in Paths |-> NoValue]
    /\ UNCHANGED <<csNow, policyUpdates, preview, cloudMetadata, tokenEvents, localPolicy, pushes,
                   unmarked>>

---------------------------------------------------------------------------
(* The machine around the agent.                                           *)

\* The gateway records a token event.
RecordEvent ==
    /\ \E e \in Events :
          /\ tokenEvents[e] = NotYet /\ \A d \in 1..e - 1 : tokenEvents[d] # NotYet
          /\ tokenEvents' = [tokenEvents EXCEPT ![e] = csNow]
          /\ due' = IF report.step = "none" THEN due \cup {e} ELSE due
    /\ UNCHANGED <<csNow, policyUpdates, preview, cloudMetadata, report, sinceTs, localPolicy,
                   deaths, expected, pushes, unmarked>>

\* The founder saves another value in the dashboard.
EditPolicy(update) ==
    /\ localPolicy[update.path] # update.value
    /\ localPolicy' = [localPolicy EXCEPT ![update.path] = update.value]
    /\ expected' = [expected EXCEPT ![update.path] = NoValue]
    /\ UNCHANGED <<csNow, policyUpdates, preview, cloudMetadata, tokenEvents, report, sinceTs,
                   deaths, due, pushes, unmarked>>

CloudClock ==
    /\ csNow < CloudTime /\ csNow' = csNow + 1
    /\ UNCHANGED <<policyUpdates, preview, cloudMetadata, tokenEvents, report, sinceTs,
                   localPolicy, deaths, due, expected, pushes, unmarked>>

Updates == [path : Paths, value : Values]

CloudNext ==
    \/ \E update \in Updates :
          pushPolicy(update) \/ previewPolicyPush(update) \/ EditPolicy(update)
    \/ confirmPolicyPush \/ confirmAndDie
    \/ reportOnce \/ reportMetadata \/ ReportFails \/ AnswerArrives
    \/ \E skipped \in BOOLEAN : ApplyNext(skipped)
    \/ Applied
    \/ AgentRestarts
    \/ RecordEvent
    \/ CloudClock

CloudSpec == CloudInit /\ [][CloudNext]_cloudVars

---------------------------------------------------------------------------
CloudTypeOK ==
    /\ csNow \in 0..CloudTime /\ sinceTs \in 0..csNow
    /\ policyUpdates \in Seq(Updates) /\ Len(policyUpdates) <= MaxPushes
    /\ preview = NoPreview \/ preview.state \in {"previewed", "confirmed"}
    /\ cloudMetadata \subseteq Events
    /\ tokenEvents \in [Events -> {NotYet} \cup 0..csNow]
    /\ report.step \in {"none", "sent", "answered", "applying"}
    /\ report.batch \subseteq Events /\ report.todo \in Seq(Updates)
    /\ localPolicy \in [Paths -> Values]
    /\ expected \in [Paths -> Values \cup {NoValue}]

\* When the updates of an answer have all been written, each path holds the value
\* that was pushed for it last before the answer was made, whatever order older
\* pushes, lost answers and restarts came in; only a later edit in the dashboard,
\* or a write the lock refused, may leave another value
\* (cloud-control-plane.mjs:204-211, local-agent.mjs:106-132).
LastPushWins ==
    report.step = "none" =>
        \A p \in Paths : expected[p] # NoValue => localPolicy[p] = expected[p]

\* An event recorded between two reports is in the cloud when the next answer is
\* made: reports that were lost on the way, or answered in vain, lose none
\* (local-agent.mjs:172-181 moves the cursor on success only).  Events recorded while a report is out, or before a restart,
\* have no such promise.
OwedIsReported == report.step = "answered" => due \subseteq cloudMetadata

\* A preview is pushed once, however often it is confirmed, and once more for each
\* time the server died between the push and its mark (cloud-control-plane.mjs:186-190).
ConfirmedOnce == pushes <= 1 + unmarked
=============================================================================
