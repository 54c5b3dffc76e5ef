----------------------------- MODULE Alerts ------------------------------
(***************************************************************************)
(* One alert rule: its evaluations (alerts.mjs), the occurrences they open *)
(* or touch (dashboard/operational-alert-store.mjs) and the operators who  *)
(* acknowledge, resolve and reopen them.  An evaluation is synchronous up  *)
(* to the sending of the notification, which it awaits before it records   *)
(* the firing; evaluations overlap when a channel is slow to answer.       *)
(***************************************************************************)
EXTENDS Integers, FiniteSets, FiniteSetsExt

CONSTANTS
    Evaluations,    \* bound: evaluations in flight together
    Operators,
    MaxOccurrences, \* bound: occurrences ever opened
    MaxVersion,     \* bound: an occurrence's version
    AlertTime,      \* bound: the clock stops here
    RuleCooldown,   \* the rule's cooldownSeconds
    TopSeverity     \* 2 in the code

ASSUME AlertsAssumption ==
    /\ MaxOccurrences \in Nat /\ MaxVersion \in Nat \ {0} /\ TopSeverity \in Nat
    /\ AlertTime \in Nat /\ RuleCooldown \in Nat

Occurrences == 1..MaxOccurrences
Severities == 0..TopSeverity     \* info, warning, critical: their rank
NoOccurrence == [status |-> "none"]

VARIABLES
    alNow,
    ruleType,   \* the rule's type: budget_threshold, or one without a threshold
    occurrence, \* alert_occurrences of the rule's fingerprint
    lastFired,  \* alert_state.last_fired_at, -1 before
    lastHigh,   \* alert_state.last_value is at or above the threshold
    sending,    \* each evaluation: the notification it awaits, or <<>>
    view,       \* what each operator has on the screen, or <<>>
    notified,   \* history: <<occurrence, severity>> whose notification was sent
    daemonDied  \* history: the daemon died while it was sending these

alertVars == <<alNow, ruleType, occurrence, lastFired, lastHigh, sending, view, notified,
               daemonDied>>

Opened == {o \in Occurrences : occurrence[o] # NoOccurrence}
Live == {o \in Opened : occurrence[o].status \in {"open", "acknowledged"}}

AlertsInit ==
    /\ alNow = 0
    /\ ruleType \in {"budget_threshold", "anomaly"}
    /\ occurrence = [o \in Occurrences |-> NoOccurrence]
    /\ lastFired = -1 /\ lastHigh = FALSE
    /\ sending = [e \in Evaluations |-> <<>>]
    /\ view = [p \in Operators |-> <<>>]
    /\ notified = {} /\ daemonDied = {}

---------------------------------------------------------------------------
(* evaluateAlerts when the rule's condition holds.  The severity is the    *)
(* configuration's, which may have been edited since the last time.        *)

InCooldown == lastFired # -1 /\ alNow - lastFired < RuleCooldown
Suppressed == InCooldown \/ (ruleType = "budget_threshold" /\ lastHigh)

NewVersion_kept(o) == occurrence[o].version
NewVersion(o) == occurrence[o].version + 1

\* upsertAlertOccurrence's update of the live occurrence; only an escalation
\* reopens what was acknowledged.
Observed(o, severity) ==
    LET escalated == severity > occurrence[o].severity IN
    [occurrence EXCEPT ![o] =
        [status   |-> IF escalated THEN "open" ELSE @.status,
         severity |-> IF escalated THEN severity ELSE @.severity,
         first    |-> @.first,
         version  |-> NewVersion(o)]]

Heard_suppressed(escalated, acknowledged) == ~(Suppressed \/ acknowledged)
Heard(escalated, acknowledged) == escalated \/ ~(Suppressed \/ acknowledged)

Dispatched(e, o, severity, heard) ==
    sending' = IF heard THEN [sending EXCEPT ![e] = <<o, severity>>] ELSE sending

evaluateNew(e, severity) ==
    /\ sending[e] = <<>> /\ Live = {}
    /\ \E o \in Occurrences \ Opened :
          /\ \A q \in Occurrences \ Opened : o <= q
          /\ occurrence' = [occurrence EXCEPT ![o] =
                [status |-> "open", severity |-> severity, first |-> severity, version |-> 1]]
          /\ Dispatched(e, o, severity, Heard(FALSE, FALSE))
    /\ UNCHANGED <<alNow, ruleType, lastFired, lastHigh, view, notified, daemonDied>>

evaluateLive(e, severity) ==
    /\ sending[e] = <<>>
    /\ \E o \in Live :
          /\ occurrence[o].version < MaxVersion
          /\ occurrence' = Observed(o, severity)
          /\ Dispatched(e, o, severity,
                        Heard(severity > occurrence[o].severity,
                              occurrence[o].status = "acknowledged"))
    /\ UNCHANGED <<alNow, ruleType, lastFired, lastHigh, view, notified, daemonDied>>

\* Every channel has answered, or failed: recordAlert takes either for a firing.
recordAlert(e) ==
    /\ sending[e] # <<>>
    /\ notified' = notified \cup {sending[e]}
    /\ sending' = [sending EXCEPT ![e] = <<>>]
    /\ lastFired' = alNow
    /\ lastHigh' = (ruleType = "budget_threshold")
    /\ UNCHANGED <<alNow, ruleType, occurrence, view, daemonDied>>

\* The daemon that evaluates dies; the store is on disk, the operators' console
\* may be another process.
DaemonDies ==
    /\ \E e \in Evaluations : sending[e] # <<>>
    /\ daemonDied' = daemonDied \cup ({sending[e] : e \in Evaluations} \ {<<>>})
    /\ sending' = [e \in Evaluations |-> <<>>]
    /\ UNCHANGED <<alNow, ruleType, occurrence, lastFired, lastHigh, view, notified>>

---------------------------------------------------------------------------
(* transitionAlertOccurrence.                                              *)

Look(p, o) ==
    /\ o \in Opened
    /\ view' = [view EXCEPT ![p] = <<o, occurrence[o]>>]
    /\ UNCHANGED <<alNow, ruleType, occurrence, lastFired, lastHigh, sending, notified, daemonDied>>

Allowed(type, status) ==
    CASE type = "acknowledge" -> status = "open"
      [] type = "resolve"     -> status \in {"open", "acknowledged"}
      [] type = "reopen"      -> status = "acknowledged"

Result(type) ==
    CASE type = "acknowledge" -> "acknowledged"
      [] type = "resolve"     -> "resolved"
      [] type = "reopen"      -> "open"

\* What is refused (no reason, no role, another version, another status) only
\* leaves an event.
transitionAlertOccurrence(p, type) ==
    /\ view[p] # <<>>
    /\ LET o == view[p][1] IN
          /\ o \in Opened
          /\ view[p][2].version = occurrence[o].version
          /\ Allowed(type, occurrence[o].status)
          /\ occurrence[o].version < MaxVersion
          /\ occurrence' = [occurrence EXCEPT ![o] =
                [status |-> Result(type), severity |-> @.severity,
                 first |-> @.first, version |-> @.version + 1]]
    /\ UNCHANGED <<alNow, ruleType, lastFired, lastHigh, sending, view, notified, daemonDied>>

AlertClock ==
    /\ alNow < AlertTime /\ alNow' = alNow + 1
    /\ UNCHANGED <<ruleType, occurrence, lastFired, lastHigh, sending, view, notified, daemonDied>>

AlertsNext ==
    \/ \E e \in Evaluations :
          \/ \E severity \in Severities : evaluateNew(e, severity) \/ evaluateLive(e, severity)
          \/ recordAlert(e)
    \/ DaemonDies
    \/ \E p \in Operators :
          \/ \E o \in Occurrences : Look(p, o)
          \/ \E type \in {"acknowledge", "resolve", "reopen"} : transitionAlertOccurrence(p, type)
    \/ AlertClock

AlertsSpec == AlertsInit /\ [][AlertsNext]_alertVars

---------------------------------------------------------------------------
AlertsTypeOK ==
    /\ alNow \in 0..AlertTime /\ lastFired \in -1..alNow
    /\ \A o \in Opened :
          /\ occurrence[o].status \in {"open", "acknowledged", "resolved"}
          /\ occurrence[o].first \in 0..occurrence[o].severity
          /\ occurrence[o].severity \in Severities
          /\ occurrence[o].version \in 1..MaxVersion
    /\ Opened = 1..Cardinality(Opened)
    /\ Cardinality(Live) <= 1

\* Whatever suppresses notifications, a cooldown, a threshold that stays crossed
\* or an acknowledgement, an occurrence that got worse is announced at its new
\* severity: sent, being sent, or lost with the daemon (alerts.mjs:296-301).
EscalationHeard ==
    \A o \in Opened :
        occurrence[o].severity > occurrence[o].first =>
            \/ <<o, occurrence[o].severity>> \in notified \cup daemonDied
            \/ \E e \in Evaluations : sending[e] = <<o, occurrence[o].severity>>

\* An operator acts on what is on the screen: no acknowledgement, resolution or
\* reopening succeeds on an occurrence whose status or severity has changed since
\* it was looked at (operational-alert-store.mjs:137-141).
ActedOnWhatWasSeen ==
    [][\A p \in Operators, type \in {"acknowledge", "resolve", "reopen"} :
          transitionAlertOccurrence(p, type) =>
              /\ view[p][2].status = occurrence[view[p][1]].status
              /\ view[p][2].severity = occurrence[view[p][1]].severity]_alertVars
=============================================================================
