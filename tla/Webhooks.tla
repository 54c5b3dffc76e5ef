---------------------------- MODULE Webhooks -----------------------------
(***************************************************************************)
(* api/webhooks.mjs and dashboard/management-webhooks.mjs: one registered  *)
(* endpoint, the deliveries of events to it (three attempts with pauses    *)
(* between, all of them awaits), the replays of logged attempts an         *)
(* operator asks for, and the failure count they share.  An attempt that   *)
(* is out may come back at any time, and the process may die meanwhile.    *)
(***************************************************************************)
EXTENDS Integers, FiniteSets

CONSTANTS
    Deliveries,   \* bound: events triggered for the endpoint
    Replays,      \* bound: requests to replay
    Tenants,      \* scopes the management console is asked from
    MaxLogged,    \* bound: rows of webhook_delivery_logs, named in order
    MAX_ATTEMPTS,
    MaxCrashes    \* bound

ASSUME WebhooksAssumption == MaxLogged \in Nat /\ MAX_ATTEMPTS \in Nat \ {0}

Attempts == 1..MaxLogged
NoScope == "none"

VARIABLES
    hook,        \* the row of webhooks, and the scope it is claimed for
    delivery,    \* each event: where it is, attempts made
    attemptLog,  \* webhook_delivery_logs: status, "pruned" once deleted
    replayCall,  \* each request: where it is, what of, the count it read
    reservation, \* management_webhook_replays: outcome for each attempt
    crashes,
    sentFor,     \* history: times an attempt was sent again
    failedRun,   \* history: failed attempts since the last success
    staleWrite   \* history: a replay wrote back a count others had changed

hookVars == <<hook, delivery, attemptLog, replayCall, reservation, crashes,
              sentFor, failedRun, staleWrite>>

Logged == {a \in Attempts : attemptLog[a] # "none"}
IdleReplay == [step |-> "idle", of |-> 0, count |-> 0]

WebhooksInit ==
    /\ hook = [exists |-> TRUE, active |-> TRUE, count |-> 0, scope |-> NoScope]
    /\ delivery = [d \in Deliveries |-> [step |-> "idle", made |-> 0]]
    /\ attemptLog = [a \in Attempts |-> "none"]
    /\ replayCall = [r \in Replays |-> IdleReplay]
    /\ reservation = [a \in Attempts |-> "none"]
    /\ crashes = 0
    /\ sentFor = [a \in Attempts |-> 0]
    /\ failedRun = 0
    /\ staleWrite = FALSE

logDelivery(status) ==
    /\ Cardinality(Logged) < MaxLogged
    /\ attemptLog' = [attemptLog EXCEPT ![Cardinality(Logged) + 1] = status]

---------------------------------------------------------------------------
(* triggerEvent, for this endpoint.                                        *)

triggerEvent(d) ==
    /\ delivery[d].step = "idle" /\ hook.exists /\ hook.active
    /\ delivery' = [delivery EXCEPT ![d].step = "sending"]
    /\ UNCHANGED <<hook, attemptLog, replayCall, reservation, crashes, sentFor, failedRun,
                   staleWrite>>

Delivered_keeps(d) ==
    /\ delivery[d].step = "sending"
    /\ logDelivery("success")
    /\ hook' = hook
    /\ failedRun' = 0
    /\ delivery' = [delivery EXCEPT ![d] = [step |-> "done", made |-> @.made + 1]]
    /\ UNCHANGED <<replayCall, reservation, crashes, sentFor, staleWrite>>
\* The updates find no row when the endpoint has been deleted.
Delivered(d) ==
    /\ delivery[d].step = "sending"
    /\ logDelivery("success")
    /\ hook' = IF hook.exists THEN [hook EXCEPT !.count = 0] ELSE hook
    /\ failedRun' = 0
    /\ delivery' = [delivery EXCEPT ![d] = [step |-> "done", made |-> @.made + 1]]
    /\ UNCHANGED <<replayCall, reservation, crashes, sentFor, staleWrite>>

\* The last failure disables the endpoint if the shared count says so.
DeliveryFails(d) ==
    LET made == delivery[d].made + 1
        final == made >= MAX_ATTEMPTS
        count == hook.count + 1 IN
    /\ delivery[d].step = "sending"
    /\ logDelivery(IF final THEN "failed" ELSE "retrying")
    /\ hook' = IF ~hook.exists THEN hook
               ELSE [hook EXCEPT !.count = count,
                                 !.active = @ /\ ~(final /\ count >= MAX_ATTEMPTS)]
    /\ failedRun' = failedRun + 1
    /\ delivery' = [delivery EXCEPT ![d] = [step |-> IF final THEN "done" ELSE "pausing",
                                            made |-> made]]
    /\ UNCHANGED <<replayCall, reservation, crashes, sentFor, staleWrite>>

\* The pause is over: the row read at the start is sent again, whatever it says now.
SendAgain(d) ==
    /\ delivery[d].step = "pausing"
    /\ delivery' = [delivery EXCEPT ![d].step = "sending"]
    /\ UNCHANGED <<hook, attemptLog, replayCall, reservation, crashes, sentFor, failedRun,
                   staleWrite>>

---------------------------------------------------------------------------
(* replayWebhookAttempt and, in its await, replayWebhookDelivery.          *)

\* Whoever asks first for an endpoint nobody has claimed has claimed it.
scopedWebhook(t) == hook.scope = t \/ (hook.scope = NoScope /\ hook.exists)

Claimed(t) == IF hook.scope = NoScope THEN [hook EXCEPT !.scope = t] ELSE hook

Reserved_pending(a) == reservation[a] = "pending"
Reserved(a) == reservation[a] # "none"

replayWebhookAttempt(r, t, a) ==
    /\ replayCall[r].step = "idle"
    /\ scopedWebhook(t) /\ hook' = Claimed(t)
    /\ attemptLog[a] \in {"failed", "retrying"}
    /\ ~Reserved(a)
    /\ IF hook.exists /\ hook.active
       THEN /\ reservation' = [reservation EXCEPT ![a] = "pending"]
            /\ sentFor' = [sentFor EXCEPT ![a] = @ + 1]
            /\ replayCall' = [replayCall EXCEPT ![r] =
                                 [step |-> "sending", of |-> a, count |-> hook.count]]
       ELSE /\ reservation' = [reservation EXCEPT ![a] = "ineligible"]
            /\ replayCall' = [replayCall EXCEPT ![r].step = "done"]
            /\ UNCHANGED sentFor
    /\ UNCHANGED <<delivery, attemptLog, crashes, failedRun, staleWrite>>

\* Its answer: the count read before the await is written back, plus one.
ReplayAnswered(r, ok) ==
    /\ replayCall[r].step = "sending"
    /\ logDelivery(IF ok THEN "success" ELSE "failed")
    /\ hook' = IF hook.exists
               THEN [hook EXCEPT !.count = IF ok THEN 0 ELSE replayCall[r].count + 1]
               ELSE hook
    /\ failedRun' = IF ok THEN 0 ELSE failedRun + 1
    /\ staleWrite' = (staleWrite \/ (~ok /\ hook.count # replayCall[r].count))
    /\ reservation' = [reservation EXCEPT ![replayCall[r].of] =
                          IF ok THEN "succeeded" ELSE "failed"]
    /\ replayCall' = [replayCall EXCEPT ![r].step = "done"]
    /\ UNCHANGED <<delivery, crashes, sentFor>>

---------------------------------------------------------------------------
(* The rest.                                                               *)

\* A console may record an attempt; an endpoint nobody registered is made up.
recordWebhookAttempt(t, status) ==
    LET row == IF hook.exists THEN hook
               ELSE [hook EXCEPT !.exists = TRUE, !.active = TRUE, !.count = 0] IN
    /\ hook.scope \in {NoScope, t}
    /\ logDelivery(status)
    /\ hook' = [row EXCEPT !.scope = t]
    /\ failedRun' = IF hook.exists THEN failedRun ELSE 0
    /\ UNCHANGED <<delivery, replayCall, reservation, crashes, sentFor, staleWrite>>

deleteWebhook ==
    /\ hook.exists
    /\ hook' = [hook EXCEPT !.exists = FALSE, !.active = FALSE, !.count = 0]
    /\ UNCHANGED <<delivery, attemptLog, replayCall, reservation, crashes, sentFor,
                   failedRun, staleWrite>>

\* Nightly, and before every listing and replay: the oldest rows go.
pruneWebhookDeliveryLogs ==
    /\ \E last \in Logged :
          /\ attemptLog[last] # "pruned"
          /\ attemptLog' = [a \in Attempts |-> IF a <= last THEN "pruned" ELSE attemptLog[a]]
    /\ UNCHANGED <<hook, delivery, replayCall, reservation, crashes, sentFor, failedRun,
                   staleWrite>>

\* The process dies: nothing takes up a delivery or a replay again.
WebhookCrash ==
    /\ crashes < MaxCrashes /\ crashes' = crashes + 1
    /\ delivery' = [d \in Deliveries |-> IF delivery[d].step = "idle" THEN delivery[d]
                                         ELSE [delivery[d] EXCEPT !.step = "done"]]
    /\ replayCall' = [r \in Replays |-> IF replayCall[r].step = "idle" THEN replayCall[r]
                                        ELSE [replayCall[r] EXCEPT !.step = "done"]]
    /\ UNCHANGED <<hook, attemptLog, reservation, sentFor, failedRun, staleWrite>>

WebhooksNext ==
    \/ \E d \in Deliveries :
          triggerEvent(d) \/ Delivered(d) \/ DeliveryFails(d) \/ SendAgain(d)
    \/ \E r \in Replays :
          \/ \E t \in Tenants, a \in Attempts : replayWebhookAttempt(r, t, a)
          \/ \E ok \in BOOLEAN : ReplayAnswered(r, ok)
    \/ \E t \in Tenants, status \in {"failed", "success"} : recordWebhookAttempt(t, status)
    \/ deleteWebhook
    \/ pruneWebhookDeliveryLogs
    \/ WebhookCrash

WebhooksSpec == WebhooksInit /\ [][WebhooksNext]_hookVars

---------------------------------------------------------------------------
WebhooksTypeOK ==
    /\ hook.count \in Nat /\ hook.scope \in Tenants \cup {NoScope}
    /\ hook.active => hook.exists
    /\ \A d \in Deliveries : /\ delivery[d].step \in {"idle", "sending", "pausing", "done"}
                             /\ delivery[d].made \in 0..MAX_ATTEMPTS
    /\ \A a \in Attempts :
          /\ attemptLog[a] \in {"none", "success", "failed", "retrying", "pruned"}
          /\ reservation[a] \in {"none", "pending", "ineligible", "succeeded", "failed"}
          /\ attemptLog[a] = "none" => reservation[a] = "none"
    /\ Logged = 1..Cardinality(Logged)

\* An endpoint is switched off for failing, not for having failed: when a
\* delivery disables it, at least three attempts in a row have failed with no
\* success of any delivery or replay in between (webhooks.mjs:133-146).  The one
\* exception is the code's: a replay that wrote back a count it had read before
\* another's success (webhooks.mjs:108).
DisabledForFailing ==
    [][hook.active /\ hook'.exists /\ ~hook'.active
       => failedRun' >= MAX_ATTEMPTS \/ staleWrite']_hookVars

\* A logged attempt is sent again at most once, however many replays of it are
\* asked for, overlap, fail or are cut off by a crash
\* (management-webhooks.mjs:41-43).
ReplayedOnce == \A a \in Attempts : sentFor[a] <= 1
=============================================================================
