--------------------------- MODULE ServicesProofs --------------------------
(***************************************************************************)
(* Theorems about the services around the task store, for every value of   *)
(* their constants: the circuit breaker, alerts, licences, the gateway and *)
(* its caps, the cloud and webhooks; and at the end of all the services    *)
(* together, whose promises follow from those of the parts.                *)
(***************************************************************************)
EXTENDS Services, RoutingProofs, WorkshopProofs, FiniteSetTheorems, TLAPS

-----------------------------------------------------------------------------
(* The circuit breaker (model-fallback.mjs).                               *)

\* A circuit that a failure opened stays open, with the cooldown of the last
\* failure or, after a late success, with none at all.
OpenedStaysOpen ==
  \A m \in Models :
    openedAt[m] # Never =>
      /\ openedAt[m] \in Nat
      /\ entry[m].state = "circuit_open"
      /\ entry[m].cooldownUntil # Never => entry[m].cooldownUntil = openedAt[m] + OpenFor
BreakerInv ==
  /\ prNow \in Nat
  /\ entry = [m \in Models |-> entry[m]]
  /\ openedAt = [m \in Models |-> openedAt[m]]
  /\ modelCall \in [ModelCalls -> [model : Models \cup {"none"}, attempted : SUBSET Models]]
  /\ OpenedStaysOpen

LEMMA FailureStep ==
  ASSUME BreakerInv, NEW m \in Models, NEW kind \in {"auth", "client", "server"},
         recordFailure(m, kind)
  PROVE  /\ entry' = [q \in Models |-> entry'[q]] /\ openedAt' = [q \in Models |-> openedAt'[q]]
         /\ prNow' = prNow => OpenedStaysOpen'
<1>1. ASSUME NEW countNow, Opens(m, countNow)
      PROVE  /\ entry' = [q \in Models |-> entry'[q]] /\ openedAt' = [q \in Models |-> openedAt'[q]]
             /\ OpenedStaysOpen'
  <2>1. /\ entry'[m].state = "circuit_open" /\ entry'[m].cooldownUntil = prNow + OpenFor
        /\ openedAt'[m] = prNow
        /\ \A q \in Models \ {m} : entry'[q] = entry[q] /\ openedAt'[q] = openedAt[q]
    BY <1>1 DEF Opens, BreakerInv
  <2>2. OpenedStaysOpen'
    BY <2>1 DEF BreakerInv, OpenedStaysOpen
  <2> QED
    BY <1>1, <2>2 DEF Opens, BreakerInv
<1>2. CASE UNCHANGED <<entry, openedAt>>
  BY <1>2 DEF BreakerInv, OpenedStaysOpen
<1>3. ASSUME NEW state, NEW countNow,
             \/ state = entry[m].state
             \/ entry[m].state = "healthy",
             entry' = [entry EXCEPT ![m] = [state |-> state, failureCount |-> countNow,
                                            cooldownUntil |-> @.cooldownUntil]],
             UNCHANGED openedAt
      PROVE  /\ entry' = [q \in Models |-> entry'[q]] /\ openedAt' = [q \in Models |-> openedAt'[q]]
             /\ OpenedStaysOpen'
  <2>1. /\ entry'[m].state = state /\ entry'[m].cooldownUntil = entry[m].cooldownUntil
        /\ \A q \in Models \ {m} : entry'[q] = entry[q]
    BY <1>3 DEF BreakerInv
  <2>2. OpenedStaysOpen'
    BY <1>3, <2>1 DEF BreakerInv, OpenedStaysOpen
  <2> QED
    BY <1>3, <2>2 DEF BreakerInv
<1> QED
  BY <1>1, <1>2, <1>3 DEF recordFailure

LEMMA BreakerStep == BreakerInv /\ [ProvidersNext]_providersVars => BreakerInv'
<1> SUFFICES ASSUME BreakerInv, [ProvidersNext]_providersVars PROVE BreakerInv'
  OBVIOUS
<1>1. ASSUME NEW c \in ModelCalls, resolveModelWithFallback(c)
      PROVE  BreakerInv'
  <2>1. PICK m \in Resolved(modelCall[c].attempted) :
          modelCall' = [modelCall EXCEPT ![c] = [model |-> m, attempted |-> @.attempted \cup {m}]]
    BY <1>1 DEF resolveModelWithFallback
  <2>2. m \in Models
    BY <2>1 DEF Resolved
  <2> QED
    BY <1>1, <2>1, <2>2 DEF resolveModelWithFallback, BreakerInv, OpenedStaysOpen
<1>2. ASSUME NEW c \in ModelCalls, Exhausted(c)
      PROVE  BreakerInv'
  BY <1>2 DEF Exhausted, IdleCall, BreakerInv, OpenedStaysOpen
<1>3. ASSUME NEW c \in ModelCalls, AnswerOk(c)
      PROVE  BreakerInv'
  <2>1. PICK m \in Models : recordSuccess(m)
    BY <1>3 DEF AnswerOk, BreakerInv
  <2>2. /\ entry' = [q \in Models |-> entry'[q]]
        /\ entry[m].state = "circuit_open" => entry'[m].state = "circuit_open"
        /\ entry'[m].cooldownUntil = Never
        /\ \A q \in Models \ {m} : entry'[q] = entry[q]
    BY <2>1 DEF recordSuccess, BreakerInv
  <2> QED
    BY <1>3, <2>2 DEF AnswerOk, IdleCall, BreakerInv, OpenedStaysOpen
<1>4. ASSUME NEW c \in ModelCalls, NEW kind \in {"auth", "client", "server"}, AnswerFails(c, kind)
      PROVE  BreakerInv'
  <2>1. PICK m \in Models : recordFailure(m, kind)
    BY <1>4 DEF AnswerFails, BreakerInv
  <2> QED
    BY <1>4, <2>1, FailureStep DEF AnswerFails, BreakerInv
<1>5. ASSUME NEW m \in Models, reset(m)
      PROVE  BreakerInv'
  BY <1>5 DEF reset, BreakerInv, OpenedStaysOpen
<1>6. CASE PrClock
  BY <1>6 DEF PrClock, BreakerInv, OpenedStaysOpen
<1>7. CASE UNCHANGED providersVars
  BY <1>7 DEF providersVars, BreakerInv, OpenedStaysOpen
<1> QED
  BY <1>1, <1>2, <1>3, <1>4, <1>5, <1>6, <1>7 DEF ProvidersNext

\* A model whose circuit a failure opened is offered to nobody before its cooldown
\* is over, whatever late answers arrive (model-fallback.mjs, isAvailable).
THEOREM CircuitHoldsForItsCooldown == ProvidersSpec => []CooldownHolds
<1>1. ProvidersInit => BreakerInv
  BY DEF ProvidersInit, BreakerInv, OpenedStaysOpen, IdleCall
<1>2. BreakerInv => CooldownHolds
  BY DEF BreakerInv, OpenedStaysOpen, CooldownHolds, isAvailable
<1> QED
  BY <1>1, <1>2, BreakerStep, PTL DEF ProvidersSpec

-----------------------------------------------------------------------------
(* Alerts (alerts.mjs, dashboard/operational-alert-store.mjs).             *)

AlertsInv ==
  /\ occurrence = [o \in Occurrences |-> occurrence[o]]
  /\ sending = [e \in Evaluations |-> sending[e]]
  /\ \A o \in Opened : occurrence[o].severity \in Severities /\ occurrence[o].first \in Severities
  /\ EscalationHeard

LEMMA EmptyIsNoPair ==
  ASSUME NEW a, NEW b PROVE <<>> # <<a, b>>
OBVIOUS

LEMMA NotAboveItself ==
  ASSUME NEW n \in Severities PROVE ~(n > n)
BY AlertsAssumption DEF Severities

\* An evaluation announces an occurrence that it has made worse.
LEMMA EvaluationStep ==
  ASSUME AlertsInv, NEW e \in Evaluations, NEW severity \in Severities,
         evaluateNew(e, severity) \/ evaluateLive(e, severity)
  PROVE  AlertsInv'
<1>a. /\ sending[e] = <<>>
      /\ UNCHANGED <<notified, daemonDied>>
  BY DEF evaluateNew, evaluateLive
<1>1. PICK o \in Occurrences :
        /\ \E rec : occurrence' = [occurrence EXCEPT ![o] = rec]
        /\ sending' = sending \/ sending' = [sending EXCEPT ![e] = <<o, severity>>]
        /\ \/ /\ occurrence'[o].severity = occurrence'[o].first
              /\ occurrence'[o].severity = severity
           \/ /\ o \in Opened
              /\ occurrence'[o].first = occurrence[o].first
              /\ \/ occurrence'[o].severity = occurrence[o].severity
                 \/ /\ occurrence'[o].severity = severity
                    /\ sending' = [sending EXCEPT ![e] = <<o, severity>>]
  <2>1. CASE evaluateNew(e, severity)
    <3>1. PICK o \in Occurrences :
             /\ occurrence' = [occurrence EXCEPT ![o] =
                   [status |-> "open", severity |-> severity, first |-> severity, version |-> 1]]
             /\ Dispatched(e, o, severity, Heard(FALSE, FALSE))
      BY <2>1 DEF evaluateNew
    <3>2. /\ occurrence'[o].severity = occurrence'[o].first
          /\ occurrence'[o].severity = severity
      BY <3>1 DEF AlertsInv
    <3> QED
      BY <3>1, <3>2 DEF Dispatched
  <2>2. CASE evaluateLive(e, severity)
    <3>1. PICK o \in Live :
             /\ occurrence' = Observed(o, severity)
             /\ Dispatched(e, o, severity, Heard(severity > occurrence[o].severity,
                                                 occurrence[o].status = "acknowledged"))
      BY <2>2 DEF evaluateLive
    <3>2. o \in Occurrences /\ o \in Opened
      BY DEF Live, Opened
    <3>3. /\ occurrence'[o].first = occurrence[o].first
          /\ \/ occurrence'[o].severity = occurrence[o].severity
             \/ severity > occurrence[o].severity /\ occurrence'[o].severity = severity
      BY <3>1, <3>2 DEF Observed, AlertsInv
    <3>4. severity > occurrence[o].severity => sending' = [sending EXCEPT ![e] = <<o, severity>>]
      BY <3>1 DEF Dispatched, Heard
    <3>5. sending' = sending \/ sending' = [sending EXCEPT ![e] = <<o, severity>>]
      BY <3>1 DEF Dispatched
    <3>6. \E rec : occurrence' = [occurrence EXCEPT ![o] = rec]
      BY <3>1 DEF Observed
    <3> QED
      BY <3>2, <3>3, <3>4, <3>5, <3>6
  <2> QED
    BY <2>1, <2>2
<1>2. /\ \A q \in Occurrences \ {o} : occurrence'[q] = occurrence[q]
      /\ \A f \in Evaluations \ {e} : sending'[f] = sending[f]
      /\ occurrence' = [q \in Occurrences |-> occurrence'[q]]
      /\ sending' = [f \in Evaluations |-> sending'[f]]
  BY <1>1 DEF AlertsInv
<1>4. \A q \in Opened' : occurrence'[q].severity \in Severities /\ occurrence'[q].first \in Severities
  BY <1>1, <1>2 DEF AlertsInv, Opened
<1>3. EscalationHeard'
  <2> SUFFICES ASSUME NEW q \in Occurrences, (q \in Opened)',
                      occurrence'[q].severity > occurrence'[q].first
               PROVE  \/ <<q, occurrence'[q].severity>> \in notified \cup daemonDied
                      \/ \E f \in Evaluations : sending'[f] = <<q, occurrence'[q].severity>>
    BY <1>a DEF EscalationHeard, Opened
  <2>1. CASE q = o /\ occurrence'[o].severity = severity
                   /\ sending' = [sending EXCEPT ![e] = <<o, severity>>]
    BY <2>1 DEF AlertsInv
  <2>2. CASE q \in Opened /\ occurrence'[q].severity = occurrence[q].severity
                          /\ occurrence'[q].first = occurrence[q].first
    <3>1. \/ <<q, occurrence[q].severity>> \in notified \cup daemonDied
          \/ \E f \in Evaluations : sending[f] = <<q, occurrence[q].severity>>
      BY <2>2 DEF AlertsInv, EscalationHeard
    <3>2. \A f \in Evaluations : sending[f] = <<q, occurrence[q].severity>> => f # e
      BY <1>a, EmptyIsNoPair
    <3> QED
      BY <2>2, <3>1, <3>2, <1>2
  <2>3. q # o => occurrence'[q] = occurrence[q] /\ q \in Opened
    BY <1>2 DEF Opened
  <2>4. occurrence'[q].severity # occurrence'[q].first
    BY <1>4, NotAboveItself
  <2> QED
    BY <1>1, <2>1, <2>2, <2>3, <2>4
<1> QED
  BY <1>2, <1>3, <1>4 DEF AlertsInv, Opened

LEMMA AlertsStep == AlertsInv /\ [AlertsNext]_alertVars => AlertsInv'
<1> SUFFICES ASSUME AlertsInv, [AlertsNext]_alertVars PROVE AlertsInv'
  OBVIOUS
<1>1. ASSUME NEW e \in Evaluations, NEW severity \in Severities,
             evaluateNew(e, severity) \/ evaluateLive(e, severity)
      PROVE  AlertsInv'
  BY <1>1, EvaluationStep
<1>2. ASSUME NEW e \in Evaluations, recordAlert(e)
      PROVE  AlertsInv'
  <2>1. EscalationHeard'
    <3> SUFFICES ASSUME NEW q \in Opened, occurrence[q].severity > occurrence[q].first
                 PROVE  \/ <<q, occurrence[q].severity>> \in notified' \cup daemonDied
                        \/ \E f \in Evaluations : sending'[f] = <<q, occurrence[q].severity>>
      BY <1>2 DEF recordAlert, EscalationHeard, Opened
    <3>1. \/ <<q, occurrence[q].severity>> \in notified \cup daemonDied
          \/ \E f \in Evaluations : sending[f] = <<q, occurrence[q].severity>>
      BY DEF AlertsInv, EscalationHeard
    <3>2. notified' = notified \cup {sending[e]}
      BY <1>2 DEF recordAlert
    <3>3. \A f \in Evaluations \ {e} : sending'[f] = sending[f]
      BY <1>2 DEF recordAlert, AlertsInv
    <3> QED
      BY <3>1, <3>2, <3>3
  <2> QED
    BY <1>2, <2>1 DEF recordAlert, AlertsInv, Opened
<1>3. CASE DaemonDies
  <2>1. EscalationHeard'
    <3> SUFFICES ASSUME NEW q \in Opened, occurrence[q].severity > occurrence[q].first
                 PROVE  <<q, occurrence[q].severity>> \in notified \cup daemonDied'
      BY <1>3 DEF DaemonDies, EscalationHeard, Opened
    <3>1. \/ <<q, occurrence[q].severity>> \in notified \cup daemonDied
          \/ \E f \in Evaluations : sending[f] = <<q, occurrence[q].severity>>
      BY DEF AlertsInv, EscalationHeard
    <3>2. daemonDied' = daemonDied \cup ({sending[f] : f \in Evaluations} \ {<<>>})
      BY <1>3 DEF DaemonDies
    <3>3. <<>> # <<q, occurrence[q].severity>>
      BY EmptyIsNoPair
    <3> QED
      BY <3>1, <3>2, <3>3
  <2> QED
    BY <1>3, <2>1 DEF DaemonDies, AlertsInv, Opened
<1>4. ASSUME NEW p \in Operators, NEW o \in Occurrences, Look(p, o)
      PROVE  AlertsInv'
  BY <1>4 DEF Look, AlertsInv, Opened, EscalationHeard
<1>5. ASSUME NEW p \in Operators, NEW type \in {"acknowledge", "resolve", "reopen"},
             transitionAlertOccurrence(p, type)
      PROVE  AlertsInv'
  <2>1. PICK o \in Opened :
           occurrence' = [occurrence EXCEPT ![o] =
              [status |-> Result(type), severity |-> @.severity,
               first |-> @.first, version |-> @.version + 1]]
    BY <1>5 DEF transitionAlertOccurrence
  <2>2. /\ occurrence' = [q \in Occurrences |-> occurrence'[q]]
        /\ occurrence'[o].severity = occurrence[o].severity
        /\ occurrence'[o].first = occurrence[o].first
        /\ \A q \in Occurrences \ {o} : occurrence'[q] = occurrence[q]
        /\ o \in Opened
    BY <2>1 DEF AlertsInv, Opened
  <2>3. \A q \in Occurrences : q \in Opened' => /\ q \in Opened
                                               /\ occurrence'[q].severity = occurrence[q].severity
                                               /\ occurrence'[q].first = occurrence[q].first
    BY <2>2 DEF Opened
  <2>4. UNCHANGED <<sending, notified, daemonDied>>
    BY <1>5 DEF transitionAlertOccurrence
  <2>5. Opened' \subseteq Occurrences
    BY DEF Opened
  <2> QED
    BY <2>2, <2>3, <2>4, <2>5 DEF AlertsInv, EscalationHeard
<1>6. CASE AlertClock
  BY <1>6 DEF AlertClock, AlertsInv, Opened, EscalationHeard
<1>7. CASE UNCHANGED alertVars
  BY <1>7 DEF alertVars, AlertsInv, Opened, EscalationHeard
<1> QED
  BY <1>1, <1>2, <1>3, <1>4, <1>5, <1>6, <1>7 DEF AlertsNext

\* An occurrence that got worse has been announced at its new severity, is being
\* announced, or its announcement died with the daemon (alerts.mjs, evaluateAlerts).
THEOREM WorseIsAnnounced == AlertsSpec => []EscalationHeard
<1>1. AlertsInit => AlertsInv
  BY DEF AlertsInit, AlertsInv, Opened, EscalationHeard
<1>2. AlertsInv => EscalationHeard
  BY DEF AlertsInv
<1> QED
  BY <1>1, <1>2, AlertsStep, PTL DEF AlertsSpec

-----------------------------------------------------------------------------
(* Licence (licensing/stripe-webhook.mjs, license-validate.mjs).           *)

IsRow(r) ==
  r = [status |-> r.status, subscription |-> r.subscription, tier |-> r.tier,
       created |-> r.created, signer |-> r.signer, expires |-> r.expires]

Customer(k) == CustomerOf[licence[k].subscription]

LicenceInv ==
  /\ licence = [k \in Licences |-> licence[k]]
  /\ \A k \in Rows : IsRow(licence[k])
  /\ \E n \in 0..MaxLicences : Rows = 1..n
  /\ customerUnique => \A j, k \in Rows : Customer(j) = Customer(k) => j = k

\* A row is not the absence of one, and another status or tier leaves it a row.
LEMMA RowFields ==
  ASSUME NEW r, IsRow(r), NEW v
  PROVE  /\ r # NoLicence
         /\ IsRow([r EXCEPT !.status = v]) /\ IsRow([r EXCEPT !.tier = v])
         /\ [r EXCEPT !.status = v].status = v
         /\ [r EXCEPT !.status = v].subscription = r.subscription
         /\ [r EXCEPT !.tier = v].status = r.status
         /\ [r EXCEPT !.tier = v].subscription = r.subscription
<1>2. [r EXCEPT !.status = v] =
         [status |-> v, subscription |-> r.subscription, tier |-> r.tier,
          created |-> r.created, signer |-> r.signer, expires |-> r.expires]
  BY DEF IsRow
<1>3. [r EXCEPT !.tier = v] =
         [status |-> r.status, subscription |-> r.subscription, tier |-> v,
          created |-> r.created, signer |-> r.signer, expires |-> r.expires]
  BY DEF IsRow
<1>4. r # NoLicence
  BY DEF IsRow, NoLicence
<1> QED
  BY <1>2, <1>3, <1>4 DEF IsRow

LEMMA StatusWritten ==
  ASSUME NEW k, IsRow(licence[k]), NEW v
  PROVE  /\ IsRow(WithStatus(k, v))
         /\ WithStatus(k, v).status = v
         /\ WithStatus(k, v).subscription = licence[k].subscription
<1> DEFINE r == licence[k]
<1>0. IsRow(r)
  OBVIOUS
<1>1. IsRow([r EXCEPT !.status = v]) /\ [r EXCEPT !.status = v].status = v
      /\ [r EXCEPT !.status = v].subscription = r.subscription
  <2> HIDE DEF r
  <2> QED
    BY <1>0, RowFields
<1> QED
  BY <1>1 DEF WithStatus

\* A step that writes to rows, keeps their subscriptions and reactivates none.
LEMMA RowsRewritten ==
  ASSUME LicenceInv, UNCHANGED customerUnique,
         NEW f, licence' = [k \in Licences |-> IF k \in Rows THEN f[k] ELSE licence[k]],
         \A k \in Rows : /\ IsRow(f[k])
                         /\ f[k].subscription = licence[k].subscription
                         /\ licence[k].status # "active" => f[k].status # "active"
  PROVE  LicenceInv' /\ RevivesNobody
<1>1. \A k \in Rows : k \in Licences /\ licence'[k] = f[k]
  BY DEF Rows
<1>2. \A k \in Rows : f[k] # NoLicence
  BY RowFields
<1>3. Rows' = Rows
  BY <1>1, <1>2 DEF Rows
<1>4. LicenceInv'
  <2>1. licence' = [k \in Licences |-> licence'[k]]
    OBVIOUS
  <2>2. \A k \in Rows' : IsRow(licence'[k])
    BY <1>1, <1>3
  <2>3. customerUnique' => \A j, k \in Rows' : Customer(j)' = Customer(k)' => j = k
    <3>1. \A k \in Rows : licence'[k].subscription = licence[k].subscription
      BY <1>1
    <3>2. \A k \in Rows : Customer(k)' = Customer(k)
      BY <3>1 DEF Customer
    <3> QED
      BY <1>3, <3>2 DEF LicenceInv
  <2> QED
    BY <1>3, <2>1, <2>2, <2>3 DEF LicenceInv
<1>5. RevivesNobody
  <2> SUFFICES ASSUME NEW k \in Rows, licence[k].status # "active",
                      customerUnique, NEW j \in Rows, Customer(j) = Customer(k)
               PROVE  f[j].status # "active"
    BY <1>1, <1>3 DEF RevivesNobody, Customer, Rows
  <2> QED
    BY DEF LicenceInv
<1> QED
  BY <1>4, <1>5

\* A checkout inserts a row behind the others, for a customer that has none where
\* the column is UNIQUE.
LEMMA RowInserted ==
  ASSUME LicenceInv, UNCHANGED customerUnique, NEW e \in StripeEvents,
         EventOf[e].type = "checkout_paid", Cardinality(Rows) < MaxLicences,
         licence' = handleCheckoutCompleted(e)
  PROVE  LicenceInv' /\ RevivesNobody
<1>1. CASE Refused(e)
  <2>1. UNCHANGED licence
    BY <1>1 DEF handleCheckoutCompleted
  <2> QED
    BY <2>1, RowFields DEF LicenceInv, Customer, Rows, RevivesNobody
<1>2. CASE ~Refused(e)
  <2>1. PICK n \in 0..MaxLicences : Rows = 1..n
    BY DEF LicenceInv
  <2>a. n \in Nat /\ MaxLicences \in Nat
    BY LicenceAssumption
  <2>b. Cardinality(1..n) = IF 1 > n THEN 0 ELSE n - 1 + 1
    <3>1. 1 \in Int /\ n \in Int
      BY <2>a
    <3> QED BY <3>1, FS_Interval
  <2>2. Cardinality(Rows) = n /\ n + 1 \in Licences
    BY <2>a, <2>b, <2>1 DEF Licences
  <2> DEFINE new == [status |-> "active", subscription |-> EventOf[e].subscription,
                     tier |-> EventOf[e].tier, created |-> licNow, signer |-> life,
                     expires |-> licNow + KeyLife]
  <2>3. licence' = [licence EXCEPT ![n + 1] = new]
    BY <1>2, <2>2 DEF handleCheckoutCompleted
  <2>4. IsRow(new) /\ new # NoLicence
    BY DEF IsRow, NoLicence
  <2>5. new.subscription = EventOf[e].subscription
    OBVIOUS
  <2>6. customerUnique => \A k \in Rows : Customer(k) # CustomerOf[new.subscription]
    BY <1>2, <2>5 DEF Refused, Customer
  <2> HIDE DEF new
  <2>7. n + 1 \notin Rows
    BY <2>1
  <2>8. /\ licence' = [k \in Licences |-> licence'[k]]
        /\ licence'[n + 1] = new
        /\ \A k \in Licences \ {n + 1} : licence'[k] = licence[k]
    BY <2>2, <2>3 DEF LicenceInv
  <2>9. Rows' = Rows \cup {n + 1}
    BY <2>2, <2>4, <2>8 DEF Rows
  <2>10. Rows' = 1..(n + 1) /\ n + 1 \in 0..MaxLicences
    BY <2>1, <2>2, <2>9, LicenceAssumption DEF Licences
  <2>11. \A k \in Rows : k \in Licences \ {n + 1} /\ licence'[k] = licence[k]
    BY <2>7, <2>8 DEF Rows
  <2>12. \A k \in Rows' : IsRow(licence'[k])
    BY <2>4, <2>8, <2>9, <2>11 DEF LicenceInv
  <2>13. customerUnique => \A j, k \in Rows' : Customer(j)' = Customer(k)' => j = k
    <3>1. Customer(n + 1)' = CustomerOf[new.subscription]
      BY <2>8 DEF Customer
    <3>2. \A k \in Rows : Customer(k)' = Customer(k)
      BY <2>11 DEF Customer
    <3> QED
      BY <2>6, <2>9, <3>1, <3>2 DEF LicenceInv
  <2>14. LicenceInv'
    BY <2>8, <2>10, <2>12, <2>13 DEF LicenceInv
  <2>15. RevivesNobody
    BY <2>6, <2>8, <2>9, <2>11 DEF RevivesNobody, LicenceInv, Customer, Rows
  <2> QED
    BY <2>14, <2>15
<1> QED
  BY <1>1, <1>2

\* What an event does to the rows.
LEMMA HandledStep ==
  ASSUME LicenceInv, UNCHANGED customerUnique, NEW e \in StripeEvents,
         Cardinality(Rows) < MaxLicences \/ EventOf[e].type # "checkout_paid",
         licence' = Handled(e)
  PROVE  LicenceInv' /\ RevivesNobody
<1> DEFINE own == RowOf(EventOf[e].subscription)
<1>0. own \subseteq Rows
  BY DEF RowOf
<1>1. ASSUME UNCHANGED licence
      PROVE  LicenceInv' /\ RevivesNobody
  BY <1>1, RowsRewritten, RowFields DEF LicenceInv, Customer, Rows, RevivesNobody
<1>2. CASE EventOf[e].type = "checkout_paid"
  BY <1>2, RowInserted DEF Handled
<1>3. CASE EventOf[e].type = "checkout_unpaid"
  BY <1>1, <1>3 DEF Handled, handleCheckoutCompleted, Refused
<1>4. CASE EventOf[e].type = "updated"
  <2> DEFINE f == [k \in Rows |-> IF k \in own THEN [licence[k] EXCEPT !.tier = EventOf[e].tier]
                                  ELSE licence[k]]
  <2>1. licence' = [k \in Licences |-> IF k \in Rows THEN f[k] ELSE licence[k]]
    BY <1>0, <1>4 DEF Handled, handleSubscriptionUpdated
  <2>2. \A k \in Rows : /\ IsRow(f[k])
                        /\ f[k].subscription = licence[k].subscription
                        /\ f[k].status = licence[k].status
    BY RowFields DEF LicenceInv
  <2> HIDE DEF f
  <2> QED
    BY <2>1, <2>2, RowsRewritten
<1>5. CASE EventOf[e].type = "deleted"
  <2> DEFINE f == [k \in Rows |-> IF k \in own THEN WithStatus(k, "revoked") ELSE licence[k]]
  <2>1. licence' = [k \in Licences |-> IF k \in Rows THEN f[k] ELSE licence[k]]
    BY <1>0, <1>5 DEF Handled, handleSubscriptionDeleted
  <2>2. \A k \in Rows : /\ IsRow(f[k])
                        /\ f[k].subscription = licence[k].subscription
                        /\ licence[k].status # "active" => f[k].status # "active"
    BY RowFields DEF LicenceInv, WithStatus
  <2> HIDE DEF f
  <2> QED
    BY <2>1, <2>2, RowsRewritten
<1>6. CASE EventOf[e].type = "payment_failed"
  <2> DEFINE f == [k \in Rows |->
                     IF k \notin own \/ EventOf[e].attempt = 2 THEN licence[k]
                     ELSE WithStatus(k, IF EventOf[e].attempt = 1 THEN "grace_period" ELSE "revoked")]
  <2>1. licence' = [k \in Licences |-> IF k \in Rows THEN f[k] ELSE licence[k]]
    BY <1>0, <1>6 DEF Handled, handleInvoicePaymentFailed
  <2>2. \A k \in Rows : /\ IsRow(f[k])
                        /\ f[k].subscription = licence[k].subscription
                        /\ licence[k].status # "active" => f[k].status # "active"
    <3> SUFFICES ASSUME NEW k \in Rows
                 PROVE  /\ IsRow(f[k])
                        /\ f[k].subscription = licence[k].subscription
                        /\ licence[k].status # "active" => f[k].status # "active"
      OBVIOUS
    <3>1. \/ f[k] = licence[k]
          \/ \E v \in {"grace_period", "revoked"} : f[k] = WithStatus(k, v)
      OBVIOUS
    <3> HIDE DEF f
    <3>2. IsRow(licence[k])
      BY DEF LicenceInv
    <3>3. CASE f[k] = licence[k]
      BY <3>2, <3>3
    <3>4. ASSUME NEW v \in {"grace_period", "revoked"}, f[k] = WithStatus(k, v)
          PROVE  /\ IsRow(f[k])
                 /\ f[k].subscription = licence[k].subscription
                 /\ f[k].status # "active"
      BY <3>2, <3>4, StatusWritten
    <3> QED
      BY <3>1, <3>3, <3>4
  <2> HIDE DEF f
  <2> QED
    BY <2>1, <2>2, RowsRewritten
<1> QED
  BY <1>1, <1>2, <1>3, <1>4, <1>5, <1>6 DEF Handled

LEMMA LicenceStep ==
  LicenceInv /\ [LicenceNext]_licenceVars => LicenceInv' /\ [RevivesNobody]_licenceVars
<1> SUFFICES ASSUME LicenceInv, [LicenceNext]_licenceVars
             PROVE  LicenceInv' /\ [RevivesNobody]_licenceVars
  OBVIOUS
<1>1. ASSUME NEW e \in StripeEvents, Apply(e)
      PROVE  LicenceInv' /\ RevivesNobody
  BY <1>1, HandledStep DEF Apply
<1>2. CASE refresh
  <2>1. PICK k \in Rows : /\ licence[k].status = "active"
                          /\ licence' = [licence EXCEPT ![k] =
                                           IF KeyValid(k) THEN @ ELSE WithStatus(k, "expired")]
    BY <1>2 DEF refresh, Active
  <2> DEFINE f == [j \in Rows |-> IF j = k /\ ~KeyValid(k) THEN WithStatus(j, "expired")
                                  ELSE licence[j]]
  <2>2. licence' = [j \in Licences |-> IF j \in Rows THEN f[j] ELSE licence[j]]
    BY <2>1 DEF LicenceInv, Rows
  <2>3. \A j \in Rows : /\ IsRow(f[j])
                        /\ f[j].subscription = licence[j].subscription
                        /\ licence[j].status # "active" => f[j].status # "active"
    BY RowFields DEF LicenceInv, WithStatus
  <2> HIDE DEF f
  <2> QED
    BY <1>2, <2>2, <2>3, RowsRewritten DEF refresh
<1>3. ASSUME UNCHANGED <<customerUnique, licence>>
      PROVE  LicenceInv' /\ RevivesNobody
  BY <1>3, RowFields DEF LicenceInv, Customer, Rows, RevivesNobody
<1> QED
  BY <1>1, <1>2, <1>3
  DEF LicenceNext, handle, handleAndDie, validate, RestartDashboard, LicenceClock, licenceVars

LEMMA LicenceInitInv == LicenceInit => LicenceInv
<1>1. LicenceInit => Rows = 1..0 /\ 0 \in 0..MaxLicences
  BY LicenceAssumption DEF LicenceInit, Rows
<1>2. LicenceInit => licence = [k \in Licences |-> licence[k]]
  BY DEF LicenceInit
<1>3. \A k : k \notin 1..0
  OBVIOUS
<1> QED
  BY <1>1, <1>2, <1>3 DEF LicenceInv

\* A licence that has left "active" never returns to it (licensing/stripe-webhook.mjs).
THEOREM NoLicenceRevived == LicenceSpec => LapsedForGood
  BY LicenceInitInv, LicenceStep, PTL DEF LicenceSpec, LapsedForGood

-----------------------------------------------------------------------------
(* The metering gateway (gateway/): the rotator stays within its keys, and  *)
(* what a request costs is recorded once.                                   *)

LEMMA Least ==
  ASSUME NEW S \in SUBSET Nat, S # {}
  PROVE  Min(S) \in S
BY LeastIs DEF Min

\* The rotator only ever names a key of its provider.
LEMMA ChosenIsKey ==
  ASSUME keyIndex \in Keys, \E k \in Keys : Usable(k)
  PROVE  Chosen \in Keys /\ (Chosen + 1) % KeyCount \in Keys
<1> DEFINE S == {i \in Keys : Usable((keyIndex + i) % KeyCount)}
<1>a. KeyCount \in Nat /\ KeyCount > 0
  BY GatewayAssumption
<1>b. \A i \in Int : i % KeyCount \in Keys
  BY <1>a DEF Keys
<1>1. PICK k \in Keys : Usable(k)
  OBVIOUS
<1>2. PICK i \in Keys : (keyIndex + i) % KeyCount = k
  <2>1. CASE k >= keyIndex
    <3>1. k - keyIndex \in Keys /\ keyIndex + (k - keyIndex) = k
      BY <1>a, <2>1 DEF Keys
    <3>2. k % KeyCount = k
      BY <1>a DEF Keys
    <3> QED
      BY <3>1, <3>2
  <2>2. CASE k < keyIndex
    <3>1. /\ KeyCount + k - keyIndex \in Keys
          /\ keyIndex + (KeyCount + k - keyIndex) = KeyCount + k
      BY <1>a, <2>2 DEF Keys
    <3>2. (KeyCount + k) % KeyCount = k
      BY <1>a DEF Keys
    <3> QED
      BY <3>1, <3>2
  <2> QED
    BY <1>a, <2>1, <2>2 DEF Keys
<1>3. S # {} /\ S \subseteq Nat
  <2>1. i \in S
    BY <1>1, <1>2
  <2>2. Keys \subseteq Nat
    BY <1>a DEF Keys
  <2> QED
    BY <2>1, <2>2
<1>4. Min(S) \in Keys
  BY <1>3, Least
<1>5. Chosen = (keyIndex + Min(S)) % KeyCount
  BY DEF Chosen
<1> HIDE DEF S
<1>6. keyIndex \in Int /\ Min(S) \in Int
  BY <1>4, <1>a DEF Keys
<1>7. Chosen \in Keys
  BY <1>b, <1>5, <1>6
<1>8. Chosen + 1 \in Int
  BY <1>7, <1>a DEF Keys
<1> QED
  BY <1>b, <1>7, <1>8

-----------------------------------------------------------------------------
\* What the requests have been through: one that has not arrived has no stage
\* yet, one that has not ended no outcome.
Progress ==
  \A r \in Requests :
    /\ r > arrived => request[r].stage = "idle"
    /\ request[r].stage # "done" => request[r].outcome = "none"
GInv == GatewayTypeOK /\ ledger = [r \in Requests |-> ledger[r]] /\ Progress /\ MeteredOnce

LEMMA GInvInit == GatewayInit => GInv
<1> SUFFICES ASSUME GatewayInit PROVE GInv
  OBVIOUS
<1>1. KeyCount \in Nat /\ KeyCount > 0 /\ MaxTime \in Nat /\ MaxRequests \in Nat /\ Cooldown \in Nat
  BY GatewayAssumption
<1>2. keyState \in [Keys -> [status : {"active", "failed"}, until : 0..MaxTime + Cooldown]]
  BY <1>1 DEF GatewayInit
<1>3. keyIndex \in Keys
  BY <1>1 DEF GatewayInit, Keys
<1>4. request \in [Requests -> [stage : Stages, outcome : Outcomes, key : Keys \cup {NoKey}]]
  BY DEF GatewayInit, Stages, Outcomes
<1>5. Progress /\ MeteredOnce
  BY DEF GatewayInit, Progress, MeteredOnce
<1> QED
  BY <1>1, <1>2, <1>3, <1>4, <1>5 DEF GatewayInit, GInv, GatewayTypeOK

\* At most all requests are in flight.
LEMMA InFlightBound == Cardinality(InFlight) \in 0..MaxRequests
<1>1. /\ MaxRequests \in Nat
      /\ IsFiniteSet(Requests) /\ Cardinality(Requests) = MaxRequests
  BY GatewayAssumption, FS_Interval DEF Requests
<1>2. InFlight \subseteq Requests
  BY DEF InFlight
<1>3. Cardinality(InFlight) <= MaxRequests /\ IsFiniteSet(InFlight)
  BY <1>1, <1>2, FS_Subset
<1> QED
  BY <1>1, <1>3, FS_CardinalityType

\* What one step of a request does to it, its events and its row, and to the
\* bookkeeping of admissions: all that the invariant depends on.
Moves(r, stage, outcome, key, emitted) ==
  /\ GoesOn(r, stage, outcome, key)
  /\ events' = IF emitted THEN [events EXCEPT ![r] = @ + 1] ELSE events
  /\ ledger' = ledger \/ \E tokens, usd : ledger' = [ledger EXCEPT ![r] =
                            [ts |-> gwNow, tokens |-> tokens, usd |-> usd]]
  /\ gwNow' = gwNow

LEMMA MoveStep ==
  ASSUME GInv, NEW r \in Requests, NEW stage \in Stages \ {"idle"}, NEW outcome \in Outcomes,
         NEW key \in Keys \cup {NoKey}, NEW emitted \in BOOLEAN,
         Moves(r, stage, outcome, key, emitted),
         request[r].stage # "done",
         stage = "done" <=> outcome # "none",
         emitted <=> outcome \in {"denied", "upstream_failed", "unparsable", "answered"},
         arrived' \in 0..MaxRequests, arrived <= arrived', r <= arrived'
  PROVE  /\ request' \in [Requests -> [stage : Stages, outcome : Outcomes, key : Keys \cup {NoKey}]]
         /\ events' \in [Requests -> Nat]
         /\ \A q \in Requests : ledger'[q] = NoRow \/ ledger'[q].ts \in 0..gwNow'
         /\ ledger' = [q \in Requests |-> ledger'[q]]
         /\ Progress' /\ MeteredOnce'
<1>a. /\ request \in [Requests -> [stage : Stages, outcome : Outcomes, key : Keys \cup {NoKey}]]
      /\ events \in [Requests -> Nat] /\ gwNow \in 0..MaxTime /\ MaxTime \in Nat
      /\ arrived \in 0..MaxRequests /\ MaxRequests \in Nat
      /\ ledger = [q \in Requests |-> ledger[q]]
      /\ \A q \in Requests : ledger[q] = NoRow \/ ledger[q].ts \in 0..gwNow
  BY GatewayAssumption DEF GInv, GatewayTypeOK
<1>1. /\ request' \in [Requests -> [stage : Stages, outcome : Outcomes, key : Keys \cup {NoKey}]]
      /\ request'[r].stage = stage /\ request'[r].outcome = outcome
      /\ \A q \in Requests \ {r} : request'[q] = request[q]
  BY <1>a DEF Moves, GoesOn
<1>2. /\ events' \in [Requests -> Nat]
      /\ events'[r] = IF emitted THEN events[r] + 1 ELSE events[r]
      /\ \A q \in Requests \ {r} : events'[q] = events[q]
  BY <1>a DEF Moves
<1>3. /\ \A q \in Requests : ledger'[q] = NoRow \/ ledger'[q].ts \in 0..gwNow'
      /\ ledger' = [q \in Requests |-> ledger'[q]]
  <2>1. CASE ledger' = ledger
    BY <2>1, <1>a DEF Moves
  <2>2. ASSUME NEW tokens, NEW usd,
               ledger' = [ledger EXCEPT ![r] = [ts |-> gwNow, tokens |-> tokens, usd |-> usd]]
        PROVE  /\ \A q \in Requests : ledger'[q] = NoRow \/ ledger'[q].ts \in 0..gwNow'
               /\ ledger' = [q \in Requests |-> ledger'[q]]
    BY <2>2, <1>a DEF Moves
  <2> QED
    BY <2>1, <2>2 DEF Moves
<1>4. Progress'
  <2> SUFFICES ASSUME NEW q \in Requests
               PROVE  /\ q > arrived' => request'[q].stage = "idle"
                      /\ request'[q].stage # "done" => request'[q].outcome = "none"
    BY DEF Progress
  <2>1. CASE q = r
    BY <2>1, <1>1, <1>a DEF Requests
  <2>2. CASE q # r
    BY <2>2, <1>1, <1>a DEF GInv, Progress, Requests
  <2> QED
    BY <2>1, <2>2
<1>5. MeteredOnce'
  <2>1. events[r] = 0
    BY DEF GInv, MeteredOnce, Progress
  <2> QED
    BY <2>1, <1>1, <1>2 DEF GInv, MeteredOnce
<1> QED
  BY <1>1, <1>2, <1>3, <1>4, <1>5

\* An event, with the row that may follow it, is what Moves says of one.
LEMMA EmitMoves ==
  ASSUME GInv, NEW r \in Requests, NEW usage, Emit(r, usage)
  PROVE  /\ events' = [events EXCEPT ![r] = @ + 1]
         /\ ledger' = ledger \/ \E tokens, usd : ledger' = [ledger EXCEPT ![r] =
                                   [ts |-> gwNow, tokens |-> tokens, usd |-> usd]]
<1>1. PICK kept \in BOOLEAN :
         ledger' = [ledger EXCEPT ![r] =
                      IF kept THEN [ts |-> gwNow, tokens |-> usage.tokens, usd |-> usage.usd]
                      ELSE @]
  BY DEF Emit
<1>2. CASE kept
  BY <1>1, <1>2 DEF Emit
<1>3. CASE ~kept
  <2>1. ledger' = [ledger EXCEPT ![r] = ledger[r]]
    BY <1>1, <1>3
  <2>2. [ledger EXCEPT ![r] = ledger[r]] = ledger
    BY DEF GInv
  <2> QED
    BY <2>1, <2>2 DEF Emit
<1> QED
  BY <1>2, <1>3

\* What every step of a request leaves alone.
LEMMA RestKept ==
  ASSUME GatewayTypeOK, gwNow' = gwNow, UNCHANGED <<keyIndex, admittedAt, overlap>>
  PROVE  /\ gwNow' \in 0..MaxTime /\ keyIndex' \in Keys
         /\ admittedAt' \in [Requests -> -1..MaxTime] /\ overlap' \in [Requests -> 0..MaxRequests]
BY DEF GatewayTypeOK

LEMMA KeysKept ==
  ASSUME GatewayTypeOK,
         \/ UNCHANGED keyState
         \/ \E k \in Keys \cup {NoKey} : markKeyFailed(k) \/ markKeySuccess(k)
         \/ Chosen \in Keys /\ selectKey
  PROVE  keyState' \in [Keys -> [status : {"active", "failed"}, until : 0..MaxTime + Cooldown]]
<1> DEFINE KeyRecord == [status : {"active", "failed"}, until : 0..MaxTime + Cooldown]
<1>a. keyState \in [Keys -> KeyRecord]
  BY DEF GatewayTypeOK
<1>1. /\ [status |-> "failed", until |-> gwNow + Cooldown] \in KeyRecord
      /\ [status |-> "active", until |-> 0] \in KeyRecord
  <2>1. gwNow + Cooldown \in 0..MaxTime + Cooldown /\ 0 \in 0..MaxTime + Cooldown
    BY GatewayAssumption DEF GatewayTypeOK
  <2> QED
    BY <2>1
<1> HIDE DEF KeyRecord
<1>2. keyState' \in [Keys -> KeyRecord]
  BY <1>a, <1>1 DEF markKeyFailed, markKeySuccess, selectKey
<1> QED
  BY <1>2 DEF KeyRecord

\* An arrival is refused, denied or admitted.
LEMMA ArriveStep ==
  ASSUME GInv, NEW r \in Requests, Arrive(r)
  PROVE  GInv'
<1>a. /\ arrived' = r /\ arrived = r - 1 /\ r \in 1..MaxRequests
      /\ MaxRequests \in Nat /\ MaxTime \in Nat
      /\ gwNow' = gwNow /\ budgetPolicy' = budgetPolicy
  BY GatewayAssumption DEF Arrive, GInv, GatewayTypeOK, Requests
<1>b. request[r].stage = "idle" /\ arrived' \in 0..MaxRequests /\ arrived <= arrived' /\ r <= arrived'
  BY <1>a DEF GInv, Progress
<1>c. request[r].key \in Keys \cup {NoKey}
  BY DEF GInv, GatewayTypeOK
<1>1. CASE Refuse(r)
  <2>1. PICK outcome \in {"paused", "unknown_token", "no_route", "exhausted"} : End(r, outcome)
    BY <1>1 DEF Refuse
  <2>2. Moves(r, "done", outcome, request[r].key, FALSE)
    BY <2>1, <1>1, <1>a DEF Refuse, Moves, End
  <2>3. outcome \in Outcomes /\ "done" \in Stages \ {"idle"} /\ outcome # "none"
        /\ outcome \notin {"denied", "upstream_failed", "unparsable", "answered"}
    BY DEF Outcomes, Stages
  <2>4. UNCHANGED <<keyState, keyIndex, admittedAt, overlap>>
    BY <1>1 DEF Refuse
  <2> QED
    BY <2>2, <2>3, <2>4, <1>a, <1>b, <1>c, MoveStep, RestKept, KeysKept DEF GInv, GatewayTypeOK
<1>2. CASE DenyRequest(r)
  <2>1. Moves(r, "done", "denied", request[r].key, TRUE)
    BY <1>2, <1>a, EmitMoves DEF DenyRequest, Moves, End, NoUsage
  <2>2. "denied" \in Outcomes /\ "done" \in Stages \ {"idle"}
    BY DEF Outcomes, Stages
  <2>3. Chosen \in Keys /\ (Chosen + 1) % KeyCount \in Keys
    BY <1>2, ChosenIsKey DEF DenyRequest, GInv, GatewayTypeOK
  <2>4. /\ keyIndex' \in Keys
        /\ keyState' \in [Keys -> [status : {"active", "failed"}, until : 0..MaxTime + Cooldown]]
    BY <1>2, <2>3, KeysKept DEF DenyRequest, selectKey, GInv
  <2>5. UNCHANGED <<admittedAt, overlap>>
    BY <1>2 DEF DenyRequest
  <2> QED
    BY <2>1, <2>2, <2>4, <2>5, <1>a, <1>b, <1>c, MoveStep DEF GInv, GatewayTypeOK
<1>3. CASE Admit(r)
  <2>1. Chosen \in Keys /\ (Chosen + 1) % KeyCount \in Keys
    BY <1>3, ChosenIsKey DEF Admit, GInv, GatewayTypeOK
  <2>2. Moves(r, "body", "none", Chosen, FALSE)
    BY <1>3, <1>a DEF Admit, Moves
  <2>3. "none" \in Outcomes /\ "body" \in Stages \ {"idle"}
    BY DEF Outcomes, Stages
  <2>4. /\ keyIndex' \in Keys
        /\ keyState' \in [Keys -> [status : {"active", "failed"}, until : 0..MaxTime + Cooldown]]
    BY <1>3, <2>1, KeysKept DEF Admit, selectKey, GInv
  <2>5. /\ admittedAt' \in [Requests -> -1..MaxTime]
        /\ overlap' \in [Requests -> 0..MaxRequests]
    <3>1. gwNow \in -1..MaxTime
      BY <1>a DEF GInv, GatewayTypeOK
    <3> QED
      BY <1>3, <3>1, InFlightBound DEF Admit, GInv, GatewayTypeOK
  <2> QED
    BY <2>1, <2>2, <2>3, <2>4, <2>5, <1>a, <1>b, MoveStep DEF GInv, GatewayTypeOK
<1> QED
  BY <1>1, <1>2, <1>3 DEF Arrive

\* A request in flight goes on or ends.
LEMMA FlightStep ==
  ASSUME GInv, NEW r \in Requests,
         \/ BodyRead(r) \/ UpstreamFails(r) \/ StreamEnds(r) \/ AnswerRead(r)
         \/ \E status \in {"401", "below500", "5xx"} : UpstreamAnswers(r, status)
  PROVE  GInv'
<1> DEFINE key == request[r].key
           Metered == {"denied", "upstream_failed", "unparsable", "answered"}
<1>a. key \in Keys \cup {NoKey}
  BY DEF GInv, GatewayTypeOK
<1>1. /\ request[r].stage \notin {"idle", "done"}
      /\ UNCHANGED <<gwNow, arrived, keyIndex, admittedAt, overlap>>
      /\ \/ UNCHANGED keyState
         \/ markKeyFailed(key) \/ markKeySuccess(key)
  BY DEF BodyRead, UpstreamFails, StreamEnds, AnswerRead, UpstreamAnswers, Elsewhere
<1>2. \E stage \in Stages \ {"idle"}, outcome \in Outcomes, emitted \in BOOLEAN :
         /\ Moves(r, stage, outcome, key, emitted)
         /\ stage = "done" <=> outcome # "none"
         /\ emitted <=> outcome \in Metered
  <2> DEFINE Goal(stage, outcome, emitted) ==
               /\ Moves(r, stage, outcome, key, emitted)
               /\ stage = "done" <=> outcome # "none"
               /\ emitted <=> outcome \in Metered
  <2>1. CASE BodyRead(r)
    <3>1. Goal("upstream", "none", FALSE) \/ Goal("done", "client_gone", FALSE)
      BY <2>1, <1>1 DEF BodyRead, Moves, End
    <3> QED
      BY <3>1 DEF Stages, Outcomes
  <2>2. CASE UpstreamFails(r)
    <3>1. Goal("done", "upstream_failed", TRUE)
      BY <2>2, <1>1, EmitMoves DEF UpstreamFails, Moves, End
    <3> QED
      BY <3>1 DEF Stages, Outcomes
  <2>3. CASE StreamEnds(r)
    <3>1. Goal("done", "answered", TRUE)
      BY <2>3, <1>1, EmitMoves DEF StreamEnds, Moves, End
    <3> QED
      BY <3>1 DEF Stages, Outcomes
  <2>4. CASE AnswerRead(r)
    <3>1. \/ Goal("done", "answered", TRUE) \/ Goal("done", "unparsable", TRUE)
          \/ Goal("done", "upstream_cut", FALSE)
      BY <2>4, <1>1, EmitMoves DEF AnswerRead, Moves, End
    <3> QED
      BY <3>1 DEF Stages, Outcomes
  <2>5. ASSUME NEW status \in {"401", "below500", "5xx"}, UpstreamAnswers(r, status)
        PROVE  <1>2
    <3>1. Goal("streaming", "none", FALSE) \/ Goal("reading", "none", FALSE)
      BY <2>5, <1>1 DEF UpstreamAnswers, Moves
    <3> QED
      BY <3>1 DEF Stages, Outcomes
  <2> QED
    BY <2>1, <2>2, <2>3, <2>4, <2>5
<1>3. PICK stage \in Stages \ {"idle"}, outcome \in Outcomes, emitted \in BOOLEAN :
         /\ Moves(r, stage, outcome, key, emitted)
         /\ stage = "done" <=> outcome # "none"
         /\ emitted <=> outcome \in Metered
  BY <1>2
<1>4. arrived' \in 0..MaxRequests /\ arrived <= arrived' /\ r <= arrived'
  BY <1>1, GatewayAssumption DEF GInv, GatewayTypeOK, Progress, Requests
<1>5. keyState' \in [Keys -> [status : {"active", "failed"}, until : 0..MaxTime + Cooldown]]
  BY <1>1, <1>a, KeysKept DEF GInv
<1> HIDE DEF key
<1> QED
  BY <1>1, <1>3, <1>4, <1>5, <1>a, MoveStep, RestKept DEF GInv, GatewayTypeOK

LEMMA GInvStep ==
  ASSUME GInv, [GatewayNext]_gatewayVars
  PROVE  GInv'
<1>1. CASE GatewayClock
  <2>1. /\ gwNow' \in 0..MaxTime /\ gwNow <= gwNow'
        /\ UNCHANGED <<arrived, request, events, ledger, keyState, keyIndex, admittedAt, overlap>>
    BY <1>1, GatewayAssumption DEF GatewayClock, GInv, GatewayTypeOK
  <2>2. \A r \in Requests : ledger'[r] = NoRow \/ ledger'[r].ts \in 0..gwNow'
    BY <2>1, GatewayAssumption DEF GInv, GatewayTypeOK
  <2>3. Progress' /\ MeteredOnce'
    BY <2>1 DEF GInv, Progress, MeteredOnce
  <2> QED
    BY <2>1, <2>2, <2>3 DEF GInv, GatewayTypeOK
<1>2. CASE UNCHANGED gatewayVars
  BY <1>2 DEF gatewayVars, GInv, GatewayTypeOK, Progress, MeteredOnce
<1> QED
  BY <1>1, <1>2, ArriveStep, FlightStep DEF GatewayNext

LEMMA GInvariant == GatewaySpec => []GInv
<1> QED
  BY GInvInit, GInvStep, PTL DEF GatewaySpec

\* The gateway's state keeps its types; above all the rotator never leaves its
\* keys (provider-registry.mjs, selectKey), whatever is cooling down.
THEOREM GatewayTypeCorrect == GatewaySpec => []GatewayTypeOK
BY GInvariant, PTL DEF GInv

\* Every request that came to a verdict and an end of its own is metered once, on
\* whichever path it ended, and the others not at all (handleRequest,
\* handleStreamingResponse).
THEOREM RequestsMeteredOnce == GatewaySpec => []MeteredOnce
BY GInvariant, PTL DEF GInv

-----------------------------------------------------------------------------
(* Sums over the requests, and what the windows and the caps rest on.       *)

\* What holds of no request, and of one more whenever of those before, holds of all.
LEMMA ByNumber ==
  ASSUME NEW N \in Nat, NEW S, 0 \in S,
         \A n \in 0..N : n # N /\ n \in S => n + 1 \in S
  PROVE  0..N \subseteq S
<1> DEFINE Bad == {n \in 0..N : n \notin S}
<1> SUFFICES ASSUME Bad # {} PROVE FALSE
  OBVIOUS
<1>1. PICK x \in Bad : \A y \in Bad : x <= y
  <2>1. Bad \in SUBSET Nat
    OBVIOUS
  <2> HIDE DEF Bad
  <2> QED
    BY <2>1, LeastIs
<1>2. x \in 1..N /\ x \notin S
  BY <1>1
<1>3. x - 1 \in 0..N /\ x - 1 # N /\ x - 1 \notin Bad
  BY <1>1, <1>2
<1>4. x - 1 \in S
  BY <1>3
<1>5. x - 1 + 1 = x
  BY <1>2
<1> QED
  BY <1>2, <1>3, <1>4, <1>5

\* The sums there are.
SumsUpTo(amounts, sums, n) ==
  /\ DOMAIN sums = 0..n
  /\ sums[0] = 0
  /\ \A r \in 1..n : sums[r] = sums[r - 1] + amounts[r]

LEMMA SumsExist ==
  ASSUME NEW amounts
  PROVE  \A n \in 0..MaxRequests : \E sums : SumsUpTo(amounts, sums, n)
<1> DEFINE S == {n \in 0..MaxRequests : \E sums : SumsUpTo(amounts, sums, n)}
<1>a. MaxRequests \in Nat
  BY GatewayAssumption
<1>1. 0 \in S
  <2>1. SumsUpTo(amounts, [r \in 0..0 |-> 0], 0)
    BY DEF SumsUpTo
  <2> QED
    BY <1>a, <2>1
<1>2. ASSUME NEW n \in 0..MaxRequests, n # MaxRequests, n \in S
      PROVE  n + 1 \in S
  <2>1. PICK sums : SumsUpTo(amounts, sums, n)
    BY <1>2
  <2> DEFINE more == [r \in 0..n + 1 |-> IF r <= n THEN sums[r] ELSE sums[n] + amounts[n + 1]]
  <2>2. n + 1 \in 0..MaxRequests /\ n \in Nat
    BY <1>a, <1>2
  <2>3. /\ DOMAIN more = 0..n + 1 /\ more[0] = 0
        /\ \A r \in 1..n : more[r] = more[r - 1] + amounts[r]
        /\ more[n + 1] = more[n] + amounts[n + 1]
    <3>1. \A r \in 0..n : more[r] = sums[r]
      BY <2>2
    <3>2. more[n + 1] = sums[n] + amounts[n + 1]
      BY <2>2
    <3>3. \A r \in 1..n : r \in 0..n /\ r - 1 \in 0..n
      BY <2>2
    <3>4. 0 \in 0..n /\ n \in 0..n
      BY <2>2
    <3> HIDE DEF more
    <3>5. /\ more[0] = 0
          /\ \A r \in 1..n : more[r] = more[r - 1] + amounts[r]
          /\ more[n + 1] = more[n] + amounts[n + 1]
      BY <2>1, <3>1, <3>2, <3>3, <3>4 DEF SumsUpTo
    <3> QED
      BY <3>5 DEF more
  <2> HIDE DEF more
  <2>4. 1..n + 1 = 1..n \cup {n + 1}
    BY <2>2
  <2>5. n + 1 - 1 = n
    BY <2>2
  <2>6. SumsUpTo(amounts, more, n + 1)
    BY <2>3, <2>4, <2>5 DEF SumsUpTo
  <2> QED
    BY <2>2, <2>6
<1> HIDE DEF S
<1>3. 0..MaxRequests \subseteq S
  BY <1>a, <1>1, <1>2, ByNumber
<1> QED
  BY <1>3 DEF S

LEMMA RunningTotalIs ==
  ASSUME NEW amounts
  PROVE  SumsUpTo(amounts, RunningTotal(amounts), MaxRequests)
<1> DEFINE T == RunningTotal(amounts)
           Rec(s) == [r \in 0..MaxRequests |-> IF r = 0 THEN 0 ELSE s[r - 1] + amounts[r]]
<1>a. MaxRequests \in Nat
  BY GatewayAssumption
<1>1. PICK sums : SumsUpTo(amounts, sums, MaxRequests)
  BY <1>a, SumsExist
<1>2. Rec(sums) = [r \in 0..MaxRequests |-> sums[r]]
  <2>1. \A r \in 0..MaxRequests : (IF r = 0 THEN 0 ELSE sums[r - 1] + amounts[r]) = sums[r]
    BY <1>1, <1>a DEF SumsUpTo
  <2> QED
    BY <2>1
<1> DEFINE known == [r \in 0..MaxRequests |-> sums[r]]
<1>3. Rec(known) = Rec(sums)
  <2>1. \A r \in 0..MaxRequests : r # 0 => known[r - 1] = sums[r - 1]
    BY <1>a
  <2> QED
    BY <2>1
<1>4. known = Rec(known)
  BY <1>2, <1>3
<1>5. T = Rec(T)
  <2>1. T = CHOOSE s : s = Rec(s)
    BY DEF RunningTotal
  <2> HIDE DEF T, Rec, known
  <2> QED
    BY <1>4, <2>1
<1> HIDE DEF T
<1>6. DOMAIN T = 0..MaxRequests /\ T[0] = 0
  BY <1>a, <1>5
<1>7. ASSUME NEW r \in 1..MaxRequests
      PROVE  T[r] = T[r - 1] + amounts[r]
  <2>1. r \in 0..MaxRequests /\ r # 0
    BY <1>a
  <2>2. Rec(T)[r] = T[r - 1] + amounts[r]
    BY <2>1
  <2> HIDE DEF Rec
  <2> QED
    BY <1>5, <2>2
<1>8. SumsUpTo(amounts, T, MaxRequests)
  BY <1>6, <1>7 DEF SumsUpTo
<1> QED
  BY <1>8 DEF T

\* Sums of natural numbers are natural numbers.
LEMMA TotalTypes ==
  ASSUME NEW amounts, \A r \in Requests : amounts[r] \in Nat, NEW n \in 0..MaxRequests
  PROVE  RunningTotal(amounts)[n] \in Nat
<1> DEFINE T == RunningTotal(amounts)
           S == {k \in 0..MaxRequests : T[k] \in Nat}
<1>a. MaxRequests \in Nat /\ SumsUpTo(amounts, T, MaxRequests)
  BY GatewayAssumption, RunningTotalIs
<1> HIDE DEF T
<1>1. 0 \in S
  BY <1>a DEF SumsUpTo
<1>2. ASSUME NEW k \in 0..MaxRequests, k # MaxRequests, k \in S
      PROVE  k + 1 \in S
  <2>1. k + 1 \in 1..MaxRequests /\ k + 1 - 1 = k /\ k + 1 \in Requests
    BY <1>a, <1>2 DEF Requests
  <2>2. T[k + 1] = T[k] + amounts[k + 1]
    BY <1>a, <2>1 DEF SumsUpTo
  <2>3. T[k] \in Nat /\ amounts[k + 1] \in Nat
    BY <1>2, <2>1
  <2> QED
    BY <1>a, <2>1, <2>2, <2>3
<1> HIDE DEF S
<1>3. 0..MaxRequests \subseteq S
  BY <1>a, <1>1, <1>2, ByNumber
<1> QED
  BY <1>3 DEF S, T

\* More of each is no less in all.
LEMMA TotalGrows ==
  ASSUME NEW less, NEW more,
         \A r \in Requests : less[r] \in Nat /\ more[r] \in Nat,
         NEW n \in 0..MaxRequests, \A r \in 1..n : less[r] <= more[r]
  PROVE  RunningTotal(less)[n] <= RunningTotal(more)[n]
<1> DEFINE L == RunningTotal(less)
           M == RunningTotal(more)
           S == {k \in 0..MaxRequests : k <= n => L[k] <= M[k]}
<1>a. /\ MaxRequests \in Nat
      /\ SumsUpTo(less, L, MaxRequests) /\ SumsUpTo(more, M, MaxRequests)
      /\ \A k \in 0..MaxRequests : L[k] \in Nat /\ M[k] \in Nat
  BY GatewayAssumption, RunningTotalIs, TotalTypes
<1> HIDE DEF L, M
<1>1. 0 \in S
  BY <1>a DEF SumsUpTo
<1>2. ASSUME NEW k \in 0..MaxRequests, k # MaxRequests, k \in S
      PROVE  k + 1 \in S
  <2>1. k + 1 \in 1..MaxRequests /\ k + 1 - 1 = k /\ k + 1 \in Requests
    BY <1>a, <1>2 DEF Requests
  <2>2. L[k + 1] = L[k] + less[k + 1] /\ M[k + 1] = M[k] + more[k + 1]
    BY <1>a, <2>1 DEF SumsUpTo
  <2>3. L[k] \in Nat /\ M[k] \in Nat /\ less[k + 1] \in Nat /\ more[k + 1] \in Nat
    BY <1>a, <2>1
  <2>4. k + 1 <= n => k <= n /\ k + 1 \in 1..n
    BY <1>a, <1>2
  <2>5. k + 1 <= n => L[k + 1] <= M[k + 1]
    BY <1>2, <2>2, <2>3, <2>4
  <2> QED
    BY <2>1, <2>5, <1>a
<1> HIDE DEF S
<1>3. 0..MaxRequests \subseteq S
  BY <1>a, <1>1, <1>2, ByNumber
<1> QED
  BY <1>3, <1>a DEF S, L, M

\* More requests are no less in all.
LEMMA TotalRises ==
  ASSUME NEW amounts, \A r \in Requests : amounts[r] \in Nat,
         NEW n \in 0..MaxRequests
  PROVE  RunningTotal(amounts)[n] <= RunningTotal(amounts)[MaxRequests]
<1> DEFINE T == RunningTotal(amounts)
           S == {k \in 0..MaxRequests : n <= k => T[n] <= T[k]}
<1>a. /\ MaxRequests \in Nat /\ SumsUpTo(amounts, T, MaxRequests)
      /\ \A k \in 0..MaxRequests : T[k] \in Nat
  BY GatewayAssumption, RunningTotalIs, TotalTypes
<1> HIDE DEF T
<1>1. 0 \in S
  BY <1>a
<1>2. ASSUME NEW k \in 0..MaxRequests, k # MaxRequests, k \in S
      PROVE  k + 1 \in S
  <2>1. k + 1 \in 1..MaxRequests /\ k + 1 - 1 = k /\ k + 1 \in Requests
    BY <1>a, <1>2 DEF Requests
  <2>2. T[k + 1] = T[k] + amounts[k + 1]
    BY <1>a, <2>1 DEF SumsUpTo
  <2>3. T[n] \in Nat /\ T[k] \in Nat /\ T[k + 1] \in Nat /\ amounts[k + 1] \in Nat
    BY <1>a, <2>1
  <2>4. n <= k + 1 => n <= k \/ n = k + 1
    BY <1>a, <1>2
  <2>5. n <= k + 1 => T[n] <= T[k + 1]
    <3>1. n = k + 1 => T[n] <= T[k + 1]
      BY <2>3
    <3>2. n <= k => T[n] <= T[k]
      BY <1>2
    <3> QED
      BY <2>2, <2>3, <2>4, <3>1, <3>2
  <2> QED
    BY <2>1, <2>5, <1>a
<1> HIDE DEF S
<1>3. 0..MaxRequests \subseteq S
  BY <1>a, <1>1, <1>2, ByNumber
<1>4. MaxRequests \in S /\ n <= MaxRequests
  BY <1>a, <1>3
<1> QED
  BY <1>4 DEF S, T

\* A row is of a request that has ended, and holds what an answer may report.
ReportedInv ==
  /\ budgetPolicy \in Policies
  /\ \A r \in Requests :
       /\ ledger[r].ts \in -1..gwNow
       /\ \/ ledger[r].tokens = Unknown
          \/ ledger[r].tokens \in Nat /\ \E u \in Usages : ledger[r].tokens = u.tokens
       /\ request[r].stage # "done" => ledger[r].tokens = Unknown

LEMMA ReportedInit == GatewayInit => ReportedInv
<1> SUFFICES ASSUME GatewayInit PROVE ReportedInv
  OBVIOUS
<1>1. \A r \in Requests : ledger[r].ts = -1 /\ ledger[r].tokens = Unknown
  BY DEF GatewayInit, NoRow
<1> QED
  BY <1>1 DEF GatewayInit, ReportedInv

\* An event leaves the ledger, or puts a row of the present in it.
LEMMA EmitRow ==
  ASSUME GInv, NEW r \in Requests, NEW usage, Emit(r, usage)
  PROVE  \/ ledger' = ledger
         \/ /\ ledger'[r].ts = gwNow /\ ledger'[r].tokens = usage.tokens
            /\ \A q \in Requests \ {r} : ledger'[q] = ledger[q]
<1>1. PICK kept \in BOOLEAN :
         ledger' = [ledger EXCEPT ![r] =
                      IF kept THEN [ts |-> gwNow, tokens |-> usage.tokens, usd |-> usage.usd]
                      ELSE @]
  BY DEF Emit
<1>2. CASE kept
  <2> DEFINE fresh == [ts |-> gwNow, tokens |-> usage.tokens, usd |-> usage.usd]
  <2>1. ledger' = [ledger EXCEPT ![r] = fresh] /\ fresh.ts = gwNow /\ fresh.tokens = usage.tokens
    BY <1>1, <1>2
  <2> HIDE DEF fresh
  <2>2. ledger'[r] = fresh /\ \A q \in Requests \ {r} : ledger'[q] = ledger[q]
    BY <2>1 DEF GInv
  <2> QED
    BY <2>1, <2>2
<1>3. CASE ~kept
  <2>1. ledger' = [ledger EXCEPT ![r] = ledger[r]]
    BY <1>1, <1>3
  <2> QED
    BY <2>1 DEF GInv
<1> QED
  BY <1>2, <1>3

\* A step of a request ends it or lets it go on; only where it ends may it get a row, of
\* the present and with what was reported.
EndsWithRow(r) ==
  /\ request'[r].stage = "done"
  /\ ledger'[r].ts = gwNow
  /\ ledger'[r].tokens = Unknown \/ \E u \in Usages : ledger'[r].tokens = u.tokens
  /\ \A q \in Requests \ {r} : ledger'[q] = ledger[q]

LEMMA StepOfOne ==
  ASSUME GInv, NEW r \in Requests,
         \/ Arrive(r) \/ BodyRead(r) \/ UpstreamFails(r) \/ StreamEnds(r) \/ AnswerRead(r)
         \/ \E status \in {"401", "below500", "5xx"} : UpstreamAnswers(r, status)
  PROVE  /\ gwNow' = gwNow /\ budgetPolicy' = budgetPolicy
         /\ request[r].stage # "done"
         /\ \A q \in Requests \ {r} : request'[q] = request[q]
         /\ ledger' = ledger \/ EndsWithRow(r)
<1>a. request \in [Requests -> [stage : Stages, outcome : Outcomes, key : Keys \cup {NoKey}]]
  BY DEF GInv, GatewayTypeOK
<1>b. ASSUME NEW stage, NEW outcome, NEW key, GoesOn(r, stage, outcome, key)
      PROVE  request'[r].stage = stage /\ \A q \in Requests \ {r} : request'[q] = request[q]
  <2> DEFINE now == [stage |-> stage, outcome |-> outcome, key |-> key]
  <2>1. request' = [request EXCEPT ![r] = now] /\ now.stage = stage
    BY <1>b DEF GoesOn
  <2> HIDE DEF now
  <2> QED
    BY <1>a, <2>1
<1>c. ASSUME NEW usage \in Usages \cup {NoUsage}, NEW outcome, Emit(r, usage), End(r, outcome)
      PROVE  /\ \A q \in Requests \ {r} : request'[q] = request[q]
             /\ ledger' = ledger \/ EndsWithRow(r)
  <2>1. usage.tokens = Unknown \/ \E u \in Usages : usage.tokens = u.tokens
    BY DEF NoUsage
  <2>2. request'[r].stage = "done" /\ \A q \in Requests \ {r} : request'[q] = request[q]
    BY <1>b, <1>c DEF End
  <2> QED
    BY <1>c, <2>1, <2>2, EmitRow DEF EndsWithRow
<1>d. NoUsage \in Usages \cup {NoUsage}
  OBVIOUS
<1>1. CASE Arrive(r)
  <2>1. request[r].stage = "idle" /\ gwNow' = gwNow /\ budgetPolicy' = budgetPolicy
    BY <1>1 DEF Arrive, GInv, GatewayTypeOK, Progress, Requests
  <2>2. CASE Refuse(r)
    BY <1>b, <2>1, <2>2 DEF Refuse, End
  <2>3. CASE DenyRequest(r)
    BY <1>c, <1>d, <2>1, <2>3 DEF DenyRequest
  <2>4. CASE Admit(r)
    BY <1>b, <2>1, <2>4 DEF Admit
  <2> QED
    BY <1>1, <2>2, <2>3, <2>4 DEF Arrive
<1>2. CASE BodyRead(r)
  BY <1>2, <1>b DEF BodyRead, End, Elsewhere
<1>3. CASE UpstreamFails(r)
  BY <1>3, <1>c, <1>d DEF UpstreamFails, Elsewhere
<1>4. CASE StreamEnds(r)
  <2>1. PICK usage \in Usages \cup {NoUsage} : Emit(r, usage)
    BY <1>4 DEF StreamEnds
  <2> QED
    BY <1>4, <1>c, <2>1 DEF StreamEnds, Elsewhere
<1>5. CASE AnswerRead(r)
  <2>1. request[r].stage = "reading" /\ gwNow' = gwNow /\ budgetPolicy' = budgetPolicy
    BY <1>5 DEF AnswerRead, Elsewhere
  <2>2. ASSUME NEW usage \in Usages \cup {NoUsage}, Emit(r, usage), End(r, "answered")
        PROVE  /\ \A q \in Requests \ {r} : request'[q] = request[q]
               /\ ledger' = ledger \/ EndsWithRow(r)
    BY <1>c, <2>2
  <2>3. CASE Emit(r, NoUsage) /\ End(r, "unparsable")
    BY <1>c, <1>d, <2>1, <2>3
  <2>4. CASE End(r, "upstream_cut") /\ UNCHANGED <<events, ledger>>
    BY <1>b, <2>1, <2>4 DEF End
  <2> QED
    BY <1>5, <2>1, <2>2, <2>3, <2>4 DEF AnswerRead
<1>6. ASSUME NEW status \in {"401", "below500", "5xx"}, UpstreamAnswers(r, status)
      PROVE  /\ gwNow' = gwNow /\ budgetPolicy' = budgetPolicy
             /\ request[r].stage # "done"
             /\ \A q \in Requests \ {r} : request'[q] = request[q]
             /\ ledger' = ledger
  <2>1. PICK stage \in {"streaming", "reading"} : GoesOn(r, stage, "none", request[r].key)
    BY <1>6 DEF UpstreamAnswers
  <2> QED
    BY <1>6, <1>b, <2>1 DEF UpstreamAnswers, Elsewhere
<1> QED
  BY <1>1, <1>2, <1>3, <1>4, <1>5, <1>6

LEMMA ReportedStep == ASSUME GInv, ReportedInv, [GatewayNext]_gatewayVars PROVE ReportedInv'
<1>a. gwNow \in Nat /\ MaxTime \in Nat
  BY GatewayAssumption DEF GInv, GatewayTypeOK
<1>1. ASSUME NEW r \in Requests,
             \/ Arrive(r) \/ BodyRead(r) \/ UpstreamFails(r) \/ StreamEnds(r) \/ AnswerRead(r)
             \/ \E status \in {"401", "below500", "5xx"} : UpstreamAnswers(r, status)
      PROVE  ReportedInv'
  <2>1. /\ gwNow' = gwNow /\ budgetPolicy' = budgetPolicy
        /\ request[r].stage # "done"
        /\ \A q \in Requests \ {r} : request'[q] = request[q]
        /\ ledger' = ledger \/ EndsWithRow(r)
    BY <1>1, StepOfOne
  <2>2. CASE ledger' = ledger
    BY <2>1, <2>2 DEF ReportedInv
  <2>3. CASE EndsWithRow(r)
    <3>1. \A u \in Usages : u.tokens = Unknown \/ u.tokens \in Nat
      BY GatewayAssumption
    <3>2. /\ ledger'[r].ts \in -1..gwNow'
          /\ \/ ledger'[r].tokens = Unknown
             \/ ledger'[r].tokens \in Nat /\ \E u \in Usages : ledger'[r].tokens = u.tokens
          /\ request'[r].stage = "done"
      BY <1>a, <2>1, <2>3, <3>1 DEF EndsWithRow
    <3> QED
      BY <2>1, <2>3, <3>2 DEF EndsWithRow, ReportedInv
  <2> QED
    BY <2>1, <2>2, <2>3
<1>2. CASE GatewayClock
  <2>1. gwNow' = gwNow + 1 /\ UNCHANGED <<budgetPolicy, request, ledger>>
    BY <1>2 DEF GatewayClock
  <2> QED
    BY <1>a, <2>1 DEF ReportedInv
<1>3. CASE UNCHANGED gatewayVars
  BY <1>3 DEF gatewayVars, ReportedInv
<1> QED
  BY <1>1, <1>2, <1>3 DEF GatewayNext

\* What a row counts for is a natural number, and no more than an answer's most.
LEMMA MostIs ==
  /\ MostTokens \in Nat
  /\ \A u \in Usages : u.tokens # Unknown => u.tokens <= MostTokens
<1> DEFINE K == {u.tokens : u \in {v \in Usages : v.tokens # Unknown}}
<1>1. K \subseteq Nat
  BY GatewayAssumption
<1>2. \E x \in K : \A y \in K : x >= y
  <2>1. PICK u \in Usages : /\ u.tokens # Unknown
                            /\ \A v \in Usages : v.tokens # Unknown => v.tokens <= u.tokens
    BY GatewayAssumption
  <2>2. u.tokens \in K /\ \A y \in K : y <= u.tokens
    BY <2>1
  <2> QED
    BY <1>1, <2>2
<1>3. MostTokens = CHOOSE x \in K : \A y \in K : x >= y
  BY DEF MostTokens, Max
<1>4. MostTokens \in K /\ \A y \in K : MostTokens >= y
  BY <1>2, <1>3
<1>5. \A u \in Usages : u.tokens # Unknown => u.tokens \in K
  OBVIOUS
<1> HIDE DEF K
<1> QED
  BY <1>1, <1>4, <1>5

LEMMA AmountTypes ==
  ASSUME ReportedInv, NEW from \in Int, NEW to \in Int, NEW r \in Requests
  PROVE  /\ Amounts("tokens", from, to)[r] \in Nat
         /\ Amounts("tokens", from, to)[r] <= MostTokens
<1>1. Amounts("tokens", from, to)[r] =
        IF ledger[r].ts \in from..to /\ ledger[r].tokens # Unknown THEN ledger[r].tokens ELSE 0
  BY DEF Amounts
<1>2. ledger[r].tokens # Unknown => ledger[r].tokens \in Nat /\ ledger[r].tokens <= MostTokens
  BY MostIs DEF ReportedInv
<1> QED
  BY <1>1, <1>2, MostIs

LEMMA SpanTypes == \A w \in Windows : Span(w) \in Nat
BY GatewayAssumption DEF Windows, Span

-----------------------------------------------------------------------------
(* The gate and the gateway.                                               *)

\* The sessions of activity there are, none of which opens in the future.
OpenUpTo(open, n) ==
  /\ DOMAIN open = -1..n
  /\ open[-1] = -1
  /\ \A t \in 0..n : open[t] = NextSession(t, open[t - 1])

LEMMA SessionsExist ==
  ASSUME gwNow \in Nat
  PROVE  \E open : OpenUpTo(open, gwNow)
<1> DEFINE S == {n \in 0..gwNow + 1 : \E open : OpenUpTo(open, n - 1)}
<1>1. 0 \in S
  <2> DEFINE none == [t \in -1..0 - 1 |-> -1]
  <2>1. -1..0 - 1 = {-1} /\ 0..0 - 1 = {}
    OBVIOUS
  <2>2. OpenUpTo(none, 0 - 1)
    BY <2>1 DEF OpenUpTo
  <2> QED
    BY <2>2
<1>2. ASSUME NEW n \in 0..gwNow + 1, n # gwNow + 1, n \in S
      PROVE  n + 1 \in S
  <2>1. PICK open : OpenUpTo(open, n - 1)
    BY <1>2
  <2> DEFINE more == [t \in -1..n |-> IF t < n THEN open[t] ELSE NextSession(n, open[n - 1])]
  <2>2. n \in Nat /\ n + 1 \in 0..gwNow + 1 /\ n + 1 - 1 = n
    BY <1>2
  <2>3. \A t \in -1..n - 1 : more[t] = open[t]
    BY <2>2
  <2>4. more[n] = NextSession(n, open[n - 1]) /\ DOMAIN more = -1..n
    BY <2>2
  <2> HIDE DEF more
  <2>5. more[-1] = -1
    BY <2>1, <2>2, <2>3 DEF OpenUpTo
  <2>6. \A t \in 0..n - 1 : more[t] = NextSession(t, more[t - 1])
    <3>1. \A t \in 0..n - 1 : t \in -1..n - 1 /\ t - 1 \in -1..n - 1
      BY <2>2
    <3> QED
      BY <2>1, <2>3, <3>1 DEF OpenUpTo
  <2>7. more[n] = NextSession(n, more[n - 1])
    <3>1. n - 1 \in -1..n - 1
      BY <2>2
    <3> QED
      BY <2>3, <2>4, <3>1
  <2>8. 0..n = 0..n - 1 \cup {n}
    BY <2>2
  <2>9. OpenUpTo(more, n)
    BY <2>4, <2>5, <2>6, <2>7, <2>8 DEF OpenUpTo
  <2> QED
    BY <2>2, <2>9
<1> HIDE DEF S
<1>3. gwNow + 1 \in Nat
  OBVIOUS
<1>4. 0..gwNow + 1 \subseteq S
  BY <1>1, <1>2, <1>3, ByNumber
<1>5. gwNow + 1 \in S
  BY <1>4
<1> QED
  BY <1>5 DEF S

LEMMA SessionTypes ==
  ASSUME gwNow \in Nat
  PROVE  SessionOpenedAt \in -1..gwNow
<1> DEFINE Rec(s) == [t \in -1..gwNow |-> IF t = -1 THEN -1 ELSE NextSession(t, s[t - 1])]
           R == CHOOSE s : s = Rec(s)
<1>1. PICK open : OpenUpTo(open, gwNow)
  BY SessionsExist
<1> DEFINE known == [t \in -1..gwNow |-> open[t]]
<1>2. Rec(open) = known
  <2>1. \A t \in -1..gwNow : (IF t = -1 THEN -1 ELSE NextSession(t, open[t - 1])) = open[t]
    <3>1. \A t \in -1..gwNow : t # -1 => t \in 0..gwNow
      OBVIOUS
    <3> QED
      BY <1>1, <3>1 DEF OpenUpTo
  <2> QED
    BY <2>1
<1>3. Rec(known) = Rec(open)
  <2>1. \A t \in -1..gwNow : t # -1 => known[t - 1] = open[t - 1]
    OBVIOUS
  <2> QED
    BY <2>1
<1>4. R = Rec(R)
  <2>1. known = Rec(known)
    BY <1>2, <1>3
  <2> HIDE DEF Rec, known
  <2> QED
    BY <2>1
<1>5. SessionOpenedAt = R[gwNow]
  BY DEF SessionOpenedAt
<1> HIDE DEF R
<1> DEFINE S == {n \in 0..gwNow + 1 : R[n - 1] \in -1..n - 1}
<1>6. R[-1] = -1
  BY <1>4
<1>7. \A t \in 0..gwNow : R[t] = NextSession(t, R[t - 1])
  <2>1. \A t \in 0..gwNow : t \in -1..gwNow /\ t # -1
    OBVIOUS
  <2> QED
    BY <1>4, <2>1
<1> HIDE DEF Rec
<1>8. 0 \in S
  BY <1>6
<1>9. ASSUME NEW n \in 0..gwNow + 1, n # gwNow + 1, n \in S
      PROVE  n + 1 \in S
  <2>1. n \in 0..gwNow /\ n + 1 \in 0..gwNow + 1 /\ n + 1 - 1 = n /\ R[n - 1] \in -1..n - 1
    BY <1>9
  <2>2. R[n] = n \/ R[n] = R[n - 1]
    BY <1>7, <2>1 DEF NextSession
  <2>3. R[n] \in -1..n
    BY <2>1, <2>2
  <2> QED
    BY <2>1, <2>3
<1> HIDE DEF S
<1>10. gwNow + 1 \in Nat
  OBVIOUS
<1>11. 0..gwNow + 1 \subseteq S
  BY <1>8, <1>9, <1>10, ByNumber
<1>12. gwNow + 1 \in S /\ gwNow + 1 - 1 = gwNow
  BY <1>11
<1> QED
  BY <1>5, <1>12 DEF S

LEMMA WholeWeeks ==
  ASSUME NEW x \in Int, NEW d \in Nat, d > 0
  PROVE  (x \div d) * d \in Int /\ (x \div d) * d > x - d
<1>1. (x \div d) * d \in Int
  OBVIOUS
<1>2. d * (x \div d) > x - d
  OBVIOUS
<1>3. (x \div d) * d = d * (x \div d)
  OBVIOUS
<1> QED
  BY <1>1, <1>2, <1>3

\* The gate's windows begin no earlier than the trailing ones.
LEMMA WindowsBegin ==
  ASSUME GInv, ReportedInv
  PROVE  /\ FiveHourStart \in Int /\ FiveHourStart >= gwNow - FiveHours
         /\ WeekStart \in Int /\ WeekStart >= gwNow - Week
<1>a. /\ gwNow \in Nat /\ FiveHours \in Nat /\ Week \in Nat /\ Week > 0
      /\ budgetPolicy.anchor \in Int
  BY GatewayAssumption DEF GInv, GatewayTypeOK, ReportedInv
<1>1. FiveHourStart \in Int /\ FiveHourStart >= gwNow - FiveHours
  <2>1. SessionOpenedAt \in Int
    BY <1>a, SessionTypes
  <2> QED
    BY <1>a, <2>1 DEF FiveHourStart
<1>2. WeekStart \in Int /\ WeekStart >= gwNow - Week
  <2> DEFINE since == gwNow - budgetPolicy.anchor
             begun == (since \div Week) * Week
  <2>1. since \in Int
    BY <1>a
  <2>2. begun \in Int /\ begun > since - Week
    <3> HIDE DEF since
    <3> QED
      BY <1>a, <2>1, WholeWeeks
  <2>3. WeekStart = gwNow - Week \/ WeekStart = budgetPolicy.anchor + begun
    BY DEF WeekStart
  <2> HIDE DEF begun
  <2> QED
    BY <1>a, <2>2, <2>3
<1> QED
  BY <1>1, <1>2

\* A later window that is shut earlier counts no more.
LEMMA NarrowerIsLess ==
  ASSUME ReportedInv, NEW from \in Int, NEW to \in Int, NEW start \in Int, NEW end \in Int,
         start >= from, end <= to
  PROVE  /\ Used("tokens", start, end) \in Nat /\ Used("tokens", from, to) \in Nat
         /\ Used("tokens", start, end) <= Used("tokens", from, to)
<1> DEFINE narrow == Amounts("tokens", start, end)
           wide == Amounts("tokens", from, to)
<1>a. MaxRequests \in Nat
  BY GatewayAssumption
<1>1. \A r \in Requests : narrow[r] \in Nat /\ wide[r] \in Nat
  BY AmountTypes
<1>2. \A r \in Requests : narrow[r] <= wide[r]
  <2> SUFFICES ASSUME NEW r \in Requests PROVE narrow[r] <= wide[r]
    OBVIOUS
  <2>1. /\ narrow[r] = IF ledger[r].ts \in start..end /\ ledger[r].tokens # Unknown
                       THEN ledger[r].tokens ELSE 0
        /\ wide[r] = IF ledger[r].ts \in from..to /\ ledger[r].tokens # Unknown
                     THEN ledger[r].tokens ELSE 0
    BY DEF Amounts
  <2>2. ledger[r].ts \in start..end => ledger[r].ts \in from..to
    OBVIOUS
  <2>3. narrow[r] = wide[r] \/ narrow[r] = 0
    BY <2>1, <2>2
  <2> QED
    BY <1>1, <2>3
<1>3. Used("tokens", start, end) = RunningTotal(narrow)[MaxRequests]
      /\ Used("tokens", from, to) = RunningTotal(wide)[MaxRequests]
  BY DEF Used
<1>4. \A r \in 1..MaxRequests : r \in Requests
  BY DEF Requests
<1> HIDE DEF narrow, wide
<1>5. MaxRequests \in 0..MaxRequests
  BY <1>a
<1> QED
  BY <1>1, <1>2, <1>3, <1>4, <1>5, TotalTypes, TotalGrows

LEMMA HaltMeansDeny == GInv /\ ReportedInv => GateHaltMeansDeny
<1> SUFFICES ASSUME GInv, ReportedInv, GateHalt PROVE Deny
  BY DEF GateHaltMeansDeny
<1>a. /\ gwNow \in Int /\ gwNow - 1 \in Int /\ gwNow - 1 <= gwNow
      /\ \A w \in Windows : gwNow - Span(w) \in Int
  BY GatewayAssumption, SpanTypes DEF GInv, GatewayTypeOK
<1>b. \A w \in Windows : TokenCap[w] \in Nat \cup {NoCap}
  BY GatewayAssumption
<1>c. "5h" \in Windows /\ "week" \in Windows /\ Span("5h") = FiveHours /\ Span("week") = Week
  BY DEF Windows, Span
<1>1. ASSUME NEW w \in Windows, NEW start \in Int, start >= gwNow - Span(w),
             AtCap(Used("tokens", start, gwNow - 1), TokenCap[w])
      PROVE  Deny
  <2> DEFINE halting == Used("tokens", start, gwNow - 1)
             denying == Used("tokens", gwNow - Span(w), gwNow)
  <2>1. halting \in Nat /\ denying \in Nat /\ halting <= denying
    BY <1>a, <1>1, NarrowerIsLess
  <2>2. AtCap(halting, TokenCap[w])
    BY <1>1
  <2> HIDE DEF halting, denying
  <2>3. AtCap(denying, TokenCap[w])
    BY <1>b, <2>1, <2>2 DEF AtCap
  <2> QED
    BY <2>3 DEF Deny, denying
<1>2. /\ FiveHourStart \in Int /\ FiveHourStart >= gwNow - Span("5h")
      /\ WeekStart \in Int /\ WeekStart >= gwNow - Span("week")
  BY <1>c, WindowsBegin
<1> QED
  BY <1>1, <1>2, <1>c DEF GateHalt

-----------------------------------------------------------------------------
(* The overrun of a cap.                                                   *)

\* What a request may still come to count for: its amount, and the most an answer reports
\* while it is in flight.
InAll(amounts, flying) ==
  [q \in Requests |-> amounts[q] + IF q \in flying THEN MostTokens ELSE 0]
Outlook(r, w) == InAll(Amounts("tokens", admittedAt[r] - Span(w), gwNow), InFlight)

\* At its admission what may come of the requests so far is bounded by the cap and those
\* in flight, and since then it has only become less.
OverrunInv ==
  \A r \in Requests, w \in Windows :
    admittedAt[r] # -1 /\ TokenCap[w] # NoCap =>
      /\ r <= arrived
      /\ RunningTotal(Outlook(r, w))[r] < TokenCap[w] + MostTokens * (overlap[r] + 1)

LEMMA FlightTotal ==
  ASSUME NEW amounts, \A r \in Requests : amounts[r] \in Nat,
         NEW flying \in SUBSET Requests, NEW n \in 0..MaxRequests
  PROVE  RunningTotal(InAll(amounts, flying))[n]
           = RunningTotal(amounts)[n] + MostTokens * Cardinality(flying \cap 1..n)
<1> DEFINE all == InAll(amounts, flying)
           A == RunningTotal(all)
           T == RunningTotal(amounts)
           C(k) == Cardinality(flying \cap 1..k)
           S == {k \in 0..MaxRequests : A[k] = T[k] + MostTokens * C(k)}
<1>a. MaxRequests \in Nat /\ MostTokens \in Nat
  BY GatewayAssumption, MostIs
<1>b. \A r \in Requests : all[r] = amounts[r] + IF r \in flying THEN MostTokens ELSE 0
  BY DEF InAll
<1>c. \A k \in 0..MaxRequests : IsFiniteSet(flying \cap 1..k) /\ C(k) \in Nat
  <2> SUFFICES ASSUME NEW k \in 0..MaxRequests PROVE IsFiniteSet(flying \cap 1..k)
    BY FS_CardinalityType
  <2>1. IsFiniteSet(1..k)
    BY <1>a, FS_Interval
  <2> QED
    BY <2>1, FS_Subset
<1> HIDE DEF all
<1>d. /\ SumsUpTo(all, A, MaxRequests) /\ SumsUpTo(amounts, T, MaxRequests)
      /\ \A k \in 0..MaxRequests : T[k] \in Nat
  BY RunningTotalIs, TotalTypes
<1> HIDE DEF A, T
<1>1. 0 \in S
  <2>1. flying \cap 1..0 = {}
    OBVIOUS
  <2>2. C(0) = 0
    BY <2>1, FS_EmptySet
  <2> QED
    BY <1>a, <1>d, <2>2 DEF SumsUpTo
<1>2. ASSUME NEW k \in 0..MaxRequests, k # MaxRequests, k \in S
      PROVE  k + 1 \in S
  <2>1. k + 1 \in 1..MaxRequests /\ k + 1 - 1 = k /\ k + 1 \in Requests /\ k \in Nat
    BY <1>a, <1>2 DEF Requests
  <2>2. A[k + 1] = A[k] + all[k + 1] /\ T[k + 1] = T[k] + amounts[k + 1]
    BY <1>d, <2>1 DEF SumsUpTo
  <2>3. C(k + 1) = C(k) + IF k + 1 \in flying THEN 1 ELSE 0
    <3>1. CASE k + 1 \in flying
      <4>1. flying \cap 1..k + 1 = (flying \cap 1..k) \cup {k + 1}
        BY <2>1, <3>1
      <4>2. k + 1 \notin flying \cap 1..k
        BY <2>1
      <4> DEFINE F == flying \cap 1..k
      <4>3. IsFiniteSet(F) /\ k + 1 \notin F
        BY <1>c, <4>2
      <4>4. Cardinality(F \cup {k + 1}) = Cardinality(F) + 1
        <5> HIDE DEF F
        <5> QED
          BY <4>3, FS_AddElement
      <4> QED
        BY <3>1, <4>1, <4>4
    <3>2. CASE k + 1 \notin flying
      <4>1. flying \cap 1..k + 1 = flying \cap 1..k
        BY <2>1, <3>2
      <4>2. C(k) \in Nat /\ C(k + 1) = C(k)
        BY <1>c, <4>1
      <4> HIDE DEF C
      <4> QED
        BY <3>2, <4>2
    <3> QED
      BY <3>1, <3>2
  <2>4. A[k] = T[k] + MostTokens * C(k)
    BY <1>2
  <2>5. all[k + 1] = amounts[k + 1] + IF k + 1 \in flying THEN MostTokens ELSE 0
    BY <1>b, <2>1
  <2> DEFINE c == C(k)
  <2>6. c \in Nat /\ T[k] \in Nat /\ amounts[k + 1] \in Nat
    BY <1>c, <1>d, <2>1
  <2>7. MostTokens * (c + 1) = MostTokens * c + MostTokens /\ MostTokens * c \in Nat
        /\ MostTokens * (c + 0) = MostTokens * c
    <3> HIDE DEF c
    <3> QED
      BY <1>a, <2>6
  <2> DEFINE m == MostTokens * c
  <2>8. /\ A[k] = T[k] + m /\ m \in Nat
        /\ MostTokens * C(k + 1) = m + IF k + 1 \in flying THEN MostTokens ELSE 0
    BY <1>a, <2>3, <2>4, <2>7
  <2> DEFINE n1 == MostTokens * C(k + 1)
  <2> HIDE DEF c, m, C, n1, S
  <2>9. A[k + 1] = T[k + 1] + n1
    BY <1>a, <2>2, <2>5, <2>6, <2>8 DEF n1
  <2> QED
    BY <2>1, <2>9, <1>a DEF S, n1
<1> HIDE DEF S
<1>3. 0..MaxRequests \subseteq S
  BY <1>a, <1>1, <1>2, ByNumber
<1> QED
  BY <1>3 DEF S, A, T, all

\* What one row counts for.
WorthOf(entered, from, to) ==
  IF entered.ts \in from..to /\ entered.tokens # Unknown THEN entered.tokens ELSE 0
LEMMA RowCounts ==
  ASSUME NEW entered, NEW from \in Int, NEW to \in Int,
         \/ entered.tokens = Unknown
         \/ entered.tokens \in Nat /\ \E u \in Usages : entered.tokens = u.tokens
  PROVE  WorthOf(entered, from, to) \in Nat /\ WorthOf(entered, from, to) <= MostTokens
<1>1. entered.tokens # Unknown => entered.tokens \in Nat /\ entered.tokens <= MostTokens
  BY MostIs
<1> QED
  BY <1>1, MostIs DEF WorthOf

LEMMA OutlookIs ==
  ASSUME NEW r, NEW w, NEW q \in Requests
  PROVE  Outlook(r, w)[q] = WorthOf(ledger[q], admittedAt[r] - Span(w), gwNow)
                            + IF q \in InFlight THEN MostTokens ELSE 0
BY DEF Outlook, InAll, Amounts, WorthOf

LEMMA NowStaysInt ==
  ASSUME GInv, [GatewayNext]_gatewayVars
  PROVE  gwNow \in Int /\ gwNow' \in Int /\ gwNow <= gwNow'
<1>1. gwNow \in Int
  BY GatewayAssumption DEF GInv, GatewayTypeOK
<1>2. ASSUME NEW r \in Requests,
             \/ Arrive(r) \/ BodyRead(r) \/ UpstreamFails(r) \/ StreamEnds(r) \/ AnswerRead(r)
             \/ \E status \in {"401", "below500", "5xx"} : UpstreamAnswers(r, status)
      PROVE  gwNow' = gwNow
  BY <1>2, StepOfOne
<1>3. gwNow' = gwNow \/ gwNow' = gwNow + 1
  BY <1>2 DEF GatewayNext, GatewayClock, gatewayVars
<1> QED
  BY <1>1, <1>3

\* No step makes more of a request that has arrived.
LEMMA OutlookFalls ==
  ASSUME GInv, ReportedInv, ReportedInv', [GatewayNext]_gatewayVars,
         NEW from \in Int, NEW q \in Requests, q <= arrived
  PROVE  /\ WorthOf(ledger[q], from, gwNow) \in Nat /\ WorthOf(ledger'[q], from, gwNow') \in Nat
         /\ WorthOf(ledger'[q], from, gwNow') + (IF q \in InFlight' THEN MostTokens ELSE 0)
              <= WorthOf(ledger[q], from, gwNow) + (IF q \in InFlight THEN MostTokens ELSE 0)
<1>a. gwNow \in Int /\ gwNow' \in Int /\ gwNow <= gwNow' /\ arrived \in Nat
  BY NowStaysInt, GatewayAssumption DEF GInv, GatewayTypeOK
<1>b. MostTokens \in Nat
  BY MostIs
<1> DEFINE before == WorthOf(ledger[q], from, gwNow)
           after == WorthOf(ledger'[q], from, gwNow')
<1>c. before \in Nat /\ after \in Nat /\ after <= MostTokens
  <2>1. \/ ledger[q].tokens = Unknown
        \/ ledger[q].tokens \in Nat /\ \E u \in Usages : ledger[q].tokens = u.tokens
    BY DEF ReportedInv
  <2>2. \/ ledger'[q].tokens = Unknown
        \/ ledger'[q].tokens \in Nat /\ \E u \in Usages : ledger'[q].tokens = u.tokens
    BY DEF ReportedInv
  <2> QED
    BY <1>a, <2>1, <2>2, RowCounts
<1>1. ASSUME ledger'[q] = ledger[q]
      PROVE  after = before
  <2>1. ledger[q].ts \in -1..gwNow
    BY DEF ReportedInv
  <2>2. ledger[q].ts \in from..gwNow <=> ledger[q].ts \in from..gwNow'
    BY <1>a, <2>1
  <2> QED
    BY <1>1, <2>2 DEF WorthOf
<1>2. ASSUME ledger'[q] = ledger[q], q \in InFlight' => q \in InFlight
      PROVE  after + (IF q \in InFlight' THEN MostTokens ELSE 0)
               <= before + (IF q \in InFlight THEN MostTokens ELSE 0)
  <2>1. after = before
    BY <1>1, <1>2
  <2> HIDE DEF after, before
  <2> QED
    BY <1>b, <1>c, <1>2, <2>1
<1>3. ASSUME NEW r \in Requests,
             \/ Arrive(r) \/ BodyRead(r) \/ UpstreamFails(r) \/ StreamEnds(r) \/ AnswerRead(r)
             \/ \E status \in {"401", "below500", "5xx"} : UpstreamAnswers(r, status)
      PROVE  after + (IF q \in InFlight' THEN MostTokens ELSE 0)
               <= before + (IF q \in InFlight THEN MostTokens ELSE 0)
  <2>1. /\ \A p \in Requests \ {r} : request'[p] = request[p]
        /\ ledger' = ledger \/ EndsWithRow(r)
    BY <1>3, StepOfOne
  <2>2. CASE q # r
    <3>1. request'[q] = request[q] /\ ledger'[q] = ledger[q]
      BY <2>1, <2>2 DEF EndsWithRow
    <3>2. q \in InFlight' => q \in InFlight
      BY <3>1 DEF InFlight
    <3> QED
      BY <1>2, <3>1, <3>2
  <2>3. CASE q = r
    <3>1. ~Arrive(r)
      BY <1>a, <2>3 DEF Arrive, Requests
    <3>2. q \in InFlight
      BY <1>3, <2>3, <3>1 DEF BodyRead, UpstreamFails, StreamEnds, AnswerRead, UpstreamAnswers, InFlight
    <3>3. CASE ledger' = ledger
      BY <1>2, <3>2, <3>3
    <3>4. CASE EndsWithRow(r)
      <4>1. q \notin InFlight'
        BY <2>3, <3>4 DEF EndsWithRow, InFlight
      <4> HIDE DEF after, before
      <4> QED
        BY <1>b, <1>c, <3>2, <4>1
    <3> QED
      BY <2>1, <3>3, <3>4
  <2> QED
    BY <2>2, <2>3
<1>4. ASSUME UNCHANGED <<request, ledger>>
      PROVE  after + (IF q \in InFlight' THEN MostTokens ELSE 0)
               <= before + (IF q \in InFlight THEN MostTokens ELSE 0)
  <2>1. InFlight' = InFlight /\ ledger'[q] = ledger[q]
    BY <1>4 DEF InFlight
  <2> QED
    BY <1>2, <2>1
<1>5. GatewayClock \/ UNCHANGED gatewayVars => UNCHANGED <<request, ledger>>
  BY DEF GatewayClock, gatewayVars
<1>6. after + (IF q \in InFlight' THEN MostTokens ELSE 0)
        <= before + (IF q \in InFlight THEN MostTokens ELSE 0)
  BY <1>3, <1>4, <1>5 DEF GatewayNext
<1> QED
  BY <1>c, <1>6

\* What has been admitted stays within its bound.
LEMMA AdmittedStays ==
  ASSUME GInv, ReportedInv, ReportedInv', [GatewayNext]_gatewayVars,
         NEW r \in Requests, NEW w \in Windows, r <= arrived,
         admittedAt[r] \in Int, admittedAt'[r] = admittedAt[r]
  PROVE  \A most \in Int : RunningTotal(Outlook(r, w))[r] < most
                             => RunningTotal(Outlook(r, w)')[r] < most
<1>a. r \in 0..MaxRequests /\ MaxRequests \in Nat /\ arrived \in Nat /\ MostTokens \in Nat
  BY GatewayAssumption, MostIs DEF Requests, GInv, GatewayTypeOK
<1>b. PICK from \in Int : from = admittedAt[r] - Span(w)
  BY SpanTypes
<1>1. PICK before : before = Outlook(r, w)
  OBVIOUS
<1>2. PICK after : after = Outlook(r, w)'
  OBVIOUS
<1>3. \A q \in Requests : before[q] = WorthOf(ledger[q], from, gwNow)
                                      + IF q \in InFlight THEN MostTokens ELSE 0
  BY <1>1, <1>b, OutlookIs
<1>4. \A q \in Requests : after[q] = WorthOf(ledger'[q], from, gwNow')
                                     + IF q \in InFlight' THEN MostTokens ELSE 0
  <2>1. from = admittedAt'[r] - Span(w)
    BY <1>b
  <2> QED
    BY <1>2, <2>1 DEF Outlook, InAll, Amounts, WorthOf
<1>5. \A q \in Requests : before[q] \in Nat /\ after[q] \in Nat
  <2> SUFFICES ASSUME NEW q \in Requests PROVE before[q] \in Nat /\ after[q] \in Nat
    OBVIOUS
  <2>1. WorthOf(ledger[q], from, gwNow) \in Nat
    <3>1. gwNow \in Int
      BY GatewayAssumption DEF GInv, GatewayTypeOK
    <3> QED
      BY <3>1, RowCounts DEF ReportedInv
  <2>2. WorthOf(ledger'[q], from, gwNow') \in Nat
    <3>1. gwNow' \in Int
      BY GatewayAssumption, NowStaysInt
    <3>2. \/ ledger'[q].tokens = Unknown
          \/ ledger'[q].tokens \in Nat /\ \E u \in Usages : ledger'[q].tokens = u.tokens
      BY DEF ReportedInv
    <3> QED
      BY <3>1, <3>2, RowCounts
  <2> QED
    BY <1>3, <1>4, <1>a, <2>1, <2>2
<1>6. \A q \in 1..r : after[q] <= before[q]
  <2> SUFFICES ASSUME NEW q \in 1..r PROVE after[q] <= before[q]
    OBVIOUS
  <2>1. q \in Requests /\ q <= arrived
    BY <1>a DEF Requests
  <2> QED
    BY <1>3, <1>4, <2>1, OutlookFalls
<1>7. RunningTotal(after)[r] <= RunningTotal(before)[r]
  BY <1>5, <1>6, <1>a, TotalGrows
<1>8. RunningTotal(after)[r] \in Nat /\ RunningTotal(before)[r] \in Nat
  BY <1>5, <1>a, TotalTypes
<1>9. \A most \in Int : RunningTotal(before)[r] < most => RunningTotal(after)[r] < most
  BY <1>7, <1>8
<1> QED
  BY <1>1, <1>2, <1>9

\* A new admission finds less than the cap used, and those in flight beside it.
LEMMA AdmittedAnew ==
  ASSUME GInv, ReportedInv, NEW r \in Requests, Arrive(r), Admit(r),
         NEW w \in Windows, TokenCap[w] # NoCap
  PROVE  RunningTotal(Outlook(r, w)')[r] < TokenCap[w] + MostTokens * (overlap'[r] + 1)
<1>a. /\ r \in 0..MaxRequests /\ MaxRequests \in Nat /\ MostTokens \in Nat
      /\ gwNow \in Int /\ gwNow' = gwNow /\ r = arrived + 1
      /\ TokenCap[w] \in Nat
  BY GatewayAssumption, MostIs DEF Requests, GInv, GatewayTypeOK, Arrive
<1>b. /\ ledger' = ledger /\ admittedAt'[r] = gwNow /\ overlap'[r] = Cardinality(InFlight)
      /\ ~Deny
  BY DEF Admit, GInv, GatewayTypeOK
<1>c. PICK from \in Int : from = gwNow - Span(w)
  BY <1>a, SpanTypes
<1>1. PICK amounts : amounts = Amounts("tokens", from, gwNow)
  OBVIOUS
<1>2. \A q \in Requests : amounts[q] \in Nat
  BY <1>1, <1>a, AmountTypes
<1>3. RunningTotal(amounts)[MaxRequests] < TokenCap[w]
  <2>1. ~AtCap(RunningTotal(amounts)[MaxRequests], TokenCap[w])
    BY <1>1, <1>b, <1>c DEF Deny, Used
  <2>2. RunningTotal(amounts)[MaxRequests] \in Nat
    BY <1>2, <1>a, TotalTypes
  <2> QED
    BY <1>a, <2>1, <2>2 DEF AtCap
<1>4. RunningTotal(amounts)[r] < TokenCap[w] /\ RunningTotal(amounts)[r] \in Nat
  <2>1. RunningTotal(amounts)[r] <= RunningTotal(amounts)[MaxRequests]
    BY <1>2, <1>a, TotalRises
  <2>2. RunningTotal(amounts)[r] \in Nat /\ RunningTotal(amounts)[MaxRequests] \in Nat
    BY <1>2, <1>a, TotalTypes
  <2> QED
    BY <1>3, <1>a, <2>1, <2>2
<1>5. PICK flying : flying = InFlight'
  OBVIOUS
<1>6. flying = InFlight \cup {r} /\ r \notin InFlight /\ InFlight \subseteq 1..r
  <2>1. request' = [request EXCEPT ![r] = [stage |-> "body", outcome |-> "none", key |-> Chosen]]
    BY DEF Admit, GoesOn
  <2>2. request'[r].stage = "body" /\ \A q \in Requests \ {r} : request'[q] = request[q]
    BY <2>1 DEF GInv, GatewayTypeOK
  <2>3. \A q \in Requests : request[q].stage # "idle" => q < r
    BY <1>a DEF GInv, Progress, GatewayTypeOK, Requests
  <2> QED
    BY <1>5, <2>2, <2>3 DEF InFlight, Requests
<1>7. Cardinality(flying \cap 1..r) = Cardinality(InFlight) + 1 /\ Cardinality(InFlight) \in Nat
  <2>1. flying \cap 1..r = InFlight \cup {r}
    <3>1. r \in 1..r
      BY <1>a DEF Requests
    <3> QED
      BY <1>6, <3>1
  <2>2. IsFiniteSet(InFlight)
    <3>1. IsFiniteSet(1..r)
      BY <1>a, FS_Interval
    <3> QED
      BY <1>6, <3>1, FS_Subset
  <2>3. Cardinality(InFlight \cup {r}) = Cardinality(InFlight) + 1
    BY <1>6, <2>2, FS_AddElement
  <2> QED
    BY <2>1, <2>2, <2>3, FS_CardinalityType
<1>8. Outlook(r, w)' = InAll(amounts, flying)
  <2>1. from = admittedAt'[r] - Span(w)
    BY <1>b, <1>c
  <2>2. Amounts("tokens", from, gwNow)' = amounts
    BY <1>1, <1>a, <1>b DEF Amounts
  <2> QED
    BY <1>5, <1>a, <2>1, <2>2 DEF Outlook, InAll
<1>9. RunningTotal(InAll(amounts, flying))[r]
        = RunningTotal(amounts)[r] + MostTokens * Cardinality(flying \cap 1..r)
  <2>1. flying \in SUBSET Requests
    BY <1>5 DEF InFlight
  <2> QED
    BY <1>2, <1>a, <2>1, FlightTotal
<1>10. MostTokens * (Cardinality(InFlight) + 1) \in Int
  BY <1>7, <1>a
<1> DEFINE worst == MostTokens * (Cardinality(InFlight) + 1)
           known == RunningTotal(amounts)[r]
<1>11. RunningTotal(Outlook(r, w)')[r] = known + worst
  BY <1>7, <1>8, <1>9
<1>12. TokenCap[w] + MostTokens * (overlap'[r] + 1) = TokenCap[w] + worst
  BY <1>b
<1>13. known < TokenCap[w] /\ known \in Nat /\ worst \in Int
  BY <1>4, <1>10
<1> HIDE DEF known, worst
<1>14. known + worst < TokenCap[w] + worst
  BY <1>13, <1>a
<1> QED
  BY <1>11, <1>12, <1>14

LEMMA OverrunInit == GatewayInit => OverrunInv
BY DEF GatewayInit, OverrunInv

LEMMA OverrunStep ==
  ASSUME GInv, ReportedInv, ReportedInv', OverrunInv, [GatewayNext]_gatewayVars
  PROVE  OverrunInv'
<1>a. /\ arrived \in Nat /\ MaxRequests \in Nat /\ MostTokens \in Nat
      /\ admittedAt \in [Requests -> -1..MaxTime] /\ overlap \in [Requests -> 0..MaxRequests]
      /\ \A w \in Windows : TokenCap[w] # NoCap => TokenCap[w] \in Nat
  BY GatewayAssumption, MostIs DEF GInv, GatewayTypeOK
<1> SUFFICES ASSUME NEW r \in Requests, NEW w \in Windows,
                    admittedAt'[r] # -1, TokenCap[w] # NoCap
             PROVE  /\ r <= arrived'
                    /\ RunningTotal(Outlook(r, w)')[r]
                         < TokenCap[w] + MostTokens * (overlap'[r] + 1)
  BY DEF OverrunInv
<1>1. ASSUME admittedAt'[r] = admittedAt[r], overlap'[r] = overlap[r], arrived <= arrived', arrived' \in Nat
      PROVE  /\ r <= arrived'
             /\ RunningTotal(Outlook(r, w)')[r]
                  < TokenCap[w] + MostTokens * (overlap'[r] + 1)
  <2>1. /\ r <= arrived
        /\ RunningTotal(Outlook(r, w))[r] < TokenCap[w] + MostTokens * (overlap[r] + 1)
    BY <1>1 DEF OverrunInv
  <2>2. PICK bound \in Int : bound = TokenCap[w] + MostTokens * (overlap[r] + 1)
    <3>1. overlap[r] + 1 \in Int
      BY <1>a
    <3>2. MostTokens * (overlap[r] + 1) \in Int
      BY <1>a, <3>1
    <3> QED
      BY <1>a, <3>2
  <2>3. admittedAt[r] \in Int
    BY <1>a, GatewayAssumption
  <2>4. RunningTotal(Outlook(r, w)')[r] < bound
    BY <1>1, <2>1, <2>2, <2>3, AdmittedStays
  <2>5. r <= arrived'
    BY <1>1, <1>a, <2>1 DEF Requests
  <2> QED
    BY <1>1, <2>2, <2>4, <2>5
<1>2. ASSUME NEW s \in Requests, Arrive(s)
      PROVE  /\ r <= arrived'
             /\ RunningTotal(Outlook(r, w)')[r]
                  < TokenCap[w] + MostTokens * (overlap'[r] + 1)
  <2>1. arrived' = s /\ s = arrived + 1 /\ arrived <= arrived' /\ arrived' \in Nat
    BY <1>2, <1>a DEF Arrive
  <2>2. CASE Admit(s) /\ r = s
    <3>1. r <= arrived'
      BY <2>1, <2>2 DEF Requests
    <3> QED
      BY <1>2, <2>2, <3>1, AdmittedAnew
  <2>3. CASE ~(Admit(s) /\ r = s)
    <3>1. admittedAt'[r] = admittedAt[r] /\ overlap'[r] = overlap[r]
      BY <1>2, <1>a, <2>3 DEF Arrive, Admit, DenyRequest, Refuse
    <3> QED
      BY <1>1, <2>1, <3>1
  <2> QED
    BY <2>2, <2>3
<1>3. ASSUME NEW s \in Requests,
             \/ BodyRead(s) \/ UpstreamFails(s) \/ StreamEnds(s) \/ AnswerRead(s)
             \/ \E status \in {"401", "below500", "5xx"} : UpstreamAnswers(s, status)
      PROVE  UNCHANGED <<admittedAt, overlap, arrived>>
  BY <1>3 DEF BodyRead, UpstreamFails, StreamEnds, AnswerRead, UpstreamAnswers, Elsewhere
<1>4. ASSUME UNCHANGED <<admittedAt, overlap, arrived>>
      PROVE  /\ r <= arrived'
             /\ RunningTotal(Outlook(r, w)')[r]
                  < TokenCap[w] + MostTokens * (overlap'[r] + 1)
  BY <1>1, <1>4, <1>a
<1>5. GatewayClock \/ UNCHANGED gatewayVars => UNCHANGED <<admittedAt, overlap, arrived>>
  BY DEF GatewayClock, gatewayVars
<1> QED
  BY <1>2, <1>3, <1>4, <1>5 DEF GatewayNext

LEMMA OverrunInvImplies == GInv /\ ReportedInv /\ OverrunInv => OverrunBounded
<1> SUFFICES ASSUME GInv, ReportedInv, OverrunInv, NEW r \in Requests, NEW w \in Windows,
                    admittedAt[r] # -1, TokenCap[w] # NoCap
             PROVE  RunningTotal(Amounts("tokens", admittedAt[r] - Span(w), gwNow))[r]
                      < TokenCap[w] + MostTokens * (overlap[r] + 1)
  BY DEF OverrunBounded
<1>a. /\ r \in 0..MaxRequests /\ MaxRequests \in Nat /\ MostTokens \in Nat
      /\ TokenCap[w] \in Nat /\ overlap[r] \in Nat
      /\ admittedAt[r] \in Int /\ gwNow \in Int /\ Span(w) \in Int
  BY GatewayAssumption, MostIs, SpanTypes DEF GInv, GatewayTypeOK, Requests
<1>1. PICK amounts : amounts = Amounts("tokens", admittedAt[r] - Span(w), gwNow)
  OBVIOUS
<1>2. \A q \in Requests : amounts[q] \in Nat
  BY <1>1, <1>a, AmountTypes
<1>3. PICK outlook : outlook = Outlook(r, w)
  OBVIOUS
<1>4. \A q \in Requests : outlook[q] = amounts[q] + IF q \in InFlight THEN MostTokens ELSE 0
  BY <1>1, <1>3 DEF Outlook, InAll
<1>5. \A q \in Requests : outlook[q] \in Nat /\ amounts[q] <= outlook[q]
  BY <1>2, <1>4, <1>a
<1>6. \A q \in 1..r : amounts[q] <= outlook[q]
  BY <1>5, <1>a DEF Requests
<1>7. RunningTotal(amounts)[r] <= RunningTotal(outlook)[r]
  BY <1>2, <1>5, <1>6, <1>a, TotalGrows
<1>8. RunningTotal(amounts)[r] \in Nat /\ RunningTotal(outlook)[r] \in Nat
  BY <1>2, <1>5, <1>a, TotalTypes
<1>9. PICK bound \in Int : bound = TokenCap[w] + MostTokens * (overlap[r] + 1)
  <2>1. overlap[r] + 1 \in Int
    BY <1>a
  <2>2. MostTokens * (overlap[r] + 1) \in Int
    BY <1>a, <2>1
  <2> QED
    BY <1>a, <2>2
<1>10. RunningTotal(outlook)[r] < bound
  BY <1>3, <1>9 DEF OverrunInv
<1>11. RunningTotal(amounts)[r] < bound
  BY <1>7, <1>8, <1>10
<1> QED
  BY <1>1, <1>9, <1>11

\* Whatever answers arrive late, and in whatever order, a cap is overrun by the requests
\* in flight at most; and where the runner's gate halts, the gateway denies
\* (gateway/windows.mjs:30-57, budget.mjs:220-291).
THEOREM CapsHold == GatewaySpec => [](OverrunBounded /\ GateHaltMeansDeny)
<1> DEFINE Inv == GInv /\ ReportedInv /\ OverrunInv
<1>1. GatewayInit => Inv
  BY GInvInit, ReportedInit, OverrunInit
<1>2. Inv /\ [GatewayNext]_gatewayVars => Inv'
  BY GInvStep, ReportedStep, OverrunStep
<1>3. Inv => OverrunBounded /\ GateHaltMeansDeny
  BY OverrunInvImplies, HaltMeansDeny
<1> QED
  BY <1>1, <1>2, <1>3, PTL DEF GatewaySpec

-----------------------------------------------------------------------------
(* Cloud (cloud/cloud-control-plane.mjs, cloud/local-agent.mjs).           *)

Steps == {"none", "sent", "answered", "applying"}
MarkInv ==
  /\ \/ preview = NoPreview
     \/ \E u \in Updates, s \in {"previewed", "confirmed"} : preview = [state |-> s, update |-> u]
  /\ pushes \in Nat /\ unmarked \in Nat
  /\ pushes = unmarked + (IF preview.state = "confirmed" THEN 1 ELSE 0)

\* What is owed was recorded since the cursor, is in the batch that is on its way, and
\* is stored when that has been answered.
OwedInv ==
  /\ csNow \in 0..CloudTime /\ sinceTs \in 0..csNow
  /\ cloudMetadata \subseteq Events /\ due \subseteq Events
  /\ tokenEvents \in [Events -> {NotYet} \cup 0..csNow]
  /\ report \in [step : Steps, batch : SUBSET Events, todo : Seq(Updates)]
  /\ \A e \in due : tokenEvents[e] # NotYet /\ tokenEvents[e] >= sinceTs
  /\ report.step = "sent" => due \subseteq report.batch
  /\ OwedIsReported

\* An answer lists the first of the updates there are.  A path whose update is still to
\* be written will hold the last one listed for it; any other holds that already.
Touched(updates, p) == \E i \in 1..Len(updates) : updates[i].path = p
ListedFirst ==
  report.step = "answered" =>
    /\ Len(report.todo) <= Len(policyUpdates)
    /\ \A i \in 1..Len(report.todo) : report.todo[i] = policyUpdates[i]
WillHold(p) ==
  expected[p] # NoValue =>
    expected[p] = IF report.step = "applying" /\ Touched(report.todo, p)
                  THEN LastOf(report.todo, p) ELSE localPolicy[p]
PushedInv ==
  /\ policyUpdates \in Seq(Updates) /\ Len(policyUpdates) <= MaxPushes
  /\ localPolicy \in [Paths -> Values]
  /\ expected \in [Paths -> Values \cup {NoValue}]
  /\ ListedFirst
  /\ \A p \in Paths : WillHold(p)
SyncInv == MarkInv /\ OwedInv /\ PushedInv

LEMMA SyncInvImplies ==
  SyncInv => CloudTypeOK /\ LastPushWins /\ OwedIsReported /\ ConfirmedOnce
<1> SUFFICES ASSUME SyncInv
             PROVE  CloudTypeOK /\ LastPushWins /\ OwedIsReported /\ ConfirmedOnce
  OBVIOUS
<1>1. preview = NoPreview \/ preview.state \in {"previewed", "confirmed"}
  BY DEF SyncInv, MarkInv
<1>2. report.step \in Steps /\ report.batch \subseteq Events /\ report.todo \in Seq(Updates)
  BY DEF SyncInv, OwedInv
<1>3. CloudTypeOK
  BY <1>1, <1>2 DEF SyncInv, OwedInv, PushedInv, CloudTypeOK, Steps
<1>4. LastPushWins
  BY DEF SyncInv, PushedInv, WillHold, LastPushWins
<1>5. OwedIsReported
  BY DEF SyncInv, OwedInv
<1>6. ConfirmedOnce
  BY DEF SyncInv, MarkInv, ConfirmedOnce
<1> QED
  BY <1>3, <1>4, <1>5, <1>6

\* The last of some updates for a path is the one no other comes behind.
LastAt(updates, p, i) ==
  /\ i \in 1..Len(updates) /\ updates[i].path = p
  /\ \A j \in 1..Len(updates) : updates[j].path = p => j <= i

LEMMA LastIsOne ==
  ASSUME NEW updates \in Seq(Updates), NEW p, NEW i, LastAt(updates, p, i)
  PROVE  LastOf(updates, p) = updates[i].value
<1> DEFINE at == {j \in DOMAIN updates : updates[j].path = p}
           last == CHOOSE j \in at : \A k \in at : k <= j
<1>1. DOMAIN updates = 1..Len(updates) /\ Len(updates) \in Nat
  OBVIOUS
<1>2. i \in at /\ \A k \in at : k <= i
  BY <1>1 DEF LastAt
<1>3. last \in at /\ \A k \in at : k <= last
  BY <1>2
<1>4. last = i
  BY <1>1, <1>2, <1>3
<1> HIDE DEF last
<1>5. LastOf(updates, p) = IF at = {} THEN NoValue ELSE updates[last].value
  BY DEF LastOf, last
<1> QED
  BY <1>2, <1>4, <1>5

LEMMA LastExists ==
  ASSUME NEW updates \in Seq(Updates), NEW p, Touched(updates, p)
  PROVE  \E i \in 1..Len(updates) : LastAt(updates, p, i)
<1> DEFINE n == Len(updates)
           S == {k \in Nat : k <= n /\ n - k \in 1..n /\ updates[n - k].path = p}
<1>1. n \in Nat
  OBVIOUS
<1>2. S \in SUBSET Nat
  OBVIOUS
<1>3. S # {}
  <2>1. PICK i \in 1..n : updates[i].path = p
    BY DEF Touched
  <2>2. n - i \in Nat /\ n - i <= n /\ n - (n - i) = i
    BY <1>1, <2>1
  <2> QED
    BY <2>1, <2>2
<1>4. Min(S) \in S
  BY <1>2, <1>3, Least
<1>5. \A k \in S : Min(S) <= k
  <2> HIDE DEF S
  <2>1. \E x \in S : \A y \in S : x <= y
    BY <1>2, <1>3, LeastIs
  <2> QED
    BY <2>1 DEF Min
<1> DEFINE m == Min(S)
<1> HIDE DEF m
<1>6. m \in Nat /\ m <= n /\ n - m \in 1..n /\ updates[n - m].path = p
  BY <1>4 DEF m
<1>7. ASSUME NEW j \in 1..n, updates[j].path = p
      PROVE  j <= n - m
  <2>1. n - j \in Nat /\ n - j <= n /\ n - (n - j) = j
    BY <1>1
  <2>2. n - j \in S
    BY <1>7, <2>1
  <2>3. m <= n - j
    BY <1>5, <2>2 DEF m
  <2> QED
    BY <1>1, <1>6, <2>3
<1>8. LastAt(updates, p, n - m)
  BY <1>6, <1>7 DEF LastAt
<1> QED
  BY <1>6, <1>8

\* Taking the head from a list: what is left for other paths, and for its own.
LEMMA TailLasts ==
  ASSUME NEW updates \in Seq(Updates), updates # <<>>, NEW p
  PROVE  /\ Touched(Tail(updates), p) => Touched(updates, p) /\ LastOf(Tail(updates), p) = LastOf(updates, p)
         /\ ~Touched(Tail(updates), p) /\ Head(updates).path = p => LastOf(updates, p) = Head(updates).value
         /\ Touched(updates, p) /\ Head(updates).path # p => Touched(Tail(updates), p)
<1> DEFINE n == Len(updates)
           rest == Tail(updates)
<1>1. n \in Nat /\ n >= 1 /\ rest \in Seq(Updates) /\ Len(rest) = n - 1
      /\ Head(updates) = updates[1]
  OBVIOUS
<1>2. \A i \in 1..n - 1 : rest[i] = updates[i + 1]
  BY <1>1
<1> HIDE DEF rest
<1>3. ASSUME Touched(rest, p)
      PROVE  Touched(updates, p) /\ LastOf(rest, p) = LastOf(updates, p)
  <2>1. PICK i \in 1..n - 1 : LastAt(rest, p, i)
    BY <1>1, <1>3, LastExists
  <2>2. LastOf(rest, p) = rest[i].value
    BY <1>1, <2>1, LastIsOne
  <2>3. LastAt(updates, p, i + 1)
    <3>1. i + 1 \in 1..n /\ updates[i + 1].path = p
      BY <1>1, <1>2, <2>1 DEF LastAt
    <3>2. ASSUME NEW j \in 1..n, updates[j].path = p
          PROVE  j <= i + 1
      <4>1. CASE j = 1
        BY <1>1, <4>1
      <4>2. CASE j # 1
        <5>1. j - 1 \in 1..n - 1 /\ (j - 1) + 1 = j
          BY <1>1, <4>2
        <5>2. rest[j - 1].path = p
          BY <1>2, <3>2, <5>1
        <5>3. j - 1 <= i
          BY <1>1, <2>1, <5>1, <5>2 DEF LastAt
        <5> QED
          BY <1>1, <5>3
      <4> QED
        BY <4>1, <4>2
    <3> QED
      BY <3>1, <3>2 DEF LastAt
  <2>4. LastOf(updates, p) = updates[i + 1].value
    BY <2>3, LastIsOne
  <2> QED
    BY <1>1, <1>2, <2>2, <2>3, <2>4 DEF Touched, LastAt
<1>4. ASSUME ~Touched(rest, p), Head(updates).path = p
      PROVE  LastOf(updates, p) = Head(updates).value
  <2>1. \A j \in 1..n : updates[j].path = p => j <= 1
    <3> SUFFICES ASSUME NEW j \in 1..n, updates[j].path = p, j # 1
                 PROVE  FALSE
      BY <1>1
    <3>1. j - 1 \in 1..n - 1 /\ (j - 1) + 1 = j
      BY <1>1
    <3>2. rest[j - 1].path = p
      BY <1>2, <3>1
    <3> QED
      BY <1>1, <1>4, <3>1, <3>2 DEF Touched
  <2>2. LastAt(updates, p, 1)
    BY <1>1, <1>4, <2>1 DEF LastAt
  <2> QED
    BY <1>1, <2>2, LastIsOne
<1>5. ASSUME Touched(updates, p), Head(updates).path # p
      PROVE  Touched(rest, p)
  <2>1. PICK j \in 1..n : updates[j].path = p
    BY <1>5 DEF Touched
  <2>2. j - 1 \in 1..n - 1 /\ (j - 1) + 1 = j
    BY <1>1, <1>5, <2>1
  <2> QED
    BY <1>1, <1>2, <2>1, <2>2 DEF Touched
<1> QED
  BY <1>3, <1>4, <1>5 DEF rest

LEMMA NonePending ==
  ASSUME NEW updates \in Seq(Updates), NEW p, ~Touched(updates, p)
  PROVE  LastOf(updates, p) = NoValue
<1>1. {i \in DOMAIN updates : updates[i].path = p} = {}
  BY DEF Touched
<1> QED
  BY <1>1 DEF LastOf

LEMMA SyncInitInv == CloudInit => SyncInv
<1> SUFFICES ASSUME CloudInit PROVE SyncInv
  OBVIOUS
<1>1. MarkInv
  BY DEF CloudInit, MarkInv, NoPreview
<1>2. NoReport \in [step : Steps, batch : SUBSET Events, todo : Seq(Updates)] /\ NoReport.step = "none"
  BY DEF NoReport, Steps
<1>3. OwedInv
  BY <1>2, CloudAssumption DEF CloudInit, OwedInv, OwedIsReported
<1>4. localPolicy \in [Paths -> Values] /\ expected = [p \in Paths |-> NoValue]
  BY DEF CloudInit
<1>5. policyUpdates \in Seq(Updates) /\ Len(policyUpdates) <= MaxPushes
  BY CloudAssumption DEF CloudInit
<1>6. PushedInv
  BY <1>2, <1>4, <1>5 DEF CloudInit, PushedInv, ListedFirst, WillHold
<1> QED
  BY <1>1, <1>3, <1>6 DEF SyncInv

\* A push adds behind what an answer may have listed.
LEMMA PushInvKept ==
  ASSUME PushedInv, NEW update \in Updates, Pushed(update),
         UNCHANGED <<report, localPolicy, expected>>
  PROVE  PushedInv'
<1>1. /\ policyUpdates' \in Seq(Updates) /\ Len(policyUpdates') = Len(policyUpdates) + 1
      /\ Len(policyUpdates) \in Nat
      /\ \A i \in 1..Len(policyUpdates) : policyUpdates'[i] = policyUpdates[i]
  BY DEF PushedInv, Pushed
<1>2. Len(policyUpdates') <= MaxPushes
  BY <1>1, CloudAssumption DEF Pushed
<1>3. ListedFirst'
  BY <1>1 DEF PushedInv, ListedFirst
<1>4. \A p \in Paths : WillHold(p)'
  BY DEF PushedInv, WillHold
<1> QED
  BY <1>1, <1>2, <1>3, <1>4 DEF PushedInv

\* A report that is not being applied before the step nor after it.
LEMMA ReportMoved ==
  ASSUME PushedInv, UNCHANGED <<policyUpdates, localPolicy, expected>>,
         report.step # "applying", report'.step # "applying", ListedFirst'
  PROVE  PushedInv'
<1>1. \A p \in Paths : WillHold(p)'
  BY DEF PushedInv, WillHold
<1> QED
  BY <1>1 DEF PushedInv

LEMMA AnswerInv ==
  ASSUME OwedInv, PushedInv, AnswerArrives
  PROVE  OwedInv' /\ PushedInv'
<1>1. /\ report.step = "answered" /\ sinceTs' = csNow /\ due' = {}
      /\ report' = [report EXCEPT !.step = "applying"]
      /\ expected' = [p \in Paths |-> LastOf(SubSeq(policyUpdates, 1, Len(report.todo)), p)]
      /\ UNCHANGED <<localPolicy, csNow, policyUpdates, cloudMetadata, tokenEvents>>
  BY DEF AnswerArrives, AgentElsewhere
<1>2. report'.step = "applying" /\ report'.todo = report.todo /\ report.todo \in Seq(Updates)
      /\ report' \in [step : Steps, batch : SUBSET Events, todo : Seq(Updates)]
  BY <1>1 DEF OwedInv, Steps
<1>3. OwedInv'
  BY <1>1, <1>2, CloudAssumption DEF OwedInv, OwedIsReported
<1>4. SubSeq(policyUpdates, 1, Len(report.todo)) = report.todo
  <2> DEFINE n == Len(report.todo)
             listed == SubSeq(policyUpdates, 1, n)
  <2>1. n \in Nat /\ n <= Len(policyUpdates) /\ Len(policyUpdates) \in Nat
        /\ policyUpdates \in Seq(Updates)
        /\ \A i \in 1..n : report.todo[i] = policyUpdates[i]
    BY <1>1, <1>2 DEF PushedInv, ListedFirst
  <2> HIDE DEF n
  <2>2. listed \in Seq(Updates) /\ Len(listed) = n /\ \A i \in 1..n : listed[i] = policyUpdates[i]
    BY <2>1
  <2> HIDE DEF listed
  <2> QED
    BY <1>2, <2>1, <2>2 DEF n, listed
<1>5. \A p \in Paths : expected'[p] = LastOf(report.todo, p)
  BY <1>1, <1>4
<1>6. \A p \in Paths : WillHold(p)'
  <2> SUFFICES ASSUME NEW p \in Paths, expected'[p] # NoValue
               PROVE  Touched(report'.todo, p) /\ expected'[p] = LastOf(report'.todo, p)
    BY <1>2 DEF WillHold
  <2> QED
    BY <1>2, <1>5, NonePending
<1>7. expected' \in [Paths -> Values \cup {NoValue}]
  <2> SUFFICES ASSUME NEW p \in Paths PROVE LastOf(report.todo, p) \in Values \cup {NoValue}
    BY <1>1, <1>4
  <2>1. CASE Touched(report.todo, p)
    <3>1. PICK i \in 1..Len(report.todo) : LastAt(report.todo, p, i)
      BY <1>2, <2>1, LastExists
    <3>2. LastOf(report.todo, p) = report.todo[i].value
      BY <1>2, <3>1, LastIsOne
    <3>3. report.todo[i] \in Updates
      BY <1>2, <3>1
    <3> QED
      BY <3>2, <3>3 DEF Updates
  <2> QED
    BY <1>2, <2>1, NonePending
<1>8. ListedFirst'
  BY <1>2 DEF ListedFirst
<1> QED
  BY <1>1, <1>3, <1>6, <1>7, <1>8 DEF PushedInv

LEMMA ApplyInv ==
  ASSUME OwedInv, PushedInv, NEW skipped \in BOOLEAN, ApplyNext(skipped)
  PROVE  OwedInv' /\ PushedInv'
<1> DEFINE update == Head(report.todo)
<1>1. /\ report.step = "applying" /\ report.todo # <<>>
      /\ localPolicy' = IF skipped THEN localPolicy
                        ELSE [localPolicy EXCEPT ![update.path] = update.value]
      /\ expected' = IF skipped THEN [expected EXCEPT ![update.path] = NoValue] ELSE expected
      /\ report' = [report EXCEPT !.todo = Tail(report.todo)]
      /\ UNCHANGED <<sinceTs, due, csNow, policyUpdates, cloudMetadata, tokenEvents>>
  BY DEF ApplyNext, AgentElsewhere
<1>2. report.todo \in Seq(Updates)
  BY DEF OwedInv
<1>3. update \in Updates /\ Tail(report.todo) \in Seq(Updates)
  BY <1>1, <1>2
<1>4. update.path \in Paths /\ update.value \in Values
  BY <1>3 DEF Updates
<1>5. report'.step = "applying" /\ report'.todo = Tail(report.todo)
      /\ report' \in [step : Steps, batch : SUBSET Events, todo : Seq(Updates)]
  BY <1>1, <1>3 DEF OwedInv, Steps
<1>6. OwedInv'
  BY <1>1, <1>5 DEF OwedInv, OwedIsReported
<1>7. \A p \in Paths :
        /\ Touched(Tail(report.todo), p) =>
             Touched(report.todo, p) /\ LastOf(Tail(report.todo), p) = LastOf(report.todo, p)
        /\ ~Touched(Tail(report.todo), p) /\ update.path = p => LastOf(report.todo, p) = update.value
        /\ Touched(report.todo, p) /\ update.path # p => Touched(Tail(report.todo), p)
  BY <1>1, <1>2, TailLasts
<1>8. update.path \in Paths => Touched(report.todo, update.path)
  BY <1>1, <1>2 DEF Touched
<1> HIDE DEF update
<1>9. localPolicy' \in [Paths -> Values] /\ expected' \in [Paths -> Values \cup {NoValue}]
  BY <1>1, <1>4 DEF PushedInv
<1>10. ASSUME NEW p \in Paths
       PROVE  WillHold(p)'
  <2> SUFFICES ASSUME expected'[p] # NoValue
               PROVE  expected'[p] = IF Touched(Tail(report.todo), p)
                                     THEN LastOf(Tail(report.todo), p) ELSE localPolicy'[p]
    BY <1>5 DEF WillHold
  <2>1. ~(skipped /\ update.path = p) /\ expected'[p] = expected[p]
    BY <1>1 DEF PushedInv
  <2>2. expected[p] = IF Touched(report.todo, p) THEN LastOf(report.todo, p) ELSE localPolicy[p]
    BY <1>1, <2>1 DEF PushedInv, WillHold
  <2>3. CASE Touched(Tail(report.todo), p)
    BY <1>7, <2>1, <2>2, <2>3
  <2>4. CASE ~Touched(Tail(report.todo), p) /\ update.path = p
    <3>1. localPolicy'[p] = update.value
      BY <1>1, <2>1, <2>4 DEF PushedInv
    <3> QED
      BY <1>4, <1>7, <1>8, <2>1, <2>2, <2>4, <3>1
  <2>5. CASE ~Touched(Tail(report.todo), p) /\ update.path # p
    <3>1. localPolicy'[p] = localPolicy[p]
      BY <1>1, <2>5 DEF PushedInv
    <3> QED
      BY <1>7, <2>1, <2>2, <2>5, <3>1
  <2> QED
    BY <2>3, <2>4, <2>5
<1>11. ListedFirst'
  BY <1>5 DEF ListedFirst
<1> QED
  BY <1>1, <1>6, <1>9, <1>10, <1>11 DEF PushedInv

\* The founder's own value: no promise is left for that path.
LEMMA EditInv ==
  ASSUME PushedInv, NEW update \in Updates, EditPolicy(update)
  PROVE  PushedInv'
<1>1. /\ localPolicy' = [localPolicy EXCEPT ![update.path] = update.value]
      /\ expected' = [expected EXCEPT ![update.path] = NoValue]
      /\ UNCHANGED <<policyUpdates, report>>
      /\ update.path \in Paths /\ update.value \in Values
  BY DEF EditPolicy, Updates
<1>2. localPolicy' \in [Paths -> Values] /\ expected' \in [Paths -> Values \cup {NoValue}]
  BY <1>1 DEF PushedInv
<1>3. \A p \in Paths : WillHold(p)'
  BY <1>1 DEF PushedInv, WillHold
<1> QED
  BY <1>1, <1>2, <1>3 DEF PushedInv, ListedFirst

LEMMA CursorRestarts ==
  ASSUME OwedInv, PushedInv, AgentRestarts
  PROVE  OwedInv' /\ PushedInv'
<1>1. /\ report' = NoReport /\ sinceTs' = csNow /\ due' = {} /\ expected' = [p \in Paths |-> NoValue]
      /\ UNCHANGED <<csNow, policyUpdates, cloudMetadata, tokenEvents, localPolicy>>
  BY DEF AgentRestarts
<1>2. NoReport \in [step : Steps, batch : SUBSET Events, todo : Seq(Updates)] /\ NoReport.step = "none"
  BY DEF NoReport, Steps
<1>3. OwedInv'
  BY <1>1, <1>2, CloudAssumption DEF OwedInv, OwedIsReported
<1>4. PushedInv'
  BY <1>1, <1>2 DEF PushedInv, ListedFirst, WillHold
<1> QED
  BY <1>3, <1>4

LEMMA RecordedInv ==
  ASSUME OwedInv, RecordEvent
  PROVE  OwedInv'
<1>1. PICK e \in Events : /\ tokenEvents[e] = NotYet
                          /\ tokenEvents' = [tokenEvents EXCEPT ![e] = csNow]
                          /\ due' = IF report.step = "none" THEN due \cup {e} ELSE due
  BY DEF RecordEvent
<1>2. UNCHANGED <<csNow, cloudMetadata, report, sinceTs>>
  BY DEF RecordEvent
<1>3. csNow \in Nat /\ csNow >= sinceTs /\ csNow # NotYet
  BY CloudAssumption DEF OwedInv, NotYet
<1>4. tokenEvents' \in [Events -> {NotYet} \cup 0..csNow'] /\ due' \subseteq Events
  BY <1>1, <1>2, <1>3 DEF OwedInv
<1>5. \A d \in due' : tokenEvents'[d] # NotYet /\ tokenEvents'[d] >= sinceTs'
  BY <1>1, <1>2, <1>3 DEF OwedInv
<1>6. report.step # "none" => due' = due
  BY <1>1
<1> QED
  BY <1>2, <1>4, <1>5, <1>6 DEF OwedInv, OwedIsReported

\* The report on its way out, stored, and given up.
LEMMA ReportSent ==
  ASSUME OwedInv, PushedInv, reportOnce
  PROVE  OwedInv' /\ PushedInv'
<1> DEFINE batch == {e \in Events : tokenEvents[e] # NotYet /\ tokenEvents[e] >= sinceTs}
<1>1. /\ report.step = "none" /\ report' = [NoReport EXCEPT !.step = "sent", !.batch = batch]
      /\ UNCHANGED <<sinceTs, localPolicy, due, expected, csNow, policyUpdates, cloudMetadata, tokenEvents>>
  BY DEF reportOnce, AgentElsewhere
<1>2. report' = [step |-> "sent", batch |-> batch, todo |-> <<>>]
  BY <1>1 DEF NoReport
<1>3. batch \in SUBSET Events /\ due \subseteq batch
  BY DEF OwedInv
<1> HIDE DEF batch
<1>4. OwedInv'
  <2>1. report' \in [step : Steps, batch : SUBSET Events, todo : Seq(Updates)]
    BY <1>2, <1>3 DEF Steps
  <2>2. report'.step = "sent" /\ due' \subseteq report'.batch
    BY <1>1, <1>2, <1>3
  <2> QED
    BY <1>1, <2>1, <2>2 DEF OwedInv, OwedIsReported
<1>5. PushedInv'
  BY <1>1, <1>2, ReportMoved DEF ListedFirst
<1> QED
  BY <1>4, <1>5

LEMMA ReportStored ==
  ASSUME OwedInv, PushedInv, reportMetadata
  PROVE  OwedInv' /\ PushedInv'
<1>1. /\ report.step = "sent" /\ cloudMetadata' = cloudMetadata \cup report.batch
      /\ report' = [report EXCEPT !.step = "answered", !.todo = policyUpdates]
      /\ UNCHANGED <<csNow, policyUpdates, tokenEvents, sinceTs, localPolicy, due, expected>>
  BY DEF reportMetadata, pendingPolicyForMachine
<1>2. report' = [step |-> "answered", batch |-> report.batch, todo |-> policyUpdates]
      /\ report.batch \in SUBSET Events
  BY <1>1 DEF OwedInv
<1>3. OwedInv'
  <2>1. policyUpdates \in Seq(Updates)
    BY DEF PushedInv
  <2>2. report' \in [step : Steps, batch : SUBSET Events, todo : Seq(Updates)] /\ report'.step = "answered"
    BY <1>2, <2>1 DEF Steps
  <2>3. due' \subseteq cloudMetadata' /\ cloudMetadata' \subseteq Events
    BY <1>1, <1>2 DEF OwedInv
  <2> QED
    BY <1>1, <2>2, <2>3 DEF OwedInv, OwedIsReported
<1>4. ListedFirst'
  BY <1>1, <1>2 DEF ListedFirst, PushedInv
<1>5. PushedInv'
  BY <1>1, <1>2, <1>4, ReportMoved
<1> QED
  BY <1>3, <1>5

LEMMA ReportOver ==
  ASSUME OwedInv, PushedInv, ReportFails \/ Applied
  PROVE  OwedInv' /\ PushedInv'
<1>1. /\ report' = NoReport
      /\ UNCHANGED <<sinceTs, localPolicy, due, expected, csNow, policyUpdates, cloudMetadata, tokenEvents>>
      /\ report.step # "applying" \/ report.todo = <<>>
  BY DEF ReportFails, Applied, AgentElsewhere
<1>2. NoReport \in [step : Steps, batch : SUBSET Events, todo : Seq(Updates)] /\ NoReport.step = "none"
  BY DEF NoReport, Steps
<1>3. OwedInv'
  BY <1>1, <1>2 DEF OwedInv, OwedIsReported
<1>4. \A p \in Paths : WillHold(p)'
  <2>1. \A p : report.step = "applying" => ~Touched(report.todo, p)
    BY <1>1 DEF Touched
  <2> QED
    BY <1>1, <1>2, <2>1 DEF PushedInv, WillHold
<1>5. ListedFirst'
  BY <1>1, <1>2 DEF ListedFirst
<1> QED
  BY <1>1, <1>3, <1>4, <1>5 DEF PushedInv

LEMMA MarkStep ==
  ASSUME MarkInv, confirmPolicyPush \/ confirmAndDie
  PROVE  MarkInv' /\ preview.update \in Updates
<1>1. PICK u \in Updates : preview = [state |-> "previewed", update |-> u]
  BY DEF MarkInv, confirmPolicyPush, confirmAndDie, Confirmable, NoPreview
<1>2. CASE confirmPolicyPush
  <2>1. preview' = [state |-> "confirmed", update |-> u] /\ pushes' = pushes + 1 /\ unmarked' = unmarked
    BY <1>1, <1>2 DEF confirmPolicyPush
  <2> QED
    BY <1>1, <2>1 DEF MarkInv
<1>3. CASE confirmAndDie
  <2>1. preview' = preview /\ pushes' = pushes + 1 /\ unmarked' = unmarked + 1
    BY <1>3 DEF confirmAndDie
  <2>2. pushes = unmarked /\ pushes \in Nat
    BY <1>1 DEF MarkInv
  <2> QED
    BY <1>1, <2>1, <2>2 DEF MarkInv
<1> QED
  BY <1>1, <1>2, <1>3

LEMMA SyncStep == SyncInv /\ [CloudNext]_cloudVars => SyncInv'
<1> SUFFICES ASSUME SyncInv, [CloudNext]_cloudVars
             PROVE  SyncInv'
  OBVIOUS
<1> USE DEF SyncInv
<1>a. ASSUME UNCHANGED <<preview, pushes, unmarked>> PROVE MarkInv'
  BY <1>a DEF MarkInv
<1>b. ASSUME UNCHANGED <<csNow, sinceTs, cloudMetadata, due, tokenEvents, report>> PROVE OwedInv'
  BY <1>b DEF OwedInv, OwedIsReported
<1>c. ASSUME UNCHANGED <<policyUpdates, localPolicy, expected, report>> PROVE PushedInv'
  BY <1>c DEF PushedInv, ListedFirst, WillHold
<1>1. ASSUME NEW update \in Updates, pushPolicy(update)
      PROVE  SyncInv'
  BY <1>1, <1>a, <1>b, PushInvKept DEF pushPolicy, CloudElsewhere
<1>2. ASSUME NEW update \in Updates, previewPolicyPush(update)
      PROVE  SyncInv'
  <2>1. preview = NoPreview /\ preview' = [state |-> "previewed", update |-> update]
        /\ UNCHANGED <<policyUpdates, pushes, unmarked>> /\ CloudElsewhere
    BY <1>2 DEF previewPolicyPush
  <2>2. MarkInv'
    BY <2>1 DEF MarkInv, NoPreview
  <2> QED
    BY <2>1, <2>2, <1>b, <1>c DEF CloudElsewhere
<1>3. ASSUME NEW update \in Updates, EditPolicy(update)
      PROVE  SyncInv'
  BY <1>3, <1>a, <1>b, EditInv DEF EditPolicy
<1>4. CASE confirmPolicyPush \/ confirmAndDie
  <2>1. MarkInv' /\ preview.update \in Updates
    BY <1>4, MarkStep
  <2>2. Pushed(preview.update) /\ CloudElsewhere
    BY <1>4 DEF confirmPolicyPush, confirmAndDie
  <2> QED
    BY <2>1, <2>2, <1>b, PushInvKept DEF CloudElsewhere
<1>5. CASE reportOnce
  BY <1>5, <1>a, ReportSent DEF reportOnce, AgentElsewhere
<1>6. CASE reportMetadata
  BY <1>6, <1>a, ReportStored DEF reportMetadata
<1>7. CASE ReportFails \/ Applied
  BY <1>7, <1>a, ReportOver DEF ReportFails, Applied, AgentElsewhere
<1>8. CASE AnswerArrives
  BY <1>8, <1>a, AnswerInv DEF AnswerArrives, AgentElsewhere
<1>9. ASSUME NEW skipped \in BOOLEAN, ApplyNext(skipped)
      PROVE  SyncInv'
  BY <1>9, <1>a, ApplyInv DEF ApplyNext, AgentElsewhere
<1>10. CASE AgentRestarts
  BY <1>10, <1>a, CursorRestarts DEF AgentRestarts
<1>11. CASE RecordEvent
  BY <1>11, <1>a, <1>c, RecordedInv DEF RecordEvent
<1>12. CASE CloudClock
  <2>1. csNow' = csNow + 1 /\ csNow < CloudTime
        /\ UNCHANGED <<policyUpdates, preview, cloudMetadata, tokenEvents, report, sinceTs,
                       localPolicy, due, expected, pushes, unmarked>>
    BY <1>12 DEF CloudClock
  <2>2. csNow \in Nat /\ csNow' \in 0..CloudTime
    BY <2>1, CloudAssumption DEF OwedInv
  <2>3. tokenEvents' \in [Events -> {NotYet} \cup 0..csNow'] /\ sinceTs' \in 0..csNow'
    BY <2>1, <2>2 DEF OwedInv
  <2>4. OwedInv'
    BY <2>1, <2>2, <2>3 DEF OwedInv, OwedIsReported
  <2> QED
    BY <2>1, <2>4, <1>a, <1>c
<1>13. CASE UNCHANGED cloudVars
  BY <1>13, <1>a, <1>b, <1>c DEF cloudVars
<1> QED
  BY <1>1, <1>2, <1>3, <1>4, <1>5, <1>6, <1>7, <1>8, <1>9, <1>10, <1>11, <1>12, <1>13 DEF CloudNext

LEMMA SyncInvariant == CloudSpec => []SyncInv
  BY SyncInitInv, SyncStep, PTL DEF CloudSpec

\* What the cloud pushed last is what the policy file holds when an answer has been
\* applied (cloud/cloud-control-plane.mjs:204-211, cloud/local-agent.mjs:106-132).
THEOREM LastPushesWin == CloudSpec => []LastPushWins
  BY SyncInvariant, SyncInvImplies, PTL

\* No event recorded between reports is lost to the cloud by those that fail
\* (cloud/local-agent.mjs:172-181).
THEOREM OwedEventsReported == CloudSpec => []OwedIsReported
  BY SyncInvariant, SyncInvImplies, PTL

\* A preview is pushed once, and once more for each death before its mark
\* (cloud/cloud-control-plane.mjs:186-190).
THEOREM PreviewsPushedOnce == CloudSpec => []ConfirmedOnce
  BY SyncInvariant, SyncInvImplies, PTL

-----------------------------------------------------------------------------
(* Webhooks (webhooks.mjs, api/v1/management-webhooks.mjs).                *)

\* The shared count never says more failures than there have been since the last
\* success, unless a replay wrote back an old one; a deleted endpoint has none.
HookInv ==
  /\ hook \in [exists : BOOLEAN, active : BOOLEAN, count : Nat, scope : Tenants \cup {NoScope}]
  /\ hook.active => hook.exists
  /\ ~hook.exists => hook.count = 0
  /\ failedRun \in Nat /\ staleWrite \in BOOLEAN
  /\ staleWrite \/ hook.count <= failedRun

LogInv ==
  /\ attemptLog \in [Attempts -> {"none", "success", "failed", "retrying", "pruned"}]
  /\ \E n \in 0..MaxLogged : Logged = 1..n

DeliveryInv ==
  /\ delivery \in [Deliveries -> [step : {"idle", "sending", "pausing", "done"},
                                  made : 0..MAX_ATTEMPTS]]
  /\ \A d \in Deliveries : delivery[d].step # "done" => delivery[d].made < MAX_ATTEMPTS

\* What was sent again is reserved for good, and so is what a replay awaits.
ReplayInv ==
  /\ replayCall \in [Replays -> [step : {"idle", "sending", "done"}, of : 0..MaxLogged, count : Nat]]
  /\ reservation \in [Attempts -> {"none", "pending", "ineligible", "succeeded", "failed"}]
  /\ \A r \in Replays : replayCall[r].step = "sending" =>
       replayCall[r].of \in Attempts /\ reservation[replayCall[r].of] # "none"
  /\ \A a \in Attempts : attemptLog[a] = "none" => reservation[a] = "none"
  /\ sentFor \in [Attempts -> 0..1]
  /\ \A a \in Attempts : sentFor[a] = 1 => reservation[a] # "none"

WebhooksInv == HookInv /\ LogInv /\ DeliveryInv /\ ReplayInv

LEMMA LoggedCount ==
  ASSUME NEW n \in Nat, Logged = 1..n PROVE Cardinality(Logged) = n
<1>1. 1 \in Int /\ n \in Int
  OBVIOUS
<1>2. Cardinality(1..n) = IF 1 > n THEN 0 ELSE n - 1 + 1
  BY <1>1, FS_Interval
<1> QED
  BY <1>2

LEMMA WebhooksInvImplies == WebhooksInv => WebhooksTypeOK /\ ReplayedOnce
<1> SUFFICES ASSUME WebhooksInv PROVE WebhooksTypeOK /\ ReplayedOnce
  OBVIOUS
<1>1. PICK n \in 0..MaxLogged : Logged = 1..n
  BY DEF WebhooksInv, LogInv
<1>2. Cardinality(Logged) = n
  BY <1>1, LoggedCount, WebhooksAssumption
<1>3. hook.count \in Nat /\ hook.scope \in Tenants \cup {NoScope} /\ (hook.active => hook.exists)
  BY DEF WebhooksInv, HookInv
<1>4. \A d \in Deliveries : /\ delivery[d].step \in {"idle", "sending", "pausing", "done"}
                            /\ delivery[d].made \in 0..MAX_ATTEMPTS
  BY DEF WebhooksInv, DeliveryInv
<1>5. \A a \in Attempts :
          /\ attemptLog[a] \in {"none", "success", "failed", "retrying", "pruned"}
          /\ reservation[a] \in {"none", "pending", "ineligible", "succeeded", "failed"}
          /\ attemptLog[a] = "none" => reservation[a] = "none"
  BY DEF WebhooksInv, LogInv, ReplayInv
<1>6. ReplayedOnce
  BY DEF WebhooksInv, ReplayInv, ReplayedOnce
<1> QED
  BY <1>1, <1>2, <1>3, <1>4, <1>5, <1>6 DEF WebhooksTypeOK

LEMMA WebhooksInitInv == WebhooksInit => WebhooksInv
<1> SUFFICES ASSUME WebhooksInit PROVE WebhooksInv
  OBVIOUS
<1>1. HookInv
  <2>1. hook = [exists |-> TRUE, active |-> TRUE, count |-> 0, scope |-> NoScope]
        /\ failedRun = 0 /\ staleWrite = FALSE
    BY DEF WebhooksInit
  <2>2. hook \in [exists : BOOLEAN, active : BOOLEAN, count : Nat, scope : Tenants \cup {NoScope}]
    BY <2>1
  <2>3. hook.exists /\ hook.count = 0 /\ hook.count <= failedRun
    BY <2>1
  <2> QED
    BY <2>1, <2>2, <2>3 DEF HookInv
<1>2. LogInv
  <2>1. Logged = 1..0 /\ 0 \in 0..MaxLogged
    <3>1. Logged = {}
      BY DEF WebhooksInit, Logged
    <3>2. 1..0 = {}
      OBVIOUS
    <3>3. 0 \in 0..MaxLogged
      BY WebhooksAssumption
    <3> QED
      BY <3>1, <3>2, <3>3
  <2>2. attemptLog \in [Attempts -> {"none", "success", "failed", "retrying", "pruned"}]
    BY DEF WebhooksInit
  <2> QED
    BY <2>1, <2>2 DEF LogInv
<1>3. DeliveryInv
  BY WebhooksAssumption DEF WebhooksInit, DeliveryInv
<1>4. ReplayInv
  <2>1. IdleReplay \in [step : {"idle", "sending", "done"}, of : 0..MaxLogged, count : Nat]
        /\ IdleReplay.step = "idle"
    BY WebhooksAssumption DEF IdleReplay
  <2>2. \A r \in Replays : replayCall[r] = IdleReplay
    BY DEF WebhooksInit
  <2>3. replayCall = [r \in Replays |-> IdleReplay]
    BY DEF WebhooksInit
  <2> HIDE DEF IdleReplay
  <2>4. replayCall \in [Replays -> [step : {"idle", "sending", "done"}, of : 0..MaxLogged, count : Nat]]
    BY <2>1, <2>3
  <2> QED
    BY <2>1, <2>2, <2>4 DEF WebhooksInit, ReplayInv
<1> QED
  BY <1>1, <1>2, <1>3, <1>4 DEF WebhooksInv

\* A row is logged behind the others, and frees no reservation.
LEMMA LoggedStep ==
  ASSUME LogInv, NEW status \in {"success", "failed", "retrying"}, logDelivery(status)
  PROVE  /\ LogInv'
         /\ \A a \in Attempts : attemptLog'[a] = "none" => attemptLog[a] = "none"
<1>1. PICK n \in 0..MaxLogged : Logged = 1..n
  BY DEF LogInv
<1>2. Cardinality(Logged) = n /\ n \in Nat
  BY <1>1, LoggedCount, WebhooksAssumption
<1>3. n + 1 \in Attempts /\ n + 1 \in 0..MaxLogged /\ attemptLog' = [attemptLog EXCEPT ![n + 1] = status]
  BY <1>2, WebhooksAssumption DEF logDelivery, Attempts
<1>4. attemptLog' \in [Attempts -> {"none", "success", "failed", "retrying", "pruned"}]
  BY <1>3 DEF LogInv
<1>5. \A a \in Attempts : attemptLog'[a] = IF a = n + 1 THEN status ELSE attemptLog[a]
  BY <1>3 DEF LogInv
<1>6. Logged' = Logged \cup {n + 1}
  BY <1>3, <1>5 DEF Logged
<1>7. Logged' = 1..n + 1
  BY <1>1, <1>2, <1>6
<1> QED
  BY <1>3, <1>4, <1>5, <1>7 DEF LogInv

LEMMA HookFields ==
  ASSUME HookInv
  PROVE  hook = [exists |-> hook.exists, active |-> hook.active, count |-> hook.count, scope |-> hook.scope]
BY DEF HookInv

\* A failure that switches the endpoint off is one of enough in a row.
LEMMA FailureInv ==
  ASSUME HookInv, DeliveryInv, NEW d \in Deliveries, DeliveryFails(d)
  PROVE  /\ HookInv' /\ DeliveryInv'
         /\ hook.active /\ ~hook'.active => failedRun' >= MAX_ATTEMPTS \/ staleWrite'
<1> DEFINE sent == delivery[d].made + 1
           final == sent >= MAX_ATTEMPTS
           count == hook.count + 1
           on == hook.active /\ ~(final /\ count >= MAX_ATTEMPTS)
<1>1. /\ hook' = IF ~hook.exists THEN hook ELSE [hook EXCEPT !.count = count, !.active = on]
      /\ failedRun' = failedRun + 1 /\ staleWrite' = staleWrite
      /\ delivery' = [delivery EXCEPT ![d] = [step |-> IF final THEN "done" ELSE "pausing", made |-> sent]]
      /\ delivery[d].step = "sending"
  BY DEF DeliveryFails
<1>2. delivery[d].made \in 0..MAX_ATTEMPTS /\ delivery[d].made < MAX_ATTEMPTS
  BY <1>1 DEF DeliveryInv
<1>3. DeliveryInv'
  <2>1. sent \in 0..MAX_ATTEMPTS /\ (~final => sent < MAX_ATTEMPTS)
    BY <1>2, WebhooksAssumption
  <2> HIDE DEF sent, final
  <2> QED
    BY <1>1, <2>1 DEF DeliveryInv
<1>4. CASE ~hook.exists
  BY <1>1, <1>3, <1>4 DEF HookInv
<1>5. CASE hook.exists
  <2>1. on \in BOOLEAN /\ count \in Nat
    BY DEF HookInv
  <2>2. on => hook.active
    OBVIOUS
  <2>3. hook.active /\ ~on => count >= MAX_ATTEMPTS
    OBVIOUS
  <2>4. count = hook.count + 1
    OBVIOUS
  <2> HIDE DEF on, count, final
  <2>5. hook' = [exists |-> TRUE, active |-> on, count |-> count, scope |-> hook.scope]
    BY <1>1, <1>5 DEF HookInv
  <2>6. failedRun \in Nat /\ hook.count \in Nat /\ (staleWrite \/ hook.count <= failedRun)
    BY DEF HookInv
  <2>7. staleWrite' \/ count <= failedRun'
    BY <1>1, <2>4, <2>6
  <2>8. HookInv'
    <3>1. failedRun' \in Nat
      BY <1>1, <2>6
    <3>2. staleWrite' \in BOOLEAN /\ hook.scope \in Tenants \cup {NoScope}
      BY <1>1 DEF HookInv
    <3>3. hook' \in [exists : BOOLEAN, active : BOOLEAN, count : Nat, scope : Tenants \cup {NoScope}]
      BY <2>1, <2>5, <3>2
    <3>4. hook'.exists /\ hook'.count = count
      BY <2>5
    <3> QED
      BY <2>7, <3>1, <3>2, <3>3, <3>4 DEF HookInv
  <2>9. hook'.active = on
    BY <2>5
  <2>10. hook.active /\ ~on => failedRun' >= MAX_ATTEMPTS \/ staleWrite'
    BY <1>1, <2>1, <2>3, <2>6, <2>7, WebhooksAssumption
  <2> QED
    BY <1>3, <2>8, <2>9, <2>10
<1> QED
  BY <1>4, <1>5

LEMMA DeliveredInv ==
  ASSUME HookInv, DeliveryInv, NEW d \in Deliveries, Delivered(d)
  PROVE  HookInv' /\ DeliveryInv' /\ hook'.active = hook.active
<1>1. HookInv' /\ hook'.active = hook.active
  <2>1. hook' = [exists |-> hook.exists, active |-> hook.active, count |-> 0, scope |-> hook.scope]
    BY HookFields DEF HookInv, Delivered
  <2> QED
    BY <2>1 DEF HookInv, Delivered
<1>2. delivery' = [delivery EXCEPT ![d] = [step |-> "done", made |-> delivery[d].made + 1]]
      /\ delivery[d].step = "sending"
  BY DEF Delivered
<1>3. delivery[d].made + 1 \in 0..MAX_ATTEMPTS
  BY <1>2, WebhooksAssumption DEF DeliveryInv
<1> QED
  BY <1>1, <1>2, <1>3 DEF DeliveryInv

\* The claim of an endpoint.
LEMMA ClaimInv ==
  ASSUME HookInv, NEW t \in Tenants, hook' = Claimed(t), UNCHANGED <<failedRun, staleWrite>>
  PROVE  HookInv' /\ hook'.active = hook.active
<1>1. PICK scope \in Tenants \cup {NoScope} :
        hook' = [exists |-> hook.exists, active |-> hook.active, count |-> hook.count, scope |-> scope]
  <2>1. hook.scope \in Tenants \cup {NoScope}
    BY DEF HookInv
  <2>2. CASE hook.scope = NoScope
    <3>1. hook' = [exists |-> hook.exists, active |-> hook.active, count |-> hook.count, scope |-> t]
      BY <2>2 DEF Claimed, HookInv
    <3> QED BY <3>1
  <2>3. CASE hook.scope # NoScope
    BY <2>1, <2>3, HookFields DEF Claimed
  <2> QED
    BY <2>2, <2>3
<1> QED
  BY <1>1 DEF HookInv

LEMMA ReplayStartInv ==
  ASSUME ReplayInv, HookInv, NEW r \in Replays, NEW t \in Tenants, NEW a \in Attempts,
         replayWebhookAttempt(r, t, a)
  PROVE  ReplayInv' /\ HookInv' /\ hook'.active = hook.active
<1>1. HookInv' /\ hook'.active = hook.active
  BY ClaimInv DEF replayWebhookAttempt
<1>2. attemptLog' = attemptLog /\ attemptLog[a] # "none" /\ reservation[a] = "none"
  BY DEF replayWebhookAttempt, Reserved
<1>3. CASE hook.exists /\ hook.active
  <2> DEFINE sent == [step |-> "sending", of |-> a, count |-> hook.count]
  <2>1. /\ reservation' = [reservation EXCEPT ![a] = "pending"]
        /\ sentFor' = [sentFor EXCEPT ![a] = sentFor[a] + 1]
        /\ replayCall' = [replayCall EXCEPT ![r] = sent]
    BY <1>3 DEF replayWebhookAttempt
  <2>2. a \in 0..MaxLogged /\ hook.count \in Nat
    BY WebhooksAssumption DEF Attempts, HookInv
  <2>3. sent \in [step : {"idle", "sending", "done"}, of : 0..MaxLogged, count : Nat] /\ sent.of = a
    BY <2>2
  <2>4. sentFor[a] = 0
    BY <1>2 DEF ReplayInv
  <2> HIDE DEF sent
  <2>5. /\ replayCall' \in [Replays -> [step : {"idle", "sending", "done"}, of : 0..MaxLogged, count : Nat]]
        /\ reservation' \in [Attempts -> {"none", "pending", "ineligible", "succeeded", "failed"}]
        /\ sentFor' \in [Attempts -> 0..1]
    BY <2>1, <2>3, <2>4 DEF ReplayInv
  <2>6. \A q \in Replays : replayCall'[q].step = "sending" =>
          replayCall'[q].of \in Attempts /\ reservation'[replayCall'[q].of] # "none"
    BY <2>1, <2>3 DEF ReplayInv
  <2>7. /\ \A b \in Attempts : attemptLog'[b] = "none" => reservation'[b] = "none"
        /\ \A b \in Attempts : sentFor'[b] = 1 => reservation'[b] # "none"
    BY <1>2, <2>1, <2>4 DEF ReplayInv
  <2> QED
    BY <1>1, <2>5, <2>6, <2>7 DEF ReplayInv
<1>4. CASE ~(hook.exists /\ hook.active)
  <2>1. /\ reservation' = [reservation EXCEPT ![a] = "ineligible"]
        /\ sentFor' = sentFor
        /\ replayCall' = [replayCall EXCEPT ![r].step = "done"]
    BY <1>4 DEF replayWebhookAttempt
  <2>2. replayCall' \in [Replays -> [step : {"idle", "sending", "done"}, of : 0..MaxLogged, count : Nat]]
        /\ reservation' \in [Attempts -> {"none", "pending", "ineligible", "succeeded", "failed"}]
    BY <2>1 DEF ReplayInv
  <2>3. \A q \in Replays : replayCall'[q].step = "sending" =>
          replayCall'[q].of \in Attempts /\ reservation'[replayCall'[q].of] # "none"
    BY <2>1 DEF ReplayInv
  <2>4. /\ \A b \in Attempts : attemptLog'[b] = "none" => reservation'[b] = "none"
        /\ \A b \in Attempts : sentFor'[b] = 1 => reservation'[b] # "none"
    BY <1>2, <2>1 DEF ReplayInv
  <2> QED
    BY <1>1, <2>1, <2>2, <2>3, <2>4 DEF ReplayInv
<1> QED
  BY <1>3, <1>4

LEMMA ReplayEndInv ==
  ASSUME ReplayInv, HookInv, LogInv, NEW r \in Replays, NEW ok \in BOOLEAN, ReplayAnswered(r, ok)
  PROVE  ReplayInv' /\ HookInv' /\ LogInv' /\ hook'.active = hook.active
<1>1. LogInv' /\ \A a \in Attempts : attemptLog'[a] = "none" => attemptLog[a] = "none"
  BY LoggedStep DEF ReplayAnswered
<1>2. replayCall[r].count \in Nat /\ replayCall[r].of \in Attempts
      /\ reservation[replayCall[r].of] # "none"
  BY DEF ReplayInv, ReplayAnswered
<1>3. HookInv' /\ hook'.active = hook.active
  <2> DEFINE count == IF ~hook.exists THEN hook.count ELSE IF ok THEN 0 ELSE replayCall[r].count + 1
  <2>1. hook' = [exists |-> hook.exists, active |-> hook.active, count |-> count, scope |-> hook.scope]
    BY HookFields DEF HookInv, ReplayAnswered
  <2>2. failedRun' = (IF ok THEN 0 ELSE failedRun + 1)
        /\ staleWrite' = (staleWrite \/ (~ok /\ hook.count # replayCall[r].count))
    BY DEF ReplayAnswered
  <2>3. count \in Nat /\ (~hook.exists => count = 0) /\ failedRun' \in Nat
    BY <1>2, <2>2 DEF HookInv
  <2>4. staleWrite' \in BOOLEAN
    BY <2>2
  <2>5. staleWrite' \/ count <= failedRun'
    BY <1>2, <2>2 DEF HookInv
  <2> HIDE DEF count
  <2> QED
    BY <2>1, <2>3, <2>4, <2>5 DEF HookInv
<1>4. ReplayInv'
  <2> DEFINE o == replayCall[r].of
             outcome == IF ok THEN "succeeded" ELSE "failed"
  <2>1. /\ reservation' = [reservation EXCEPT ![o] = outcome]
        /\ sentFor' = sentFor
        /\ replayCall' = [replayCall EXCEPT ![r].step = "done"]
    BY DEF ReplayAnswered
  <2>2. outcome \in {"succeeded", "failed"} /\ o \in Attempts /\ reservation[o] # "none"
    BY <1>2
  <2>3. replayCall' \in [Replays -> [step : {"idle", "sending", "done"}, of : 0..MaxLogged, count : Nat]]
    BY <2>1 DEF ReplayInv
  <2>4. \A q \in Replays : replayCall'[q].of = replayCall[q].of
                           /\ (replayCall'[q].step = "sending" => replayCall[q].step = "sending")
    BY <2>1 DEF ReplayInv
  <2> HIDE DEF o, outcome
  <2>5. reservation' \in [Attempts -> {"none", "pending", "ineligible", "succeeded", "failed"}]
        /\ \A a \in Attempts : reservation'[a] = "none" <=> reservation[a] = "none"
    BY <2>1, <2>2 DEF ReplayInv
  <2> QED
    BY <1>1, <2>1, <2>3, <2>4, <2>5 DEF ReplayInv
<1> QED
  BY <1>1, <1>3, <1>4

\* The console's record: an endpoint it makes up has failed at nothing.
LEMMA RecordInv ==
  ASSUME HookInv, NEW t \in Tenants, NEW status, recordWebhookAttempt(t, status)
  PROVE  HookInv' /\ (hook.active => hook'.active)
<1>1. CASE hook.exists
  <2>1. hook' = [exists |-> hook.exists, active |-> hook.active, count |-> hook.count, scope |-> t]
        /\ UNCHANGED <<failedRun, staleWrite>>
    BY <1>1 DEF recordWebhookAttempt, HookInv
  <2> QED
    BY <2>1 DEF HookInv
<1>2. CASE ~hook.exists
  <2>1. hook' = [exists |-> TRUE, active |-> TRUE, count |-> 0, scope |-> t]
        /\ failedRun' = 0 /\ UNCHANGED staleWrite
    BY <1>2 DEF recordWebhookAttempt, HookInv
  <2> QED
    BY <2>1 DEF HookInv
<1> QED
  BY <1>1, <1>2

\* The oldest rows go: none is as if it had not been.
LEMMA PruneInv ==
  ASSUME LogInv, pruneWebhookDeliveryLogs
  PROVE  LogInv' /\ \A a \in Attempts : attemptLog'[a] = "none" => attemptLog[a] = "none"
<1>1. PICK n \in 0..MaxLogged : Logged = 1..n
  BY DEF LogInv
<1>2. PICK last \in Logged : attemptLog' = [a \in Attempts |-> IF a <= last THEN "pruned" ELSE attemptLog[a]]
  BY DEF pruneWebhookDeliveryLogs
<1>3. attemptLog' \in [Attempts -> {"none", "success", "failed", "retrying", "pruned"}]
  BY <1>2 DEF LogInv
<1>4. \A a \in Attempts : attemptLog'[a] = "none" <=> attemptLog[a] = "none"
  <2> SUFFICES ASSUME NEW a \in Attempts, a <= last PROVE attemptLog[a] # "none"
    BY <1>2
  <2>1. a \in 1..n
    BY <1>1, WebhooksAssumption DEF Attempts
  <2> QED
    BY <1>1, <2>1 DEF Logged
<1>5. Logged' = Logged
  BY <1>4 DEF Logged
<1> QED
  BY <1>1, <1>3, <1>4, <1>5 DEF LogInv

LEMMA WebhooksStep ==
  WebhooksInv /\ [WebhooksNext]_hookVars =>
    /\ WebhooksInv'
    /\ hook.active /\ hook'.exists /\ ~hook'.active => failedRun' >= MAX_ATTEMPTS \/ staleWrite'
<1> DEFINE Off == hook.active /\ hook'.exists /\ ~hook'.active => failedRun' >= MAX_ATTEMPTS \/ staleWrite'
<1> SUFFICES ASSUME WebhooksInv, [WebhooksNext]_hookVars
             PROVE  WebhooksInv' /\ Off
  OBVIOUS
<1> USE DEF WebhooksInv
<1>a. ASSUME UNCHANGED attemptLog
      PROVE  LogInv'
  BY <1>a DEF LogInv, Logged
<1>b. ASSUME UNCHANGED <<replayCall, reservation, sentFor>>,
             \A a \in Attempts : attemptLog'[a] = "none" => attemptLog[a] = "none"
      PROVE  ReplayInv'
  BY <1>b DEF ReplayInv
<1>c. ASSUME UNCHANGED <<hook, failedRun, staleWrite>>
      PROVE  HookInv' /\ Off
  BY <1>c DEF HookInv
<1>1. ASSUME NEW d \in Deliveries, triggerEvent(d) \/ SendAgain(d)
      PROVE  WebhooksInv' /\ Off
  <2>1. delivery' = [delivery EXCEPT ![d].step = "sending"] /\ delivery[d].step # "done"
        /\ UNCHANGED <<hook, attemptLog, replayCall, reservation, crashes, sentFor, failedRun, staleWrite>>
    BY <1>1 DEF triggerEvent, SendAgain
  <2>2. DeliveryInv'
    BY <2>1 DEF DeliveryInv
  <2> QED
    BY <1>a, <1>b, <1>c, <2>1, <2>2
<1>2. ASSUME NEW d \in Deliveries, Delivered(d)
      PROVE  WebhooksInv' /\ Off
  <2>1. logDelivery("success") /\ UNCHANGED <<replayCall, reservation, sentFor>>
    BY <1>2 DEF Delivered
  <2> QED
    BY <1>2, <2>1, <1>b, DeliveredInv, LoggedStep
<1>3. ASSUME NEW d \in Deliveries, DeliveryFails(d)
      PROVE  WebhooksInv' /\ Off
  <2>1. PICK status \in {"failed", "retrying"} : logDelivery(status)
    BY <1>3 DEF DeliveryFails
  <2>2. UNCHANGED <<replayCall, reservation, sentFor>>
    BY <1>3 DEF DeliveryFails
  <2>3. LogInv' /\ \A a \in Attempts : attemptLog'[a] = "none" => attemptLog[a] = "none"
    BY <2>1, LoggedStep
  <2> QED
    BY <1>3, <2>2, <2>3, <1>b, FailureInv
<1>4. ASSUME NEW r \in Replays, NEW t \in Tenants, NEW a \in Attempts, replayWebhookAttempt(r, t, a)
      PROVE  WebhooksInv' /\ Off
  <2>1. UNCHANGED <<delivery, attemptLog>>
    BY <1>4 DEF replayWebhookAttempt
  <2>2. DeliveryInv'
    BY <2>1 DEF DeliveryInv
  <2> QED
    BY <1>4, <1>a, <2>1, <2>2, ReplayStartInv
<1>5. ASSUME NEW r \in Replays, NEW ok \in BOOLEAN, ReplayAnswered(r, ok)
      PROVE  WebhooksInv' /\ Off
  <2>1. UNCHANGED delivery
    BY <1>5 DEF ReplayAnswered
  <2>2. DeliveryInv'
    BY <2>1 DEF DeliveryInv
  <2> QED
    BY <1>5, <2>2, ReplayEndInv
<1>6. ASSUME NEW t \in Tenants, NEW status \in {"failed", "success"}, recordWebhookAttempt(t, status)
      PROVE  WebhooksInv' /\ Off
  <2>1. logDelivery(status) /\ UNCHANGED <<delivery, replayCall, reservation, sentFor>>
    BY <1>6 DEF recordWebhookAttempt
  <2>2. DeliveryInv'
    BY <2>1 DEF DeliveryInv
  <2>3. LogInv' /\ ReplayInv'
    BY <2>1, <1>b, LoggedStep
  <2> QED
    BY <1>6, <2>2, <2>3, RecordInv
<1>7. CASE deleteWebhook
  <2>1. hook' = [exists |-> FALSE, active |-> FALSE, count |-> 0, scope |-> hook.scope]
        /\ UNCHANGED <<delivery, attemptLog, replayCall, reservation, sentFor, failedRun, staleWrite>>
    BY <1>7 DEF deleteWebhook, HookInv
  <2>2. HookInv' /\ Off
    BY <2>1 DEF HookInv
  <2>3. DeliveryInv'
    BY <2>1 DEF DeliveryInv
  <2> QED
    BY <2>1, <2>2, <2>3, <1>a, <1>b
<1>8. CASE pruneWebhookDeliveryLogs
  <2>1. UNCHANGED <<hook, delivery, replayCall, reservation, sentFor, failedRun, staleWrite>>
    BY <1>8 DEF pruneWebhookDeliveryLogs
  <2>2. DeliveryInv'
    BY <2>1 DEF DeliveryInv
  <2> QED
    BY <1>8, <2>1, <2>2, <1>b, <1>c, PruneInv
<1>9. CASE WebhookCrash
  <2>1. UNCHANGED <<hook, attemptLog, reservation, sentFor, failedRun, staleWrite>>
    BY <1>9 DEF WebhookCrash
  <2>2. DeliveryInv'
    BY <1>9 DEF DeliveryInv, WebhookCrash
  <2>3. ReplayInv'
    <3>1. /\ replayCall' \in [Replays -> [step : {"idle", "sending", "done"}, of : 0..MaxLogged, count : Nat]]
          /\ \A r \in Replays : replayCall'[r].step # "sending"
      BY <1>9 DEF ReplayInv, WebhookCrash
    <3> QED
      BY <2>1, <3>1 DEF ReplayInv
  <2> QED
    BY <2>1, <2>2, <2>3, <1>a, <1>c
<1>10. CASE UNCHANGED hookVars
  <2>1. DeliveryInv' /\ ReplayInv'
    BY <1>10 DEF hookVars, DeliveryInv, ReplayInv
  <2> QED
    BY <1>10, <2>1, <1>a, <1>c DEF hookVars
<1> QED
  BY <1>1, <1>2, <1>3, <1>4, <1>5, <1>6, <1>7, <1>8, <1>9, <1>10 DEF WebhooksNext

LEMMA WebhooksInvariant == WebhooksSpec => []WebhooksInv
<1>1. WebhooksInv /\ [WebhooksNext]_hookVars => WebhooksInv'
  BY WebhooksStep
<1> QED
  BY <1>1, WebhooksInitInv, PTL DEF WebhooksSpec

\* A logged attempt is sent again at most once (api/v1/management-webhooks.mjs:41-43).
THEOREM AttemptsReplayedOnce == WebhooksSpec => []ReplayedOnce
  BY WebhooksInvariant, WebhooksInvImplies, PTL

\* An endpoint is disabled for attempts that failed in a row (webhooks.mjs:133-146).
THEOREM DisabledOnlyForFailing == WebhooksSpec => DisabledForFailing
<1>1. WebhooksInv /\ [WebhooksNext]_hookVars =>
        [hook.active /\ hook'.exists /\ ~hook'.active
         => failedRun' >= MAX_ATTEMPTS \/ staleWrite']_hookVars
  BY WebhooksStep
<1> QED
  BY <1>1, WebhooksInvariant, PTL DEF WebhooksSpec, DisabledForFailing

-----------------------------------------------------------------------------
\* An operator's screen shows an occurrence there is, in a version it has had: the one
\* it has now, or an earlier one.
OccurrenceRows == [status : {"open", "acknowledged", "resolved"}, severity : Severities,
                   first : Severities, version : 1..MaxVersion]
Screen(v) ==
  v # <<>> => /\ v[1] \in Opened
              /\ v[2].version \in Int /\ v[2].version <= occurrence[v[1]].version
              /\ v[2].version = occurrence[v[1]].version => v[2] = occurrence[v[1]]
ScreenInv ==
  /\ occurrence \in [Occurrences -> OccurrenceRows \cup {NoOccurrence}]
  /\ \A o \in Opened : occurrence[o].first <= occurrence[o].severity
  /\ \E n \in 0..MaxOccurrences : Opened = 1..n
  /\ \A o, q \in Live : o = q
  /\ alNow \in 0..AlertTime /\ lastFired \in -1..alNow
  /\ \A p \in Operators : Screen(view[p])

LEMMA RowIsOccurrence == NoOccurrence \notin OccurrenceRows
BY DEF NoOccurrence, OccurrenceRows

LEMMA OpenedRows ==
  ASSUME ScreenInv, NEW o \in Opened
  PROVE  /\ o \in Occurrences /\ occurrence[o] \in OccurrenceRows
         /\ occurrence[o].severity \in Int /\ occurrence[o].first \in Int
         /\ occurrence[o].version \in 1..MaxVersion
         /\ occurrence[o].first <= occurrence[o].severity
<1>1. o \in Occurrences /\ occurrence[o] \in OccurrenceRows
  BY DEF ScreenInv, Opened
<1>2. occurrence[o].first <= occurrence[o].severity
  BY DEF ScreenInv
<1> QED
  BY <1>1, <1>2, AlertsAssumption DEF OccurrenceRows, Severities

LEMMA ScreenInvImplies == ScreenInv => AlertsTypeOK
<1> SUFFICES ASSUME ScreenInv PROVE AlertsTypeOK
  OBVIOUS
<1>1. PICK n \in 0..MaxOccurrences : Opened = 1..n
  BY DEF ScreenInv
<1>2. Opened = 1..Cardinality(Opened)
  <2>1. 1 \in Int /\ n \in Int /\ n >= 0
    BY AlertsAssumption
  <2>2. Cardinality(1..n) = IF 1 > n THEN 0 ELSE n - 1 + 1
    BY <2>1, FS_Interval
  <2> QED
    BY <1>1, <2>1, <2>2
<1>3. Cardinality(Live) <= 1
  <2>1. CASE Live = {}
    BY <2>1, FS_EmptySet
  <2>2. CASE Live # {}
    <3>1. PICK o \in Live : TRUE
      BY <2>2
    <3>2. Live = {o}
      BY <3>1 DEF ScreenInv
    <3>3. Cardinality({o}) = 1
      BY FS_Singleton
    <3> QED
      BY <3>2, <3>3
  <2> QED
    BY <2>1, <2>2
<1>4. \A o \in Opened :
          /\ occurrence[o].status \in {"open", "acknowledged", "resolved"}
          /\ occurrence[o].first \in 0..occurrence[o].severity
          /\ occurrence[o].severity \in Severities
          /\ occurrence[o].version \in 1..MaxVersion
  <2> SUFFICES ASSUME NEW o \in Opened
               PROVE  /\ occurrence[o].status \in {"open", "acknowledged", "resolved"}
                      /\ occurrence[o].first \in 0..occurrence[o].severity
                      /\ occurrence[o].severity \in Severities
                      /\ occurrence[o].version \in 1..MaxVersion
    OBVIOUS
  <2>1. occurrence[o] \in OccurrenceRows /\ occurrence[o].first <= occurrence[o].severity
    BY OpenedRows
  <2> QED
    BY <2>1, AlertsAssumption DEF OccurrenceRows, Severities
<1>5. alNow \in 0..AlertTime /\ lastFired \in -1..alNow
  BY DEF ScreenInv
<1> QED
  BY <1>2, <1>3, <1>4, <1>5 DEF AlertsTypeOK

LEMMA ScreenInitInv == AlertsInit => ScreenInv
<1> SUFFICES ASSUME AlertsInit PROVE ScreenInv
  OBVIOUS
<1>1. Opened = {}
  BY DEF AlertsInit, Opened
<1>2. \E n \in 0..MaxOccurrences : Opened = 1..n
  <2>1. 1..0 = {} /\ 0 \in 0..MaxOccurrences
    BY AlertsAssumption
  <2> QED
    BY <1>1, <2>1
<1>3. Live = {}
  BY <1>1 DEF Live
<1>4. occurrence \in [Occurrences -> OccurrenceRows \cup {NoOccurrence}]
  BY DEF AlertsInit
<1>5. alNow \in 0..AlertTime /\ lastFired \in -1..alNow
  BY AlertsAssumption DEF AlertsInit
<1>6. \A p \in Operators : Screen(view[p])
  BY DEF AlertsInit, Screen
<1> QED
  BY <1>1, <1>2, <1>3, <1>4, <1>5, <1>6 DEF ScreenInv

\* A write to an occurrence there is makes a version no screen shows yet.
LEMMA VersionWritten ==
  ASSUME ScreenInv, NEW o \in Opened, NEW new \in OccurrenceRows,
         occurrence' = [occurrence EXCEPT ![o] = new],
         new.version = occurrence[o].version + 1, new.first <= new.severity,
         new.status \in {"open", "acknowledged"} => o \in Live,
         UNCHANGED <<alNow, lastFired, view>>
  PROVE  ScreenInv'
<1>1. o \in Occurrences /\ occurrence[o].version \in Int
  BY OpenedRows
<1>2. /\ occurrence' \in [Occurrences -> OccurrenceRows \cup {NoOccurrence}]
      /\ occurrence'[o] = new
      /\ \A q \in Occurrences \ {o} : occurrence'[q] = occurrence[q]
  BY <1>1 DEF ScreenInv
<1>3. Opened' = Opened
  BY <1>1, <1>2, RowIsOccurrence DEF Opened
<1>4. Live' \subseteq Live
  BY <1>2, <1>3 DEF Live, Opened
<1>5. \A p \in Operators : Screen(view[p])'
  <2> SUFFICES ASSUME NEW p \in Operators, view[p] # <<>>
               PROVE  /\ view[p][1] \in Opened'
                      /\ view[p][2].version \in Int /\ view[p][2].version <= occurrence'[view[p][1]].version
                      /\ view[p][2].version = occurrence'[view[p][1]].version => view[p][2] = occurrence'[view[p][1]]
    BY DEF Screen
  <2>1. /\ view[p][1] \in Opened
        /\ view[p][2].version \in Int /\ view[p][2].version <= occurrence[view[p][1]].version
        /\ view[p][2].version = occurrence[view[p][1]].version => view[p][2] = occurrence[view[p][1]]
    BY DEF ScreenInv, Screen
  <2>2. CASE view[p][1] = o
    BY <1>1, <1>2, <1>3, <2>1, <2>2
  <2>3. CASE view[p][1] # o
    <3>1. occurrence'[view[p][1]] = occurrence[view[p][1]]
      BY <1>2, <2>1, <2>3 DEF Opened
    <3> QED
      BY <1>3, <2>1, <3>1
  <2> QED
    BY <2>2, <2>3
<1>6. \A q \in Opened' : occurrence'[q].first <= occurrence'[q].severity
  BY <1>2, <1>3 DEF ScreenInv, Opened
<1> QED
  BY <1>2, <1>3, <1>4, <1>5, <1>6 DEF ScreenInv

\* A new occurrence is on no screen.
LEMMA OccurrenceOpened ==
  ASSUME ScreenInv, NEW e \in Evaluations, NEW severity \in Severities, evaluateNew(e, severity)
  PROVE  ScreenInv'
<1>1. PICK o \in Occurrences \ Opened :
          /\ \A q \in Occurrences \ Opened : o <= q
          /\ occurrence' = [occurrence EXCEPT ![o] =
                [status |-> "open", severity |-> severity, first |-> severity, version |-> 1]]
  BY DEF evaluateNew
<1>2. UNCHANGED <<alNow, lastFired, view>> /\ Live = {}
  BY DEF evaluateNew
<1> DEFINE new == [status |-> "open", severity |-> severity, first |-> severity, version |-> 1]
<1>3. new \in OccurrenceRows /\ new.first <= new.severity
  BY AlertsAssumption DEF OccurrenceRows, Severities
<1> HIDE DEF new
<1>4. /\ occurrence' \in [Occurrences -> OccurrenceRows \cup {NoOccurrence}]
      /\ occurrence'[o] = new
      /\ \A q \in Occurrences \ {o} : occurrence'[q] = occurrence[q]
  BY <1>1, <1>3 DEF ScreenInv, new
<1>5. Opened' = Opened \cup {o}
  BY <1>1, <1>3, <1>4, RowIsOccurrence DEF Opened
<1>6. \E n \in 0..MaxOccurrences : Opened' = 1..n
  <2>1. PICK n \in 0..MaxOccurrences : Opened = 1..n
    BY DEF ScreenInv
  <2>2. n \in Nat /\ o \in 1..MaxOccurrences /\ o \notin 1..n /\ MaxOccurrences \in Nat
    BY <1>1, <2>1, AlertsAssumption DEF Occurrences
  <2>3. n + 1 \in Occurrences \ Opened
    BY <2>1, <2>2 DEF Occurrences
  <2>4. o = n + 1
    BY <1>1, <2>2, <2>3
  <2>5. Opened' = 1..n + 1 /\ n + 1 \in 0..MaxOccurrences
    BY <1>5, <2>1, <2>2, <2>4
  <2> QED
    BY <2>5
<1>7. Live' \subseteq {o}
  BY <1>2, <1>4, <1>5 DEF Live, Opened
<1>8. \A q \in Opened' : occurrence'[q].first <= occurrence'[q].severity
  BY <1>3, <1>4, <1>5 DEF ScreenInv, Opened
<1>9. \A p \in Operators : Screen(view[p])'
  <2> SUFFICES ASSUME NEW p \in Operators, view[p] # <<>>
               PROVE  /\ view[p][1] \in Opened'
                      /\ view[p][2].version \in Int /\ view[p][2].version <= occurrence'[view[p][1]].version
                      /\ view[p][2].version = occurrence'[view[p][1]].version => view[p][2] = occurrence'[view[p][1]]
    BY <1>2 DEF Screen
  <2>1. view[p][1] \in Opened
    BY DEF ScreenInv, Screen
  <2>2. occurrence'[view[p][1]] = occurrence[view[p][1]]
    BY <1>1, <1>4, <2>1 DEF Opened
  <2> QED
    BY <1>5, <2>1, <2>2 DEF ScreenInv, Screen
<1> QED
  BY <1>2, <1>4, <1>6, <1>7, <1>8, <1>9 DEF ScreenInv

LEMMA LiveObserved ==
  ASSUME ScreenInv, NEW e \in Evaluations, NEW severity \in Severities, evaluateLive(e, severity)
  PROVE  ScreenInv'
<1>1. PICK o \in Live : occurrence[o].version < MaxVersion /\ occurrence' = Observed(o, severity)
  BY DEF evaluateLive
<1>2. o \in Opened
  BY DEF Live
<1> DEFINE escalated == severity > occurrence[o].severity
           new == [status   |-> IF escalated THEN "open" ELSE occurrence[o].status,
                   severity |-> IF escalated THEN severity ELSE occurrence[o].severity,
                   first    |-> occurrence[o].first,
                   version  |-> occurrence[o].version + 1]
<1>3. occurrence' = [occurrence EXCEPT ![o] = new]
  BY <1>1 DEF Observed, NewVersion
<1>4. new.version = occurrence[o].version + 1
  OBVIOUS
<1>5. occurrence[o] \in OccurrenceRows /\ occurrence[o].first <= occurrence[o].severity
  BY <1>2, OpenedRows
<1>6. new \in OccurrenceRows
  BY <1>1, <1>5, AlertsAssumption DEF OccurrenceRows
<1>7. new.first <= new.severity
  BY <1>5, AlertsAssumption DEF OccurrenceRows, Severities
<1>8. UNCHANGED <<alNow, lastFired, view>>
  BY DEF evaluateLive
<1> HIDE DEF new
<1> QED
  BY <1>1, <1>2, <1>3, <1>4, <1>6, <1>7, <1>8, VersionWritten

LEMMA OperatorActs ==
  ASSUME ScreenInv, NEW p \in Operators, NEW type \in {"acknowledge", "resolve", "reopen"},
         transitionAlertOccurrence(p, type)
  PROVE  /\ ScreenInv'
         /\ view[p][2].status = occurrence[view[p][1]].status
         /\ view[p][2].severity = occurrence[view[p][1]].severity
<1> DEFINE o == view[p][1]
           new == [status |-> Result(type), severity |-> occurrence[o].severity,
                   first |-> occurrence[o].first, version |-> occurrence[o].version + 1]
<1>1. /\ view[p] # <<>> /\ o \in Opened
      /\ view[p][2].version = occurrence[o].version
      /\ Allowed(type, occurrence[o].status)
      /\ occurrence[o].version < MaxVersion
      /\ occurrence' = [occurrence EXCEPT ![o] = new]
      /\ UNCHANGED <<alNow, lastFired, view>>
  BY DEF transitionAlertOccurrence
<1>2. view[p][2] = occurrence[o]
  BY <1>1 DEF ScreenInv, Screen
<1>3. occurrence[o] \in OccurrenceRows /\ occurrence[o].first <= occurrence[o].severity
  BY <1>1, OpenedRows
<1>4. /\ Result(type) \in {"open", "acknowledged", "resolved"}
      /\ Result(type) \in {"open", "acknowledged"} => occurrence[o].status \in {"open", "acknowledged"}
  BY <1>1 DEF Result, Allowed
<1>5. new \in OccurrenceRows /\ new.first <= new.severity /\ new.version = occurrence[o].version + 1
      /\ new.status = Result(type)
  BY <1>1, <1>3, <1>4, AlertsAssumption DEF OccurrenceRows
<1>6. new.status \in {"open", "acknowledged"} => o \in Live
  BY <1>1, <1>4, <1>5 DEF Live
<1> HIDE DEF o, new
<1>7. ScreenInv'
  BY <1>1, <1>5, <1>6, VersionWritten
<1> QED
  BY <1>2, <1>7 DEF o

LEMMA ScreenStep ==
  ScreenInv /\ [AlertsNext]_alertVars =>
    /\ ScreenInv'
    /\ [\A p \in Operators, type \in {"acknowledge", "resolve", "reopen"} :
          transitionAlertOccurrence(p, type) =>
              /\ view[p][2].status = occurrence[view[p][1]].status
              /\ view[p][2].severity = occurrence[view[p][1]].severity]_alertVars
<1> SUFFICES ASSUME ScreenInv, [AlertsNext]_alertVars
             PROVE  ScreenInv'
  BY OperatorActs
<1>a. ASSUME UNCHANGED <<occurrence, view>>, alNow' \in 0..AlertTime /\ lastFired' \in -1..alNow'
      PROVE  ScreenInv'
  BY <1>a DEF ScreenInv, Screen, Opened, Live
<1>1. ASSUME NEW e \in Evaluations, recordAlert(e)
      PROVE  ScreenInv'
  BY <1>1, <1>a, AlertsAssumption DEF recordAlert, ScreenInv
<1>2. CASE DaemonDies \/ UNCHANGED alertVars
  BY <1>2, <1>a DEF DaemonDies, alertVars, ScreenInv
<1>3. CASE AlertClock
  <2>1. alNow' \in 0..AlertTime /\ lastFired' \in -1..alNow'
    BY <1>3, AlertsAssumption DEF AlertClock, ScreenInv
  <2> QED
    BY <1>3, <1>a, <2>1 DEF AlertClock
<1>4. ASSUME NEW p \in Operators, NEW o \in Occurrences, Look(p, o)
      PROVE  ScreenInv'
  <2>1. o \in Opened /\ view' = [view EXCEPT ![p] = <<o, occurrence[o]>>]
        /\ UNCHANGED <<occurrence, alNow, lastFired>>
    BY <1>4 DEF Look
  <2>2. occurrence[o].version \in Int
    BY <2>1, OpenedRows, AlertsAssumption
  <2>3. Screen(<<o, occurrence[o]>>)
    BY <2>1, <2>2 DEF Screen
  <2>4. \A q \in Operators : view'[q] = view[q] \/ view'[q] = <<o, occurrence[o]>>
    BY <2>1
  <2>5. Opened' = Opened /\ Live' = Live
    BY <2>1 DEF Opened, Live
  <2>6. \A v : Screen(v) => Screen(v)'
    BY <2>1, <2>5 DEF Screen
  <2> QED
    BY <2>1, <2>3, <2>4, <2>5, <2>6 DEF ScreenInv
<1> QED
  BY <1>1, <1>2, <1>3, <1>4, OccurrenceOpened, LiveObserved, OperatorActs DEF AlertsNext

LEMMA ScreenInvariant == AlertsSpec => []ScreenInv
<1>1. ScreenInv /\ [AlertsNext]_alertVars => ScreenInv'
  BY ScreenStep
<1> QED
  BY <1>1, ScreenInitInv, PTL DEF AlertsSpec

\* No acknowledgement, resolution or reopening succeeds on an occurrence that has changed
\* since it was looked at (dashboard/operational-alert-store.mjs:137-141).
THEOREM OperatorsActOnWhatTheySee == AlertsSpec => ActedOnWhatWasSeen
<1>1. ScreenInv /\ [AlertsNext]_alertVars =>
        [\A p \in Operators, type \in {"acknowledge", "resolve", "reopen"} :
          transitionAlertOccurrence(p, type) =>
              /\ view[p][2].status = occurrence[view[p][1]].status
              /\ view[p][2].severity = occurrence[view[p][1]].severity]_alertVars
  BY ScreenStep
<1> QED
  BY <1>1, ScreenInvariant, PTL DEF AlertsSpec, ActedOnWhatWasSeen

-----------------------------------------------------------------------------
\* An event changes rows once before its log row is written, and once more for each time
\* that row was not; what the cache holds is the row's tier, or older than the tier's last
\* change.
LicenceStatuses == {"active", "grace_period", "revoked", "expired"}
DatedRow(r) ==
  r.status \in LicenceStatuses /\ r.created \in 0..licNow /\ r.signer \in 1..life
CountedInv ==
  /\ webhookLog \subseteq StripeEvents
  /\ applied \in [StripeEvents -> Nat] /\ unlogged \in [StripeEvents -> Nat]
  /\ \A e \in StripeEvents : applied[e] <= unlogged[e] + (IF e \in webhookLog THEN 1 ELSE 0)
CachedRight(k) ==
  /\ licCache[k] = [tier |-> licCache[k].tier, ts |-> licCache[k].ts]
  /\ licCache[k].ts \in Int /\ licCache[k].ts <= licNow
  /\ tierSince[k] \in Int /\ tierSince[k] <= licNow
  /\ licCache[k] # NotCached =>
       licCache[k].tier = licence[k].tier \/ tierSince[k] >= licCache[k].ts
CacheInv ==
  /\ licNow \in 0..LicenceTime /\ life \in 1..MaxLives
  /\ licCache = [k \in Licences |-> licCache[k]] /\ tierSince = [k \in Licences |-> tierSince[k]]
  /\ \A k \in Licences : CachedRight(k)
RecordsInv == CountedInv /\ CacheInv /\ \A k \in Rows : DatedRow(licence[k])

LEMMA RecordsImply ==
  LicenceInv /\ RecordsInv => LicenceTypeOK /\ AppliedOnce /\ CachedTierRecent
<1> SUFFICES ASSUME LicenceInv, RecordsInv
             PROVE  LicenceTypeOK /\ AppliedOnce /\ CachedTierRecent
  OBVIOUS
<1>1. PICK n \in 0..MaxLicences : Rows = 1..n
  BY DEF LicenceInv
<1>2. Rows = 1..Cardinality(Rows)
  <2>1. 1 \in Int /\ n \in Int /\ n >= 0
    BY LicenceAssumption
  <2>2. Cardinality(1..n) = IF 1 > n THEN 0 ELSE n - 1 + 1
    BY <2>1, FS_Interval
  <2> QED
    BY <1>1, <2>1, <2>2
<1>3. \A k \in Rows : /\ licence[k].status \in {"active", "grace_period", "revoked", "expired"}
                      /\ licence[k].created \in 0..licNow
                      /\ licence[k].signer \in 1..life
  BY DEF RecordsInv, DatedRow, LicenceStatuses
<1>4. LicenceTypeOK
  BY <1>2, <1>3 DEF LicenceTypeOK, RecordsInv, CountedInv, CacheInv, CachedRight
<1>5. AppliedOnce
  BY DEF AppliedOnce, RecordsInv, CountedInv
<1>6. CachedTierRecent
  BY DEF CachedTierRecent, RecordsInv, CacheInv, CachedRight, Fresh
<1> QED
  BY <1>4, <1>5, <1>6

LEMMA NotCachedIs == NotCached = [tier |-> "none", ts |-> -1] /\ NotCached.ts = -1
BY DEF NotCached

LEMMA RecordsInitInv == LicenceInit => RecordsInv
<1> SUFFICES ASSUME LicenceInit PROVE RecordsInv
  OBVIOUS
<1>1. CountedInv
  BY DEF LicenceInit, CountedInv
<1>2. \A k \in Licences : CachedRight(k)
  BY NotCachedIs DEF LicenceInit, CachedRight
<1>3. CacheInv
  BY <1>2, LicenceAssumption DEF LicenceInit, CacheInv
<1>4. Rows = {}
  BY DEF LicenceInit, Rows
<1> QED
  BY <1>1, <1>3, <1>4 DEF RecordsInv

\* A status or a tier written to a row leaves the rest of it.
LEMMA FieldWritten ==
  ASSUME NEW r, IsRow(r), NEW v
  PROVE  /\ [r EXCEPT !.status = v].status = v /\ [r EXCEPT !.status = v].tier = r.tier
         /\ [r EXCEPT !.status = v].created = r.created /\ [r EXCEPT !.status = v].signer = r.signer
         /\ [r EXCEPT !.tier = v].status = r.status
         /\ [r EXCEPT !.tier = v].created = r.created /\ [r EXCEPT !.tier = v].signer = r.signer
<1>1. [r EXCEPT !.status = v] =
         [status |-> v, subscription |-> r.subscription, tier |-> r.tier,
          created |-> r.created, signer |-> r.signer, expires |-> r.expires]
  BY DEF IsRow
<1>2. [r EXCEPT !.tier = v] =
         [status |-> r.status, subscription |-> r.subscription, tier |-> v,
          created |-> r.created, signer |-> r.signer, expires |-> r.expires]
  BY DEF IsRow
<1> QED
  BY <1>1, <1>2

\* What an event may make of a row.
LEMMA HandledRow ==
  ASSUME LicenceInv, NEW e \in StripeEvents, NEW k \in Licences,
         Cardinality(Rows) < MaxLicences \/ EventOf[e].type # "checkout_paid"
  PROVE  \/ Handled(e)[k] = licence[k]
         \/ k \in Rows /\ \E v \in LicenceStatuses : Handled(e)[k] = [licence[k] EXCEPT !.status = v]
         \/ k \in Rows /\ Handled(e)[k] = [licence[k] EXCEPT !.tier = EventOf[e].tier]
         \/ Handled(e)[k] = [status |-> "active", subscription |-> EventOf[e].subscription,
                             tier |-> EventOf[e].tier, created |-> licNow, signer |-> life,
                             expires |-> licNow + KeyLife]
<1>0. RowOf(EventOf[e].subscription) \subseteq Rows /\ licence = [j \in Licences |-> licence[j]]
  BY DEF RowOf, LicenceInv
<1>1. CASE EventOf[e].type \in {"checkout_paid", "checkout_unpaid"}
  <2>1. Handled(e) = handleCheckoutCompleted(e)
    BY <1>1 DEF Handled
  <2> QED
    BY <1>0, <2>1 DEF handleCheckoutCompleted
<1>2. CASE EventOf[e].type = "updated"
  <2>1. Handled(e) = handleSubscriptionUpdated(e)
    BY <1>2 DEF Handled
  <2> QED
    BY <1>0, <2>1 DEF handleSubscriptionUpdated
<1>3. CASE EventOf[e].type = "deleted"
  <2>1. Handled(e) = handleSubscriptionDeleted(e)
    BY <1>3 DEF Handled
  <2> QED
    BY <1>0, <2>1 DEF handleSubscriptionDeleted, WithStatus, LicenceStatuses
<1>4. CASE EventOf[e].type = "payment_failed"
  <2>1. Handled(e) = handleInvoicePaymentFailed(e)
    BY <1>4 DEF Handled
  <2> QED
    BY <1>0, <2>1 DEF handleInvoicePaymentFailed, WithStatus, LicenceStatuses
<1>5. CASE EventOf[e].type \notin {"checkout_paid", "checkout_unpaid", "updated", "deleted", "payment_failed"}
  BY <1>5 DEF Handled
<1> QED
  BY <1>1, <1>2, <1>3, <1>4, <1>5

\* An application of an event dates what it writes.
LEMMA ApplyRecords ==
  ASSUME LicenceInv, RecordsInv, NEW e \in StripeEvents, Apply(e), life' \in {life, life + 1},
         life' \in 1..MaxLives,
         licCache' = licCache \/ licCache' = [k \in Licences |-> NotCached]
  PROVE  CacheInv' /\ \A k \in Rows' : DatedRow(licence[k])'
<1>1. /\ licence' = Handled(e) /\ licNow' = licNow
      /\ tierSince' = [k \in Licences |-> IF k \in WritesTier(e) THEN licNow ELSE tierSince[k]]
      /\ Cardinality(Rows) < MaxLicences \/ EventOf[e].type # "checkout_paid"
  BY DEF Apply
<1>2. licNow \in Nat /\ life \in Nat /\ life >= 1
  BY LicenceAssumption DEF RecordsInv, CacheInv
<1>3. \A k \in Licences : CachedRight(k)'
  <2> SUFFICES ASSUME NEW k \in Licences PROVE CachedRight(k)'
    OBVIOUS
  <2>1. tierSince'[k] = IF k \in WritesTier(e) THEN licNow ELSE tierSince[k]
    BY <1>1
  <2>2. k \notin WritesTier(e) => licence'[k].tier = licence[k].tier
    BY <1>1 DEF WritesTier
  <2>3. CachedRight(k)
    BY DEF RecordsInv, CacheInv
  <2>4. licCache'[k] = licCache[k] \/ licCache'[k] = NotCached
    OBVIOUS
  <2>5. CASE licCache'[k] = licCache[k]
    BY <1>1, <1>2, <2>1, <2>2, <2>3, <2>5 DEF CachedRight
  <2>6. CASE licCache'[k] = NotCached
    BY <1>1, <1>2, <2>1, <2>3, <2>6, NotCachedIs DEF CachedRight
  <2> QED
    BY <2>4, <2>5, <2>6
<1>4. CacheInv'
  BY <1>1, <1>3 DEF RecordsInv, CacheInv
<1>5. ASSUME NEW k \in Rows'
      PROVE  DatedRow(licence[k])'
  <2>1. k \in Licences /\ licence'[k] # NoLicence
    BY DEF Rows
  <2>2. k \in Rows => IsRow(licence[k]) /\ DatedRow(licence[k])
    BY DEF LicenceInv, RecordsInv
  <2>3. \A r : r.status \in LicenceStatuses /\ r.created \in 0..licNow /\ r.signer \in 1..life =>
                 /\ r.status \in LicenceStatuses /\ r.created \in 0..licNow' /\ r.signer \in 1..life'
    BY <1>1, <1>2
  <2>4. CASE licence'[k] = licence[k]
    <3>1. k \in Rows
      BY <2>1, <2>4 DEF Rows
    <3> QED
      BY <2>2, <2>3, <2>4, <3>1 DEF DatedRow
  <2>5. ASSUME k \in Rows, NEW v \in LicenceStatuses, licence'[k] = [licence[k] EXCEPT !.status = v]
        PROVE  DatedRow(licence[k])'
    <3> DEFINE r == licence[k]
    <3>1. IsRow(r) /\ DatedRow(r) /\ licence'[k] = [r EXCEPT !.status = v]
      BY <2>2, <2>5
    <3> HIDE DEF r
    <3>2. licence'[k].status = v /\ licence'[k].created = r.created /\ licence'[k].signer = r.signer
      BY <3>1, FieldWritten
    <3> QED
      BY <1>1, <1>2, <3>1, <3>2 DEF DatedRow
  <2>6. ASSUME k \in Rows, licence'[k] = [licence[k] EXCEPT !.tier = EventOf[e].tier]
        PROVE  DatedRow(licence[k])'
    <3> DEFINE r == licence[k]
    <3>1. IsRow(r) /\ DatedRow(r) /\ licence'[k] = [r EXCEPT !.tier = EventOf[e].tier]
      BY <2>2, <2>6
    <3> HIDE DEF r
    <3>2. licence'[k].status = r.status /\ licence'[k].created = r.created /\ licence'[k].signer = r.signer
      BY <3>1, FieldWritten
    <3> QED
      BY <1>1, <1>2, <3>1, <3>2 DEF DatedRow
  <2>7. CASE licence'[k] = [status |-> "active", subscription |-> EventOf[e].subscription,
                            tier |-> EventOf[e].tier, created |-> licNow, signer |-> life,
                            expires |-> licNow + KeyLife]
    BY <1>1, <1>2, <2>7 DEF DatedRow, LicenceStatuses
  <2> QED
    BY <1>1, <2>1, <2>4, <2>5, <2>6, <2>7, HandledRow
<1> QED
  BY <1>4, <1>5

LEMMA ApplyCounts ==
  ASSUME CountedInv, NEW e \in StripeEvents, Apply(e)
  PROVE  /\ e \notin webhookLog /\ applied' \in [StripeEvents -> Nat]
         /\ \A d \in StripeEvents : applied'[d] <= unlogged[d] + (IF d \in webhookLog \cup {e} THEN 1 ELSE 0)
         /\ applied'[e] <= unlogged[e] + 1
<1> DEFINE n == IF Handled(e) # licence THEN 1 ELSE 0
<1>1. e \notin webhookLog /\ applied' = [applied EXCEPT ![e] = applied[e] + n]
  BY DEF Apply, AlreadyProcessed
<1>2. n \in {0, 1}
  OBVIOUS
<1> HIDE DEF n
<1> QED
  BY <1>1, <1>2 DEF CountedInv

\* A row that keeps its tier, and an entry that is as it was, dropped or made anew.
LEMMA CacheKept ==
  ASSUME CacheInv, UNCHANGED <<licNow, tierSince>>, life' \in 1..MaxLives,
         \A k \in Licences : licence'[k].tier = licence[k].tier,
         licCache' = [k \in Licences |-> licCache'[k]],
         \A k \in Licences : \/ licCache'[k] = licCache[k]
                             \/ licCache'[k] = NotCached
                             \/ licCache'[k] = [tier |-> licence[k].tier, ts |-> licNow]
  PROVE  CacheInv'
<1>1. licNow \in Nat
  BY LicenceAssumption DEF CacheInv
<1>2. ASSUME NEW k \in Licences
      PROVE  CachedRight(k)'
  <2>1. CachedRight(k)
    BY DEF CacheInv
  <2>2. CASE licCache'[k] = licCache[k]
    BY <2>1, <2>2 DEF CachedRight
  <2>3. CASE licCache'[k] = NotCached
    BY <1>1, <2>1, <2>3, NotCachedIs DEF CachedRight
  <2>4. CASE licCache'[k] = [tier |-> licence[k].tier, ts |-> licNow]
    BY <1>1, <2>1, <2>4 DEF CachedRight
  <2> QED
    BY <2>2, <2>3, <2>4
<1> QED
  BY <1>2 DEF CacheInv

LEMMA DatedKept ==
  ASSUME RecordsInv, UNCHANGED licence, licNow' \in Nat, licNow <= licNow', life' \in Nat, life <= life'
  PROVE  \A k \in Rows' : DatedRow(licence[k])'
<1>1. Rows' = Rows
  BY DEF Rows
<1>2. licNow \in Nat /\ life \in Nat
  BY LicenceAssumption DEF RecordsInv, CacheInv
<1>3. \A k \in Rows : licence[k].created \in 0..licNow' /\ licence[k].signer \in 1..life'
                      /\ licence[k].status \in LicenceStatuses
  BY <1>2 DEF RecordsInv, DatedRow
<1> QED
  BY <1>1, <1>3 DEF DatedRow

LEMMA RefreshRecords ==
  ASSUME LicenceInv, RecordsInv, refresh
  PROVE  RecordsInv'
<1>1. PICK k \in Rows : licence' = [licence EXCEPT ![k] = IF KeyValid(k) THEN @ ELSE WithStatus(k, "expired")]
  BY DEF refresh, Active
<1>2. UNCHANGED <<licNow, customerUnique, webhookLog, licCache, life, applied, unlogged, tierSince>>
  BY DEF refresh
<1>3. k \in Licences
  BY DEF Rows
<1> DEFINE r == licence[k]
<1>4. IsRow(r) /\ DatedRow(r)
  BY DEF LicenceInv, RecordsInv
<1>5. licence'[k] = r \/ licence'[k] = [r EXCEPT !.status = "expired"]
  BY <1>1, <1>3 DEF LicenceInv, WithStatus
<1> HIDE DEF r
<1>6. licence'[k].tier = r.tier /\ DatedRow(licence'[k])
  <2>1. CASE licence'[k] = r
    BY <1>4, <2>1
  <2>2. CASE licence'[k] = [r EXCEPT !.status = "expired"]
    <3>1. /\ licence'[k].tier = r.tier /\ licence'[k].status = "expired"
          /\ licence'[k].created = r.created /\ licence'[k].signer = r.signer
      BY <1>4, <2>2, FieldWritten
    <3> QED
      BY <1>4, <3>1 DEF DatedRow, LicenceStatuses
  <2> QED
    BY <1>5, <2>1, <2>2
<1>7. \A j \in Licences \ {k} : licence'[j] = licence[j]
  BY <1>1 DEF LicenceInv
<1>8. CountedInv'
  BY <1>2 DEF RecordsInv, CountedInv
<1>9. CacheInv'
  <2>1. \A j \in Licences : licence'[j].tier = licence[j].tier
    BY <1>6, <1>7 DEF r
  <2>2. life' \in 1..MaxLives /\ licCache' = [j \in Licences |-> licCache'[j]] /\ CacheInv
    BY <1>2 DEF RecordsInv, CacheInv
  <2> QED
    BY <1>2, <2>1, <2>2, CacheKept
<1>10. \A j \in Rows' : DatedRow(licence'[j])
  <2>1. \A j \in Rows' : j = k \/ (j \in Rows /\ licence'[j] = licence[j])
    BY <1>7 DEF Rows
  <2> QED
    BY <1>6, <2>1 DEF RecordsInv
<1>11. \A j \in Rows' : DatedRow(licence[j])'
  BY <1>2, <1>10 DEF DatedRow
<1> QED
  BY <1>8, <1>9, <1>11 DEF RecordsInv

LEMMA RecordsStep == LicenceInv /\ RecordsInv /\ [LicenceNext]_licenceVars => RecordsInv'
<1> SUFFICES ASSUME LicenceInv, RecordsInv, [LicenceNext]_licenceVars
             PROVE  RecordsInv'
  OBVIOUS
<1>a. CountedInv /\ CacheInv /\ life \in 1..MaxLives /\ licNow \in Nat /\ life \in Nat
  BY LicenceAssumption DEF RecordsInv, CacheInv
<1>1. ASSUME NEW e \in StripeEvents, handle(e)
      PROVE  RecordsInv'
  <2>1. Apply(e) /\ webhookLog' = webhookLog \cup {e} /\ UNCHANGED <<licCache, life, unlogged>>
    BY <1>1 DEF handle
  <2>2. CountedInv'
    BY <1>a, <2>1, ApplyCounts DEF CountedInv
  <2>3. CacheInv' /\ \A k \in Rows' : DatedRow(licence[k])'
    BY <1>a, <2>1, ApplyRecords
  <2> QED
    BY <2>2, <2>3 DEF RecordsInv
<1>2. ASSUME NEW e \in StripeEvents, handleAndDie(e)
      PROVE  RecordsInv'
  <2>1. /\ Apply(e) /\ life' = life + 1 /\ life < MaxLives
        /\ licCache' = [k \in Licences |-> NotCached]
        /\ unlogged' = [unlogged EXCEPT ![e] = unlogged[e] + 1] /\ UNCHANGED webhookLog
    BY <1>2 DEF handleAndDie
  <2>2. CountedInv'
    <3>1. /\ applied' \in [StripeEvents -> Nat] /\ applied'[e] <= unlogged[e] + 1 /\ e \notin webhookLog
          /\ \A d \in StripeEvents : applied'[d] <= unlogged[d] + (IF d \in webhookLog \cup {e} THEN 1 ELSE 0)
      BY <1>a, <2>1, ApplyCounts
    <3>2. unlogged' \in [StripeEvents -> Nat] /\ unlogged'[e] = unlogged[e] + 1
          /\ \A d \in StripeEvents \ {e} : unlogged'[d] = unlogged[d]
      BY <1>a, <2>1 DEF CountedInv
    <3>3. \A d \in StripeEvents : applied'[d] <= unlogged'[d] + (IF d \in webhookLog THEN 1 ELSE 0)
      <4> SUFFICES ASSUME NEW d \in StripeEvents
                   PROVE  applied'[d] <= unlogged'[d] + (IF d \in webhookLog THEN 1 ELSE 0)
        OBVIOUS
      <4>1. CASE d = e
        BY <3>1, <3>2, <4>1
      <4>2. CASE d # e
        BY <3>1, <3>2, <4>2
      <4> QED
        BY <4>1, <4>2
    <3> QED
      BY <1>a, <2>1, <3>1, <3>2, <3>3 DEF CountedInv
  <2>3. life' \in 1..MaxLives
    BY <1>a, <2>1, LicenceAssumption
  <2>4. CacheInv' /\ \A k \in Rows' : DatedRow(licence[k])'
    BY <1>a, <2>1, <2>3, ApplyRecords
  <2> QED
    BY <2>2, <2>4 DEF RecordsInv
<1>3. ASSUME NEW k \in Licences, validate(k)
      PROVE  RecordsInv'
  <2>1. UNCHANGED <<licNow, customerUnique, licence, webhookLog, life, applied, unlogged, tierSince>>
    BY <1>3 DEF validate
  <2>2. \/ licCache' = licCache
        \/ licCache' = [licCache EXCEPT ![k] = [tier |-> licence[k].tier, ts |-> licNow]]
    BY <1>3 DEF validate
  <2>3. licCache' = [j \in Licences |-> licCache'[j]]
    BY <1>a, <2>2 DEF CacheInv
  <2>4. \A j \in Licences : \/ licCache'[j] = licCache[j]
                            \/ licCache'[j] = [tier |-> licence[j].tier, ts |-> licNow]
    BY <1>a, <2>2 DEF CacheInv
  <2>5. CacheInv'
    BY <1>a, <2>1, <2>3, <2>4, CacheKept
  <2>6. CountedInv'
    BY <1>a, <2>1 DEF CountedInv
  <2> QED
    BY <1>a, <2>1, <2>5, <2>6, DatedKept DEF RecordsInv
<1>4. CASE refresh
  BY <1>4, RefreshRecords
<1>5. CASE RestartDashboard
  <2>1. UNCHANGED <<licNow, customerUnique, licence, webhookLog, applied, unlogged, tierSince>>
        /\ life' = life + 1 /\ life < MaxLives /\ licCache' = [k \in Licences |-> NotCached]
    BY <1>5 DEF RestartDashboard
  <2>2. life' \in 1..MaxLives /\ life' \in Nat /\ life <= life'
    BY <1>a, <2>1, LicenceAssumption
  <2>3. CacheInv'
    BY <1>a, <2>1, <2>2, CacheKept
  <2>4. CountedInv'
    BY <1>a, <2>1 DEF CountedInv
  <2> QED
    BY <1>a, <2>1, <2>2, <2>3, <2>4, DatedKept DEF RecordsInv
<1>6. CASE LicenceClock
  <2>1. licNow' = licNow + 1 /\ licNow < LicenceTime
        /\ UNCHANGED <<licence, webhookLog, licCache, life, applied, unlogged, tierSince>>
    BY <1>6 DEF LicenceClock
  <2>2. CacheInv'
    <3>1. \A k \in Licences : CachedRight(k)'
      BY <1>a, <2>1 DEF CacheInv, CachedRight
    <3>2. licNow' \in 0..LicenceTime
      BY <1>a, <2>1, LicenceAssumption
    <3> QED
      BY <1>a, <2>1, <3>1, <3>2 DEF CacheInv
  <2>3. CountedInv'
    BY <1>a, <2>1 DEF CountedInv
  <2> QED
    BY <1>a, <2>1, <2>2, <2>3, DatedKept DEF RecordsInv
<1>7. CASE UNCHANGED licenceVars
  <2>1. UNCHANGED <<licNow, licence, webhookLog, licCache, life, applied, unlogged, tierSince>>
    BY <1>7 DEF licenceVars
  <2>2. CountedInv' /\ CacheInv'
    BY <1>a, <2>1 DEF CountedInv, CacheInv, CachedRight
  <2> QED
    BY <1>a, <2>1, <2>2, DatedKept DEF RecordsInv
<1> QED
  BY <1>1, <1>2, <1>3, <1>4, <1>5, <1>6, <1>7 DEF LicenceNext

LEMMA LicenceInvariant == LicenceSpec => [](LicenceInv /\ RecordsInv)
<1>1. LicenceInit => LicenceInv /\ RecordsInv
  BY LicenceInitInv, RecordsInitInv
<1>2. LicenceInv /\ RecordsInv /\ [LicenceNext]_licenceVars => LicenceInv' /\ RecordsInv'
  BY LicenceStep, RecordsStep
<1> QED
  BY <1>1, <1>2, PTL DEF LicenceSpec

\* However often the provider delivers a payment event, it changes the rows once, and once
\* more for each time the process died before its log row (licensing/stripe-webhook.mjs).
THEOREM EventsAppliedOnce == LicenceSpec => []AppliedOnce
  BY LicenceInvariant, RecordsImply, PTL

\* A cached tier is the row's, or was less than the cache's life ago
\* (licensing/license-validate.mjs:69-86).
THEOREM CachedTiersRecent == LicenceSpec => []CachedTierRecent
  BY LicenceInvariant, RecordsImply, PTL

-----------------------------------------------------------------------------
(* The types of the circuit breaker and its requests.                      *)

\* The breaker's entries, and the requests, as ProvidersTypeOK has them.
EntryFits(e) ==
  /\ e.state \in {"healthy", "degraded", "circuit_open"}
  /\ e.failureCount \in Nat
  /\ e.cooldownUntil \in {Never} \cup OpenFor..PrTime + OpenFor
  /\ e.state = "degraded" => e.failureCount \in DEGRADE_AT..OPEN_AT - 1
EntriesFit ==
  /\ prNow \in 0..PrTime
  /\ \A m \in Models : EntryFits(entry[m])
  /\ \A c \in ModelCalls : modelCall[c].model \in modelCall[c].attempted \cup {"none"}

LEMMA FreshEntryFits == EntryFits(Untracked)
BY ProvidersAssumption DEF EntryFits, Untracked

LEMMA FailureFits ==
  ASSUME BreakerInv, EntriesFit, NEW m \in Models, NEW kind \in {"auth", "client", "server"},
         recordFailure(m, kind)
  PROVE  \A q \in Models : EntryFits(entry'[q])
<1>a. /\ prNow \in 0..PrTime /\ PrTime \in Nat /\ OpenFor \in Nat
      /\ DEGRADE_AT \in Nat /\ OPEN_AT \in Nat
      /\ EntryFits(entry[m]) /\ entry = [q \in Models |-> entry[q]]
      /\ \A q \in Models : EntryFits(entry[q])
  BY ProvidersAssumption DEF EntriesFit, BreakerInv
<1>1. ASSUME NEW e, entry' = [entry EXCEPT ![m] = e], EntryFits(e)
      PROVE  \A q \in Models : EntryFits(entry'[q])
  <2>1. \A q \in Models : entry'[q] = e \/ entry'[q] = entry[q]
    BY <1>a, <1>1
  <2> QED
    BY <1>a, <1>1, <2>1
<1>2. ASSUME NEW count \in Nat, Opens(m, count)
      PROVE  \A q \in Models : EntryFits(entry'[q])
  <2> DEFINE e == [state |-> "circuit_open", failureCount |-> count, cooldownUntil |-> prNow + OpenFor]
  <2>1. EntryFits(e)
    BY <1>a DEF EntryFits
  <2>2. entry' = [entry EXCEPT ![m] = e]
    BY <1>2 DEF Opens
  <2> HIDE DEF e
  <2> QED
    BY <1>1, <2>1, <2>2
<1>3. CASE kind = "auth"
  BY <1>a, <1>2, <1>3 DEF recordFailure, EntryFits
<1>4. CASE kind = "client"
  BY <1>a, <1>4 DEF recordFailure
<1>5. CASE kind = "server" /\ entry[m].failureCount + 1 >= OPEN_AT
  BY <1>a, <1>2, <1>5 DEF recordFailure, EntryFits
<1>6. CASE kind = "server" /\ ~ (entry[m].failureCount + 1 >= OPEN_AT)
  <2> DEFINE failuresNow == entry[m].failureCount + 1
             e == [state |-> IF failuresNow >= DEGRADE_AT /\ entry[m].state = "healthy"
                             THEN "degraded" ELSE entry[m].state,
                   failureCount |-> failuresNow, cooldownUntil |-> entry[m].cooldownUntil]
  <2>1. entry' = [entry EXCEPT ![m] = e]
    BY <1>6 DEF recordFailure
  <2>2. failuresNow \in Nat /\ failuresNow < OPEN_AT /\ failuresNow = entry[m].failureCount + 1
    BY <1>a, <1>6 DEF EntryFits
  <2>3. entry[m].state = "degraded" => failuresNow >= DEGRADE_AT
    BY <1>a, <2>2 DEF EntryFits
  <2> HIDE DEF failuresNow
  <2>4. EntryFits(e)
    BY <1>a, <2>2, <2>3 DEF EntryFits
  <2> HIDE DEF e
  <2> QED
    BY <1>1, <2>1, <2>4
<1> QED
  BY <1>3, <1>4, <1>5, <1>6

LEMMA EntriesStep == ASSUME BreakerInv, EntriesFit, [ProvidersNext]_providersVars PROVE EntriesFit'
<1>a. /\ prNow \in 0..PrTime /\ PrTime \in Nat
      /\ entry = [q \in Models |-> entry[q]]
      /\ \A q \in Models : EntryFits(entry[q])
      /\ modelCall \in [ModelCalls -> [model : Models \cup {"none"}, attempted : SUBSET Models]]
      /\ \A c \in ModelCalls : modelCall[c].model \in modelCall[c].attempted \cup {"none"}
  BY ProvidersAssumption DEF EntriesFit, BreakerInv
<1>1. ASSUME NEW c \in ModelCalls, NEW mc, modelCall' = [modelCall EXCEPT ![c] = mc],
             mc.model \in mc.attempted \cup {"none"}
      PROVE  \A d \in ModelCalls : modelCall'[d].model \in modelCall'[d].attempted \cup {"none"}
  BY <1>a, <1>1
<1>2. ASSUME NEW c \in ModelCalls, resolveModelWithFallback(c)
      PROVE  EntriesFit'
  <2>1. PICK m : modelCall' = [modelCall EXCEPT ![c] = [model |-> m, attempted |-> @.attempted \cup {m}]]
    BY <1>2 DEF resolveModelWithFallback
  <2>2. \A d \in ModelCalls : modelCall'[d].model \in modelCall'[d].attempted \cup {"none"}
    BY <1>1, <2>1
  <2> QED
    BY <1>a, <1>2, <2>2 DEF resolveModelWithFallback, EntriesFit
<1>3. ASSUME NEW c \in ModelCalls, Exhausted(c)
      PROVE  EntriesFit'
  <2>1. \A d \in ModelCalls : modelCall'[d].model \in modelCall'[d].attempted \cup {"none"}
    BY <1>1, <1>3 DEF Exhausted, IdleCall
  <2> QED
    BY <1>a, <1>3, <2>1 DEF Exhausted, EntriesFit
<1>4. ASSUME NEW c \in ModelCalls, AnswerOk(c)
      PROVE  EntriesFit'
  <2>1. \A d \in ModelCalls : modelCall'[d].model \in modelCall'[d].attempted \cup {"none"}
    BY <1>1, <1>4 DEF AnswerOk, IdleCall
  <2> DEFINE m == modelCall[c].model
             e == [state |-> IF entry[m].state = "degraded" THEN "healthy" ELSE entry[m].state,
                   failureCount |-> 0, cooldownUntil |-> Never]
  <2>2. m \in Models /\ entry' = [entry EXCEPT ![m] = e]
    BY <1>a, <1>4 DEF AnswerOk, recordSuccess
  <2>3. EntryFits(e)
    BY <1>a, <2>2 DEF EntryFits
  <2> HIDE DEF e, m
  <2>4. \A q \in Models : entry'[q] = e \/ entry'[q] = entry[q]
    BY <1>a, <2>2
  <2>5. \A q \in Models : EntryFits(entry'[q])
    BY <1>a, <2>3, <2>4
  <2> QED
    BY <1>a, <1>4, <2>1, <2>5 DEF AnswerOk, EntriesFit
<1>5. ASSUME NEW c \in ModelCalls, NEW kind \in {"auth", "client", "server"}, AnswerFails(c, kind)
      PROVE  EntriesFit'
  <2>1. \A d \in ModelCalls : modelCall'[d].model \in modelCall'[d].attempted \cup {"none"}
    BY <1>1, <1>5 DEF AnswerFails
  <2>2. modelCall[c].model \in Models /\ recordFailure(modelCall[c].model, kind)
    BY <1>a, <1>5 DEF AnswerFails
  <2>3. \A q \in Models : EntryFits(entry'[q])
    BY <2>2, FailureFits
  <2> QED
    BY <1>a, <1>5, <2>1, <2>3 DEF AnswerFails, EntriesFit
<1>6. ASSUME NEW m \in Models, reset(m)
      PROVE  EntriesFit'
  <2>1. \A q \in Models : entry'[q] = Untracked \/ entry'[q] = entry[q]
    BY <1>a, <1>6 DEF reset
  <2>2. \A q \in Models : EntryFits(entry'[q])
    BY <1>a, <2>1, FreshEntryFits
  <2> QED
    BY <1>a, <1>6, <2>2 DEF reset, EntriesFit
<1>7. CASE PrClock
  <2>1. prNow' \in 0..PrTime
    BY <1>a, <1>7 DEF PrClock
  <2> QED
    BY <1>a, <1>7, <2>1 DEF PrClock, EntriesFit
<1>8. CASE UNCHANGED providersVars
  BY <1>a, <1>8 DEF providersVars, EntriesFit
<1> QED
  BY <1>2, <1>3, <1>4, <1>5, <1>6, <1>7, <1>8 DEF ProvidersNext

LEMMA ProvidersTypes == ProvidersSpec => []ProvidersTypeOK
<1> DEFINE Inv == BreakerInv /\ EntriesFit
<1>1. ProvidersInit => Inv
  <2> SUFFICES ASSUME ProvidersInit PROVE Inv
    OBVIOUS
  <2>1. BreakerInv
    BY DEF ProvidersInit, BreakerInv, OpenedStaysOpen, IdleCall
  <2>2. prNow \in 0..PrTime
    BY ProvidersAssumption DEF ProvidersInit
  <2>3. \A m \in Models : EntryFits(entry[m])
    BY FreshEntryFits DEF ProvidersInit
  <2>4. \A c \in ModelCalls : modelCall[c].model = "none"
    BY DEF ProvidersInit, IdleCall
  <2> QED
    BY <2>1, <2>2, <2>3, <2>4 DEF EntriesFit
<1>2. Inv /\ [ProvidersNext]_providersVars => Inv'
  BY BreakerStep, EntriesStep
<1>3. Inv => ProvidersTypeOK
  <2> SUFFICES ASSUME Inv PROVE ProvidersTypeOK
    OBVIOUS
  <2>1. \A c \in ModelCalls : modelCall[c].attempted \subseteq Models
    BY DEF BreakerInv
  <2> QED
    BY <2>1 DEF EntriesFit, EntryFits, ProvidersTypeOK
<1> QED
  BY <1>1, <1>2, <1>3, PTL DEF ProvidersSpec

-----------------------------------------------------------------------------
(* The services together.                                                  *)

\* A step of the services is a step of each part, or leaves it as it is: the one that
\* moves takes its own, and the others rest.
LEMMA PartsStep ==
  ASSUME [ServicesNext]_servicesVars
  PROVE  /\ [GatewayNext]_gatewayVars
         /\ [LicenceNext]_licenceVars
         /\ [FleetNext]_fleetVars
         /\ [AccessNext]_accessVars
         /\ [WebhooksNext]_hookVars
         /\ [AlertsNext]_alertVars
         /\ [ProvidersNext]_providersVars
         /\ [CloudNext]_cloudVars
         /\ [PolicyNext]_policyVars
         /\ [RealtimeNext]_realtimeVars
         /\ [SetupNext]_setupVars
         /\ [RollupNext]_rollupVars
         /\ [WorktreesNext]_treeVars
         /\ [ApiKeysNext]_keyVars
         /\ [ManagementNext]_mgmtVars
         /\ [RoutingNext]_routingVars
         /\ [RateNext]_rateVars
         /\ [PushNext]_pushVars
         /\ [CatalogNext]_catalogVars
<1>1. CASE UNCHANGED servicesVars
  BY <1>1 DEF servicesVars
<1>2. CASE ServicesNext
  BY <1>2 DEF ServicesNext, OthersRest, Rests
<1> QED
  BY <1>1, <1>2

\* So the services together are each of the parts by itself (Services.tla).
THEOREM PartsAreThemselves ==
  ServicesSpec => /\ GatewaySpec /\ LicenceSpec /\ FleetSpec
                  /\ AccessSpec /\ WebhooksSpec /\ AlertsSpec
                  /\ ProvidersSpec /\ CloudSpec /\ PolicySpec
                  /\ RealtimeSpec /\ SetupSpec /\ RollupSpec
                  /\ WorktreesSpec /\ ApiKeysSpec /\ ManagementSpec
                  /\ RoutingSpec /\ RateSpec /\ PushSpec
                  /\ CatalogSpec
<1>1. ServicesInit => /\ GatewayInit /\ LicenceInit /\ FleetInit
                      /\ AccessInit /\ WebhooksInit /\ AlertsInit
                      /\ ProvidersInit /\ CloudInit /\ PolicyInit
                      /\ RealtimeInit /\ SetupInit /\ RollupInit
                      /\ WorktreesInit /\ ApiKeysInit /\ ManagementInit
                      /\ RoutingInit /\ RateInit /\ PushInit
                      /\ CatalogInit
  BY DEF ServicesInit
<1> QED
  BY <1>1, PartsStep, PTL DEF ServicesSpec, GatewaySpec, LicenceSpec, FleetSpec, AccessSpec, WebhooksSpec, AlertsSpec, ProvidersSpec, CloudSpec, PolicySpec, RealtimeSpec, SetupSpec, RollupSpec, WorktreesSpec, ApiKeysSpec, ManagementSpec, RoutingSpec, RateSpec, PushSpec, CatalogSpec

\* Every service keeps to its types: the maps, rows, logs and counters of nineteen
\* modules hold what their code reads from them (Services.tla).
THEOREM ServicesTypeCorrect == ServicesSpec => []ServicesTypeOK
<1>1. GatewaySpec => []GatewayTypeOK
  BY GatewayTypeCorrect
<1>2. LicenceSpec => []LicenceTypeOK
  BY LicenceInvariant, RecordsImply, PTL
<1>3. FleetSpec => []FleetTypeOK
  BY FleetInvariant, FleetInvImplies, PTL
<1>4. AccessSpec => []AccessTypeOK
  BY AccessTypes
<1>5. WebhooksSpec => []WebhooksTypeOK
  BY WebhooksInvariant, WebhooksInvImplies, PTL
<1>6. AlertsSpec => []AlertsTypeOK
  BY ScreenInvariant, ScreenInvImplies, PTL
<1>7. CloudSpec => []CloudTypeOK
  BY SyncInvariant, SyncInvImplies, PTL
<1>8. RealtimeSpec => []RealtimeTypeOK
  BY PageInvariant, PageInvImplies, PTL
<1>9. SetupSpec => []SetupTypeOK
  BY SetupInvariant, SetupInvImplies, PTL
<1>10. RollupSpec => []RollupTypeOK
  BY RollupInitInv, RollupStep, RollupInvImplies, PTL DEF RollupSpec
<1>11. ApiKeysSpec => []ApiKeysTypeOK
  BY KeysInvariant, KeysInvImplies, PTL
<1>12. RateSpec => []RateTypeOK
  <2>1. RateInv => RateTypeOK
    BY DEF RateInv
  <2> QED
    BY <2>1, RateInvariant, PTL
<1>13. PushSpec => []PushTypeOK
  <2>1. PushInv => PushTypeOK
    BY DEF PushInv
  <2> QED
    BY <2>1, PushInitInv, PushStep, PTL DEF PushSpec
<1>14. /\ GatewayTypeOK /\ LicenceTypeOK /\ FleetTypeOK /\ AccessTypeOK /\ WebhooksTypeOK
       /\ AlertsTypeOK /\ ProvidersTypeOK /\ CloudTypeOK /\ PolicyTypeOK /\ RealtimeTypeOK
       /\ SetupTypeOK /\ RollupTypeOK /\ WorktreesTypeOK /\ ApiKeysTypeOK /\ ManagementTypeOK
       /\ RoutingTypeOK /\ RateTypeOK /\ PushTypeOK /\ CatalogTypeOK
       => ServicesTypeOK
  BY DEF ServicesTypeOK, WhenMoving
<1> QED
  BY <1>1, <1>2, <1>3, <1>4, <1>5, <1>6, <1>7, <1>8, <1>9, <1>10, <1>11, <1>12, <1>13, <1>14,
     ProvidersTypes, PolicyTypes, WorktreesTypes, ManagementTypes, RoutingTypes, CatalogTypes,
     PartsAreThemselves, PTL

\* What is delivered, replayed or confirmed again does its work once: a payment event
\* (stripe-webhook.mjs:130-143), a failed attempt (management-webhooks.mjs:41-43), a policy
\* preview (cloud-control-plane.mjs:186-190), an escalation (escalation-push.mjs:123-125).
THEOREM WorkDoneOnce == ServicesSpec => []AtMostOnce
<1>1. AppliedOnce /\ ReplayedOnce /\ ConfirmedOnce /\ ToldOnce => AtMostOnce
  BY DEF AtMostOnce
<1> QED
  BY <1>1, PartsAreThemselves, EventsAppliedOnce, AttemptsReplayedOnce, PreviewsPushedOnce,
     FounderToldOnce, PTL

\* Nothing acknowledged is lost by the crash, the failed call or the slower writer that
\* comes between: a policy (cloud-control-plane.mjs:204-211), an event owed
\* (local-agent.mjs:172-181), a setting (policy-write.mjs:9-17), an event to be summed up
\* (aggregation.mjs:179-184), a commit (worktree.mjs:160-163), uncommitted work
\* (boot-guard.mjs:18-21), an escalation (escalation-push.mjs:153-156), a tier the founder
\* set (api/v1/models.mjs:64).
THEOREM AcknowledgedIsKept == ServicesSpec => []NothingLost
<1>1. /\ LastPushWins /\ OwedIsReported /\ EditsKept /\ HourlyExact
      /\ UnpushedKept /\ FounderWorkStays /\ PushedWasShown /\ FounderTierKept
      => NothingLost
  BY DEF NothingLost
<1> QED
  BY <1>1, PartsAreThemselves, LastPushesWin, OwedEventsReported, SavedSettingsStand,
     SummariesExact, UnpushedWorkKept, FounderKeepsWork, FounderToldOnce, CatalogKeepsUp, PTL

\* What is answered or used without looking again is recent and valid: a cached tier
\* (license-validate.mjs:69-86), the watcher's snapshot (config-hot-reload.mjs:15-20), a
\* page fed by a stream (dashboard/operational-events.mjs:54-63), the wait a refused caller
\* was told (api/rate-limiter.mjs:36-46), the models on offer (model-discovery.mjs:36-76).
THEOREM AnswersHold == ServicesSpec => []NeverMisled
<1>1. /\ CachedTierRecent /\ SnapshotCurrent /\ NeverMisconfigured /\ PageCurrent
      /\ RetryHonoured /\ CatalogFollowsAnswers /\ OfferedAreTiered
      => NeverMisled
  BY DEF NeverMisled
<1> QED
  BY <1>1, PartsAreThemselves, CachedTiersRecent, ProjectsGetValidPolicies, PagesCurrent,
     RetriesHonoured, CatalogKeepsUp, OfferedGetTiers, PTL

\* Several writes that belong together are all made or none, whatever fails or dies
\* between them: an account and its membership (user-store.mjs:424-457), the files of an
\* installation (setup-wizard-core.mjs:406-411), a key and its successor
\* (auth/api-tokens.mjs:257-259).
THEOREM WritesWhole == ServicesSpec => []AllOrNothing
<1>1. AcceptanceWhole /\ InstallationWhole /\ RotationWhole => AllOrNothing
  BY DEF AllOrNothing
<1> QED
  BY <1>1, PartsAreThemselves, AcceptancesWhole, InstallationsWhole, RotationsWhole, PTL

\* What has been ended stays so: a project that was stopped (control-plane.mjs:344-404), a
\* key whose setup session is over (dashboard/server.mjs:392-397), an API key revoked,
\* rotated out or past its overlap (auth/api-tokens.mjs:211-220).
THEOREM EndsAreFinal == ServicesSpec => []EndedStaysEnded
<1>1. StoppedStaysStopped /\ SecretsEnd /\ EndedKeysStayOut => EndedStaysEnded
  BY DEF EndedStaysEnded
<1> QED
  BY <1>1, PartsAreThemselves, StoppedProjectsStay, KeysEndWithTheirSession,
     EndedKeysNeverPass, PTL

\* Those who work beside each other keep apart: agents in their worktrees
\* (worktree.mjs:9-13), tenants in their workflow state
\* (dashboard/management-router.mjs:15-17).
THEOREM NeighboursApart == ServicesSpec => []KeptApart
<1>1. TreesApart /\ TenantsApart => KeptApart
  BY DEF KeptApart
<1> QED
  BY <1>1, PartsAreThemselves, AgentsApart, TenantsStayApart, PTL

\* Caps are overrun by the requests in flight at most, and where the runner's gate halts
\* the gateway denies (budget.mjs:220-291, gateway/windows.mjs:69-104); no run draws on
\* Anthropic unasked (router.mjs:136-141), saving costs a task a tier at most
\* (model-router.mjs:325-331), and no key asks more than its rate (api/rate-limiter.mjs).
THEOREM BudgetsHold == ServicesSpec => []BudgetHolds
<1>1. OverrunBounded /\ GateHaltMeansDeny /\ NoSurpriseSpend /\ NeverUnderServed /\ RateKept
      => BudgetHolds
  BY DEF BudgetHolds
<1> QED
  BY <1>1, PartsAreThemselves, CapsHold, RunsDrawOnWhatWasAsked, SignalsAreServed, RatesKept,
     PTL
=============================================================================
