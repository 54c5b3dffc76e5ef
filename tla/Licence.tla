----------------------------- MODULE Licence -----------------------------
(***************************************************************************)
(* licensing/ as the dashboard serves it: the events the payment provider  *)
(* delivers (more than once, in any order, lost with a crash between the   *)
(* handler and its log row), the licence rows they write, the validator    *)
(* with its day-long cache and the forced refresh.                         *)
(*                                                                         *)
(* A key is named by the rowid of its row: the only keys a caller can know *)
(* are those the rows hold.                                                *)
(***************************************************************************)
EXTENDS Integers, FiniteSets, FiniteSetsExt

CONSTANTS
    StripeEvents,   \* event ids
    EventOf,        \* id -> [type, subscription, tier, attempt], fixed at the provider
    CustomerOf,     \* subscription -> customer
    MaxLicences,    \* bound: rows ever inserted
    LicenceTime,    \* bound: the clock stops here
    MaxLives,       \* bound: processes the dashboard ever runs as
    CacheLife,      \* cacheDuration
    KeyLife         \* the year a key is signed for

ASSUME LicenceAssumption ==
    /\ MaxLicences \in Nat /\ LicenceTime \in Nat /\ MaxLives \in Nat \ {0}
    /\ CacheLife \in Nat /\ KeyLife \in Nat

Licences == 1..MaxLicences
NoLicence == [status |-> "none"]
NotCached == [tier |-> "none", ts |-> -1]

VARIABLES
    licNow,         \* the clock
    customerUnique, \* the webhook created the table, not the validator
    licence,        \* the rows
    webhookLog,     \* ids with a row in webhook_events
    licCache,       \* the validator's cache
    life,           \* which process this is: each makes its own key pair
    applied,        \* history: times an event changed a row
    unlogged,       \* history: times it did so and the process died before the log row
    tierSince       \* history: when the row's tier was last written

licenceVars == <<licNow, customerUnique, licence, webhookLog, licCache, life,
                 applied, unlogged, tierSince>>

Rows == {k \in Licences : licence[k] # NoLicence}

\* SELECT ... WHERE subscription_id = ?, first row.
RowOf(sub) == {k \in Rows : /\ licence[k].subscription = sub
                            /\ \A j \in Rows : licence[j].subscription = sub => k <= j}

LicenceInit ==
    /\ licNow = 0
    /\ customerUnique \in BOOLEAN
    /\ licence = [k \in Licences |-> NoLicence]
    /\ webhookLog = {}
    /\ licCache = [k \in Licences |-> NotCached]
    /\ life = 1
    /\ applied = [e \in StripeEvents |-> 0]
    /\ unlogged = [e \in StripeEvents |-> 0]
    /\ tierSince = [k \in Licences |-> 0]

---------------------------------------------------------------------------
(* The handlers: the new value of the rows.                                *)

\* A second row for a customer breaks the UNIQUE column where there is one; the
\* driver's error code is not the 'SQLITE_CONSTRAINT' the handler compares with,
\* so it throws and the update meant for that case is not reached.
Refused(e) ==
    \/ EventOf[e].type = "checkout_unpaid"
    \/ /\ customerUnique
       /\ \E k \in Rows : CustomerOf[licence[k].subscription] =
                          CustomerOf[EventOf[e].subscription]

handleCheckoutCompleted(e) ==
    IF Refused(e) THEN licence
    ELSE [licence EXCEPT ![Cardinality(Rows) + 1] =
            [status |-> "active", subscription |-> EventOf[e].subscription,
             tier |-> EventOf[e].tier, created |-> licNow, signer |-> life,
             expires |-> licNow + KeyLife]]

handleSubscriptionUpdated(e) ==
    [k \in Licences |-> IF k \in RowOf(EventOf[e].subscription)
                        THEN [licence[k] EXCEPT !.tier = EventOf[e].tier]
                        ELSE licence[k]]

WithStatus(k, status) == [licence[k] EXCEPT !.status = status]

handleSubscriptionDeleted(e) ==
    [k \in Licences |-> IF k \in RowOf(EventOf[e].subscription)
                        THEN WithStatus(k, "revoked") ELSE licence[k]]

\* The second attempt changes nothing; the first grants grace to any row it finds.
handleInvoicePaymentFailed(e) ==
    [k \in Licences |->
        IF k \notin RowOf(EventOf[e].subscription) \/ EventOf[e].attempt = 2
        THEN licence[k]
        ELSE WithStatus(k, IF EventOf[e].attempt = 1 THEN "grace_period" ELSE "revoked")]

Handled(e) ==
    CASE EventOf[e].type \in {"checkout_paid", "checkout_unpaid"} -> handleCheckoutCompleted(e)
      [] EventOf[e].type = "updated" -> handleSubscriptionUpdated(e)
      [] EventOf[e].type = "deleted" -> handleSubscriptionDeleted(e)
      [] EventOf[e].type = "payment_failed" -> handleInvoicePaymentFailed(e)
      [] OTHER -> licence

WritesTier(e) == {k \in Licences : /\ licence[k] # Handled(e)[k]
                                   /\ \/ licence[k] = NoLicence
                                      \/ licence[k].tier # Handled(e)[k].tier}

AlreadyProcessed_never(e) == FALSE
AlreadyProcessed(e) == e \in webhookLog

Apply(e) ==
    /\ ~AlreadyProcessed(e)
    /\ Cardinality(Rows) < MaxLicences \/ EventOf[e].type # "checkout_paid"
    /\ licence' = Handled(e)
    /\ tierSince' = [k \in Licences |-> IF k \in WritesTier(e) THEN licNow ELSE tierSince[k]]
    /\ applied' = [applied EXCEPT ![e] = @ + (IF Handled(e) # licence THEN 1 ELSE 0)]
    /\ UNCHANGED <<licNow, customerUnique>>

\* A delivery: what failed is logged as well, and so never handled again.
handle(e) ==
    /\ Apply(e)
    /\ webhookLog' = webhookLog \cup {e}
    /\ UNCHANGED <<licCache, life, unlogged>>

\* The process dies after the handler's write and before the log row's; the next
\* one starts with an empty cache and a key pair of its own.
handleAndDie(e) ==
    /\ life < MaxLives
    /\ Apply(e)
    /\ life' = life + 1
    /\ licCache' = [k \in Licences |-> NotCached]
    /\ unlogged' = [unlogged EXCEPT ![e] = @ + 1]
    /\ UNCHANGED webhookLog

RestartDashboard ==
    /\ life < MaxLives /\ life' = life + 1
    /\ licCache' = [k \in Licences |-> NotCached]
    /\ UNCHANGED <<licNow, customerUnique, licence, webhookLog, applied, unlogged, tierSince>>

---------------------------------------------------------------------------
(* The validator and the refresh.                                          *)

KeyValid(k) == licence[k].signer = life /\ licence[k].expires >= licNow
Fresh(k) == licCache[k] # NotCached /\ licNow - licCache[k].ts < CacheLife

\* A fresh entry answers by itself.  Past it the signature and the expiry are
\* checked; the status of the row is not.
validate_sliding(k) ==
    /\ k \in Rows
    /\ IF Fresh(k) THEN licCache' = [licCache EXCEPT ![k].ts = licNow]
       ELSE IF KeyValid(k)
       THEN licCache' = [licCache EXCEPT ![k] = [tier |-> licence[k].tier, ts |-> licNow]]
       ELSE UNCHANGED licCache
    /\ UNCHANGED <<licNow, customerUnique, licence, webhookLog, life, applied, unlogged, tierSince>>
validate(k) ==
    /\ k \in Rows
    /\ licCache' = IF ~Fresh(k) /\ KeyValid(k)
                   THEN [licCache EXCEPT ![k] = [tier |-> licence[k].tier, ts |-> licNow]]
                   ELSE licCache
    /\ UNCHANGED <<licNow, customerUnique, licence, webhookLog, life, applied, unlogged, tierSince>>

Active == {k \in Rows : licence[k].status = "active"}

\* One of the newest active rows; created_at is all the query orders by.
refresh_revives ==
    /\ \E k \in Rows : licence' = [licence EXCEPT ![k] =
           WithStatus(k, IF KeyValid(k) THEN "active" ELSE "expired")]
    /\ UNCHANGED <<licNow, customerUnique, webhookLog, licCache, life, applied, unlogged, tierSince>>
refresh ==
    /\ \E k \in Active :
          /\ \A j \in Active : licence[j].created <= licence[k].created
          /\ licence' = [licence EXCEPT ![k] =
                            IF KeyValid(k) THEN @ ELSE WithStatus(k, "expired")]
    /\ UNCHANGED <<licNow, customerUnique, webhookLog, licCache, life, applied, unlogged, tierSince>>

LicenceClock ==
    /\ licNow < LicenceTime /\ licNow' = licNow + 1
    /\ UNCHANGED <<customerUnique, licence, webhookLog, licCache, life, applied, unlogged,
                   tierSince>>

LicenceNext ==
    \/ \E e \in StripeEvents : handle(e) \/ handleAndDie(e)
    \/ \E k \in Licences : validate(k)
    \/ refresh
    \/ RestartDashboard
    \/ LicenceClock

LicenceSpec == LicenceInit /\ [][LicenceNext]_licenceVars

---------------------------------------------------------------------------
LicenceTypeOK ==
    /\ licNow \in 0..LicenceTime /\ life \in 1..MaxLives
    /\ \A k \in Rows : /\ licence[k].status \in {"active", "grace_period", "revoked", "expired"}
                       /\ licence[k].created \in 0..licNow
                       /\ licence[k].signer \in 1..life
    /\ Rows = 1..Cardinality(Rows)
    /\ webhookLog \subseteq StripeEvents
    /\ \A k \in Licences : licCache[k].ts <= licNow

\* However often an event is delivered, it changes the rows at most once more
\* than the process died between the change and the log row
\* (stripe-webhook.mjs:130-143, :201).
AppliedOnce == \A e \in StripeEvents : applied[e] <= 1 + unlogged[e]

\* What the validator answers without looking, for a key it has cached, was the
\* row's tier less than CacheLife ago, whatever the webhook wrote since
\* (license-validate.mjs:69-86).
CachedTierRecent ==
    \A k \in Licences :
        Fresh(k) => \/ licCache[k].tier = licence[k].tier
                    \/ tierSince[k] >= licCache[k].ts

\* A licence that has left "active" never returns to it: no delivery, late or
\* repeated, no validation and no refresh revives a row, and while the column is
\* UNIQUE not even a new checkout of the same customer does
\* (stripe-webhook.mjs:256-285).
RevivesNobody ==
    \A k \in Rows : licence[k].status # "active" =>
        /\ licence'[k].status # "active"
        /\ customerUnique =>
             \A j \in Licences :
                 /\ licence'[j] # NoLicence
                 /\ CustomerOf[licence'[j].subscription] = CustomerOf[licence[k].subscription]
                 => licence'[j].status # "active"
LapsedForGood == [][RevivesNobody]_licenceVars
=============================================================================
