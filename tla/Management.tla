----------------------------- MODULE Management -----------------------------
(***************************************************************************)
(* The workflow state of the management contract                           *)
(* (dashboard/management-router.mjs:13-18, 39-43, 79-82,                   *)
(* management-state.mjs, management-integrations.mjs): one set of maps in  *)
(* memory for all tenants, loaded from and saved to the row of the tenant  *)
(* whose request has the lock.  The lock is a chain of promises, and an    *)
(* operation that awaits keeps it.                                         *)
(*                                                                         *)
(* A request adds at most one entry, named for it.                         *)
(***************************************************************************)
EXTENDS Integers, Sequences

CONSTANTS
    MgmtRequests, \* bound: the requests
    TenantOf,     \* the tenant of each
    MaxReboots    \* bound: restarts of the dashboard

Kinds == {"read", "change", "test"}
NotSent == [kind |-> "none", at |-> "idle"]
MgmtTenants == {TenantOf[r] : r \in MgmtRequests}

VARIABLES
    asked,     \* each request, once it is authorised, and where it is
    queue,     \* managementStateQueue: the request with the lock, and those behind it
    maps,      \* the entries in memory
    durable,   \* each tenant's entries in the database
    answered,  \* history: requests that were told they succeeded
    unsaved,   \* history: those whose save failed after that
    reboots

mgmtVars == <<asked, queue, maps, durable, answered, unsaved, reboots>>

ManagementInit ==
    /\ asked = [r \in MgmtRequests |-> NotSent] /\ queue = <<>>
    /\ maps = {} /\ durable = [t \in MgmtTenants |-> {}]
    /\ answered = {} /\ unsaved = {} /\ reboots = 0

acquireManagementStateLock(r, kind) ==
    /\ asked[r] = NotSent
    /\ asked' = [asked EXCEPT ![r] = [kind |-> kind, at |-> "waits"]]
    /\ queue' = Append(queue, r)
    /\ UNCHANGED <<maps, durable, answered, unsaved, reboots>>

---------------------------------------------------------------------------
MyTurn_any(r) == TRUE
MyTurn(r) == queue # <<>> /\ queue[1] = r

\* The end of a request whose entries are these: it is answered, then what is in memory
\* is saved, which may fail, then the lock goes on.
Finish(r, entries, succeeds) ==
    /\ maps' = entries
    /\ answered' = IF succeeds THEN answered \cup {r} ELSE answered
    /\ \/ durable' = [durable EXCEPT ![TenantOf[r]] = entries] /\ UNCHANGED unsaved
       \/ UNCHANGED durable /\ unsaved' = unsaved \cup {r}
    /\ asked' = [asked EXCEPT ![r].at = "over"]
    /\ queue' = Tail(queue)

Turn(r) == asked[r].at = "waits" /\ MyTurn(r)

Loaded(r) == durable[TenantOf[r]]

\* A request without an await runs from its load to its save; the audit may throw before
\* it is answered, after its change is made.
ServeAtOnce(r) ==
    /\ Turn(r) /\ asked[r].kind # "test"
    /\ \E succeeds \in BOOLEAN :
         Finish(r, IF asked[r].kind = "change" THEN Loaded(r) \cup {r} ELSE Loaded(r), succeeds)
    /\ UNCHANGED reboots

\* The test of an integration loads, asks the provider and awaits.
testIntegration(r) ==
    /\ Turn(r) /\ asked[r].kind = "test"
    /\ asked' = [asked EXCEPT ![r].at = "awaits"] /\ maps' = Loaded(r)
    /\ UNCHANGED <<queue, durable, answered, unsaved, reboots>>

\* The provider answers or the time is up: either way the attempt is an entry.
TestEnds(r) ==
    /\ asked[r].at = "awaits"
    /\ \E succeeds \in BOOLEAN : Finish(r, maps \cup {r}, succeeds)
    /\ UNCHANGED reboots

\* The load throws: nothing is saved and the lock goes on.
LoadFails(r) ==
    /\ Turn(r)
    /\ asked' = [asked EXCEPT ![r].at = "over"] /\ queue' = Tail(queue)
    /\ UNCHANGED <<maps, durable, answered, unsaved, reboots>>

\* What prunes the audit throws: the lock is held, and outside the try that frees it.
PruneFails(r) ==
    /\ Turn(r)
    /\ asked' = [asked EXCEPT ![r].at = "stuck"]
    /\ UNCHANGED <<queue, maps, durable, answered, unsaved, reboots>>

DashboardRestarts ==
    /\ reboots < MaxReboots /\ reboots' = reboots + 1
    /\ queue' = <<>> /\ maps' = {}
    /\ asked' = [r \in MgmtRequests |->
                   IF asked[r].at \in {"waits", "awaits", "stuck"} THEN [asked[r] EXCEPT !.at = "over"]
                                                               ELSE asked[r]]
    /\ UNCHANGED <<durable, answered, unsaved>>

ManagementNext ==
    \/ \E r \in MgmtRequests :
         \/ \E kind \in Kinds : acquireManagementStateLock(r, kind)
         \/ ServeAtOnce(r) \/ testIntegration(r) \/ TestEnds(r) \/ LoadFails(r) \/ PruneFails(r)
    \/ DashboardRestarts

ManagementSpec == ManagementInit /\ [][ManagementNext]_mgmtVars

---------------------------------------------------------------------------
ManagementTypeOK ==
    /\ queue \in Seq(MgmtRequests) /\ maps \subseteq MgmtRequests
    /\ \A t \in MgmtTenants : durable[t] \subseteq MgmtRequests
    /\ \A r \in MgmtRequests :
         asked[r].at \in {"idle", "waits", "awaits", "stuck", "over"}

Entered(t) == {r \in MgmtRequests : TenantOf[r] = t /\ asked[r].kind \in {"change", "test"}}

\* A tenant's row holds entries of its own only, and all that were answered as made,
\* though another tenant's requests come while an operation awaits, unless the save
\* itself failed (dashboard/management-router.mjs:15-17).
TenantsApart ==
    \A t \in MgmtTenants :
        /\ durable[t] \subseteq Entered(t)
        /\ (Entered(t) \cap answered) \ unsaved \subseteq durable[t]
=============================================================================
