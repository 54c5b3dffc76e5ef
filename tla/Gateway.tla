----------------------------- MODULE Gateway -----------------------------
(***************************************************************************)
(* The metering proxy of gateway/: one agent's requests in flight, the     *)
(* ledger their token events go to, the rolling windows a request is       *)
(* admitted against, the rotation of the provider's keys, and the second   *)
(* reader of the same ledger, the budget gate the runner asks before it    *)
(* claims.                                                                 *)
(*                                                                         *)
(* handleRequest runs without an await from its first line to the reading  *)
(* of the body: admission is one step.  Each await after it (the body, the *)
(* upstream's headers, its body or stream) is a step of its own, and steps *)
(* of other requests come between them.                                    *)
(***************************************************************************)
EXTENDS Integers, FiniteSets, FiniteSetsExt

CONSTANTS
    MaxRequests,     \* bound: requests that ever arrive; identified in order of arrival
    MaxTime,         \* bound: the clock stops here
    FiveHours, Week, \* lengths of the two windows
    TokenCap,        \* [Windows -> Nat], agent_budget.<agent>.per_*_tokens
    CostCap,         \* the same for per_*_cost_usd; NoCap where none is set
    NoCap,
    Usages,          \* what an answer may report: records of tokens and usd
    Unknown,         \* null: the answer did not say, or the model has no price
    Policies,        \* window anchoring: records of anchor and sessions
    KeyCount,        \* keys of the provider, numbered from 0 as in keyStates
    Cooldown         \* createKeyRotator's cooldownMs

Requests == 1..MaxRequests
Keys == 0..KeyCount - 1
NoKey == -1
Windows == {"5h", "week"}
Span(w) == IF w = "5h" THEN FiveHours ELSE Week
NoAnchor == -1
NoRow == [ts |-> -1, tokens |-> Unknown, usd |-> Unknown]

ASSUME GatewayAssumption ==
    /\ MaxRequests \in Nat /\ MaxTime \in Nat
    /\ FiveHours \in Nat \ {0} /\ Week \in Nat \ {0} /\ FiveHours <= Week
    /\ KeyCount \in Nat \ {0} /\ Cooldown \in Nat \ {0}
    /\ TokenCap \in [Windows -> Nat \cup {NoCap}]
    /\ Usages \subseteq [tokens : Nat \cup {Unknown}, usd : Nat \cup {Unknown}]
    /\ \E u \in Usages : /\ u.tokens # Unknown
                         /\ \A v \in Usages : v.tokens # Unknown => v.tokens <= u.tokens
    /\ \A policy \in Policies : policy.anchor \in Int

VARIABLES
    gwNow,      \* the clock
    budgetPolicy, \* the anchoring policy the gate reads
    arrived,    \* requests that have arrived
    request,    \* each request: its stage, how it ended, the key it was given
    events,     \* token events emitted for each request
    ledger,     \* the row of each request, or NoRow
    keyState,   \* the rotator: status and end of cooldown of each key
    keyIndex,   \* the rotator's next position
    admittedAt, \* history: when each request was admitted, -1 if it was not
    overlap     \* history: requests in flight at that moment

gatewayVars == <<gwNow, budgetPolicy, arrived, request, events, ledger, keyState,
                 keyIndex, admittedAt, overlap>>

Stages == {"idle", "body", "upstream", "streaming", "reading", "done"}
Outcomes == {"none", "paused", "unknown_token", "no_route", "exhausted", "denied",
             "client_gone", "upstream_failed", "upstream_cut", "unparsable",
             "answered"}
InFlight == {r \in Requests : request[r].stage \notin {"idle", "done"}}

---------------------------------------------------------------------------
(* The windows over the ledger.                                            *)

\* The sums of the amounts of the first requests: none, one, up to all.
RunningTotal(amounts) ==
    LET total[r \in 0..MaxRequests] == IF r = 0 THEN 0 ELSE total[r - 1] + amounts[r]
    IN total

\* The known amounts of a measure in the rows stamped within from..to; an unknown
\* amount is left out, never counted as a number.
Amounts(measure, from, to) ==
    [r \in Requests |-> IF ledger[r].ts \in from..to /\ ledger[r][measure] # Unknown
                        THEN ledger[r][measure] ELSE 0]

Used(measure, from, to) == RunningTotal(Amounts(measure, from, to))[MaxRequests]

AtCap_above(used, cap) == cap # NoCap /\ used > cap
AtCap(used, cap) == cap # NoCap /\ used >= cap

\* windows.mjs: the trailing windows end at the present, tokens or cost.
Deny == \E w \in Windows :
           \/ AtCap(Used("tokens", gwNow - Span(w), gwNow), TokenCap[w])
           \/ AtCap(Used("usd", gwNow - Span(w), gwNow), CostCap[w])

\* budget.mjs: the latest boundary of the plan's week, or a trailing week.
WeekStart_stuck == IF budgetPolicy.anchor = NoAnchor THEN gwNow - Week
                   ELSE budgetPolicy.anchor
WeekStart ==
    IF budgetPolicy.anchor = NoAnchor THEN gwNow - Week
    ELSE budgetPolicy.anchor + ((gwNow - budgetPolicy.anchor) \div Week) * Week

\* The activity-anchored session: the first row opens a window, the first row
\* after its end opens the next.
NextSession(t, before) ==
    IF /\ \E r \in Requests : ledger[r].ts = t
       /\ before = -1 \/ t >= before + FiveHours
    THEN t ELSE before
SessionOpenedAt ==
    LET open[t \in -1..gwNow] == IF t = -1 THEN -1 ELSE NextSession(t, open[t - 1])
    IN open[gwNow]

FiveHourStart ==
    IF ~budgetPolicy.sessions THEN gwNow - FiveHours
    ELSE IF SessionOpenedAt # -1 /\ gwNow < SessionOpenedAt + FiveHours
         THEN SessionOpenedAt
         ELSE gwNow + 1

\* The runner's gate sums rows stamped strictly before now, and knows tokens only.
GateHalt ==
    \/ AtCap(Used("tokens", FiveHourStart, gwNow - 1), TokenCap["5h"])
    \/ AtCap(Used("tokens", WeekStart, gwNow - 1), TokenCap["week"])

---------------------------------------------------------------------------
(* The key rotator.                                                        *)

Usable(k) == keyState[k].status = "active" \/ keyState[k].until <= gwNow

\* The first usable key from keyIndex on, round robin.
Chosen == (keyIndex + Min({i \in Keys : Usable((keyIndex + i) % KeyCount)})) % KeyCount

selectKey ==
    /\ keyIndex' = (Chosen + 1) % KeyCount
    /\ keyState' = [keyState EXCEPT ![Chosen] = [status |-> "active", until |-> 0]]

markKeyFailed(k) ==
    keyState' = [keyState EXCEPT ![k] = [status |-> "failed",
                                         until |-> gwNow + Cooldown]]
markKeySuccess(k) ==
    keyState' = [keyState EXCEPT ![k] = [status |-> "active", until |-> 0]]

---------------------------------------------------------------------------
GatewayInit ==
    /\ gwNow = 0
    /\ budgetPolicy \in Policies
    /\ arrived = 0
    /\ request = [r \in Requests |-> [stage |-> "idle", outcome |-> "none", key |-> NoKey]]
    /\ events = [r \in Requests |-> 0]
    /\ ledger = [r \in Requests |-> NoRow]
    /\ keyState = [k \in Keys |-> [status |-> "active", until |-> 0]]
    /\ keyIndex = 0
    /\ admittedAt = [r \in Requests |-> -1]
    /\ overlap = [r \in Requests |-> 0]

\* emitEvent and appendEvent: one event; the insert is best effort, so the row
\* may be missing from the ledger.
Emit(r, usage) ==
    /\ events' = [events EXCEPT ![r] = @ + 1]
    /\ \E kept \in BOOLEAN :
          ledger' = [ledger EXCEPT ![r] =
              IF kept THEN [ts |-> gwNow, tokens |-> usage.tokens, usd |-> usage.usd]
              ELSE @]

NoUsage == [tokens |-> Unknown, usd |-> Unknown]

\* A request that has gone on, to a stage or to its end.
GoesOn(r, stage, outcome, key) ==
    request' = [request EXCEPT ![r] = [stage |-> stage, outcome |-> outcome, key |-> key]]
End(r, outcome) == GoesOn(r, "done", outcome, request[r].key)

\* The refusals before the verdict emit nothing.  The pause, the run registry and
\* the registry of routes belong to the dashboard, the launcher and the pull: a
\* request may find each of them either way.
Refuse(r) ==
    /\ \/ End(r, "paused")
       \/ End(r, "unknown_token")
       \/ End(r, "no_route")
       \/ (\A k \in Keys : ~Usable(k)) /\ End(r, "exhausted")
    /\ UNCHANGED <<events, ledger, keyState, keyIndex, admittedAt, overlap>>

DenyRequest(r) ==
    /\ \E k \in Keys : Usable(k)
    /\ Deny /\ selectKey /\ Emit(r, NoUsage) /\ End(r, "denied")
    /\ UNCHANGED <<admittedAt, overlap>>

Admit(r) ==
    /\ \E k \in Keys : Usable(k)
    /\ ~Deny /\ selectKey
    /\ GoesOn(r, "body", "none", Chosen)
    /\ admittedAt' = [admittedAt EXCEPT ![r] = gwNow]
    /\ overlap' = [overlap EXCEPT ![r] = Cardinality(InFlight)]
    /\ UNCHANGED <<events, ledger>>

Arrive(r) ==
    /\ r = arrived + 1 /\ arrived' = r
    /\ Refuse(r) \/ DenyRequest(r) \/ Admit(r)
    /\ UNCHANGED <<gwNow, budgetPolicy>>

Elsewhere == UNCHANGED <<gwNow, budgetPolicy, arrived, keyIndex, admittedAt, overlap>>

\* The body has been read, translated and sent on; or the client hung up, and
\* the catch of the server answers without an event.
BodyRead(r) ==
    /\ request[r].stage = "body"
    /\ \/ GoesOn(r, "upstream", "none", request[r].key)
       \/ End(r, "client_gone")
    /\ UNCHANGED <<events, ledger, keyState>> /\ Elsewhere

UpstreamFails_unmetered(r) ==
    /\ request[r].stage = "upstream"
    /\ markKeyFailed(request[r].key)
    /\ End(r, "upstream_failed")
    /\ UNCHANGED <<events, ledger>> /\ Elsewhere
UpstreamFails(r) ==
    /\ request[r].stage = "upstream"
    /\ markKeyFailed(request[r].key)
    /\ Emit(r, NoUsage) /\ End(r, "upstream_failed")
    /\ Elsewhere

\* The headers of the answer: the key is judged by the status before the rest.
UpstreamAnswers(r, status) ==
    /\ request[r].stage = "upstream"
    /\ CASE status = "401" -> markKeyFailed(request[r].key)
         [] status = "below500" -> markKeySuccess(request[r].key)
         [] status = "5xx" -> UNCHANGED keyState
    /\ \E stage \in {"streaming", "reading"} : GoesOn(r, stage, "none", request[r].key)
    /\ UNCHANGED <<events, ledger>> /\ Elsewhere

\* The end of a stream or its error: metered once with what was captured.
StreamEnds(r) ==
    /\ request[r].stage = "streaming"
    /\ \E usage \in Usages \cup {NoUsage} : Emit(r, usage)
    /\ End(r, "answered")
    /\ UNCHANGED keyState /\ Elsewhere

\* A buffered answer: parsed and metered, unparsable and metered without usage,
\* or cut off, which throws past the metering.
AnswerRead(r) ==
    /\ request[r].stage = "reading"
    /\ \/ /\ \E usage \in Usages \cup {NoUsage} : Emit(r, usage)
          /\ End(r, "answered")
       \/ Emit(r, NoUsage) /\ End(r, "unparsable")
       \/ End(r, "upstream_cut") /\ UNCHANGED <<events, ledger>>
    /\ UNCHANGED keyState /\ Elsewhere

GatewayClock ==
    /\ gwNow < MaxTime /\ gwNow' = gwNow + 1
    /\ UNCHANGED <<budgetPolicy, arrived, request, events, ledger, keyState, keyIndex,
                   admittedAt, overlap>>

GatewayNext ==
    \/ \E r \in Requests :
          \/ Arrive(r)
          \/ BodyRead(r)
          \/ UpstreamFails(r)
          \/ \E status \in {"401", "below500", "5xx"} : UpstreamAnswers(r, status)
          \/ StreamEnds(r)
          \/ AnswerRead(r)
    \/ GatewayClock

GatewaySpec == GatewayInit /\ [][GatewayNext]_gatewayVars

---------------------------------------------------------------------------
GatewayTypeOK ==
    /\ gwNow \in 0..MaxTime
    /\ arrived \in 0..MaxRequests
    /\ request \in [Requests -> [stage : Stages, outcome : Outcomes, key : Keys \cup {NoKey}]]
    /\ events \in [Requests -> Nat]
    /\ \A r \in Requests : ledger[r] = NoRow \/ ledger[r].ts \in 0..gwNow
    /\ keyState \in [Keys -> [status : {"active", "failed"}, until : 0..MaxTime + Cooldown]]
    /\ keyIndex \in Keys
    /\ admittedAt \in [Requests -> -1..MaxTime] /\ overlap \in [Requests -> 0..MaxRequests]

\* Metering (server.mjs:24-26): an answered, failed, unparsable or denied
\* request emits exactly one event, on whichever of the paths it ended; only the
\* ends before the verdict, a client that hangs up and an answer cut off midway
\* emit none.
MeteredOnce ==
    \A r \in Requests :
        events[r] = IF request[r].outcome \in
                        {"denied", "upstream_failed", "unparsable", "answered"}
                    THEN 1 ELSE 0

\* A cap can be overrun by the requests in flight at the last admission and by
\* the admitted one, each by at most one answer's tokens, and by nothing else
\* (server.mjs:652 judges a request by the rows of those that have ended).
MostTokens == Max({u.tokens : u \in {v \in Usages : v.tokens # Unknown}})
OverrunBounded ==
    \A r \in Requests, w \in Windows :
        admittedAt[r] # -1 /\ TokenCap[w] # NoCap =>
            RunningTotal(Amounts("tokens", admittedAt[r] - Span(w), gwNow))[r]
              < TokenCap[w] + MostTokens * (overlap[r] + 1)

\* The two readers of the ledger never disagree in the unsafe direction: while
\* the runner's gate refuses new work because of a cap (budget.mjs:204-233), the
\* gateway refuses the requests of the work in flight (windows.mjs:30-57),
\* however the gate's windows are anchored.
GateHaltMeansDeny == GateHalt => Deny
=============================================================================
