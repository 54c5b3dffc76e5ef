---------------------------- MODULE Providers ----------------------------
(***************************************************************************)
(* What the choice of a model rests on: the circuit breaker of             *)
(* model-fallback.mjs with the requests that use it and the fallback       *)
(* through tiers of model-router.mjs.  Requests overlap: an answer may     *)
(* arrive long after other answers have changed the state it bears on.     *)
(***************************************************************************)
EXTENDS Integers, FiniteSets, FiniteSetsExt

CONSTANTS
    Tiers,        \* sequence of sets of models, the candidates of weight above 0
    ModelCalls,   \* bound: requests in flight together
    PrTime,       \* bound: the clock stops here
    OpenFor,      \* the five minutes a circuit stays open
    DEGRADE_AT, OPEN_AT   \* failures in a row: 2 and 5 in the code

ASSUME ProvidersAssumption ==
    /\ PrTime \in Nat /\ OpenFor \in Nat
    /\ DEGRADE_AT \in Nat /\ OPEN_AT \in Nat

Models == UNION {Tiers[i] : i \in DOMAIN Tiers}
Never == -1

VARIABLES
    prNow,
    entry,       \* the breaker's map: state, failureCount, cooldownUntil
    modelCall,   \* each request: the model it waits for or "none", those attempted
    openedAt     \* history: when a failure last left the circuit open

providersVars == <<prNow, entry, modelCall, openedAt>>

Untracked == [state |-> "healthy", failureCount |-> 0, cooldownUntil |-> Never]
IdleCall == [model |-> "none", attempted |-> {}]

ProvidersInit ==
    /\ prNow = 0
    /\ entry = [m \in Models |-> Untracked]
    /\ modelCall = [c \in ModelCalls |-> IdleCall]
    /\ openedAt = [m \in Models |-> Never]

---------------------------------------------------------------------------
(* The circuit breaker.                                                    *)

\* An open circuit without a cooldown, which a late success leaves, never closes.
isAvailable(m) ==
    \/ entry[m].state # "circuit_open"
    \/ entry[m].cooldownUntil # Never /\ prNow >= entry[m].cooldownUntil

recordSuccess_heals(m) ==
    entry' = [entry EXCEPT ![m] = Untracked]
recordSuccess(m) ==
    entry' = [entry EXCEPT ![m] =
        [state |-> IF @.state = "degraded" THEN "healthy" ELSE @.state,
         failureCount |-> 0, cooldownUntil |-> Never]]

Opens(m, failures) ==
    /\ entry' = [entry EXCEPT ![m] = [state |-> "circuit_open", failureCount |-> failures,
                                      cooldownUntil |-> prNow + OpenFor]]
    /\ openedAt' = [openedAt EXCEPT ![m] = prNow]

\* A refused key opens at once; another client error counts for nothing; a server
\* error, a timeout or a broken connection counts.
recordFailure(m, kind) ==
    LET failures == entry[m].failureCount + 1 IN
    CASE kind = "auth" -> Opens(m, entry[m].failureCount)
      [] kind = "client" -> UNCHANGED <<entry, openedAt>>
      [] kind = "server" /\ failures >= OPEN_AT -> Opens(m, failures)
      [] OTHER ->
            /\ entry' = [entry EXCEPT ![m] =
                   [state |-> IF failures >= DEGRADE_AT /\ @.state = "healthy"
                              THEN "degraded" ELSE @.state,
                    failureCount |-> failures, cooldownUntil |-> @.cooldownUntil]]
            /\ UNCHANGED openedAt

---------------------------------------------------------------------------
(* Requests: resolveModelWithFallback, then the answer.                    *)

Available(i, attempted) == {m \in Tiers[i] \ attempted : isAvailable(m)}

\* The candidates of the first tier that has any left.
Resolved(attempted) ==
    {m \in Models : \E i \in DOMAIN Tiers :
        /\ m \in Available(i, attempted)
        /\ \A j \in 1..i - 1 : Available(j, attempted) = {}}

resolveModelWithFallback(c) ==
    /\ modelCall[c].model = "none"
    /\ \E m \in Resolved(modelCall[c].attempted) :
          modelCall' = [modelCall EXCEPT ![c] = [model |-> m, attempted |-> @.attempted \cup {m}]]
    /\ UNCHANGED <<prNow, entry, openedAt>>

\* AllModelsExhaustedError: the request fails, and the caller starts the next.
Exhausted(c) ==
    /\ modelCall[c].model = "none" /\ modelCall[c].attempted # {}
    /\ Resolved(modelCall[c].attempted) = {}
    /\ modelCall' = [modelCall EXCEPT ![c] = IdleCall]
    /\ UNCHANGED <<prNow, entry, openedAt>>

AnswerOk(c) ==
    /\ modelCall[c].model # "none"
    /\ recordSuccess(modelCall[c].model)
    /\ modelCall' = [modelCall EXCEPT ![c] = IdleCall]
    /\ UNCHANGED <<prNow, openedAt>>

\* The request goes on to another model, those it has attempted left out.
AnswerFails(c, kind) ==
    /\ modelCall[c].model # "none"
    /\ recordFailure(modelCall[c].model, kind)
    /\ modelCall' = [modelCall EXCEPT ![c] = [model |-> "none", attempted |-> @.attempted]]
    /\ UNCHANGED <<prNow>>

\* reset: the model is forgotten.
reset(m) ==
    /\ entry' = [entry EXCEPT ![m] = Untracked]
    /\ openedAt' = [openedAt EXCEPT ![m] = Never]
    /\ UNCHANGED <<prNow, modelCall>>

PrClock ==
    /\ prNow < PrTime /\ prNow' = prNow + 1
    /\ UNCHANGED <<entry, modelCall, openedAt>>

ProvidersNext ==
    \/ \E c \in ModelCalls :
          \/ resolveModelWithFallback(c) \/ Exhausted(c) \/ AnswerOk(c)
          \/ \E kind \in {"auth", "client", "server"} : AnswerFails(c, kind)
    \/ \E m \in Models : reset(m)
    \/ PrClock

ProvidersSpec == ProvidersInit /\ [][ProvidersNext]_providersVars

---------------------------------------------------------------------------
ProvidersTypeOK ==
    /\ prNow \in 0..PrTime
    /\ \A m \in Models :
          /\ entry[m].state \in {"healthy", "degraded", "circuit_open"}
          /\ entry[m].failureCount \in Nat
          /\ entry[m].cooldownUntil \in {Never} \cup OpenFor..PrTime + OpenFor
          /\ entry[m].state = "degraded" => entry[m].failureCount \in DEGRADE_AT..OPEN_AT - 1
    /\ \A c \in ModelCalls : /\ modelCall[c].attempted \subseteq Models
                             /\ modelCall[c].model \in modelCall[c].attempted \cup {"none"}

\* A model whose circuit a failure has opened is given to no request before the
\* cooldown that failure started is over, whatever answers of requests admitted
\* earlier arrive meanwhile (model-fallback.mjs:16-17, :99-112).
CooldownHolds ==
    \A m \in Models :
        isAvailable(m) => openedAt[m] = Never \/ prNow >= openedAt[m] + OpenFor
=============================================================================
