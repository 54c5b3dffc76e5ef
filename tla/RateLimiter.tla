---------------------------- MODULE RateLimiter ----------------------------
(***************************************************************************)
(* The sliding window that limits what one API key may ask of the REST API *)
(* (api/rate-limiter.mjs), as the router puts it before every request that *)
(* shows a valid key (api/v1/router.mjs:182-195).  It lives in memory.     *)
(*                                                                         *)
(* Instants are fractions of a second, PerSecond of them; what a refused   *)
(* caller is told is in whole seconds.                                     *)
(***************************************************************************)
EXTENDS Integers, Sequences

CONSTANTS
    LimitedKeys,
    RequestLimit,  \* limit
    WindowLength,  \* windowMs
    PerSecond,
    RateTime       \* bound: the clock's last instant

ASSUME RateAssumption ==
    RequestLimit \in Nat \ {0} /\ WindowLength \in Nat \ {0} /\ PerSecond \in Nat \ {0}
    /\ RateTime \in Nat

NoPromise == -1

VARIABLES
    rateNow,
    requestLog,   \* requestLog: per key, the instants within its window
    admitted,     \* history: per key, the instants of every request let through
    promised      \* history: per key, when a refused caller was told to come back

rateVars == <<rateNow, requestLog, admitted, promised>>

RateInit ==
    /\ rateNow = 0
    /\ requestLog = [k \in LimitedKeys |-> <<>>]
    /\ admitted = [k \in LimitedKeys |-> <<>>]
    /\ promised = [k \in LimitedKeys |-> NoPromise]

---------------------------------------------------------------------------
CeilDiv(a, b) == (a + b - 1) \div b
AtLeastOne(n) == IF n < 1 THEN 1 ELSE n

\* The instants of a log are in order: those after the start of the window are its end.
Since(log, windowStart) ==
    LET before == CHOOSE n \in 0..Len(log) : \A i \in DOMAIN log : log[i] > windowStart <=> i > n
    IN SubSeq(log, before + 1, Len(log))

withinWindow_newest(k) == Since(requestLog[k], rateNow - WindowLength + 1)
withinWindow(k) == Since(requestLog[k], rateNow - WindowLength)

retryAfter_newest(within) ==
    AtLeastOne((within[1] + WindowLength - rateNow) \div PerSecond)
retryAfter(within) ==
    AtLeastOne(CeilDiv(within[1] + WindowLength - rateNow, PerSecond))

\* A promise is void once the caller has been let in.
check(k) ==
    LET within == withinWindow(k)
    IN /\ IF Len(within) >= RequestLimit
          THEN /\ requestLog' = [requestLog EXCEPT ![k] = within]
               /\ promised' = [promised EXCEPT ![k] = rateNow + retryAfter(within) * PerSecond]
               /\ UNCHANGED admitted
          ELSE /\ requestLog' = [requestLog EXCEPT ![k] = Append(within, rateNow)]
               /\ admitted' = [admitted EXCEPT ![k] = Append(@, rateNow)]
               /\ promised' = [promised EXCEPT ![k] = NoPromise]
       /\ UNCHANGED rateNow

\* The process starts anew and remembers nobody.
LimiterRestarts ==
    /\ \E k \in LimitedKeys : requestLog[k] # <<>>
    /\ requestLog' = [k \in LimitedKeys |-> <<>>]
    /\ admitted' = [k \in LimitedKeys |-> <<>>]
    /\ promised' = [k \in LimitedKeys |-> NoPromise]
    /\ UNCHANGED rateNow

RateClock ==
    /\ rateNow < RateTime /\ rateNow' = rateNow + 1
    /\ UNCHANGED <<requestLog, admitted, promised>>

RateNext == (\E k \in LimitedKeys : check(k)) \/ LimiterRestarts \/ RateClock

RateSpec == RateInit /\ [][RateNext]_rateVars

---------------------------------------------------------------------------
RateTypeOK ==
    /\ rateNow \in 0..RateTime
    /\ requestLog \in [LimitedKeys -> Seq(0..RateTime)]
    /\ admitted \in [LimitedKeys -> Seq(0..RateTime)]
    /\ promised \in [LimitedKeys -> {NoPromise} \cup (0..(RateTime + WindowLength + PerSecond))]

\* Any RequestLimit + 1 requests of one key that are let through in one life of the process
\* span a window at least (api/rate-limiter.mjs:34-47).
RateKept ==
    \A k \in LimitedKeys : \A i \in 1..(Len(admitted[k]) - RequestLimit) :
        admitted[k][i + RequestLimit] >= admitted[k][i] + WindowLength

\* Who was refused and comes back when told to, and was the only one to use the key, is let
\* in (api/rate-limiter.mjs:36-46): the rounding never sends a caller back too early.
RetryHonoured ==
    \A k \in LimitedKeys :
        promised[k] # NoPromise /\ rateNow >= promised[k] => Len(withinWindow(k)) < RequestLimit
=============================================================================
