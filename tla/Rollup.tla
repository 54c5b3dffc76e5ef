------------------------------- MODULE Rollup ------------------------------
(***************************************************************************)
(* The hourly and daily summaries of the ledger (aggregation.mjs) that the *)
(* daemon brings up to date at intervals (scheduler.mjs:550-607), while    *)
(* the gateway, a process of its own, goes on appending events.  Each      *)
(* summary row is written in a transaction; a pass is several of them, and *)
(* the daemon may die between two.                                         *)
(*                                                                         *)
(* An event is counted where its cost is known; the others are passed over *)
(* and left out.  One provider, model, agent and task stand for them all.  *)
(***************************************************************************)
EXTENDS Integers, FiniteSets, FiniteSetsExt

CONSTANTS
    Hours,         \* bound: the clock's last hour; they start at 1
    HoursPerDay,
    MaxPerHour,    \* bound: events of an hour
    MaxPassDeaths  \* bound: deaths of the daemon in a pass

ASSUME RollupAssumption == Hours \in Nat \ {0} /\ HoursPerDay \in Nat \ {0}

NoCount == -1
NoHour == 0
Day(h) == (h - 1) \div HoursPerDay + 1
DaySet == {Day(h) : h \in 1..Hours}

VARIABLES
    hour,        \* the clock
    spent,       \* token_events: how many in each hour
    hourly,      \* analytics_hourly: the count of each hour, NoCount before
    daily,       \* analytics_daily
    pass,        \* the daemon's pass: step, the hour it began from, what is left
    passDeaths,
    passFrom,    \* history: the hour in which the last complete pass began
    overlooked   \* history: hours with an event since the pass counted them again

rollupVars == <<hour, spent, hourly, daily, pass, passDeaths, passFrom, overlooked>>

NoPass == [step |-> "idle", began |-> NoHour, last |-> NoHour, todo |-> {}, any |-> FALSE]

RollupInit ==
    /\ hour = 1
    /\ spent = [h \in 1..Hours |-> 0]
    /\ hourly = [h \in 1..Hours |-> NoCount]
    /\ daily = [d \in DaySet |-> NoCount]
    /\ pass = NoPass
    /\ passDeaths = 0 /\ passFrom = NoHour /\ overlooked = {}

---------------------------------------------------------------------------
Others == UNCHANGED <<hour, spent, passDeaths>>

HourPasses ==
    /\ hour < Hours /\ hour' = hour + 1
    /\ UNCHANGED <<spent, hourly, daily, pass, passDeaths, passFrom, overlooked>>

\* The gateway stamps an event and appends it (gateway/index.mjs:76).
AppendSpend ==
    /\ spent[hour] < MaxPerHour
    /\ spent' = [spent EXCEPT ![hour] = @ + 1]
    /\ overlooked' = IF pass.step = "listing" /\ pass.last = hour
                     THEN overlooked \cup {hour} ELSE overlooked
    /\ UNCHANGED <<hour, hourly, daily, pass, passDeaths, passFrom>>

\* INSERT OR REPLACE, where the hour has events.
aggregateHour(h) ==
    /\ hourly' = IF spent[h] > 0 THEN [hourly EXCEPT ![h] = spent[h]] ELSE hourly
    /\ overlooked' = overlooked \ {h}

Greatest(S) == CHOOSE x \in S \cup {0} : \A y \in S : y <= x

getLastAggregatedHour == Greatest({h \in 1..Hours : hourly[h] # NoCount})
getLastAggregatedDay == Greatest({d \in DaySet : daily[d] # NoCount})

\* A pass begins: the last hour it has a row of is counted again, for what came late.
Recount_not(h) == UNCHANGED <<hourly, overlooked>>
Recount(h) == IF h = NoHour THEN UNCHANGED <<hourly, overlooked>> ELSE aggregateHour(h)

aggregatePendingWindows ==
    /\ pass.step = "idle"
    /\ Recount(getLastAggregatedHour)
    /\ pass' = [NoPass EXCEPT !.step = "listing", !.began = hour,
                              !.last = getLastAggregatedHour]
    /\ UNCHANGED <<daily, passFrom>> /\ Others

ListHours ==
    /\ pass.step = "listing"
    /\ LET pending == {h \in 1..Hours : h > pass.last /\ spent[h] > 0}
       IN pass' = [pass EXCEPT !.step = "hours", !.todo = pending, !.any = pending # {}]
    /\ UNCHANGED <<hourly, daily, passFrom, overlooked>> /\ Others

\* The hours, and the days, are gone through in order.
IsNext(h) == \A other \in pass.todo : h <= other

AggregateNextHour ==
    /\ pass.step = "hours"
    /\ \E h \in pass.todo : /\ IsNext(h)
                            /\ aggregateHour(h) /\ pass' = [pass EXCEPT !.todo = @ \ {h}]
    /\ UNCHANGED <<daily, passFrom>> /\ Others

\* Days are looked for where an hour was pending: those after the last day that has a
\* row, the day that is not over included.
ListDays ==
    /\ pass.step = "hours" /\ pass.todo = {} /\ pass.any
    /\ LET pending == {Day(h) : h \in {x \in 1..Hours : /\ hourly[x] # NoCount
                                                       /\ Day(x) > getLastAggregatedDay}}
       IN pass' = [pass EXCEPT !.step = "days", !.todo = pending]
    /\ UNCHANGED <<hourly, daily, passFrom, overlooked>> /\ Others

\* The sum over the day's hourly rows.
DaySum(d) == LET rows == {h \in 1..Hours : Day(h) = d /\ hourly[h] # NoCount}
             IN FoldSet(LAMBDA h, sum : hourly[h] + sum, 0, rows)

aggregateDay ==
    /\ pass.step = "days"
    /\ \E d \in pass.todo : /\ IsNext(d)
                            /\ daily' = [daily EXCEPT ![d] = DaySum(d)]
                            /\ pass' = [pass EXCEPT !.todo = @ \ {d}]
    /\ UNCHANGED <<hourly, passFrom, overlooked>> /\ Others

PassEnds ==
    /\ pass.step \in {"hours", "days"} /\ pass.todo = {}
    /\ pass.step = "hours" => ~pass.any
    /\ pass' = NoPass /\ passFrom' = pass.began
    /\ UNCHANGED <<hourly, daily, overlooked>> /\ Others

PassDies ==
    /\ pass.step # "idle"
    /\ passDeaths < MaxPassDeaths /\ passDeaths' = passDeaths + 1
    /\ pass' = NoPass
    /\ UNCHANGED <<hour, spent, hourly, daily, passFrom, overlooked>>

RollupNext ==
    \/ HourPasses \/ AppendSpend
    \/ aggregatePendingWindows \/ ListHours \/ AggregateNextHour
    \/ ListDays \/ aggregateDay \/ PassEnds \/ PassDies

RollupSpec == RollupInit /\ [][RollupNext]_rollupVars

---------------------------------------------------------------------------
RollupTypeOK ==
    /\ \A h \in 1..Hours : hourly[h] # NoCount => hourly[h] \in 1..spent[h] /\ h <= hour
    /\ passFrom <= hour /\ overlooked \subseteq 1..Hours

\* Once a pass has gone through, the summary of every hour that was over when it began
\* is what the ledger holds, whatever came late and whichever pass died before
\* (aggregation.mjs:179-184, 166-168).  The code leaves one way out: an event recorded
\* after the pass counted the last hour again and before it lists the hours after it,
\* the next of them having begun.
HourlyExact ==
    \A h \in 1..Hours :
        h < passFrom /\ h \notin overlooked =>
            spent[h] = (IF hourly[h] = NoCount THEN 0 ELSE hourly[h])
=============================================================================
