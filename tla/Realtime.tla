----------------------------- MODULE Realtime ------------------------------
(***************************************************************************)
(* How an open page learns of changes: the broker of the dashboard's       *)
(* process (dashboard/operational-events.mjs), which numbers the events it *)
(* publishes and keeps the last few for streams that come back, and the    *)
(* page's coordinator (dashboard/app/shared/realtime-coordinator.mjs) with *)
(* its event source, its polling timer and the refetches it asks for.      *)
(*                                                                         *)
(* stale stands for the data the page shows: an event in the page's scope  *)
(* announces that they have changed, a refetch brings them up to date.     *)
(***************************************************************************)
EXTENDS Integers, Sequences

CONSTANTS
    MaxSequence,      \* bound: ids given out in a life of the process
    maxEvents,        \* events the broker keeps
    MaxBrokers,       \* bound: lives of the dashboard's process
    failureThreshold,
    MaxFailures       \* bound: times a stream breaks or is refused

ASSUME RealtimeAssumption == maxEvents \in Nat \ {0} /\ failureThreshold \in Nat \ {0}

NoId == 0
NoSource == [state |-> "closed", cursor |-> NoId, chan |-> {}]

VARIABLES
    stale,        \* something has changed since the page last asked for its data
    brokers, failed,   \* the counters that are bounded
    sequence,     \* the id given last
    buffer,       \* the broker's events: id, and whether in the page's scope
    source,       \* the event source: its state, own cursor, the ids on their way in order
    lastEventId,  \* the coordinator's cursor
    cursorLife,   \* history: the broker's life in which that id was issued
    failures,     \* consecutive
    mode,         \* polling, streaming (or reconnecting), paused
    busy,         \* hasPendingMutation
    dropped       \* history: an event since came while a mutation was pending

realtimeVars == <<stale, brokers, failed, sequence, buffer, source, lastEventId,
                  cursorLife, failures, mode, busy, dropped>>

RealtimeInit ==
    /\ brokers = 1 /\ failed = 0
    /\ sequence = 0 /\ buffer = <<>>
    /\ source = NoSource
    /\ lastEventId = NoId /\ cursorLife = 1 /\ failures = 0
    /\ mode = "polling" /\ busy = FALSE
    /\ stale = FALSE /\ dropped = FALSE

---------------------------------------------------------------------------
(* The broker.                                                             *)

ServerSide == UNCHANGED <<lastEventId, cursorLife, failures, mode, busy, dropped, failed>>

Kept_oneMore(events) == IF Len(events) > maxEvents + 1 THEN Tail(events) ELSE events
Kept(events) == IF Len(events) > maxEvents THEN Tail(events) ELSE events

\* An event of another scope takes a number and a place in the buffer too.
publish(ours) ==
    /\ sequence < MaxSequence
    /\ sequence' = sequence + 1
    /\ stale' = (stale \/ ours)
    /\ buffer' = Kept(Append(buffer, [id |-> sequence + 1, ours |-> ours]))
    /\ source' = IF ours /\ source.state = "open"
                 THEN [source EXCEPT !.chan = @ \cup {sequence + 1}] ELSE source
    /\ UNCHANGED brokers /\ ServerSide

\* A stream is opened: what followed its cursor is sent again; a cursor the buffer
\* does not hold gets a reset, which takes a number but no place in the buffer.
Reset == sequence + 1

After(cursor) == {buffer[i].id : i \in {j \in DOMAIN buffer : buffer[j].ours /\ buffer[j].id > cursor}}

Missed_resetless(cursor) == IF cursor = NoId THEN {} ELSE After(cursor)
Missed(cursor) ==
    CASE cursor = NoId -> {}
      [] \E i \in DOMAIN buffer : buffer[i].id = cursor -> After(cursor)
      [] OTHER -> {Reset}

subscribe ==
    /\ source.state = "connecting"
    /\ LET missed == Missed(source.cursor) IN
          /\ source' = [source EXCEPT !.state = "open", !.chan = missed]
          /\ sequence' = IF missed = {Reset} THEN Reset ELSE sequence
    /\ sequence' <= MaxSequence
    /\ failures' = 0
    /\ UNCHANGED <<stale, brokers, failed, buffer, lastEventId, cursorLife, mode, busy, dropped>>

\* The process dies with its numbers and its buffer; an open stream breaks.
DashboardDies ==
    /\ brokers < MaxBrokers /\ brokers' = brokers + 1
    /\ sequence' = 0 /\ buffer' = <<>>
    /\ source' = IF source.state = "open" THEN [source EXCEPT !.state = "broken", !.chan = {}]
                 ELSE source
    /\ UNCHANGED stale /\ ServerSide

---------------------------------------------------------------------------
(* The page.                                                               *)

PageSide == UNCHANGED <<brokers, sequence, buffer>>

Visible == mode # "paused"

\* refreshScoped: nothing while the tab is hidden or a mutation is pending.
refreshScoped(because) ==
    /\ stale' = (stale /\ busy)
    /\ dropped' = IF ~busy THEN FALSE ELSE because \/ dropped

startStream ==
    /\ mode' = "streaming" /\ failures' = 0
    /\ source' = [state |-> "connecting", cursor |-> lastEventId, chan |-> {}]

startPolling == mode' = "polling" /\ source' = NoSource /\ UNCHANGED failures

setRealtime ==
    /\ Visible
    /\ startStream \/ startPolling
    /\ UNCHANGED <<lastEventId, cursorLife, failed, busy, stale, dropped>> /\ PageSide

Hide ==
    /\ Visible
    /\ mode' = "paused" /\ source' = NoSource
    /\ UNCHANGED <<lastEventId, cursorLife, failures, failed, busy, stale, dropped>>
    /\ PageSide

\* What is asked for first is the data, then the stream.
Show ==
    /\ mode = "paused"
    /\ refreshScoped(FALSE)
    /\ startStream \/ startPolling
    /\ UNCHANGED <<lastEventId, cursorLife, failed, busy>> /\ PageSide

\* The timer while polling, the button always.
Poll ==
    /\ Visible /\ refreshScoped(FALSE)
    /\ UNCHANGED <<source, lastEventId, cursorLife, failures, failed, mode, busy>>
    /\ PageSide

\* acceptEvent: an id not above the last one is passed over, a reset's too.
Passed(id) == lastEventId # NoId /\ id <= lastEventId

Receive ==
    /\ source.state = "open"
    /\ \E id \in source.chan :
          /\ \A later \in source.chan : id <= later
          /\ source' = [source EXCEPT !.chan = @ \ {id}, !.cursor = id]
          /\ IF Passed(id)
             THEN UNCHANGED <<lastEventId, cursorLife, stale, dropped>>
             ELSE /\ lastEventId' = id /\ cursorLife' = brokers
                  /\ refreshScoped(TRUE)
    /\ UNCHANGED <<failures, failed, mode, busy>> /\ PageSide

\* The stream breaks, or a connection cannot be made: the event source tries again
\* by itself until the third failure in a row.
Break ==
    /\ source.state \in {"connecting", "open", "broken"}
    /\ failed < MaxFailures /\ failed' = failed + 1
    /\ failures' = failures + 1
    /\ IF failures + 1 >= failureThreshold
       THEN mode' = "polling" /\ source' = NoSource
       ELSE mode' = mode /\ source' = [source EXCEPT !.state = "connecting", !.chan = {}]
    /\ UNCHANGED <<lastEventId, cursorLife, busy, stale, dropped>> /\ PageSide

\* No capacity, or streaming switched off: an event source that is refused does not
\* try again, and its one failure is not the third.
Refuse503 ==
    /\ source.state = "connecting"
    /\ failed < MaxFailures /\ failed' = failed + 1
    /\ failures' = failures + 1
    /\ IF failures + 1 >= failureThreshold
       THEN mode' = "polling" /\ source' = NoSource
       ELSE mode' = mode /\ source' = [source EXCEPT !.state = "refused"]
    /\ UNCHANGED <<lastEventId, cursorLife, busy, stale, dropped>> /\ PageSide

Mutate ==
    /\ busy' = ~busy
    /\ UNCHANGED <<source, lastEventId, cursorLife, failures, failed, mode, stale, dropped>>
    /\ PageSide

RealtimeNext ==
    \/ \E ours \in BOOLEAN : publish(ours)
    \/ subscribe \/ DashboardDies
    \/ setRealtime \/ Hide \/ Show \/ Poll
    \/ Receive \/ Break \/ Refuse503 \/ Mutate

RealtimeSpec == RealtimeInit /\ [][RealtimeNext]_realtimeVars

---------------------------------------------------------------------------
RealtimeTypeOK ==
    /\ Len(buffer) <= maxEvents
    /\ \A i \in DOMAIN buffer : buffer[i].id \in 1..sequence
    /\ source.state \in {"closed", "connecting", "open", "broken", "refused"}
    /\ mode \in {"polling", "streaming", "paused"}
    /\ failures \in 0..failureThreshold
    /\ mode # "streaming" => source = NoSource
    /\ mode = "streaming" => source.state # "closed"

\* A page whose stream has delivered everything has asked for its data since the
\* last change, those published while it was away or before a reset included
\* (docs/incident-response.md:43: ordered ids, resume and reset).  The code leaves
\* two ways out: an id issued before the dashboard restarted, below which the page
\* passes over whatever the new process sends, its reset included; and an event
\* that came while a mutation was pending.
PageCurrent ==
    /\ source.state = "open" /\ source.chan = {}
    /\ lastEventId # NoId /\ cursorLife = brokers /\ ~dropped
    => ~stale
=============================================================================
