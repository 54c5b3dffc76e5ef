-------------------------------- MODULE Push -------------------------------
(***************************************************************************)
(* Telling the founder: each watchdog tick collects what needs attention   *)
(* (watchdog.mjs:119-175) and, after other work it waits for, posts to a   *)
(* chat webhook what this session has not posted yet                       *)
(* (scheduler.mjs:170-262, escalation-push.mjs:132-161).  Ticks are        *)
(* started by an interval and may overlap.  A post may be answered, fail   *)
(* or be cut off at its time limit after it was read.                      *)
(*                                                                         *)
(* What is open when a tick collects may be any set of escalations.        *)
(***************************************************************************)
EXTENDS Integers, Sequences, FiniteSets

CONSTANTS
    Ticks,
    Escalations,  \* sequence: the ids in the order they are collected
    PayloadCap,   \* how many of them a payload shows
    MaxTold       \* bound: times one of them is shown

PushIds == {Escalations[i] : i \in DOMAIN Escalations}
NoTick == [step |-> "idle", open |-> {}, fresh |-> {}]

ASSUME PushAssumption == MaxTold \in Nat

VARIABLES
    pushedIds, \* pushed: the ids this session has posted
    tick,      \* each tick: its step, what it collected, what it is posting
    told,      \* history: how often each was shown to the founder in this session
    excused,   \* history: those two posts had in hand at once, or whose answer was lost
    cutOff     \* history: those beyond the cap of a post that was answered

pushVars == <<pushedIds, tick, told, excused, cutOff>>

PushInit ==
    /\ pushedIds = {}
    /\ tick = [t \in Ticks |-> NoTick]
    /\ told = [e \in PushIds |-> 0]
    /\ excused = {} /\ cutOff = {}

---------------------------------------------------------------------------
\* The first PayloadCap of them, in their order (escalation-push.mjs:49-94).
Place(e) == CHOOSE i \in DOMAIN Escalations : Escalations[i] = e

Shown(fresh) == {e \in fresh : Cardinality({f \in fresh : Place(f) < Place(e)}) < PayloadCap}

NotYetPushed_all(open) == open
NotYetPushed(open) == open \ pushedIds

InHand == UNION {tick[t].fresh : t \in Ticks}

collectEscalations(t, open) ==
    /\ tick[t].step = "idle" /\ open # {}
    /\ tick' = [tick EXCEPT ![t] = [step |-> "collected", open |-> open, fresh |-> {}]]
    /\ UNCHANGED <<pushedIds, told, excused, cutOff>>

\* Only what is new is posted, and it is marked when the answer comes.
StartPush_marked(t) ==
    LET fresh == NotYetPushed(tick[t].open)
    IN /\ tick[t].step = "collected"
       /\ tick' = [tick EXCEPT ![t] = [@ EXCEPT !.step = "posting", !.fresh = fresh]]
       /\ pushedIds' = pushedIds \cup fresh
       /\ excused' = excused \cup (fresh \cap InHand)
       /\ UNCHANGED <<told, cutOff>>
StartPush(t) ==
    LET fresh == NotYetPushed(tick[t].open)
    IN /\ tick[t].step = "collected"
       /\ tick' = [tick EXCEPT ![t] = IF fresh = {} THEN NoTick
                                      ELSE [@ EXCEPT !.step = "posting", !.fresh = fresh]]
       /\ excused' = excused \cup (fresh \cap InHand)
       /\ UNCHANGED <<pushedIds, told, cutOff>>

ShowTo(fresh) ==
    /\ \A e \in Shown(fresh) : told[e] < MaxTold
    /\ told' = [e \in PushIds |-> IF e \in Shown(fresh) THEN told[e] + 1 ELSE told[e]]

Posted(t) ==
    /\ tick[t].step = "posting"
    /\ ShowTo(tick[t].fresh)
    /\ pushedIds' = pushedIds \cup tick[t].fresh
    /\ cutOff' = cutOff \cup (tick[t].fresh \ Shown(tick[t].fresh))
    /\ tick' = [tick EXCEPT ![t] = NoTick]
    /\ UNCHANGED excused

PostFails(t) ==
    /\ tick[t].step = "posting"
    /\ tick' = [tick EXCEPT ![t] = NoTick]
    /\ UNCHANGED <<pushedIds, told, excused, cutOff>>

\* It was read, but the answer comes after AbortSignal.timeout.
AnswerTooLate(t) ==
    /\ tick[t].step = "posting"
    /\ ShowTo(tick[t].fresh)
    /\ excused' = excused \cup tick[t].fresh
    /\ tick' = [tick EXCEPT ![t] = NoTick]
    /\ UNCHANGED <<pushedIds, cutOff>>

DaemonRestarts ==
    /\ pushedIds # {}
    /\ pushedIds' = {} /\ tick' = [t \in Ticks |-> NoTick]
    /\ told' = [e \in PushIds |-> 0] /\ excused' = {} /\ cutOff' = {}

PushNext ==
    \/ \E t \in Ticks : \/ \E open \in SUBSET PushIds : collectEscalations(t, open)
                        \/ StartPush(t) \/ Posted(t) \/ PostFails(t) \/ AnswerTooLate(t)
    \/ DaemonRestarts

PushSpec == PushInit /\ [][PushNext]_pushVars

---------------------------------------------------------------------------
PushTypeOK ==
    /\ pushedIds \subseteq PushIds /\ excused \subseteq PushIds /\ cutOff \subseteq PushIds
    /\ tick \in [Ticks -> [step : {"idle", "collected", "posting"},
                           open : SUBSET PushIds, fresh : SUBSET PushIds]]
    /\ told \in [PushIds -> 0..MaxTold]

\* In one session the founder is shown an escalation once (escalation-push.mjs:123-125) --
\* unless two overlapping ticks had it in hand at once, or an answer was lost.
ToldOnce == \A e \in PushIds : told[e] > 1 => e \in excused

\* What is held to have been posted was shown -- unless it came after the tenth of a
\* payload (escalation-push.mjs:53, 82, 154).
PushedWasShown == \A e \in pushedIds : told[e] > 0 \/ e \in cutOff
=============================================================================
