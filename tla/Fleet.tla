------------------------------ MODULE Fleet ------------------------------
(***************************************************************************)
(* control-plane.mjs, ProjectManager: one project of the fleet, its row,   *)
(* the processes that were ever spawned for it and the calls in flight.    *)
(* start, stop and restart await (an import, the exit of a process or ten  *)
(* seconds, a second's pause); between their steps other calls, an exit or *)
(* a timer may run.  Delays are left open: a timer that is set may fire at *)
(* any later moment.                                                       *)
(***************************************************************************)
EXTENDS Integers, FiniteSets, FiniteSetsExt

CONSTANTS
    MaxProcesses, \* bound: processes ever spawned
    FleetCalls,   \* calls that may be in flight together
    FleetTime,    \* bound: the clock, in units of which Hour make one hour
    Hour,
    RestartLimit, \* restarts within an hour: 3 in the code
    MaxManagers   \* bound: lives of the manager's process

ASSUME FleetAssumption == MaxProcesses \in Nat /\ RestartLimit \in Nat

Pids == 1..MaxProcesses
None == 0

VARIABLES
    row,         \* projects.status; "absent" once deleted
    proc,        \* each process: unborn, alive, term, killed, exited
    tracked,     \* this.processes: the process of the entry, or None
    intentional, \* processes whose entry was marked intentionalStop
    call,        \* what each call in flight is at
    timers,      \* restarts scheduled, named by the process whose exit did it
    restartHandle,      \* this.restartTimeouts: the one of them that can be cancelled
    history,     \* this.restartHistory: when, and for which exit
    watching,    \* the project's policy file is watched for hot reload
    fleetNow, managers,
    adrift       \* history: processes whose entry another call, or a kill, took away

fleetVars == <<row, proc, tracked, intentional, call, timers, restartHandle, history,
               watching, fleetNow, managers, adrift>>

Startable == row \in {"stopped", "error"}
Running == {pid \in Pids : proc[pid] \in {"alive", "term", "killed"}}
Idle == [step |-> "idle", pid |-> None, again |-> FALSE]
At(c, step) == call[c].step = step

FleetInit ==
    /\ row = "stopped"
    /\ proc = [pid \in Pids |-> "unborn"]
    /\ tracked = None /\ intentional = {}
    /\ call = [c \in FleetCalls |-> Idle]
    /\ timers = {} /\ restartHandle = None /\ history = {}
    /\ watching = FALSE
    /\ fleetNow = 0 /\ managers = 1
    /\ adrift = {}

---------------------------------------------------------------------------
(* startProject: the check, then, after the await, everything else.        *)

startProject(c) ==
    /\ At(c, "idle") /\ Startable
    /\ call' = [call EXCEPT ![c].step = "spawning"]
    /\ UNCHANGED <<row, proc, tracked, intentional, timers, restartHandle, history, watching,
                   fleetNow, managers, adrift>>

\* The row's UPDATE finds nothing if the project was deleted meanwhile.
Spawned(c) ==
    /\ At(c, "spawning")
    /\ \E pid \in Pids :
          /\ proc[pid] = "unborn" /\ \A q \in 1..pid - 1 : proc[q] # "unborn"
          /\ proc' = [proc EXCEPT ![pid] = "alive"]
          /\ tracked' = pid
    /\ row' = IF row = "absent" THEN row ELSE "running"
    /\ watching' = TRUE
    /\ adrift' = adrift \cup ({tracked} \ {None})
    /\ call' = [call EXCEPT ![c] = Idle]
    /\ UNCHANGED <<intentional, timers, restartHandle, history, fleetNow, managers>>

---------------------------------------------------------------------------
(* stopProject, alone or as the first half of restartProject.              *)

\* The end of a stop, for each of the calls that reach it.
AfterStop(calls) ==
    [c \in FleetCalls |->
        IF c \notin calls THEN call[c]
        ELSE IF call[c].again THEN [Idle EXCEPT !.step = "pausing"] ELSE Idle]

\* Whichever process is tracked by then loses its entry, the one this stop waited
\* for (if it has exited, as it should) or another.
FinishStop(exited) ==
    /\ tracked' = None
    /\ adrift' = adrift \cup ({tracked} \ ({None} \cup exited))
    /\ row' = IF row = "absent" THEN row ELSE "stopped"
    /\ watching' = FALSE

Cancelled_not == timers
Cancelled == timers \ {restartHandle}

\* The scheduled restart is cancelled.  A tracked process is marked, told to end
\* (one that has exited already hears nothing) and waited for.
stopProject(c, again) ==
    /\ At(c, "idle") /\ row = "running"
    /\ timers' = Cancelled /\ restartHandle' = None
    /\ tracked # None
    /\ intentional' = intentional \cup {tracked}
    /\ proc' = [proc EXCEPT ![tracked] = IF @ = "alive" THEN "term" ELSE @]
    /\ call' = [call EXCEPT ![c] = [step |-> "waiting", pid |-> tracked, again |-> again]]
    /\ UNCHANGED <<row, tracked, history, watching, fleetNow, managers, adrift>>

\* Nothing is tracked: the row is all there is to stop.
stopUntracked(c, again) ==
    /\ At(c, "idle") /\ row = "running" /\ tracked = None
    /\ timers' = Cancelled /\ restartHandle' = None
    /\ FinishStop({})
    /\ call' = [call EXCEPT ![c] = IF again THEN [Idle EXCEPT !.step = "pausing"] ELSE Idle]
    /\ UNCHANGED <<proc, intentional, history, fleetNow, managers>>

\* Ten seconds are over: SIGKILL, and the stop ends before the exit is seen.
StopTimesOut(c) ==
    /\ At(c, "waiting")
    /\ proc' = [proc EXCEPT ![call[c].pid] = IF @ = "exited" THEN @ ELSE "killed"]
    /\ FinishStop({call[c].pid} \ Running)
    /\ call' = AfterStop({c})
    /\ UNCHANGED <<intentional, timers, restartHandle, history, fleetNow, managers>>

\* restartProject's second half: startProject throws if somebody else started it.
PauseOver(c) ==
    /\ At(c, "pausing")
    /\ call' = [call EXCEPT ![c] = IF Startable THEN [Idle EXCEPT !.step = "spawning"] ELSE Idle]
    /\ UNCHANGED <<row, proc, tracked, intentional, timers, restartHandle, history, watching,
                   fleetNow, managers, adrift>>

---------------------------------------------------------------------------
(* monitorProcess.                                                         *)

Recent == {h \in history : h.at > fleetNow - Hour}

Expected_never == FALSE
Expected == tracked # None /\ tracked \in intentional

\* The exit of a process: the monitor's listener, which looks at whichever entry
\* is tracked now, and then the end of every stop that waited for this process.
Exit(pid) ==
    LET waiting == {c \in FleetCalls : At(c, "waiting") /\ call[c].pid = pid}
        limited == ~Expected /\ Cardinality(Recent) >= RestartLimit
        retried == ~Expected /\ Cardinality(Recent) < RestartLimit IN
    /\ pid \in Running
    /\ proc' = [proc EXCEPT ![pid] = "exited"]
    /\ timers' = IF retried THEN timers \cup {pid} ELSE timers
    /\ restartHandle' = IF retried THEN pid ELSE restartHandle
    /\ history' = IF retried THEN Recent \cup {[at |-> fleetNow, exit |-> pid]} ELSE history
    /\ IF waiting # {} THEN FinishStop({pid})
       ELSE /\ row' = IF limited /\ row # "absent" THEN "error" ELSE row
            /\ UNCHANGED <<tracked, watching, adrift>>
    /\ call' = AfterStop(waiting)
    /\ UNCHANGED <<intentional, fleetNow, managers>>

\* A scheduled restart: a plain startProject, refused while the row says running,
\* which is what a crash leaves it saying.
RestartDue(t, c) ==
    /\ t \in timers /\ At(c, "idle")
    /\ timers' = timers \ {t} /\ restartHandle' = None
    /\ call' = [call EXCEPT ![c].step = IF Startable THEN "spawning" ELSE "idle"]
    /\ UNCHANGED <<row, proc, tracked, intentional, history, watching, fleetNow, managers,
                   adrift>>

---------------------------------------------------------------------------
deleteProject ==
    /\ Startable
    /\ row' = "absent"
    /\ timers' = Cancelled /\ restartHandle' = None
    /\ intentional' = intentional \cup ({tracked} \ {None})
    /\ tracked' = None /\ history' = {} /\ watching' = FALSE
    /\ adrift' = adrift \cup ({tracked} \cap Running)
    /\ UNCHANGED <<proc, call, fleetNow, managers>>

\* The manager's process dies with all it knew; its children may outlive it, but
\* nobody listens for their exits.  The next one marks the row stopped.
ManagerRestarts ==
    /\ managers < MaxManagers /\ managers' = managers + 1
    /\ \E survivors \in SUBSET Running :
          proc' = [pid \in Pids |-> IF proc[pid] = "unborn" THEN "unborn"
                                    ELSE IF pid \in survivors THEN "orphan" ELSE "exited"]
    /\ row' = IF row = "running" THEN "stopped" ELSE row
    /\ tracked' = None /\ intentional' = {} /\ timers' = {} /\ restartHandle' = None
    /\ history' = {} /\ watching' = FALSE
    /\ call' = [c \in FleetCalls |-> Idle]
    /\ UNCHANGED <<fleetNow, adrift>>

FleetClock ==
    /\ fleetNow < FleetTime /\ fleetNow' = fleetNow + 1
    /\ UNCHANGED <<row, proc, tracked, intentional, call, timers, restartHandle, history, watching,
                   managers, adrift>>

FleetNext ==
    \/ \E c \in FleetCalls :
          \/ startProject(c) \/ Spawned(c)
          \/ \E again \in BOOLEAN : stopProject(c, again) \/ stopUntracked(c, again)
          \/ StopTimesOut(c) \/ PauseOver(c)
          \/ \E t \in Pids : RestartDue(t, c)
    \/ \E pid \in Pids : Exit(pid)
    \/ deleteProject
    \/ ManagerRestarts
    \/ FleetClock

FleetSpec == FleetInit /\ [][FleetNext]_fleetVars

---------------------------------------------------------------------------
FleetTypeOK ==
    /\ row \in {"stopped", "running", "error", "absent"}
    /\ proc \in [Pids -> {"unborn", "alive", "term", "killed", "exited", "orphan"}]
    /\ tracked \in Pids \cup {None} /\ intentional \subseteq Pids /\ adrift \subseteq Pids
    /\ timers \subseteq Pids /\ restartHandle \in timers \cup {None}
    /\ Cardinality(history) <= RestartLimit
    /\ \A c \in FleetCalls : At(c, "waiting") <=> call[c].pid # None

\* A project that was stopped does not start itself again (control-plane.mjs:358-359
\* and :588-590 mean to leave no way).  The code leaves one: a process lost its
\* entry, and the mark of intent in it, to an overlapping start, to a stop that
\* killed it and did not wait for the exit, or to a stop of an earlier process.
StoppedStaysStopped == row = "stopped" /\ timers # {} => adrift # {}
=============================================================================
