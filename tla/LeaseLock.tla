----------------------------- MODULE LeaseLock -----------------------------
(***************************************************************************)
(* What the state API promises about leases and locks, without the board:  *)
(* a lease on a task is acquired together with all of the resources the    *)
(* task needs or not at all, it is exclusive while it is live, and when it *)
(* ends all of its resources become free in the same step.                 *)
(***************************************************************************)
CONSTANTS Tasks, Sessions, Resources, NONE

VARIABLES
  holder,    \* the session that holds the lease on a task, or NONE
  live,      \* the tasks whose lease has not expired
  lock       \* the task a resource is locked for, or NONE

lvars == <<holder, live, lock>>

Init ==
  /\ holder = [t \in Tasks |-> NONE]
  /\ live = {}
  /\ lock = [r \in Resources |-> NONE]

\* A session takes a task that nobody holds a live lease on (or renews its
\* own) with a set of free resources.  A caller that waited too long with its
\* claim gets a lease that has lapsed already.
Acquire(t, s, needs) ==
  /\ t \notin live \/ holder[t] = s
  /\ \A r \in needs : lock[r] = NONE
  /\ holder' = [holder EXCEPT ![t] = s]
  /\ live' \in {live \cup {t}, live \ {t}}
  /\ lock' = [r \in Resources |-> IF r \in needs THEN t ELSE lock[r]]

\* Time passes: some live leases expire.  Their resources stay locked.
Expire(lapsed) ==
  /\ live' = live \ lapsed
  /\ UNCHANGED <<holder, lock>>

\* A lease ends, by whatever hand, and frees everything it locked.
Free(t) ==
  /\ holder[t] # NONE
  /\ holder' = [holder EXCEPT ![t] = NONE]
  /\ live' = live \ {t}
  /\ lock' = [r \in Resources |-> IF lock[r] = t THEN NONE ELSE lock[r]]

Next ==
  \/ \E t \in Tasks, s \in Sessions, needs \in SUBSET Resources :
       Acquire(t, s, needs)
  \/ \E lapsed \in SUBSET Tasks : Expire(lapsed)
  \/ \E t \in Tasks : Free(t)

Spec == Init /\ [][Next]_lvars
=============================================================================
