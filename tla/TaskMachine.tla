---------------------------- MODULE TaskMachine ----------------------------
(***************************************************************************)
(* The task state machine of machine.mjs: the statuses, the legal moves    *)
(* between them, and the statuses an agent may claim.  Pure definitions,   *)
(* used by every module that moves a task.                                 *)
(***************************************************************************)

STATES == {"proposed", "spec", "designing", "ready-for-impl",
           "in-progress", "in-review", "done", "blocked"}

\* The TRANSITIONS table as a relation: <<from, to>> is a legal move.
TRANSITIONS ==
  {<<"proposed", "spec">>, <<"spec", "designing">>,
   <<"designing", "ready-for-impl">>, <<"ready-for-impl", "in-progress">>,
   <<"in-progress", "in-review">>, <<"in-review", "done">>}
  \cup {<<"ready-for-impl", "designing">>, <<"in-review", "in-progress">>}
  \cup {<<from, "blocked">> :
          from \in {"proposed", "spec", "designing", "ready-for-impl",
                    "in-progress", "in-review"}}
  \cup {<<"blocked", to>> :
          to \in {"ready-for-impl", "in-progress", "designing", "spec"}}

\* assertTransition throws exactly when this is false; staying put is legal.
isLegalTransition(from, to) ==
  /\ from \in STATES
  /\ to \in STATES
  /\ from = to \/ <<from, to>> \in TRANSITIONS

CLAIMABLE_STATUSES == {"spec", "designing", "ready-for-impl", "in-progress"}
=============================================================================
