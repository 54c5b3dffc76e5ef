---------------------------- MODULE MCDispatch ----------------------------
(* Rosters and dependencies for the runs of Dispatch.                      *)
EXTENDS Dispatch

CONSTANTS a1, a2, t1, t2

OneAgent == <<a1>>
TwoAgents == <<a1, a2>>
NoDependencies == [t \in Tasks |-> {}]
SecondAfterFirst == [t \in Tasks |-> IF t = t2 THEN {t1} ELSE {}]
=============================================================================
