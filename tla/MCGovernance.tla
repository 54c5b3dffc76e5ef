---------------------------- MODULE MCGovernance ----------------------------
(* An epic in progress with a sensitive tag of its own, and two stories:   *)
(* one under the epic, one that stands alone.                              *)
EXTENDS Governance

CONSTANTS epic, child, lone, spend, send

MCTasks == {epic, child, lone}
MCStories == {child, lone}
MCParent == [t \in MCTasks |-> IF t = child THEN epic ELSE NONE]
MCDeps == [t \in MCTasks |-> IF t = lone THEN {child} ELSE {}]
MCSeedStates == [t \in MCTasks |->
  IF t = epic THEN {"in-progress"}
  ELSE IF t = child THEN {"proposed"} ELSE {"proposed", "in-review"}]
MCRisks == [t \in MCTasks |-> IF t = epic THEN {spend} ELSE IF t = lone THEN {send} ELSE {}]
=============================================================================
