------------------------------ MODULE MCIntake ------------------------------
(* Model values for the runs of Intake: one work item, one API task.       *)
EXTENDS Intake

CONSTANTS item, api, open, close
=============================================================================
