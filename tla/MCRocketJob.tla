---------------------------- MODULE MCRocketJob ----------------------------
(* A job of two tasks before a job of one, so that hw_submit() runs on the    *)
(* scheduler's worker and on the interrupt thread, and a late completion of   *)
(* the first job can meet the second.                                         *)
EXTENDS RocketJob

MCTwoTasks == <<2, 1>>
=============================================================================
