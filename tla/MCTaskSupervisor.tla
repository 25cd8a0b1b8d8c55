-------------------------- MODULE MCTaskSupervisor --------------------------
(***************************************************************************)
(* TaskSupervisor for TLC.  The configurations give its constants values:  *)
(*   TaskSupervisor.cfg       two runs at a time among three tasks         *)
(*   TaskSupervisorLive.cfg   one run at a time, with fairness             *)
(*   TaskSupervisorEarly.cfg  requests may precede recovery                *)
(***************************************************************************)
EXTENDS TaskSupervisor
=============================================================================
