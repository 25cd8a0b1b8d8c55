---------------------- MODULE MCOrchestratorSupervisor ----------------------
(***************************************************************************)
(* OrchestratorSupervisor for TLC: two instances, so that one is disposed  *)
(* of, recovered or stopped while the loops are at the other.  Commands    *)
(* open a session in the second only; the first is recovered into others.  *)
(***************************************************************************)
EXTENDS OrchestratorSupervisor

Sessions == [id \in Ids |-> id]
=============================================================================
