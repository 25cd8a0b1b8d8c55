------------------------------ MODULE MCAgent -------------------------------
(***************************************************************************)
(* Agent for TLC.  Agent.cfg checks the instances of MCBudgets together:   *)
(* three messages with a failure, three messages with a retried error and  *)
(* two messages with two batches and two failures.  AgentQueues.cfg takes  *)
(* OneBudget for the comment on the queues in agent-session.ts.            *)
(***************************************************************************)
EXTENDS Agent

Bounds(m, c, t, f, r) ==
    [messages |-> m, calls |-> c, toolTurns |-> t, failures |-> f,
     retries |-> r]

MCBudgets == {Bounds(3, 1, 1, 1, 0), Bounds(3, 1, 1, 0, 1),
              Bounds(2, 2, 2, 2, 0), Bounds(2, 2, 1, 1, 1)}
OneBudget == {Bounds(2, 2, 1, 1, 1)}
=============================================================================
