--------------------------- MODULE MCAgentSession ---------------------------
(***************************************************************************)
(* Small instances of AgentSession.  A behaviour has one of the budgets,   *)
(* so that each kind of interference is met without all of them at once.   *)
(***************************************************************************)
EXTENDS AgentSession

Budget(s, r, b, m, a) ==
    [sent |-> s, responses |-> r, bashes |-> b, manuals |-> m, aborts |-> a]

MCBudgets ==
    {Budget(2, 1, 1, 0, 0),   \* two prompts and a bash command
     Budget(2, 1, 0, 0, 1),   \* two prompts and an abort
     Budget(2, 2, 0, 0, 0),   \* two prompts and the failures of both
     Budget(2, 1, 0, 1, 0),   \* two prompts and a compaction by hand
     Budget(3, 0, 0, 0, 0),   \* messages that overtake each other
     Budget(1, 2, 1, 1, 1),   \* everything beside one prompt
     Budget(1, 5, 0, 0, 1)}   \* a long series of failures

\* One prompt and the failures that follow it.
OneBudget == {Budget(1, 5, 0, 0, 0)}
=============================================================================
