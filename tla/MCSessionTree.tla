--------------------------- MODULE MCSessionTree ---------------------------
(***************************************************************************)
(* SessionTree for TLC.  Each budget lets one kind of operation meet the   *)
(* others: labels, navigation, forks and restarts, two compactions, also   *)
(* with the leaf moved while one of them is summarised.                    *)
(***************************************************************************)
EXTENDS SessionTree

Budget(entry, meta, label, compaction, navigation, file) ==
    [made |-> 0, entries |-> entry, metas |-> meta, labels |-> label,
     compactions |-> compaction, navigations |-> navigation, sessions |-> file]

MCBudgets ==
    {Budget(5, 0, 1, 1, 1, 1), Budget(5, 0, 1, 0, 1, 2), Budget(8, 0, 0, 2, 0, 0),
     Budget(6, 0, 1, 1, 1, 0), Budget(7, 0, 0, 2, 1, 0), Budget(6, 1, 0, 2, 1, 0)}

\* Conversation and compaction only.
TalkBudgets == {Budget(8, 0, 0, 2, 0, 0)}
=============================================================================
