---------------------------- MODULE TaskExecution ---------------------------
(***************************************************************************)
(* What TaskSupervisor relies on from one run() of a TaskExecutor: the     *)
(* promise settles at most once; a result means that the agent has         *)
(* finished and will not work again; the reason of an abort is thrown only *)
(* after an abort; and nothing of the run is left behind when it has       *)
(* settled.  SettleRun of TaskSupervisor is the step End of this module.   *)
(*                                                                         *)
(* That a run settles at all is not promised (README, findings).           *)
(***************************************************************************)

VARIABLES
    status,   \* the promise of run(): "pending" or "settled"
    outcome,  \* what it settled with, "none" while it is pending
    aborted,  \* the signal given to run()
    worker,   \* whoever does the task: "idle", "working" or "gone"
    finished  \* the worker has reported that it is finished

vars == <<status, outcome, aborted, worker, finished>>

Init ==
    /\ status = "pending" /\ outcome = "none"
    /\ aborted = FALSE /\ worker = "idle" /\ finished = FALSE

\* The signal is aborted while the run is pending.
Abort ==
    /\ status = "pending" /\ ~aborted
    /\ aborted' = TRUE
    /\ UNCHANGED <<status, outcome, worker, finished>>

\* The worker takes up the task, until it has finished it.
Work ==
    /\ worker = "idle" /\ ~finished
    /\ worker' = "working"
    /\ UNCHANGED <<status, outcome, aborted, finished>>

Rest ==
    /\ worker = "working"
    /\ worker' = "idle"
    /\ UNCHANGED <<status, outcome, aborted, finished>>

\* The report arrives; the worker may be gone by then.
Finish ==
    /\ worker # "working" /\ status = "pending"
    /\ finished' = TRUE
    /\ UNCHANGED <<status, outcome, aborted, worker>>

\* On its own, or told to by the run.
Go ==
    /\ worker # "gone"
    /\ worker' = "gone"
    /\ UNCHANGED <<status, outcome, aborted, finished>>

\* The promise settles, once, with no worker left.
End ==
    /\ status = "pending" /\ worker = "gone"
    /\ status' = "settled"
    /\ \/ outcome' = "result" /\ finished
       \/ outcome' = "abort_reason" /\ aborted
       \/ outcome' = "error"
    /\ UNCHANGED <<aborted, worker, finished>>

Next == Abort \/ Work \/ Rest \/ Finish \/ Go \/ End

Spec == Init /\ [][Next]_vars
=============================================================================
