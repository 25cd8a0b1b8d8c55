--------------------------- MODULE RpcTaskExecutor --------------------------
(***************************************************************************)
(* One RpcTaskExecutor.run() of packages/orchestrator/src/                 *)
(* task-supervisor.ts over the RpcProcessInstance of rpc-process.ts: a     *)
(* child agent is started, prompted, awaited, asked for its result and     *)
(* disposed of.  This is where a run of TaskSupervisor ends or does not.   *)
(*                                                                         *)
(* The child is the RPC mode of the coding agent, seen through its pipes.  *)
(* Its exit event is not ordered with what is left in its output pipe.     *)
(***************************************************************************)
EXTENDS Naturals, Sequences

VARIABLES
    pc,        \* where run() is suspended
    outcome,   \* what run() returns or throws
    aborted,   \* the signal of the run
    listening, \* run() still listens to the signal and to events
    settled,   \* the promise that agent_settled resolves
    exited,    \* RpcProcessInstance.exited
    requests,  \* RpcProcessInstance.pendingRequests, by command
    stdin,     \* commands the child has not read
    stdout,    \* lines the child has written and the instance has not read
    child,     \* the process: alive, terminating (SIGTERM) or dead
    agent,     \* the session inside the child
    uncaught   \* an exception has reached the top of the event loop

caller == <<pc, outcome, aborted, listening, settled>>
instance == <<exited, requests>>
process == <<stdin, stdout, child, agent>>

vars == <<caller, instance, process, uncaught>>

Commands == {"prompt", "abort", "get_last_assistant_text", "get_state"}
Line(kind, command) == [kind |-> kind, command |-> command]
Settled == Line("event", "agent_settled")

\* run() up to its first await.
Init ==
    /\ pc = "prompt" /\ outcome = "none"
    /\ aborted = FALSE /\ listening = TRUE /\ settled = FALSE
    /\ exited = FALSE /\ requests = {"prompt"}
    /\ stdin = <<"prompt">> /\ stdout = <<>>
    /\ child = "alive" /\ agent = "idle"
    /\ uncaught = FALSE

-----------------------------------------------------------------------------
(* The child. *)

\* Slip: the response does not say which request it answers.
ReplyWithoutId(line) == stdout' = Append(stdout, Line(line.kind, "undefined"))

\* output() of the RPC mode.
Reply(line) == stdout' = Append(stdout, line)

\* An abort before the session runs finds nothing to abort.
ReadCommand ==
    /\ child # "dead" /\ stdin # <<>>
    /\ stdin' = Tail(stdin)
    /\ LET command == Head(stdin)
       IN  \/ command = "prompt" /\ agent' = "preflight" /\ UNCHANGED stdout
           \/ /\ command = "abort" /\ agent = "running"
              /\ agent' = "aborting" /\ UNCHANGED stdout
           \/ /\ command # "prompt"
              /\ command = "abort" => agent # "running"
              /\ Reply(Line("success", command)) /\ UNCHANGED agent
    /\ UNCHANGED <<caller, instance, child, uncaught>>

\* prompt() of the session: refused, handled without a run, or run.
Preflight ==
    /\ child # "dead" /\ agent = "preflight"
    /\ \/ agent' = "idle" /\ Reply(Line("error", "prompt"))
       \/ agent' = "handled" /\ Reply(Line("success", "prompt"))
       \/ agent' = "running" /\ Reply(Line("success", "prompt"))
    /\ UNCHANGED <<caller, instance, stdin, child, uncaught>>

AgentSettles ==
    /\ child # "dead" /\ agent \in {"running", "aborting"}
    /\ agent' = "idle"
    /\ stdout' = stdout \o IF agent = "running" THEN <<Settled>>
                             ELSE <<Settled, Line("success", "abort")>>
    /\ UNCHANGED <<caller, instance, stdin, child, uncaught>>

\* On its own, at any time, or because of SIGTERM.
ChildDies ==
    /\ child # "dead"
    /\ child' = "dead"
    /\ UNCHANGED <<caller, instance, stdin, stdout, agent, uncaught>>

-----------------------------------------------------------------------------
(* run() and the instance it uses. *)

\* Slip: the child is left to itself.
DisposeDetached ==
    /\ pc' = "done" /\ UNCHANGED child

\* dispose(): SIGTERM, and wait for the exit unless it has been seen.
Dispose ==
    /\ pc' = IF exited THEN "done" ELSE "disposing"
    /\ child' = IF ~exited /\ child = "alive" THEN "terminating" ELSE child

\* run() leaves its try block: the finally block and dispose().
Leave(result) ==
    /\ outcome' = result
    /\ listening' = FALSE
    /\ requests' = {}
    /\ Dispose

\* send() and what run() awaits next; it throws once the child has exited.
SendAndAwait(command) ==
    IF exited
      THEN Leave("error") /\ UNCHANGED stdin
      ELSE /\ requests' = requests \cup {command}
           /\ stdin' = Append(stdin, command)
           /\ pc' = command
           /\ UNCHANGED <<outcome, listening, child>>

\* handleLine(): a response resolves the request that is still pending, and
\* run() goes on with it; any other response is dropped.
ResumeWith(line) ==
    \/ /\ line.command = pc /\ line.kind = "success"
       /\ CASE pc = "prompt" ->
                 /\ pc' = "settling"
                 /\ requests' = requests \ {"prompt"}
                 /\ UNCHANGED <<outcome, listening, child, stdin>>
            [] pc = "get_last_assistant_text" -> SendAndAwait("get_state")
            [] OTHER -> Leave("result") /\ UNCHANGED stdin
    \/ /\ line.command = pc /\ line.kind = "error"
       /\ Leave("error") /\ UNCHANGED stdin
    \/ /\ line.command # pc
       /\ requests' = requests \ {line.command}
       /\ UNCHANGED <<pc, outcome, listening, child, stdin>>

ReadLine ==
    /\ stdout # <<>>
    /\ stdout' = Tail(stdout)
    /\ LET line == Head(stdout)
       IN  IF line.kind # "event" /\ line.command \in requests
             THEN ResumeWith(line) /\ UNCHANGED settled
             ELSE /\ settled' = (settled \/ (line = Settled /\ listening))
                  /\ UNCHANGED <<pc, outcome, listening, requests, child,
                                 stdin>>
    /\ UNCHANGED <<aborted, exited, agent, uncaught>>

\* Slip: the accepted prompt is taken for the end of the work.
AfterPrompt ==
    /\ pc = "settling"
    /\ IF aborted THEN Leave("abort_reason") /\ UNCHANGED stdin
                  ELSE SendAndAwait("get_last_assistant_text")
    /\ UNCHANGED <<aborted, settled, exited, stdout, agent, uncaught>>

\* await settled, then the look at the signal.
AfterSettled ==
    /\ pc = "settling" /\ settled
    /\ IF aborted THEN Leave("abort_reason") /\ UNCHANGED stdin
                  ELSE SendAndAwait("get_last_assistant_text")
    /\ UNCHANGED <<aborted, settled, exited, stdout, agent, uncaught>>

\* Slip: the exit is noted and nobody is told.
RejectNobody == UNCHANGED <<pc, outcome, listening, requests, child>>

\* rejectAllPending(): run() throws if it awaits one of the requests.
RejectAllPending ==
    IF pc \in requests
      THEN /\ outcome' = "error" /\ listening' = FALSE
           /\ requests' = {} /\ pc' = "done"
           /\ UNCHANGED child
      ELSE /\ requests' = {}
           /\ pc' = IF pc = "disposing" THEN "done" ELSE pc
           /\ UNCHANGED <<outcome, listening, child>>

\* The exit event.  run() has registered nothing with onExit().
ExitEvent ==
    /\ child = "dead" /\ ~exited
    /\ exited' = TRUE
    /\ RejectAllPending
    /\ UNCHANGED <<aborted, settled, stdin, stdout, agent, uncaught>>

\* The write of a command to a child that has died unseen fails: its request is
\* rejected, and nobody handles the error event of the pipe.
WriteFails ==
    /\ child = "dead" /\ ~exited
    /\ \E command \in requests :
          /\ \E i \in DOMAIN stdin : stdin[i] = command
          /\ \/ command = pc /\ Leave("error")
             \/ /\ command # pc
                /\ requests' = requests \ {command}
                /\ UNCHANGED <<pc, outcome, listening, child>>
    /\ uncaught' = TRUE
    /\ UNCHANGED <<aborted, settled, exited, stdin, stdout, agent>>

\* The supervisor aborts the run: a cancel, a time-out or a shutdown.  send()
\* throws before it has made a promise if the child has exited.
AbortRun ==
    /\ ~aborted /\ pc # "done"
    /\ aborted' = TRUE
    /\ uncaught' = (uncaught \/ (listening /\ exited))
    /\ IF listening /\ ~exited
         THEN /\ requests' = requests \cup {"abort"}
              /\ stdin' = Append(stdin, "abort")
         ELSE UNCHANGED <<requests, stdin>>
    /\ UNCHANGED <<pc, outcome, listening, settled, exited, stdout, child,
                   agent>>

-----------------------------------------------------------------------------
Child == ReadCommand \/ Preflight \/ AgentSettles
Parent == ReadLine \/ AfterSettled \/ ExitEvent \/ WriteFails

Next == Child \/ Parent \/ ChildDies \/ AbortRun

Spec == Init /\ [][Next]_vars

(***************************************************************************)
(* The child reads, answers and settles, and SIGTERM ends it (the RPC mode *)
(* exits from its handler); what it wrote is read and its exit is seen.    *)
(***************************************************************************)
FairSpec ==
    /\ Spec
    /\ WF_vars(Child)
    /\ WF_vars(ReadLine) /\ WF_vars(AfterSettled) /\ WF_vars(ExitEvent)
    /\ WF_vars(child = "terminating" /\ ChildDies)

-----------------------------------------------------------------------------
\* The pipes carry commands and answers, and run() is where it may be.
TypeOK ==
    /\ pc \in Commands \cup {"settling", "disposing", "done"}
    /\ outcome \in {"none", "result", "error", "abort_reason"}
    /\ {aborted, listening, settled, exited, uncaught} \subseteq BOOLEAN
    /\ requests \subseteq Commands
    /\ stdin \in Seq(Commands)
    /\ \A i \in DOMAIN stdout :
          stdout[i] = Settled \/ stdout[i].command \in Commands
    /\ child \in {"alive", "terminating", "dead"}
    /\ agent \in {"idle", "preflight", "running", "aborting", "handled"}

\* No run leaves its child behind: when run() has ended the process is dead.
ChildReaped == pc = "done" => child = "dead" /\ exited /\ requests = {}

\* The run as TaskSupervisor sees it.
Contract == INSTANCE TaskExecution WITH
    status <- IF pc = "done" THEN "settled" ELSE "pending",
    outcome <- IF pc = "done" THEN outcome ELSE "none",
    worker <- IF child = "dead" THEN "gone"
              ELSE IF agent \in {"preflight", "running", "aborting"} THEN "working"
              ELSE "idle",
    finished <- settled

\* run() keeps what TaskSupervisor relies on, see TaskExecution: the promise
\* settles once and without a child left, with a result only if the agent had
\* settled and works no more, even after a late abort, and with the reason of
\* an abort only if there was one.
KeepsContract == Contract!Spec

\* The one state that nothing in run() leads out of: the prompt is accepted
\* and agent_settled will not come.
Abandoned ==
    /\ pc = "settling" /\ ~settled
    /\ child = "dead" \/ agent = "handled"

\* Every run ends, unless the child ends or takes the prompt for a command
\* while run() waits for agent_settled.
RunEndsUnlessAbandoned == (pc # "done") ~> (pc = "done" \/ Abandoned)

(***************************************************************************)
(* An aborted run ends, which a task's cancellation and its time budget    *)
(* rely on.                                                                *)
(***************************************************************************)
AbortedRunEnds == aborted ~> (pc = "done")
=============================================================================
