----------------------- MODULE OrchestratorSupervisor -----------------------
(***************************************************************************)
(* The instances of packages/orchestrator/src/supervisor.ts: agents in RPC *)
(* mode, each a child of the daemon, with a record in memory and one in    *)
(* instances.json.  They are spawned, used and stopped by requests,        *)
(* recovered when the daemon starts, kept for the next start when it is    *)
(* shut down, and lost from memory when it crashes.                        *)
(*                                                                         *)
(* A step is what runs between two awaits, on an answer or on the exit of  *)
(* a child; the microtasks that a rejected request sets off belong to the  *)
(* step that rejects it.                                                   *)
(***************************************************************************)
EXTENDS Naturals, FiniteSets

CONSTANTS
    Ids,          \* the instances that are ever spawned
    MaxSessions,  \* bound, per instance: its commands open no session after
                  \* the one with this number
    MaxLives      \* bound: starts of the daemon

ASSUME OrchestratorSupervisorAssumption ==
    MaxLives \in Nat \ {0} /\ MaxSessions \in [Ids -> Nat \ {0}]

VARIABLES
    daemon,        \* serve(): "down", "recovering", "up", "draining" while
                   \* the tasks are shut down, then "closing"
    lives,         \* history: starts of the daemon
    disk,          \* instances.json
    record,        \* live.record, also of an instance that has left the map
    live,          \* the keys of liveInstances
    held,          \* live.resources.rpcProcess is set and its exit observed
    child,         \* the child process of an instance
    childSession,  \* the session the child has open, by its number
    sessions,      \* the last number given to a session of the instance
    boot,          \* what a spawn or the recovery of an instance awaits
    rpc,           \* the step a command of a request or a stream is at
    disposer,      \* who awaits the exit of the child in dispose()
    todo,          \* records recoverAfterRestart() has still to look at
    toClose,       \* instances shutdown() has still to look at
    stopped,       \* history: instances whose stop was acknowledged
    reaped         \* history: those whose stop has seen the child exit

store == <<disk, record>>
process == <<child, childSession, sessions>>
awaiting == <<boot, rpc, disposer>>
loops == <<todo, toClose>>
history == <<stopped, reaped>>

vars == <<daemon, lives, store, live, held, process, awaiting, loops, history>>

-----------------------------------------------------------------------------
(* Records and children. *)

Unknown == 0   \* the session before the first answer to get_state
Statuses == {"starting", "online", "stopping", "stopped", "error"}
Absent == [status |-> "absent", session |-> Unknown]

\* setStatus(): memory and file together.
SetStatus(id, status) ==
    /\ record' = [record EXCEPT ![id].status = status]
    /\ disk' = [disk EXCEPT ![id] = [record[id] EXCEPT !.status = status]]

\* updateRecord() with the answer to get_state, then the given status.
SyncRecord(id, status) ==
    LET r == [status |-> status, session |-> childSession[id]]
    IN  record' = [record EXCEPT ![id] = r] /\ disk' = [disk EXCEPT ![id] = r]

\* createRpcProcessInstance() and bindRpcProcess(): a child in a new session.
StartChild(id) ==
    /\ child' = [child EXCEPT ![id] = "alive"]
    /\ sessions' = [sessions EXCEPT ![id] = @ + 1]
    /\ childSession' = [childSession EXCEPT ![id] = sessions[id] + 1]
    /\ held' = held \cup {id}

\* Slip: dispose() leaves the requests pending.
LeavePending(id) == UNCHANGED <<boot, rpc>>

\* rejectAllPending(): whoever awaits an answer of the child goes on.
RejectAllPending(id) ==
    /\ boot' = [boot EXCEPT ![id] = "none"]
    /\ rpc' = [rpc EXCEPT ![id] = "none"]

\* Slip: no signal is sent.
DisposeSilently(id, who) ==
    /\ held' = held \ {id}
    /\ disposer' = [disposer EXCEPT ![id] = who]
    /\ RejectAllPending(id)
    /\ UNCHANGED child

\* cleanupAcquiredResources() up to the await of dispose().
Dispose(id, who) ==
    /\ held' = held \ {id}
    /\ disposer' = [disposer EXCEPT ![id] = who]
    /\ RejectAllPending(id)
    /\ child' = [child EXCEPT ![id] = "dying"]

Recovering(id) ==
    \/ boot[id] \in {"switching", "resuming"}
    \/ disposer[id] = "recovery"

\* What the rejection of a pending get_state or switch_session leads to:
\* failSpawn() or the catch block of the recovery, with no process to dispose.
AfterRejection(id, status) ==
    CASE boot[id] = "spawning" -> "stopped"
      [] Recovering(id) -> "error"
      [] OTHER -> status

Running == daemon # "down"

\* Also what a dying child has written is read until its exit is reported.
CanAnswer(id) == child[id] \in {"alive", "dying"}

-----------------------------------------------------------------------------
(* Requests. Connections that are open stay open while the daemon closes.  *)

Init ==
    /\ daemon = "down" /\ lives = 0
    /\ disk = [id \in Ids |-> Absent] /\ record = [id \in Ids |-> Absent]
    /\ live = {} /\ held = {}
    /\ child = [id \in Ids |-> "none"]
    /\ childSession = [id \in Ids |-> Unknown]
    /\ sessions = [id \in Ids |-> Unknown]
    /\ boot = [id \in Ids |-> "none"]
    /\ rpc = [id \in Ids |-> "none"]
    /\ disposer = [id \in Ids |-> "none"]
    /\ todo = {} /\ toClose = {}
    /\ stopped = {} /\ reaped = {}

\* spawnInstance() up to its await.
Spawn(id) ==
    /\ Running
    /\ sessions[id] = Unknown
    /\ live' = live \cup {id}
    /\ record' = [record EXCEPT ![id].status = "starting"]
    /\ disk' = [disk EXCEPT ![id].status = "starting"]
    /\ StartChild(id)
    /\ boot' = [boot EXCEPT ![id] = "spawning"]
    /\ UNCHANGED <<daemon, lives, rpc, disposer, loops, history>>

\* createRpcProcessInstance() throws: failSpawn() with nothing to dispose of.
\* The id, a UUID, is not given again.
SpawnThrows(id) ==
    /\ Running
    /\ sessions[id] = Unknown
    /\ SetStatus(id, "stopped")
    /\ sessions' = [sessions EXCEPT ![id] = @ + 1]
    /\ UNCHANGED <<daemon, lives, live, held, child, childSession, awaiting,
                   loops, history>>

\* syncInstanceRecord() has its answer; the spawn or the recovery is done.
GoOnline(id) ==
    /\ boot[id] \in {"spawning", "resuming"} /\ CanAnswer(id)
    /\ SyncRecord(id, "online")
    /\ boot' = [boot EXCEPT ![id] = "none"]
    /\ UNCHANGED <<daemon, lives, live, held, process, rpc, disposer, loops,
                   history>>

\* handleRpc(), or the handle of a stream, sends a command.  The first finds
\* the process with the live instance.  The second has kept both since it was
\* opened and looks at neither again, so that the process may be released, and
\* the instance removed, by the time it sends; only the exit stops it.
\* Commands that are not in SESSION_METADATA_COMMANDS change nothing here.
SendCommand(id) ==
    /\ Running
    /\ child[id] \in {"alive", "dying"}
    /\ rpc[id] = "none"
    /\ rpc' = [rpc EXCEPT ![id] = "command"]
    /\ UNCHANGED <<daemon, lives, store, live, held, process, boot, disposer,
                   loops, history>>

\* Slip: a command that changes the session is missing from the set.
NoRefresh == "none"

\* shouldRefreshSessionMetadata(): the record is brought up to date.
Refresh == "sync"

\* The child executes a command, perhaps in a session it has opened for it,
\* and the daemon reads its answer.  syncInstanceRecord() asks the process for
\* its state; if it was released it stores the record as it is, also when the
\* record has been removed from the file.
AnswerCommand(id) ==
    /\ rpc[id] = "command" /\ CanAnswer(id)
    /\ \/ UNCHANGED process
       \/ /\ sessions[id] < MaxSessions[id]
          /\ sessions' = [sessions EXCEPT ![id] = @ + 1]
          /\ childSession' = [childSession EXCEPT ![id] = sessions[id] + 1]
          /\ UNCHANGED child
    /\ \/ /\ id \in held
          /\ rpc' = [rpc EXCEPT ![id] = Refresh]
          /\ UNCHANGED store
       \/ /\ id \notin held
          /\ rpc' = [rpc EXCEPT ![id] = "none"]
          /\ disk' = [disk EXCEPT ![id] = record[id]]
          /\ UNCHANGED record
    /\ UNCHANGED <<daemon, lives, live, held, boot, disposer, loops, history>>

\* The answer to the get_state of a command.
AnswerSync(id) ==
    /\ rpc[id] = "sync" /\ CanAnswer(id)
    /\ SyncRecord(id, record[id].status)
    /\ rpc' = [rpc EXCEPT ![id] = "none"]
    /\ UNCHANGED <<daemon, lives, live, held, process, boot, disposer, loops,
                   history>>

\* stopInstance() up to the await of the exit.  A spawn or recovery whose
\* request is rejected has ended, and left the map, before the child exits.
StopHeld(id) ==
    /\ Running
    /\ id \in live \cap held
    /\ Dispose(id, "stop")
    /\ SetStatus(id, AfterRejection(id, "stopping"))
    /\ live' = IF boot[id] = "none" THEN live ELSE live \ {id}
    /\ UNCHANGED <<daemon, lives, childSession, sessions, loops, history>>

\* The end of stopInstance(): out of the map, out of the file, acknowledged.
Removed(id) ==
    /\ record' = [record EXCEPT ![id].status = "stopped"]
    /\ disk' = [disk EXCEPT ![id] = Absent]
    /\ live' = live \ {id}
    /\ stopped' = IF daemon = "closing" THEN stopped ELSE stopped \cup {id}

\* stopInstance() of an instance that another step is disposing of.
StopReleased(id) ==
    /\ Running
    /\ id \in live \ held
    /\ Removed(id)
    /\ UNCHANGED <<daemon, lives, held, process, awaiting, loops, reaped>>

-----------------------------------------------------------------------------
(* Children. *)

\* A child crashes; the daemon does not see it yet.
ChildDies(id) ==
    /\ child[id] = "alive"
    /\ child' = [child EXCEPT ![id] = "dying"]
    /\ UNCHANGED <<daemon, lives, store, live, held, childSession, sessions,
                   awaiting, loops, history>>

Gone(id) ==
    /\ child[id] = "dying"
    /\ child' = [child EXCEPT ![id] = "none"]
    /\ childSession' = [childSession EXCEPT ![id] = Unknown]

\* Slip: the exit of a child does not reject what is pending.
KeepWaiting(id) == UNCHANGED <<boot, rpc>>

\* The exit listener of the instance: pending requests end.
RejectOnExit(id) == RejectAllPending(id)

\* The exit event while the process is held: handleUnexpectedRpcExit(), then
\* the spawn or the recovery that awaited the child.
UnexpectedExit(id) ==
    /\ Gone(id)
    /\ id \in held
    /\ SetStatus(id, AfterRejection(id, "error"))
    /\ live' = live \ {id}
    /\ held' = held \ {id}
    /\ RejectOnExit(id)
    /\ UNCHANGED <<daemon, lives, sessions, disposer, loops, history>>

\* The exit event that dispose() awaits: commands sent meanwhile are
\* rejected, its caller goes on.
DisposedExit(id) ==
    /\ Gone(id)
    /\ RejectOnExit(id)
    /\ disposer' = [disposer EXCEPT ![id] = "none"]
    /\ \/ /\ disposer[id] = "stop" /\ Removed(id)
          /\ reaped' = IF daemon = "closing" THEN reaped ELSE reaped \cup {id}
       \/ /\ disposer[id] = "spawn"
          /\ SetStatus(id, "stopped") /\ live' = live \ {id}
          /\ UNCHANGED history
       \/ /\ disposer[id] = "recovery"
          /\ live' = live \ {id}
          /\ UNCHANGED <<store, history>>
       \/ /\ disposer[id] = "shutdown"
          /\ SetStatus(id, "starting") /\ live' = live \ {id}
          /\ UNCHANGED history
    /\ UNCHANGED <<daemon, lives, held, sessions, loops>>

\* A write to a child that has died unseen fails.  Its request is rejected;
\* nobody handles the error event of the pipe, an uncaughtException.
WriteFails(id) ==
    /\ child[id] = "dying"
    /\ daemon \in {"up", "draining", "closing"}
    /\ \/ /\ boot[id] = "spawning"
          /\ SetStatus(id, "error")
          /\ Dispose(id, "spawn")
       \/ /\ rpc[id] # "none"
          /\ rpc' = [rpc EXCEPT ![id] = "none"]
          /\ UNCHANGED <<store, held, child, boot, disposer>>
    /\ daemon' = IF daemon = "up" THEN "draining" ELSE daemon
    /\ UNCHANGED <<lives, live, childSession, sessions, loops, history>>

-----------------------------------------------------------------------------
(* Recovery. *)

\* Slip: the test of the status is not in the loop.
AllRecoverable == {id \in Ids : disk[id] # Absent}

\* loadInstances(), and the records that the loop does not pass over.
Recoverable == {id \in Ids : disk[id].status \in {"online", "starting"}}

\* serve(): requests are accepted from now on.
Start ==
    /\ daemon = "down" /\ lives < MaxLives
    /\ daemon' = "recovering" /\ lives' = lives + 1
    /\ todo' = Recoverable
    /\ UNCHANGED <<store, live, held, process, awaiting, toClose, history>>

NoneRecovering == \A id \in Ids : ~Recovering(id)

\* The loop of recoverAfterRestart() takes the next record.
Recover(id) ==
    /\ id \in todo /\ NoneRecovering
    /\ todo' = todo \ {id}
    /\ live' = live \cup {id}
    /\ record' = [record EXCEPT ![id] = disk[id]]
    /\ StartChild(id)
    /\ boot' = [boot EXCEPT ![id] = IF disk[id].session = Unknown
                                      THEN "resuming" ELSE "switching"]
    /\ UNCHANGED <<daemon, lives, disk, rpc, disposer, toClose, history>>

\* createRpcProcessInstance() throws: the catch block with nothing to dispose
\* of.
RecoverThrows(id) ==
    /\ id \in todo /\ NoneRecovering
    /\ todo' = todo \ {id}
    /\ record' = [record EXCEPT ![id] = [disk[id] EXCEPT !.status = "error"]]
    /\ disk' = [disk EXCEPT ![id].status = "error"]
    /\ UNCHANGED <<daemon, lives, live, held, process, awaiting, toClose, history>>

\* switch_session has its answer.  One that an extension of the child has
\* cancelled is a success, in the session the child has started with.
SwitchAnswered(id) ==
    /\ boot[id] = "switching" /\ CanAnswer(id)
    /\ \/ childSession' = [childSession EXCEPT ![id] = record[id].session]
       \/ UNCHANGED childSession
    /\ boot' = [boot EXCEPT ![id] = "resuming"]
    /\ UNCHANGED <<daemon, lives, store, live, held, child, sessions, rpc,
                   disposer, loops, history>>

\* switch_session has failed: the catch block up to its await.
SwitchFails(id) ==
    /\ boot[id] = "switching" /\ CanAnswer(id)
    /\ SetStatus(id, "error")
    /\ Dispose(id, "recovery")
    /\ UNCHANGED <<daemon, lives, live, childSession, sessions, loops, history>>

\* The handlers of signals are installed.
Recovered ==
    /\ daemon = "recovering" /\ todo = {} /\ NoneRecovering
    /\ daemon' = "up"
    /\ UNCHANGED <<lives, store, live, held, process, awaiting, loops, history>>

-----------------------------------------------------------------------------
(* Shutdown and crash. *)

\* A signal: first the tasks are shut down, which TaskSupervisor models.
Shutdown ==
    /\ daemon = "up"
    /\ daemon' = "draining"
    /\ UNCHANGED <<lives, store, live, held, process, awaiting, loops, history>>

\* No task runs any more: shutdown() takes the instances it finds.
Drained ==
    /\ daemon = "draining"
    /\ daemon' = "closing" /\ toClose' = live
    /\ UNCHANGED <<lives, store, live, held, process, awaiting, todo, history>>

NoneClosing == \A id \in Ids : disposer[id] # "shutdown"

\* The loop of shutdown() disposes of a process.  A spawn that is rejected
\* has left the map before the child exits.
CloseHeld(id) ==
    /\ daemon = "closing" /\ NoneClosing
    /\ id \in toClose \cap held
    /\ toClose' = toClose \ {id}
    /\ Dispose(id, "shutdown")
    /\ IF boot[id] = "none"
         THEN UNCHANGED <<store, live>>
         ELSE /\ SetStatus(id, AfterRejection(id, "error"))
              /\ live' = live \ {id}
    /\ UNCHANGED <<daemon, lives, childSession, sessions, todo, history>>

\* There is nothing to dispose of: the record is stored, whatever became of
\* the instance since the loop began.
CloseReleased(id) ==
    /\ daemon = "closing" /\ NoneClosing
    /\ id \in toClose \ held
    /\ toClose' = toClose \ {id}
    /\ SetStatus(id, "starting")
    /\ live' = live \ {id}
    /\ UNCHANGED <<daemon, lives, held, process, awaiting, todo, history>>

\* What is left of the daemon when its process ends.  Children read the end
\* of their input and exit.
Forgotten ==
    /\ daemon' = "down"
    /\ live' = {} /\ held' = {} /\ todo' = {} /\ toClose' = {}
    /\ child' = [id \in Ids |-> "none"]
    /\ boot' = [id \in Ids |-> "none"]
    /\ rpc' = [id \in Ids |-> "none"]
    /\ disposer' = [id \in Ids |-> "none"]
    /\ record' = [id \in Ids |-> Absent]
    /\ childSession' = [id \in Ids |-> Unknown]
    /\ UNCHANGED <<lives, disk, sessions, history>>

Exit == daemon = "closing" /\ toClose = {} /\ NoneClosing /\ Forgotten

Crash == Running /\ Forgotten

-----------------------------------------------------------------------------
Requests(id) ==
    \/ Spawn(id) \/ SpawnThrows(id)
    \/ StopHeld(id) \/ StopReleased(id) \/ SendCommand(id)

BootAnswers(id) == GoOnline(id) \/ SwitchAnswered(id) \/ SwitchFails(id)

CommandAnswers(id) == AnswerCommand(id) \/ AnswerSync(id)

Exits(id) == UnexpectedExit(id) \/ DisposedExit(id)

Loops ==
    \/ Recovered \/ Exit
    \/ \E id \in Ids : \/ Recover(id) \/ RecoverThrows(id)
                       \/ CloseHeld(id) \/ CloseReleased(id)

Next ==
    \/ \E id \in Ids : \/ Requests(id) \/ BootAnswers(id) \/ CommandAnswers(id)
                       \/ Exits(id) \/ ChildDies(id) \/ WriteFails(id)
    \/ Loops
    \/ Start \/ Shutdown \/ Drained \/ Crash

Spec == Init /\ [][Next]_vars

(***************************************************************************)
(* The daemon's loops run when they can.  A child answers what it is asked *)
(* unless it dies, and a dying child's exit is reported: dispose() has no  *)
(* limit of its own and relies on it.  That the tasks are drained is not   *)
(* assumed: a run may keep the daemon waiting (RpcTaskExecutorAbort).      *)
(***************************************************************************)
FairSpec ==
    /\ Spec /\ WF_vars(Loops)
    /\ \A id \in Ids : /\ WF_vars(BootAnswers(id) \/ Exits(id))
                       /\ WF_vars(CommandAnswers(id))

-----------------------------------------------------------------------------
(***************************************************************************)
(* Types, and: a spawn, a recovery and a refresh of the record await only  *)
(* a process that the instance still holds, whatever rejected the others;  *)
(* a command, which a stream also sends to a process that was released,    *)
(* awaits one whose exit is not reported (rpc-process.ts:92, 129, 187).    *)
(***************************************************************************)
TypeOK ==
    /\ daemon \in {"down", "recovering", "up", "draining", "closing"}
    /\ lives \in 0..MaxLives
    /\ \A id \in Ids :
        /\ {disk[id], record[id]} \subseteq
               [status : Statuses, session : 0..sessions[id]] \cup {Absent}
        /\ childSession[id] \in 0..sessions[id]
    /\ child \in [Ids -> {"none", "alive", "dying"}]
    /\ boot \in [Ids -> {"none", "spawning", "switching", "resuming"}]
    /\ rpc \in [Ids -> {"none", "command", "sync"}]
    /\ disposer \in [Ids -> {"none", "spawn", "recovery", "stop", "shutdown"}]
    /\ held \subseteq live /\ live \subseteq Ids
    /\ todo \subseteq Ids /\ toClose \subseteq Ids
    /\ reaped \subseteq stopped /\ stopped \subseteq Ids
    /\ \A id \in Ids :
        /\ boot[id] # "none" \/ rpc[id] = "sync" => id \in held
        /\ rpc[id] # "none" => child[id] \in {"alive", "dying"}

(***************************************************************************)
(* No child is left behind: one that lives is held by an instance that a   *)
(* request can stop and shutdown() finds; one that was sent SIGTERM has    *)
(* somebody who waits for its exit; and nobody waits for another's.        *)
(***************************************************************************)
ChildrenAccounted ==
    \A id \in Ids :
        /\ child[id] = "alive" => id \in held
        /\ child[id] = "dying" => (id \in held) # (disposer[id] # "none")
        /\ child[id] = "none" => id \notin held /\ disposer[id] = "none"

(***************************************************************************)
(* A stop that was acknowledged before the daemon began to close is final: *)
(* no answer, exit, rejected spawn, second stop, recovery or restart       *)
(* brings the instance or its child back.  Its record is gone for good if  *)
(* the stop has seen the child exit.  A second stop is acknowledged before *)
(* that; a stream whose command is answered then, or the spawn that awaits *)
(* the exit, stores the record once more (supervisor.ts:130, 159), but     *)
(* only as stopped, which no recovery takes up.                            *)
(***************************************************************************)
StoppedStaysGone ==
    \A id \in stopped :
        /\ id \notin live \cup held \cup todo
        /\ \/ disk[id] = Absent
           \/ disk[id].status = "stopped" /\ id \notin reaped

(***************************************************************************)
(* What list reads from the file is what status reads from memory, and an  *)
(* instance that is online, recovered and without a command under way has  *)
(* on record the session of its living child, which a restart switches to. *)
(***************************************************************************)
RecordsAgree ==
    \A id \in live :
        /\ disk[id] = record[id]
        /\ /\ record[id].status = "online" /\ child[id] = "alive"
           /\ boot[id] = "none" /\ rpc[id] = "none"
           => record[id].session = childSession[id]

Awaiting(id) == boot[id] # "none" \/ rpc[id] # "none" \/ disposer[id] # "none"

(***************************************************************************)
(* Whatever a request or a loop awaits, an answer, an exit or the loop     *)
(* before it, comes to an end, as a result or as a rejection: spawns,      *)
(* commands, stops and recovery all return, and so does shutdown() once    *)
(* the tasks are drained.                                                  *)
(***************************************************************************)
EverythingReturns ==
    /\ \A id \in Ids : Awaiting(id) ~> ~Awaiting(id)
    /\ daemon \in {"recovering", "closing"} ~> daemon \in {"up", "down"}
=============================================================================
