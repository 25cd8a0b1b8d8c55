-------------------- MODULE OrchestratorSupervisorProofs --------------------
(***************************************************************************)
(* Proofs about OrchestratorSupervisor, for any instances, sessions and    *)
(* starts of the daemon.                                                   *)
(***************************************************************************)
EXTENDS OrchestratorSupervisor, TLAPS

Record == [status : Statuses, session : Nat] \cup {Absent}

\* What is said of each instance needs functions on all of them.
Shapes ==
    /\ disk \in [Ids -> Record] /\ record \in [Ids -> Record]
    /\ sessions \in [Ids -> Nat] /\ childSession \in [Ids -> Nat]

\* An instance that was never spawned is nowhere.
FreshIsNowhere ==
    \A id \in Ids : sessions[id] = Unknown =>
        /\ disk[id] = Absent /\ record[id] = Absent
        /\ child[id] = "none" /\ id \notin live \cup stopped \cup toClose

\* Who waits for an exit waits for a child that was sent SIGTERM.
DisposedIsDying ==
    \A id \in Ids : disposer[id] # "none" => child[id] = "dying" /\ id \notin held

\* What the loop of the recovery has still to look at has no child yet.
TodoIsIdle ==
    \A id \in todo :
        /\ child[id] = "none" /\ id \notin live
        /\ sessions[id] # Unknown /\ disk[id] # Absent

\* What a dead daemon has left: the file.
DownIsEmpty ==
    daemon = "down" =>
        live = {} /\ todo = {} /\ \A id \in Ids : child[id] = "none"

\* An instance that shutdown() is going to store again was not stopped.
ClosingSparesStopped ==
    /\ daemon # "closing" => toClose = {}
    /\ toClose \cap stopped = {}
    /\ \A id \in Ids : disposer[id] = "shutdown" =>
          daemon = "closing" /\ id \notin stopped

\* What the answer to a stream may store of an instance that was stopped.
StoppedIsRecorded ==
    \A id \in stopped : child[id] # "none" =>
        record[id].status = "stopped" /\ id \notin reaped

LiveIsRecorded == \A id \in live : record[id].status \in Statuses

IInv ==
    /\ TypeOK /\ ChildrenAccounted /\ StoppedStaysGone /\ RecordsAgree
    /\ Shapes /\ FreshIsNowhere /\ DisposedIsDying /\ TodoIsIdle /\ DownIsEmpty
    /\ ClosingSparesStopped /\ StoppedIsRecorded /\ LiveIsRecorded

-----------------------------------------------------------------------------
(* The steps, one action each.  The parts of the invariant that an action  *)
(* can disturb are proved in four groups, each from the whole of it.       *)

USE DEF IInv, TypeOK, Shapes, ChildrenAccounted, StoppedStaysGone, RecordsAgree,
        FreshIsNowhere, DisposedIsDying, TodoIsIdle, DownIsEmpty,
        ClosingSparesStopped, StoppedIsRecorded, LiveIsRecorded,
        Record, Statuses, Absent, Unknown, store, process, awaiting, loops,
        history

\* What TypeOK says of the records.
RecordsTyped ==
    \A id \in Ids :
        {disk[id], record[id]} \subseteq
            [status : Statuses, session : 0..sessions[id]] \cup {Absent}

\* setStatus() keeps records what they are.
LEMMA StatusFacts ==
    ASSUME TypeOK, Shapes, sessions' = sessions,
           NEW id \in Ids, NEW status \in Statuses, SetStatus(id, status)
    PROVE  /\ record' \in [Ids -> Record] /\ disk' \in [Ids -> Record]
           /\ record'[id].status \in Statuses
           /\ \A j \in Ids \ {id} : record'[j] = record[j]
           /\ RecordsTyped'
<1> DEFINE r == [status |-> status, session |-> record[id].session]
<1>1. [record[id] EXCEPT !.status = status] = r
  OBVIOUS
<1>2. record[id].session \in 0..sessions[id]
  OBVIOUS
<1>3. r \in [status : Statuses, session : 0..sessions[id]] /\ r \in Record
  BY <1>2
<1>4. record' = [record EXCEPT ![id] = r] /\ disk' = [disk EXCEPT ![id] = r]
  BY <1>1 DEF SetStatus
<1>5. r.status \in Statuses
  OBVIOUS
<1> HIDE DEF r
<1>6. RecordsTyped'
  BY <1>3, <1>4 DEF RecordsTyped
<1> QED BY <1>3, <1>4, <1>5, <1>6

\* So does the end of a stop.
LEMMA RemovedFacts ==
    ASSUME TypeOK, Shapes, sessions' = sessions, NEW id \in Ids, Removed(id)
    PROVE  /\ record' \in [Ids -> Record] /\ disk' \in [Ids -> Record]
           /\ \A j \in Ids \ {id} : record'[j] = record[j]
           /\ live' = live \ {id} /\ stopped' \subseteq Ids
           /\ RecordsTyped'
<1> DEFINE r == [status |-> "stopped", session |-> record[id].session]
<1>1. [record[id] EXCEPT !.status = "stopped"] = r
  OBVIOUS
<1>2. record[id].session \in 0..sessions[id]
  OBVIOUS
<1>3. r \in [status : Statuses, session : 0..sessions[id]] /\ r \in Record
  BY <1>2
<1>4. record' = [record EXCEPT ![id] = r] /\ disk' = [disk EXCEPT ![id] = Absent]
  BY <1>1 DEF Removed
<1> HIDE DEF r
<1>5. RecordsTyped'
  BY <1>3, <1>4 DEF RecordsTyped
<1> QED BY <1>3, <1>4, <1>5 DEF Removed

\* A new instance has nothing of its own yet.
LEMMA SpawnStep == ASSUME IInv, NEW id \in Ids, Spawn(id) PROVE IInv'
<1> USE DEF Spawn, Running, StartChild
<1>1. (TypeOK /\ Shapes /\ LiveIsRecorded)'
  OBVIOUS
<1>2. (ChildrenAccounted /\ DisposedIsDying)'
  OBVIOUS
<1>3. RecordsAgree'
  OBVIOUS
<1>4. (FreshIsNowhere /\ TodoIsIdle /\ DownIsEmpty /\ ClosingSparesStopped)'
  OBVIOUS
<1>5. (StoppedStaysGone /\ StoppedIsRecorded)'
  OBVIOUS
<1> QED BY <1>1, <1>2, <1>3, <1>4, <1>5

\* A spawn that throws leaves a record only.
LEMMA SpawnThrowsStep == ASSUME IInv, NEW id \in Ids, SpawnThrows(id) PROVE IInv'
<1> USE DEF SpawnThrows, Running, SetStatus
<1>1. (TypeOK /\ Shapes /\ LiveIsRecorded)'
  OBVIOUS
<1>2. (ChildrenAccounted /\ DisposedIsDying)'
  OBVIOUS
<1>3. RecordsAgree'
  OBVIOUS
<1>4. (FreshIsNowhere /\ TodoIsIdle /\ DownIsEmpty /\ ClosingSparesStopped)'
  OBVIOUS
<1>5. (StoppedStaysGone /\ StoppedIsRecorded)'
  OBVIOUS
<1> QED BY <1>1, <1>2, <1>3, <1>4, <1>5

\* The answer to get_state sets the record, in memory and in the file.
LEMMA GoOnlineStep == ASSUME IInv, NEW id \in Ids, GoOnline(id) PROVE IInv'
<1> USE DEF GoOnline, SyncRecord, CanAnswer
<1>1. (TypeOK /\ Shapes /\ LiveIsRecorded)'
  OBVIOUS
<1>2. (ChildrenAccounted /\ DisposedIsDying)'
  OBVIOUS
<1>3. RecordsAgree'
  OBVIOUS
<1>4. (FreshIsNowhere /\ TodoIsIdle /\ DownIsEmpty /\ ClosingSparesStopped)'
  OBVIOUS
<1>5. (StoppedStaysGone /\ StoppedIsRecorded)'
  OBVIOUS
<1> QED BY <1>1, <1>2, <1>3, <1>4, <1>5

\* A command is sent to a process whose exit is not reported.
LEMMA SendCommandStep == ASSUME IInv, NEW id \in Ids, SendCommand(id) PROVE IInv'
<1> USE DEF SendCommand, Running
<1>1. (TypeOK /\ Shapes /\ LiveIsRecorded)'
  OBVIOUS
<1>2. (ChildrenAccounted /\ DisposedIsDying)'
  OBVIOUS
<1>3. RecordsAgree'
  OBVIOUS
<1>4. (FreshIsNowhere /\ TodoIsIdle /\ DownIsEmpty /\ ClosingSparesStopped)'
  OBVIOUS
<1>5. (StoppedStaysGone /\ StoppedIsRecorded)'
  OBVIOUS
<1> QED BY <1>1, <1>2, <1>3, <1>4, <1>5

\* A session that a command opens is new; the record is to be refreshed, or
\* stored as it is, which is nothing new for an instance that is live.
LEMMA AnswerCommandStep == ASSUME IInv, NEW id \in Ids, AnswerCommand(id) PROVE IInv'
<1> USE DEF AnswerCommand, Refresh, CanAnswer
<1>1. (TypeOK /\ Shapes /\ LiveIsRecorded)'
  <2>1. Shapes'
    <3>1. disk' = disk \/ disk' = [disk EXCEPT ![id] = record[id]]
      OBVIOUS
    <3>2. disk' \in [Ids -> Record] /\ record' = record
      BY <3>1
    <3>3. /\ sessions' = sessions \/ sessions' = [sessions EXCEPT ![id] = @ + 1]
          /\ \/ childSession' = childSession
             \/ childSession' = [childSession EXCEPT ![id] = sessions[id] + 1]
      OBVIOUS
    <3>4. sessions' \in [Ids -> Nat] /\ childSession' \in [Ids -> Nat]
      BY <3>3
    <3> QED BY <3>2, <3>4
  <2>2. TypeOK'
    BY SMTT(30)
  <2>3. LiveIsRecorded'
    OBVIOUS
  <2> QED BY <2>1, <2>2, <2>3
<1>2. (ChildrenAccounted /\ DisposedIsDying)'
  OBVIOUS
<1>3. RecordsAgree'
  OBVIOUS
<1>4. (FreshIsNowhere /\ TodoIsIdle /\ DownIsEmpty /\ ClosingSparesStopped)'
  OBVIOUS
<1>5. (StoppedStaysGone /\ StoppedIsRecorded)'
  OBVIOUS
<1> QED BY <1>1, <1>2, <1>3, <1>4, <1>5

\* The refresh after a command.
LEMMA AnswerSyncStep == ASSUME IInv, NEW id \in Ids, AnswerSync(id) PROVE IInv'
<1> USE DEF AnswerSync, SyncRecord, CanAnswer
<1>1. (TypeOK /\ Shapes /\ LiveIsRecorded)'
  OBVIOUS
<1>2. (ChildrenAccounted /\ DisposedIsDying)'
  OBVIOUS
<1>3. RecordsAgree'
  OBVIOUS
<1>4. (FreshIsNowhere /\ TodoIsIdle /\ DownIsEmpty /\ ClosingSparesStopped)'
  OBVIOUS
<1>5. (StoppedStaysGone /\ StoppedIsRecorded)'
  OBVIOUS
<1> QED BY <1>1, <1>2, <1>3, <1>4, <1>5

\* A stop rejects what is pending and sends SIGTERM.
LEMMA StopHeldStep == ASSUME IInv, NEW id \in Ids, StopHeld(id) PROVE IInv'
<1> USE DEF StopHeld, Running, Dispose, RejectAllPending, SetStatus, AfterRejection, Recovering
<1>1. (TypeOK /\ Shapes /\ LiveIsRecorded)'
  OBVIOUS
<1>2. (ChildrenAccounted /\ DisposedIsDying)'
  OBVIOUS
<1>3. RecordsAgree'
  OBVIOUS
<1>4. (FreshIsNowhere /\ TodoIsIdle /\ DownIsEmpty /\ ClosingSparesStopped)'
  OBVIOUS
<1>5. (StoppedStaysGone /\ StoppedIsRecorded)'
  OBVIOUS
<1> QED BY <1>1, <1>2, <1>3, <1>4, <1>5

\* A second stop is acknowledged at once.
LEMMA StopReleasedStep == ASSUME IInv, NEW id \in Ids, StopReleased(id) PROVE IInv'
<1> USE DEF StopReleased, Running, Removed
<1>1. (TypeOK /\ Shapes /\ LiveIsRecorded)'
  OBVIOUS
<1>2. (ChildrenAccounted /\ DisposedIsDying)'
  OBVIOUS
<1>3. RecordsAgree'
  OBVIOUS
<1>4. (FreshIsNowhere /\ TodoIsIdle /\ DownIsEmpty /\ ClosingSparesStopped)'
  OBVIOUS
<1>5. (StoppedStaysGone /\ StoppedIsRecorded)'
  OBVIOUS
<1> QED BY <1>1, <1>2, <1>3, <1>4, <1>5

\* A child that dies is still held.
LEMMA ChildDiesStep == ASSUME IInv, NEW id \in Ids, ChildDies(id) PROVE IInv'
<1> USE DEF ChildDies
<1>1. (TypeOK /\ Shapes /\ LiveIsRecorded)'
  OBVIOUS
<1>2. (ChildrenAccounted /\ DisposedIsDying)'
  OBVIOUS
<1>3. RecordsAgree'
  OBVIOUS
<1>4. (FreshIsNowhere /\ TodoIsIdle /\ DownIsEmpty /\ ClosingSparesStopped)'
  OBVIOUS
<1>5. (StoppedStaysGone /\ StoppedIsRecorded)'
  OBVIOUS
<1> QED BY <1>1, <1>2, <1>3, <1>4, <1>5

\* The exit of a child that is held: out of the map, nothing pending.
LEMMA UnexpectedExitStep == ASSUME IInv, NEW id \in Ids, UnexpectedExit(id) PROVE IInv'
<1> USE DEF UnexpectedExit, Gone, SetStatus, AfterRejection, Recovering, RejectOnExit, RejectAllPending
<1>1. (TypeOK /\ Shapes /\ LiveIsRecorded)'
  OBVIOUS
<1>2. (ChildrenAccounted /\ DisposedIsDying)'
  OBVIOUS
<1>3. RecordsAgree'
  OBVIOUS
<1>4. (FreshIsNowhere /\ TodoIsIdle /\ DownIsEmpty /\ ClosingSparesStopped)'
  OBVIOUS
<1>5. (StoppedStaysGone /\ StoppedIsRecorded)'
  OBVIOUS
<1> QED BY <1>1, <1>2, <1>3, <1>4, <1>5

\* The exit that somebody waits for.
LEMMA DisposedExitStep == ASSUME IInv, NEW id \in Ids, DisposedExit(id) PROVE IInv'
<1> USE DEF DisposedExit, Gone, Removed, SetStatus, RejectOnExit, RejectAllPending
<1>1. (TypeOK /\ Shapes /\ LiveIsRecorded)'
  <2>1. CASE disposer[id] \in {"spawn", "shutdown"}
    <3>1. PICK status \in Statuses : SetStatus(id, status)
      BY <2>1
    <3> HIDE DEF SetStatus
    <3>2. /\ record' \in [Ids -> Record] /\ disk' \in [Ids -> Record]
          /\ record'[id].status \in Statuses /\ RecordsTyped'
          /\ \A j \in Ids \ {id} : record'[j] = record[j]
      BY <3>1, StatusFacts
    <3>3. Shapes'
      BY <2>1, <3>2
    <3>4. LiveIsRecorded'
      BY <2>1, <3>2
    <3>5. TypeOK'
      BY <2>1, <3>2 DEF RecordsTyped
    <3> QED BY <3>3, <3>4, <3>5
  <2>2. CASE disposer[id] = "recovery"
    BY <2>2
  <2>3. CASE disposer[id] = "stop"
    <3>1. Removed(id)
      BY <2>3
    <3> HIDE DEF Removed
    <3>2. /\ record' \in [Ids -> Record] /\ disk' \in [Ids -> Record]
          /\ \A j \in Ids \ {id} : record'[j] = record[j]
          /\ live' = live \ {id} /\ stopped' \subseteq Ids
          /\ RecordsTyped'
      BY <3>1, RemovedFacts
    <3>3. Shapes'
      BY <3>2
    <3>4. LiveIsRecorded'
      BY <3>2
    <3>5. reaped' \subseteq stopped' /\ stopped' \subseteq Ids
      BY <2>3 DEF Removed
    <3>6. (/\ boot \in [Ids -> {"none", "spawning", "switching", "resuming"}]
           /\ rpc \in [Ids -> {"none", "command", "sync"}]
           /\ \A j \in Ids :
               /\ boot[j] # "none" \/ rpc[j] = "sync" => j \in held
               /\ rpc[j] # "none" => child[j] \in {"alive", "dying"})'
      OBVIOUS
    <3>7. TypeOK'
      BY <2>3, <3>2, <3>5, <3>6 DEF RecordsTyped
    <3> QED BY <3>3, <3>4, <3>7
  <2> QED BY <2>1, <2>2, <2>3
<1>2. (ChildrenAccounted /\ DisposedIsDying)'
  OBVIOUS
<1>3. RecordsAgree'
  OBVIOUS
<1>4. (FreshIsNowhere /\ TodoIsIdle /\ DownIsEmpty /\ ClosingSparesStopped)'
  OBVIOUS
<1>5. (StoppedStaysGone /\ StoppedIsRecorded)'
  OBVIOUS
<1> QED BY <1>1, <1>2, <1>3, <1>4, <1>5

\* A failing write rejects its request and closes the daemon.
LEMMA WriteFailsStep == ASSUME IInv, NEW id \in Ids, WriteFails(id) PROVE IInv'
<1> USE DEF WriteFails, SetStatus, Dispose, RejectAllPending
<1>1. (TypeOK /\ Shapes /\ LiveIsRecorded)'
  <2>1. CASE boot[id] = "spawning" /\ SetStatus(id, "error") /\ Dispose(id, "spawn")
    <3>1. PICK status \in Statuses : SetStatus(id, status)
      BY <2>1
    <3> HIDE DEF SetStatus
    <3>2. /\ record' \in [Ids -> Record] /\ disk' \in [Ids -> Record]
          /\ record'[id].status \in Statuses /\ RecordsTyped'
          /\ \A j \in Ids \ {id} : record'[j] = record[j]
      BY <3>1, StatusFacts
    <3>3. Shapes'
      BY <2>1, <3>2
    <3>4. LiveIsRecorded'
      BY <2>1, <3>2
    <3>5. TypeOK'
      BY <2>1, <3>2 DEF RecordsTyped
    <3> QED BY <3>3, <3>4, <3>5
  <2>2. CASE UNCHANGED <<store, held, child, boot, disposer>> /\ rpc' = [rpc EXCEPT ![id] = "none"]
    BY <2>2
  <2> QED BY <2>1, <2>2
<1>2. (ChildrenAccounted /\ DisposedIsDying)'
  OBVIOUS
<1>3. RecordsAgree'
  OBVIOUS
<1>4. (FreshIsNowhere /\ TodoIsIdle /\ DownIsEmpty /\ ClosingSparesStopped)'
  OBVIOUS
<1>5. (StoppedStaysGone /\ StoppedIsRecorded)'
  OBVIOUS
<1> QED BY <1>1, <1>2, <1>3, <1>4, <1>5

\* The recovery starts a child for a record that has none.
LEMMA RecoverStep == ASSUME IInv, NEW id \in Ids, Recover(id) PROVE IInv'
<1> USE DEF Recover, NoneRecovering, Recovering, StartChild
<1>1. (TypeOK /\ Shapes /\ LiveIsRecorded)'
  OBVIOUS
<1>2. (ChildrenAccounted /\ DisposedIsDying)'
  OBVIOUS
<1>3. RecordsAgree'
  OBVIOUS
<1>4. (FreshIsNowhere /\ TodoIsIdle /\ DownIsEmpty /\ ClosingSparesStopped)'
  OBVIOUS
<1>5. (StoppedStaysGone /\ StoppedIsRecorded)'
  OBVIOUS
<1> QED BY <1>1, <1>2, <1>3, <1>4, <1>5

\* A recovery that throws leaves a record only.
LEMMA RecoverThrowsStep == ASSUME IInv, NEW id \in Ids, RecoverThrows(id) PROVE IInv'
<1> USE DEF RecoverThrows, NoneRecovering
<1>1. (TypeOK /\ Shapes /\ LiveIsRecorded)'
  OBVIOUS
<1>2. (ChildrenAccounted /\ DisposedIsDying)'
  OBVIOUS
<1>3. RecordsAgree'
  OBVIOUS
<1>4. (FreshIsNowhere /\ TodoIsIdle /\ DownIsEmpty /\ ClosingSparesStopped)'
  OBVIOUS
<1>5. (StoppedStaysGone /\ StoppedIsRecorded)'
  OBVIOUS
<1> QED BY <1>1, <1>2, <1>3, <1>4, <1>5

\* The child has opened the session on record, or has not.
LEMMA SwitchAnsweredStep == ASSUME IInv, NEW id \in Ids, SwitchAnswered(id) PROVE IInv'
<1> USE DEF SwitchAnswered, CanAnswer
<1>1. (TypeOK /\ Shapes /\ LiveIsRecorded)'
  OBVIOUS
<1>2. (ChildrenAccounted /\ DisposedIsDying)'
  OBVIOUS
<1>3. RecordsAgree'
  OBVIOUS
<1>4. (FreshIsNowhere /\ TodoIsIdle /\ DownIsEmpty /\ ClosingSparesStopped)'
  OBVIOUS
<1>5. (StoppedStaysGone /\ StoppedIsRecorded)'
  OBVIOUS
<1> QED BY <1>1, <1>2, <1>3, <1>4, <1>5

\* A failing switch ends in a dispose of the recovery.
LEMMA SwitchFailsStep == ASSUME IInv, NEW id \in Ids, SwitchFails(id) PROVE IInv'
<1> USE DEF SwitchFails, CanAnswer, SetStatus, Dispose, RejectAllPending
<1>1. (TypeOK /\ Shapes /\ LiveIsRecorded)'
  OBVIOUS
<1>2. (ChildrenAccounted /\ DisposedIsDying)'
  OBVIOUS
<1>3. RecordsAgree'
  OBVIOUS
<1>4. (FreshIsNowhere /\ TodoIsIdle /\ DownIsEmpty /\ ClosingSparesStopped)'
  OBVIOUS
<1>5. (StoppedStaysGone /\ StoppedIsRecorded)'
  OBVIOUS
<1> QED BY <1>1, <1>2, <1>3, <1>4, <1>5

\* shutdown() disposes of a process.
LEMMA CloseHeldStep == ASSUME IInv, NEW id \in Ids, CloseHeld(id) PROVE IInv'
<1> USE DEF CloseHeld, NoneClosing, Dispose, RejectAllPending, SetStatus, AfterRejection, Recovering
<1>1. (TypeOK /\ Shapes /\ LiveIsRecorded)'
  <2>1. CASE boot[id] = "none"
    BY <2>1
  <2>2. CASE boot[id] # "none"
    <3>1. PICK status \in Statuses : SetStatus(id, status)
      BY <2>2
    <3> HIDE DEF SetStatus
    <3>2. /\ record' \in [Ids -> Record] /\ disk' \in [Ids -> Record]
          /\ record'[id].status \in Statuses /\ RecordsTyped'
          /\ \A j \in Ids \ {id} : record'[j] = record[j]
      BY <3>1, StatusFacts
    <3>3. Shapes'
      BY <2>2, <3>2
    <3>4. LiveIsRecorded'
      BY <2>2, <3>2
    <3>5. TypeOK'
      BY <2>2, <3>2 DEF RecordsTyped
    <3> QED BY <3>3, <3>4, <3>5
  <2> QED BY <2>1, <2>2
<1>2. (ChildrenAccounted /\ DisposedIsDying)'
  OBVIOUS
<1>3. RecordsAgree'
  OBVIOUS
<1>4. (FreshIsNowhere /\ TodoIsIdle /\ DownIsEmpty /\ ClosingSparesStopped)'
  OBVIOUS
<1>5. (StoppedStaysGone /\ StoppedIsRecorded)'
  OBVIOUS
<1> QED BY <1>1, <1>2, <1>3, <1>4, <1>5

\* shutdown() stores an instance without a process.
LEMMA CloseReleasedStep == ASSUME IInv, NEW id \in Ids, CloseReleased(id) PROVE IInv'
<1> USE DEF CloseReleased, NoneClosing, SetStatus
<1>1. (TypeOK /\ Shapes /\ LiveIsRecorded)'
  OBVIOUS
<1>2. (ChildrenAccounted /\ DisposedIsDying)'
  OBVIOUS
<1>3. RecordsAgree'
  OBVIOUS
<1>4. (FreshIsNowhere /\ TodoIsIdle /\ DownIsEmpty /\ ClosingSparesStopped)'
  OBVIOUS
<1>5. (StoppedStaysGone /\ StoppedIsRecorded)'
  OBVIOUS
<1> QED BY <1>1, <1>2, <1>3, <1>4, <1>5

\* The daemon starts, is ready, closes, exits or dies.
LEMMA DaemonStep ==
    ASSUME IInv, Start \/ Recovered \/ Shutdown \/ Drained \/ Exit \/ Crash
    PROVE  IInv'
<1>1. CASE Start
  BY <1>1, OrchestratorSupervisorAssumption DEF Start, Recoverable
<1>2. CASE Recovered
  BY <1>2 DEF Recovered
<1>3. CASE Shutdown
  BY <1>3 DEF Shutdown
<1>4. CASE Drained
  BY <1>4 DEF Drained
<1>5. CASE Forgotten
  BY <1>5 DEF Forgotten
<1> QED BY <1>1, <1>2, <1>3, <1>4, <1>5 DEF Exit, Crash

-----------------------------------------------------------------------------
(* The theorems.                                                           *)

\* The inductive invariant holds in every state.
THEOREM SupervisorInvariant == Spec => []IInv
<1>1. Init => IInv
  BY OrchestratorSupervisorAssumption DEF Init
<1>2. IInv /\ [Next]_vars => IInv'
  <2> SUFFICES ASSUME IInv, [Next]_vars PROVE IInv'
    OBVIOUS
  <2>1. CASE UNCHANGED vars
    BY <2>1 DEF vars
  <2>2. ASSUME NEW id \in Ids,
               \/ Requests(id) \/ BootAnswers(id) \/ CommandAnswers(id)
               \/ Exits(id) \/ ChildDies(id) \/ WriteFails(id)
               \/ Recover(id) \/ RecoverThrows(id) \/ CloseHeld(id) \/ CloseReleased(id)
        PROVE  IInv'
    BY <2>2, SpawnStep, SpawnThrowsStep, RecoverThrowsStep, StopHeldStep,
       StopReleasedStep, SendCommandStep, GoOnlineStep, SwitchAnsweredStep, SwitchFailsStep, AnswerCommandStep,
       AnswerSyncStep, UnexpectedExitStep, DisposedExitStep, ChildDiesStep,
       WriteFailsStep, RecoverStep, CloseHeldStep, CloseReleasedStep, Zenon
       DEF Requests, BootAnswers, CommandAnswers, Exits
  <2>3. CASE Start \/ Recovered \/ Shutdown \/ Drained \/ Exit \/ Crash
    BY <2>3, DaemonStep
  <2> QED BY <2>1, <2>2, <2>3, Zenon DEF Next, Loops
<1> QED BY <1>1, <1>2, PTL DEF Spec

\* Types, and what is pending with a process that is held, or has not exited.
THEOREM TypeInvariant == Spec => []TypeOK
<1>1. IInv => TypeOK
  OBVIOUS
<1> QED BY <1>1, SupervisorInvariant, PTL

\* No child of the daemon is left behind: it is held, or its exit is awaited.
THEOREM NoChildLeftBehind == Spec => []ChildrenAccounted
<1>1. IInv => ChildrenAccounted
  OBVIOUS
<1> QED BY <1>1, SupervisorInvariant, PTL

\* An instance whose stop was acknowledged does not come back, at no restart:
\* at most its record is stored again, as stopped, before its child has exited.
THEOREM StopIsFinal == Spec => []StoppedStaysGone
<1>1. IInv => StoppedStaysGone
  OBVIOUS
<1> QED BY <1>1, SupervisorInvariant, PTL

\* Memory, file and child agree on an instance and its session.
THEOREM RecordsAlwaysAgree == Spec => []RecordsAgree
<1>1. IInv => RecordsAgree
  OBVIOUS
<1> QED BY <1>1, SupervisorInvariant, PTL
=============================================================================
