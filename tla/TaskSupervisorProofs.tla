------------------------ MODULE TaskSupervisorProofs ------------------------
(***************************************************************************)
(* Proofs about TaskSupervisor for every number of tasks, concurrency      *)
(* limit, set of budgets and number of restarts.                           *)
(***************************************************************************)
EXTENDS TaskSupervisor, FiniteSetTheorems, TLAPS

\* Every branch of executeTask() leaves a status tasks.json may hold.
LEMMA StatusAfterType ==
    ASSUME NEW r, NEW o
    PROVE  StatusAfter(r, o) \in TaskStatus
BY DEF StatusAfter, AfterFailure, TaskStatus, TerminalStatuses

\* Updating the fields of a task, as transition() does, gives a task.
LEMMA RecordUpdateType ==
    ASSUME NEW rec \in TaskRecord, NEW s \in TaskStatus, NEW n \in Nat
    PROVE  /\ [rec EXCEPT !.status = s, !.attempt = n] \in TaskRecord
           /\ [rec EXCEPT !.status = s, !.maxAttempts = n] \in TaskRecord
           /\ rec.attempt \in Nat
           /\ rec.maxAttempts \in Nat
BY DEF TaskRecord

\* A task map with one status changed is a task map.
LEMMA WithStatusType ==
    ASSUME tasks \in [TaskIds -> TaskRecord], NEW t \in TaskIds,
           NEW s \in TaskStatus
    PROVE  WithStatus(t, s) \in [TaskIds -> TaskRecord]
BY DEF WithStatus, TaskRecord

\* Aborting a run changes neither which runs live, nor task or phase.
LEMMA AbortRunType ==
    ASSUME TypeOK, NEW r, NEW reason \in AbortReasons
    PROVE  /\ DOMAIN AbortRun(r, reason) = DOMAIN runs
           /\ \A s \in DOMAIN runs : AbortRun(r, reason)[s] \in RunRecord
           /\ \A s \in DOMAIN runs :
                 /\ AbortRun(r, reason)[s].task = runs[s].task
                 /\ AbortRun(r, reason)[s].phase = runs[s].phase
BY DEF TypeOK, AbortRun, RunRecord

\* The maps, counters and flags of the supervisor always keep their shapes:
\* no operation, timer, crash or recovery leaves an ill-formed record.
THEOREM TypeInvariant == Spec => []TypeOK
<1> USE TaskSupervisorAssumption DEF TaskSupervisorAssumption
<1>1. Init => TypeOK
  <2> SUFFICES ASSUME Init PROVE TypeOK
    OBVIOUS
  <2>1. NoTask \in TaskRecord
    BY DEF NoTask, TaskRecord
  <2>2. tasks \in [TaskIds -> TaskRecord] /\ disk \in [TaskIds -> TaskRecord]
    BY <2>1 DEF Init
  <2>3. DOMAIN runs = {} /\ 0 \in 0..(MaxTasks + 1)
    BY DEF Init
  <2> QED BY <2>2, <2>3 DEF Init, TypeOK, DaemonStates
<1>2. TypeOK /\ [Next]_vars => TypeOK'
  <2> SUFFICES ASSUME TypeOK, [Next]_vars PROVE TypeOK'
    OBVIOUS
  <2> USE DEF TypeOK, graph, execution, pumping, life
  <2>1. ASSUME NEW deps \in SUBSET TaskIds, NEW b \in AttemptBudgets,
               SpawnTask(deps, b)
        PROVE  TypeOK'
    BY <2>1 DEF SpawnTask, Transition, SchedulePump, TaskRecord, TaskStatus
  <2>2. ASSUME NEW t \in TaskIds, CancelTask(t) PROVE TypeOK'
    <3>1. CASE tasks[t].status = "running"
      <4>1. "cancelled" \in AbortReasons
        BY DEF AbortReasons
      <4> QED BY <2>2, <3>1, <4>1, AbortRunType DEF CancelTask
    <3>2. CASE tasks[t].status # "running"
      <4>1. WithStatus(t, "cancelled") \in [TaskIds -> TaskRecord]
        BY WithStatusType DEF TaskStatus, TerminalStatuses
      <4> QED BY <2>2, <3>2, <4>1 DEF CancelTask, Transition, NotifyWaiters
    <3> QED BY <3>1, <3>2
  <2>3. ASSUME NEW t \in TaskIds, RetryTask(t) PROVE TypeOK'
    <3>1. \A n \in Nat :
            [tasks[t] EXCEPT !.status = "queued", !.maxAttempts = n]
               \in TaskRecord
      BY RecordUpdateType DEF TaskStatus
    <3>2. tasks[t].attempt \in Nat /\ tasks[t].maxAttempts \in Nat
      BY DEF TaskRecord
    <3> DEFINE allowed == IF tasks[t].maxAttempts < tasks[t].attempt + 1
                            THEN tasks[t].attempt + 1
                            ELSE tasks[t].maxAttempts
               new == [tasks EXCEPT ![t] =
                         [tasks[t] EXCEPT !.status = "queued",
                                          !.maxAttempts = allowed]]
    <3>3. allowed \in Nat
      BY <3>2
    <3>4. new \in [TaskIds -> TaskRecord]
      <4> HIDE DEF allowed
      <4> QED BY <3>1, <3>3
    <3>5. tasks' = new /\ disk' = new
      BY <2>3 DEF RetryTask, Transition
    <3> HIDE DEF new
    <3> QED BY <2>3, <3>4, <3>5 DEF RetryTask, SchedulePump
  <2>4. ASSUME NEW t \in TaskIds, WaitForTask(t) \/ WaitTimesOut(t)
        PROVE  TypeOK'
    <3>1. waiters[t] \in Nat
      OBVIOUS
    <3>2. CASE WaitForTask(t)
      BY <3>1, <3>2 DEF WaitForTask
    <3>3. CASE WaitTimesOut(t)
      BY <3>1, <3>3 DEF WaitTimesOut
    <3> QED BY <2>4, <3>2, <3>3
  <2>5. CASE PumpStart \/ PumpEnd
    <3>1. 0 \in 0..(MaxTasks + 1) /\ 1 \in 0..(MaxTasks + 1)
      OBVIOUS
    <3>2. CASE PumpStart
      BY <3>1, <3>2 DEF PumpStart
    <3>3. CASE PumpEnd
      BY <3>1, <3>3 DEF PumpEnd
    <3> QED BY <2>5, <3>2, <3>3
  <2>6. ASSUME NEW t \in TaskIds, PumpSkip(t) \/ PumpFail(t) \/ PumpWait(t)
        PROVE  TypeOK'
    <3>1. /\ WithStatus(t, "failed") \in [TaskIds -> TaskRecord]
          /\ WithStatus(t, "waiting") \in [TaskIds -> TaskRecord]
      BY WithStatusType DEF TaskStatus, TerminalStatuses
    <3>2. t + 1 \in 0..(MaxTasks + 1)
      BY DEF TaskIds
    <3>3. CASE PumpSkip(t)
      BY <3>2, <3>3 DEF PumpSkip
    <3>4. CASE PumpFail(t)
      BY <3>1, <3>2, <3>4 DEF PumpFail, Transition, NotifyWaiters
    <3>5. CASE PumpWait(t)
      BY <3>1, <3>2, <3>5 DEF PumpWait, Transition
    <3> QED BY <2>6, <3>3, <3>4, <3>5
  <2>7. ASSUME NEW t \in TaskIds, StartTask(t) PROVE TypeOK'
    <3>1. t + 1 \in 0..(MaxTasks + 1)
      BY DEF TaskIds
    <3>2. [task |-> t, phase |-> "executing", aborted |-> "none"]
            \in RunRecord
      BY DEF RunRecord, AbortReasons
    <3>3. [tasks[t] EXCEPT !.status = "running",
                           !.attempt = tasks[t].attempt + 1] \in TaskRecord
      <4>1. tasks[t].attempt + 1 \in Nat
        BY DEF TaskRecord
      <4> QED BY <4>1, RecordUpdateType DEF TaskStatus
    <3> QED BY <2>7, <3>1, <3>2, <3>3 DEF StartTask, Transition
  <2>8. ASSUME NEW r \in RunIds, RunTimesOut(r) PROVE TypeOK'
    <3>1. "timed_out" \in AbortReasons
      BY DEF AbortReasons
    <3> QED BY <2>8, <3>1, AbortRunType DEF RunTimesOut
  <2>9. ASSUME NEW r \in RunIds, NEW o \in Outcomes, SettleRun(r, o)
        PROVE  TypeOK'
    <3>1. runs[r].task \in TaskIds
      BY <2>9 DEF SettleRun, RunRecord
    <3>2. WithStatus(runs[r].task, StatusAfter(r, o))
            \in [TaskIds -> TaskRecord]
      BY <3>1, WithStatusType, StatusAfterType
    <3>3. /\ DOMAIN runs' \subseteq RunIds
          /\ \A s \in DOMAIN runs' : runs'[s] \in RunRecord
      BY <2>9 DEF SettleRun, RunRecord
    <3> QED BY <2>9, <3>1, <3>2, <3>3
            DEF SettleRun, Transition, NotifyWaiters
  <2>10. ASSUME NEW r \in RunIds, RunFinally(r) PROVE TypeOK'
    BY <2>10 DEF RunFinally, SchedulePump, RunRecord
  <2>11. CASE RecoverAfterRestart
    <3>1. \A t \in TaskIds :
            [tasks[t] EXCEPT !.status = "queued"] \in TaskRecord
      BY DEF TaskRecord, TaskStatus
    <3>2. /\ tasks' \in [TaskIds -> TaskRecord]
          /\ disk' \in [TaskIds -> TaskRecord]
      BY <2>11, <3>1 DEF RecoverAfterRestart, Transition
    <3>3. requeues' \in [TaskIds -> Nat]
      BY <2>11 DEF RecoverAfterRestart
    <3> QED BY <2>11, <3>2, <3>3 DEF RecoverAfterRestart, DaemonStates
  <2>12. CASE Shutdown
    <3>1. RunsInMap \subseteq RunIds
      BY DEF RunsInMap, RunningTasks
    <3> QED BY <2>12, <3>1
            DEF Shutdown, RunRecord, AbortReasons, DaemonStates
  <2>13. CASE Exit \/ Crash \/ Start
    <3>1. CASE Exit
      BY <3>1 DEF Exit, DaemonStates
    <3>2. ASSUME FreshProcess
          PROVE  /\ DOMAIN runs' = {}
                 /\ running' \in [TaskIds -> RunIds \cup {0}]
                 /\ waiters' \in [TaskIds -> Nat]
                 /\ pumpAt' \in 0..(MaxTasks + 1)
                 /\ pumpQueued' = FALSE /\ shuttingDown' = FALSE
                 /\ awaited' = {}
      BY <3>2 DEF FreshProcess
    <3>3. CASE Crash
      BY <3>2, <3>3 DEF Crash, DaemonStates
    <3>4. CASE Start
      BY <3>2, <3>4 DEF Start, DaemonStates
    <3> QED BY <2>13, <3>1, <3>3, <3>4
  <2>14. CASE UNCHANGED vars
    BY <2>14 DEF vars
  <2> QED BY <2>1, <2>2, <2>3, <2>4, <2>5, <2>6, <2>7, <2>8, <2>9, <2>10,
             <2>11, <2>12, <2>13, <2>14
          DEF Next, Request, PumpStep, RunStep, LifeCycle
<1> QED BY <1>1, <1>2, PTL DEF Spec

-----------------------------------------------------------------------------
(***************************************************************************)
(* The inductive invariant.  The properties of TaskSupervisor are not      *)
(* inductive by themselves: that pump() never starts a task whose previous *)
(* run is still in the map rests on when microtasks run, that shutdown()   *)
(* misses no run rests on the map holding every run, and both fail if a    *)
(* request is served before recovery, hence the assumption below.          *)
(***************************************************************************)

\* The running map and the executions alive are in one-to-one correspondence.
RunsMatchMap ==
    /\ \A r \in DOMAIN runs : running[runs[r].task] = r
    /\ \A t \in TaskIds : running[t] # 0 =>
          running[t] \in DOMAIN runs /\ runs[running[t]].task = t

\* A task is marked running exactly while its run executes, except between
\* a crash and the recovery that follows it.
StatusMatchesRuns ==
    /\ \A r \in DOMAIN runs : runs[r].phase = "executing" =>
          tasks[runs[r].task].status = "running"
    /\ \A t \in TaskIds :
          tasks[t].status = "running" /\ daemon \notin {"down", "listening"} =>
             running[t] # 0 /\ runs[running[t]].phase = "executing"

\* A run that has settled is removed before any pump(), and before another
\* run settles.
OneMicrotask ==
    /\ pumpQueued \/ pumpAt # 0 =>
          \A r \in DOMAIN runs : runs[r].phase = "executing"
    /\ \A r, s \in DOMAIN runs :
          runs[r].phase = "settled" /\ runs[s].phase = "settled" => r = s

\* What each state of the daemon allows.
LifeCycleInv ==
    /\ daemon \in {"down", "listening"} =>
          DOMAIN runs = {} /\ ~pumpQueued /\ pumpAt = 0
    /\ daemon = "stopping" =>
          ~pumpQueued /\ pumpAt = 0 /\ DOMAIN runs \subseteq awaited
    /\ daemon = "exited" => DOMAIN runs = {}
    /\ shuttingDown <=> daemon \in {"stopping", "exited"}

\* A task that may be started has an attempt left.
AttemptLeft ==
    \A t \in TaskIds :
        /\ tasks[t].attempt <= tasks[t].maxAttempts + requeues[t]
        /\ Startable(t) =>
              tasks[t].attempt < tasks[t].maxAttempts + requeues[t]

\* Waiters are registered on tasks that have not ended.
WaitersInv == \A t \in TaskIds : waiters[t] > 0 => Exists(t) /\ ~Terminal(t)

Coupling == RunsMatchMap /\ StatusMatchesRuns /\ OneMicrotask /\ LifeCycleInv

IInv ==
    /\ disk = tasks
    /\ Coupling
    /\ Cardinality(RunningTasks) <= MaxConcurrent
    /\ DependenciesHonoured
    /\ AttemptLeft
    /\ WaitersInv

-----------------------------------------------------------------------------

\* executeTask() never returns with its task still marked running.
LEMMA StatusAfterNotRunning ==
    ASSUME NEW r, NEW o
    PROVE  StatusAfter(r, o) # "running"
BY DEF StatusAfter, AfterFailure

\* Requests are served only by a daemon whose recovery is over.
LEMMA RequestsAfterRecovery ==
    ASSUME EarlyRequests = FALSE, AcceptsRequests
    PROVE  Drained /\ daemon \in {"serving", "stopping"}
BY DEF AcceptsRequests

\* A daemon that starts with no task has a consistent (empty) running map.
LEMMA CouplingInit == Init => Coupling
BY DEF Init, Coupling, RunsMatchMap, StatusMatchesRuns, OneMicrotask,
       LifeCycleInv, NoTask

\* A step that leaves the runs alone and marks no task running, or no longer
\* running, preserves their agreement.
LEMMA SameRunning ==
    ASSUME TypeOK, Coupling, UNCHANGED <<runs, running, daemon>>,
           \A t \in TaskIds : tasks'[t].status = "running"
                                 <=> tasks[t].status = "running"
    PROVE  RunsMatchMap' /\ StatusMatchesRuns'
BY DEF TypeOK, RunRecord, Coupling, RunsMatchMap, StatusMatchesRuns

\* Every operation keeps the running map, the statuses, the microtask queue
\* and the life cycle of the daemon in agreement.
LEMMA CouplingStep ==
    ASSUME EarlyRequests = FALSE, TypeOK, Coupling, [Next]_vars
    PROVE  Coupling'
<1> USE TaskSupervisorAssumption DEF TaskSupervisorAssumption, graph,
        execution, pumping, life
<1>1. ASSUME NEW deps \in SUBSET TaskIds, NEW b \in AttemptBudgets,
             SpawnTask(deps, b)
      PROVE  Coupling'
  <2>1. \A t \in TaskIds : tasks'[t].status = "running"
                             <=> tasks[t].status = "running"
    BY <1>1 DEF SpawnTask, Transition, Exists, TypeOK
  <2>2. RunsMatchMap' /\ StatusMatchesRuns'
    BY <1>1, <2>1, SameRunning DEF SpawnTask
  <2>3. OneMicrotask' /\ LifeCycleInv'
    BY <1>1, RequestsAfterRecovery
       DEF SpawnTask, SchedulePump, Drained, Coupling, OneMicrotask,
           LifeCycleInv
  <2> QED BY <2>2, <2>3 DEF Coupling
<1>2. ASSUME NEW t \in TaskIds, CancelTask(t) PROVE Coupling'
  <2>1. CASE tasks[t].status = "running"
    <3>1. "cancelled" \in AbortReasons
      BY DEF AbortReasons
    <3> QED BY <1>2, <2>1, <3>1, AbortRunType
            DEF CancelTask, Coupling, RunsMatchMap, StatusMatchesRuns,
                OneMicrotask, LifeCycleInv, TypeOK, RunRecord
  <2>2. CASE tasks[t].status # "running"
    <3>1. \A u \in TaskIds : tasks'[u].status = "running"
                               <=> tasks[u].status = "running"
      BY <1>2, <2>2 DEF CancelTask, Transition, WithStatus, TypeOK, TaskRecord
    <3>2. RunsMatchMap' /\ StatusMatchesRuns'
      BY <1>2, <2>2, <3>1, SameRunning DEF CancelTask
    <3> QED BY <1>2, <2>2, <3>2
            DEF CancelTask, Coupling, OneMicrotask, LifeCycleInv
  <2> QED BY <2>1, <2>2
<1>3. ASSUME NEW t \in TaskIds, RetryTask(t) PROVE Coupling'
  <2>1. \A u \in TaskIds : tasks'[u].status = "running"
                             <=> tasks[u].status = "running"
    BY <1>3 DEF RetryTask, Transition, Terminal, TerminalStatuses, TypeOK,
                TaskRecord
  <2>2. RunsMatchMap' /\ StatusMatchesRuns'
    BY <1>3, <2>1, SameRunning DEF RetryTask
  <2>3. OneMicrotask' /\ LifeCycleInv'
    BY <1>3, RequestsAfterRecovery
       DEF RetryTask, SchedulePump, Drained, Coupling, OneMicrotask,
           LifeCycleInv
  <2> QED BY <2>2, <2>3 DEF Coupling
<1>4. ASSUME NEW t \in TaskIds, WaitForTask(t) \/ WaitTimesOut(t)
      PROVE  Coupling'
  BY <1>4 DEF WaitForTask, WaitTimesOut, Coupling, RunsMatchMap,
              StatusMatchesRuns, OneMicrotask, LifeCycleInv
<1>5. CASE PumpStart
  BY <1>5 DEF PumpStart, Up, Coupling, RunsMatchMap, StatusMatchesRuns,
              OneMicrotask, LifeCycleInv
<1>6. CASE PumpEnd
  BY <1>6 DEF PumpEnd, InPump, Coupling, RunsMatchMap, StatusMatchesRuns,
              OneMicrotask, LifeCycleInv
<1>7. ASSUME NEW t \in TaskIds, PumpSkip(t) \/ PumpFail(t) \/ PumpWait(t)
      PROVE  Coupling'
  <2>1. \A u \in TaskIds : tasks'[u].status = "running"
                             <=> tasks[u].status = "running"
    <3>1. CASE PumpSkip(t)
      BY <3>1 DEF PumpSkip
    <3>2. CASE PumpFail(t)
      BY <3>2 DEF PumpFail, Transition, WithStatus, Startable, TypeOK,
                  TaskRecord
    <3>3. CASE PumpWait(t)
      BY <3>3 DEF PumpWait, Transition, WithStatus, Startable, TypeOK,
                  TaskRecord
    <3> QED BY <1>7, <3>1, <3>2, <3>3
  <2>2. /\ UNCHANGED <<execution, life, pumpQueued>>
        /\ pumpAt # 0
    BY <1>7 DEF PumpSkip, PumpFail, PumpWait, Visiting, InPump
  <2>3. RunsMatchMap' /\ StatusMatchesRuns'
    BY <2>1, <2>2, SameRunning
  <2> QED BY <2>2, <2>3 DEF Coupling, OneMicrotask, LifeCycleInv
<1>8. ASSUME NEW t \in TaskIds, StartTask(t) PROVE Coupling'
  <2>1. PICK r \in RunIds \ DOMAIN runs :
          /\ runs' = [s \in DOMAIN runs \cup {r} |->
                        IF s = r THEN [task |-> t, phase |-> "executing",
                                       aborted |-> "none"]
                                 ELSE runs[s]]
          /\ running' = [running EXCEPT ![t] = r]
    BY <1>8 DEF StartTask
  <2>2. /\ \A s \in DOMAIN runs : runs[s].phase = "executing"
        /\ tasks[t].status # "running"
        /\ UNCHANGED <<life, pumpQueued>>
        /\ pumpAt # 0
        /\ daemon # "exited"
    BY <1>8 DEF StartTask, Visiting, InPump, Up, Startable, Coupling,
                OneMicrotask
  <2>3. running[t] = 0
    BY <2>2 DEF Coupling, RunsMatchMap, StatusMatchesRuns
  <2>4. /\ tasks'[t].status = "running"
        /\ \A u \in TaskIds \ {t} : tasks'[u] = tasks[u]
    BY <1>8 DEF StartTask, Transition, TypeOK, TaskRecord
  <2>5. RunsMatchMap'
    BY <2>1, <2>3 DEF Coupling, RunsMatchMap, TypeOK, RunRecord
  <2>6. StatusMatchesRuns'
    BY <2>1, <2>2, <2>3, <2>4
       DEF Coupling, RunsMatchMap, StatusMatchesRuns, TypeOK, RunRecord
  <2>7. \A s \in DOMAIN runs' : runs'[s].phase = "executing"
    BY <2>1, <2>2
  <2>8. OneMicrotask' /\ LifeCycleInv'
    BY <2>2, <2>7 DEF Coupling, OneMicrotask, LifeCycleInv
  <2> QED BY <2>5, <2>6, <2>8 DEF Coupling
<1>9. ASSUME NEW r \in RunIds, RunTimesOut(r) PROVE Coupling'
  <2>1. "timed_out" \in AbortReasons
    BY DEF AbortReasons
  <2> QED BY <1>9, <2>1, AbortRunType
          DEF RunTimesOut, Coupling, RunsMatchMap, StatusMatchesRuns,
              OneMicrotask, LifeCycleInv, TypeOK, RunRecord
<1>10. ASSUME NEW r \in RunIds, NEW o \in Outcomes, SettleRun(r, o)
       PROVE  Coupling'
  <2>1. /\ r \in DOMAIN runs
        /\ \A s \in DOMAIN runs : runs[s].phase = "executing"
        /\ ~pumpQueued /\ pumpAt = 0
        /\ UNCHANGED <<running, pumping, life>>
        /\ runs' = [runs EXCEPT ![r].phase = "settled"]
    BY <1>10 DEF SettleRun, Drained
  <2>2. runs[r].task \in TaskIds
    BY <2>1 DEF TypeOK, RunRecord
  <2>3. /\ tasks'[runs[r].task].status # "running"
        /\ \A u \in TaskIds \ {runs[r].task} : tasks'[u] = tasks[u]
    BY <1>10, <2>2, StatusAfterNotRunning
       DEF SettleRun, Transition, WithStatus, TypeOK, TaskRecord
  <2>4. /\ DOMAIN runs' = DOMAIN runs
        /\ \A s \in DOMAIN runs : runs'[s].task = runs[s].task
        /\ \A s \in DOMAIN runs \ {r} : runs'[s] = runs[s]
        /\ runs'[r].phase = "settled"
    BY <2>1 DEF TypeOK, RunRecord
  <2>5. RunsMatchMap'
    BY <2>1, <2>4 DEF Coupling, RunsMatchMap, TypeOK, RunRecord
  <2>6. StatusMatchesRuns'
    BY <2>1, <2>2, <2>3, <2>4
       DEF Coupling, RunsMatchMap, StatusMatchesRuns, TypeOK, RunRecord
  <2>7. OneMicrotask' /\ LifeCycleInv'
    BY <2>1, <2>4 DEF Coupling, OneMicrotask, LifeCycleInv
  <2> QED BY <2>5, <2>6, <2>7 DEF Coupling
<1>11. ASSUME NEW r \in RunIds, RunFinally(r) PROVE Coupling'
  BY <1>11 DEF RunFinally, SchedulePump, Up, Coupling, RunsMatchMap,
               StatusMatchesRuns, OneMicrotask, LifeCycleInv, TypeOK,
               RunRecord
<1>12. CASE RecoverAfterRestart
  BY <1>12 DEF RecoverAfterRestart, Transition, Coupling, RunsMatchMap,
               StatusMatchesRuns, OneMicrotask, LifeCycleInv, TypeOK,
               RunRecord
<1>13. CASE Shutdown
  BY <1>13 DEF Shutdown, RunsInMap, RunningTasks, Drained, Coupling,
               RunsMatchMap, StatusMatchesRuns, OneMicrotask, LifeCycleInv,
               TypeOK, RunRecord
<1>14. CASE Exit
  BY <1>14 DEF Exit, Coupling, RunsMatchMap, StatusMatchesRuns,
               OneMicrotask, LifeCycleInv
<1>15. CASE Crash \/ Start
  BY <1>15 DEF Crash, Start, FreshProcess, Coupling, RunsMatchMap,
               StatusMatchesRuns, OneMicrotask, LifeCycleInv, TypeOK
<1>16. CASE UNCHANGED vars
  BY <1>16 DEF vars, Coupling, RunsMatchMap, StatusMatchesRuns,
               OneMicrotask, LifeCycleInv
<1> QED BY <1>1, <1>2, <1>3, <1>4, <1>5, <1>6, <1>7, <1>8, <1>9, <1>10,
           <1>11, <1>12, <1>13, <1>14, <1>15, <1>16
        DEF Next, Request, PumpStep, RunStep, LifeCycle

-----------------------------------------------------------------------------
(* The properties that rest on the coupling. *)

\* Adding an element to a finite set adds at most one to its size.
LEMMA AddOneElement ==
    ASSUME NEW S, NEW x, IsFiniteSet(S)
    PROVE  /\ Cardinality(S \cup {x}) \in Nat
           /\ Cardinality(S \cup {x}) <= Cardinality(S) + 1
<1>1. /\ Cardinality(S) \in Nat
      /\ IsFiniteSet(S \cup {x})
      /\ Cardinality(S \cup {x}) \in Nat
  BY FS_AddElement, FS_CardinalityType
<1>2. CASE x \in S
  <2>1. Cardinality(S \cup {x}) = Cardinality(S)
    BY <1>2, FS_AddElement
  <2> QED BY <1>1, <2>1
<1>3. CASE x \notin S
  <2>1. Cardinality(S \cup {x}) = Cardinality(S) + 1
    BY <1>3, FS_AddElement
  <2> QED BY <1>1, <2>1
<1> QED BY <1>2, <1>3

\* The tasks in the running map are finitely many.
LEMMA RunningTasksFinite ==
    /\ IsFiniteSet(RunningTasks)
    /\ Cardinality(RunningTasks) \in Nat
<1>1. IsFiniteSet(TaskIds)
  BY TaskSupervisorAssumption, FS_Interval
     DEF TaskSupervisorAssumption, TaskIds
<1>2. RunningTasks \in SUBSET TaskIds
  BY DEF RunningTasks
<1> QED BY <1>1, <1>2, FS_Subset, FS_CardinalityType

\* pump() compares running.size with maxConcurrent before every start, so
\* the map never outgrows it.
LEMMA MapBounded ==
    ASSUME TypeOK, Cardinality(RunningTasks) <= MaxConcurrent, [Next]_vars
    PROVE  Cardinality(RunningTasks)' <= MaxConcurrent
<1> USE TaskSupervisorAssumption DEF TaskSupervisorAssumption
<1>1. ASSUME NEW t \in TaskIds, StartTask(t)
      PROVE  Cardinality(RunningTasks') <= MaxConcurrent
  <2>1. RunningTasks' = RunningTasks \cup {t}
    BY <1>1 DEF StartTask, RunningTasks, TypeOK
  <2>2. Cardinality(RunningTasks) < MaxConcurrent
    BY <1>1, RunningTasksFinite DEF StartTask, Visiting, LimitReached
  <2>3. /\ Cardinality(RunningTasks \cup {t}) \in Nat
        /\ Cardinality(RunningTasks \cup {t}) <= Cardinality(RunningTasks) + 1
    BY RunningTasksFinite, AddOneElement
  <2> QED BY <2>1, <2>2, <2>3, RunningTasksFinite
<1>2. ASSUME RunningTasks' \subseteq RunningTasks
      PROVE  Cardinality(RunningTasks') <= MaxConcurrent
  <2>1. /\ IsFiniteSet(RunningTasks')
        /\ Cardinality(RunningTasks') <= Cardinality(RunningTasks)
    BY <1>2, RunningTasksFinite, FS_Subset
  <2> QED BY <2>1, RunningTasksFinite, FS_CardinalityType
<1>3. CASE \A t \in TaskIds : ~StartTask(t)
  <2>1. RunningTasks' \subseteq RunningTasks
    BY <1>3
       DEF Next, Request, PumpStep, RunStep, LifeCycle, vars, execution,
           SpawnTask, CancelTask, RetryTask, WaitForTask, WaitTimesOut,
           PumpStart, PumpEnd, PumpSkip, PumpFail, PumpWait, RunTimesOut,
           SettleRun, RunFinally, RecoverAfterRestart, Shutdown, Exit, Crash,
           Start, FreshProcess, RunningTasks, TypeOK
  <2> QED BY <1>2, <2>1
<1> QED BY <1>1, <1>3

\* Distinct runs are held under distinct tasks, so the size of the map bounds
\* the number of executions alive.
LEMMA RunsBounded ==
    ASSUME TypeOK, RunsMatchMap, Cardinality(RunningTasks) <= MaxConcurrent
    PROVE  Cardinality(DOMAIN runs) <= MaxConcurrent
<1> DEFINE f == [r \in DOMAIN runs |-> runs[r].task]
<1>1. f \in Injection(DOMAIN runs, RunningTasks)
  <2>1. \A r \in DOMAIN runs :
          runs[r].task \in RunningTasks /\ running[runs[r].task] = r
    BY TaskSupervisorAssumption
       DEF TaskSupervisorAssumption, RunsMatchMap, RunningTasks, TypeOK,
           RunRecord
  <2>2. f \in [DOMAIN runs -> RunningTasks]
    BY <2>1
  <2>3. \A a, b \in DOMAIN runs : f[a] = f[b] => a = b
    BY <2>1
  <2> HIDE DEF f
  <2> QED BY <2>2, <2>3 DEF Injection, IsInjective
<1>2. /\ IsFiniteSet(DOMAIN runs)
      /\ Cardinality(DOMAIN runs) <= Cardinality(RunningTasks)
  BY <1>1, RunningTasksFinite, FS_Injection
<1> QED BY <1>2, RunningTasksFinite, FS_CardinalityType,
           TaskSupervisorAssumption DEF TaskSupervisorAssumption

-----------------------------------------------------------------------------
(* What the operations do to the tasks, for the invariants about them. *)

\* Every change of a task is written to tasks.json in the same step.
LEMMA DiskStep ==
    ASSUME disk = tasks, [Next]_vars
    PROVE  disk' = tasks'
<1> USE DEF Transition, graph
<1>1. CASE Request
  <2>1. ASSUME NEW deps, NEW b, SpawnTask(deps, b) PROVE disk' = tasks'
    BY <2>1 DEF SpawnTask
  <2>2. ASSUME NEW t \in TaskIds,
               CancelTask(t) \/ RetryTask(t) \/ WaitForTask(t)
                 \/ WaitTimesOut(t)
        PROVE  disk' = tasks'
    <3>1. CASE CancelTask(t)
      BY <3>1 DEF CancelTask
    <3>2. CASE RetryTask(t)
      BY <3>2 DEF RetryTask
    <3> QED BY <2>2, <3>1, <3>2 DEF WaitForTask, WaitTimesOut
  <2> QED BY <1>1, <2>1, <2>2 DEF Request
<1>2. CASE PumpStep
  <2>1. ASSUME NEW t \in TaskIds,
               PumpSkip(t) \/ PumpFail(t) \/ PumpWait(t) \/ StartTask(t)
        PROVE  disk' = tasks'
    <3>1. CASE StartTask(t)
      BY <3>1 DEF StartTask
    <3> QED BY <2>1, <3>1 DEF PumpSkip, PumpFail, PumpWait
  <2> QED BY <1>2, <2>1 DEF PumpStep, PumpStart, PumpEnd
<1>3. CASE RunStep
  BY <1>3 DEF RunStep, RunTimesOut, SettleRun, RunFinally
<1>4. CASE LifeCycle
  BY <1>4 DEF LifeCycle, RecoverAfterRestart, Shutdown, Exit, Crash, Start
<1>5. CASE UNCHANGED vars
  BY <1>5 DEF vars
<1> QED BY <1>1, <1>2, <1>3, <1>4, <1>5 DEF Next

\* A run that settles is executing, and so its task is marked running.
LEMMA SettlingTaskIsRunning ==
    ASSUME TypeOK, Coupling, NEW r \in RunIds, NEW o \in Outcomes,
           SettleRun(r, o)
    PROVE  /\ runs[r].task \in TaskIds
           /\ tasks[runs[r].task].status = "running"
<1>1. r \in DOMAIN runs /\ runs[r].phase = "executing"
  BY DEF SettleRun, Drained
<1> QED BY <1>1 DEF TypeOK, RunRecord, Coupling, StatusMatchesRuns

\* The changes a step may make to a task.
TaskChange(t) ==
    \/ tasks'[t] = tasks[t]
    \/ /\ tasks[t].status = "absent"
       /\ tasks'[t].status = "queued" /\ tasks'[t].attempt = 0
       /\ tasks'[t].maxAttempts \in Nat \ {0}
    \/ /\ tasks[t].status # "completed"
       /\ tasks'[t].dependencies = tasks[t].dependencies
       /\ tasks'[t].attempt = tasks[t].attempt
    \/ /\ tasks[t].status \in {"queued", "waiting"}
       /\ tasks'[t].dependencies = tasks[t].dependencies
       /\ ~DependencyPending(t)

\* Every step changes every task in one of the ways TaskChange lists.
LEMMA EveryTaskChange ==
    ASSUME TypeOK, Coupling, disk = tasks, [Next]_vars
    PROVE  \A t \in TaskIds : TaskChange(t)
<1> USE DEF TaskChange
<1>1. ASSUME NEW deps \in SUBSET TaskIds, NEW b \in AttemptBudgets,
             SpawnTask(deps, b)
      PROVE  \A t \in TaskIds : TaskChange(t)
  BY <1>1, TaskSupervisorAssumption
     DEF TaskSupervisorAssumption, SpawnTask, Transition, Exists, TypeOK,
         TaskRecord
<1>2. ASSUME NEW t \in TaskIds, CancelTask(t)
      PROVE  \A u \in TaskIds : TaskChange(u)
  BY <1>2 DEF CancelTask, Cancellable, Terminal, TerminalStatuses, Transition,
              WithStatus, graph, TypeOK, TaskRecord
<1>3. ASSUME NEW t \in TaskIds, RetryTask(t)
      PROVE  \A u \in TaskIds : TaskChange(u)
  BY <1>3 DEF RetryTask, Transition, TypeOK, TaskRecord
<1>4. ASSUME NEW t \in TaskIds, PumpFail(t) \/ PumpWait(t)
      PROVE  \A u \in TaskIds : TaskChange(u)
  <2>1. CASE PumpFail(t)
    BY <2>1 DEF PumpFail, Startable, Transition, WithStatus, TypeOK, TaskRecord
  <2>2. CASE PumpWait(t)
    BY <2>2 DEF PumpWait, Startable, Transition, WithStatus, TypeOK, TaskRecord
  <2> QED BY <1>4, <2>1, <2>2
<1>5. ASSUME NEW t \in TaskIds, StartTask(t)
      PROVE  \A u \in TaskIds : TaskChange(u)
  BY <1>5 DEF StartTask, Startable, Transition, TypeOK, TaskRecord
<1>6. ASSUME NEW r \in RunIds, NEW o \in Outcomes, SettleRun(r, o)
      PROVE  \A u \in TaskIds : TaskChange(u)
  <2>1. tasks' = WithStatus(runs[r].task, StatusAfter(r, o))
    BY <1>6 DEF SettleRun, Transition
  <2>2. /\ runs[r].task \in TaskIds
        /\ tasks[runs[r].task].status = "running"
    BY <1>6, SettlingTaskIsRunning
  <2> QED BY <2>1, <2>2 DEF WithStatus, TypeOK, TaskRecord
<1>7. CASE RecoverAfterRestart
  BY <1>7 DEF RecoverAfterRestart, Transition, TypeOK, TaskRecord
<1>8. ASSUME tasks' = tasks
      PROVE  \A t \in TaskIds : TaskChange(t)
  BY <1>8
<1> QED
  BY <1>1, <1>2, <1>3, <1>4, <1>5, <1>6, <1>7, <1>8
     DEF Next, Request, PumpStep, RunStep, LifeCycle, vars, graph,
         WaitForTask, WaitTimesOut, PumpStart, PumpEnd, PumpSkip,
         RunTimesOut, RunFinally, Shutdown, Exit, Crash, Start

\* A dependency found completed when a task starts stays completed.
LEMMA DependenciesStep ==
    ASSUME TypeOK, Coupling, disk = tasks, DependenciesHonoured, [Next]_vars
    PROVE  DependenciesHonoured'
<1>1. \A t \in TaskIds : TaskChange(t)
  BY EveryTaskChange
<1>2. \A d \in TaskIds :
        tasks[d].status = "completed" => tasks'[d].status = "completed"
  BY <1>1 DEF TaskChange
<1>3. ASSUME NEW t \in TaskIds, tasks'[t].attempt > 0,
             NEW d \in tasks'[t].dependencies
      PROVE  tasks'[d].status = "completed"
  <2>1. /\ tasks'[t].dependencies = tasks[t].dependencies
        /\ tasks[t].attempt > 0 \/ ~DependencyPending(t)
    BY <1>1, <1>3 DEF TaskChange
  <2>2. tasks[d].status = "completed" /\ d \in TaskIds
    BY <1>3, <2>1 DEF DependenciesHonoured, DependencyPending, TypeOK,
                      TaskRecord
  <2> QED BY <1>2, <2>2
<1> QED BY <1>3 DEF DependenciesHonoured

\* Only the statuses pump() acts on need an attempt in hand: a retry raises
\* the budget, a lost run is counted in requeues, and handleFailure() queues
\* a task again only below its budget.
LEMMA AttemptLeftStep ==
    ASSUME TypeOK, Coupling, disk = tasks, AttemptLeft, [Next]_vars
    PROVE  AttemptLeft'
<1> USE TaskSupervisorAssumption DEF TaskSupervisorAssumption
<1> USE DEF AttemptLeft, Startable
<1>0. \A t \in TaskIds : /\ tasks[t].attempt \in Nat
                         /\ tasks[t].maxAttempts \in Nat
                         /\ requeues[t] \in Nat
  BY DEF TypeOK, TaskRecord
<1>1. ASSUME NEW deps \in SUBSET TaskIds, NEW b \in AttemptBudgets,
             SpawnTask(deps, b)
      PROVE  AttemptLeft'
  BY <1>0, <1>1 DEF SpawnTask, Transition, TypeOK, TaskRecord
<1>2. ASSUME NEW t \in TaskIds, CancelTask(t) PROVE AttemptLeft'
  BY <1>0, <1>2 DEF CancelTask, Transition, WithStatus, graph, TypeOK,
                    TaskRecord
<1>3. ASSUME NEW t \in TaskIds, RetryTask(t) PROVE AttemptLeft'
  BY <1>0, <1>3 DEF RetryTask, Transition, TypeOK, TaskRecord
<1>4. ASSUME NEW t \in TaskIds, PumpFail(t) \/ PumpWait(t)
      PROVE  AttemptLeft'
  <2>1. CASE PumpFail(t)
    BY <1>0, <2>1 DEF PumpFail, Transition, WithStatus, TypeOK, TaskRecord
  <2>2. CASE PumpWait(t)
    BY <1>0, <2>2 DEF PumpWait, Transition, WithStatus, TypeOK, TaskRecord
  <2> QED BY <1>4, <2>1, <2>2
<1>5. ASSUME NEW t \in TaskIds, StartTask(t) PROVE AttemptLeft'
  BY <1>0, <1>5 DEF StartTask, Transition, TypeOK, TaskRecord
<1>6. ASSUME NEW r \in RunIds, NEW o \in Outcomes, SettleRun(r, o)
      PROVE  AttemptLeft'
  <2> DEFINE t == runs[r].task
             s == StatusAfter(r, o)
  <2>1. t \in TaskIds
    BY <1>6, SettlingTaskIsRunning
  <2>2. /\ tasks' = WithStatus(t, s)
        /\ \/ requeues' = requeues /\ (o = "result" \/ ~shuttingDown)
           \/ requeues' = [requeues EXCEPT ![t] = @ + 1]
    BY <1>6 DEF SettleRun, Transition
  <2>3. s \in {"queued", "waiting"} =>
          \/ tasks[t].attempt < tasks[t].maxAttempts
          \/ o # "result" /\ shuttingDown
    BY DEF StatusAfter, AfterFailure
  <2>4. /\ \A u \in TaskIds : /\ tasks'[u].attempt = tasks[u].attempt
                              /\ tasks'[u].maxAttempts = tasks[u].maxAttempts
                              /\ u # t => tasks'[u].status = tasks[u].status
        /\ tasks'[t].status = s
    BY <2>1, <2>2 DEF WithStatus, TypeOK, TaskRecord
  <2> HIDE DEF t, s
  <2>5. ASSUME NEW u \in TaskIds
        PROVE  /\ requeues'[u] >= requeues[u]
               /\ requeues'[u] \in Nat
    BY <1>0, <2>2 DEF TypeOK
  <2>6. o # "result" /\ shuttingDown => requeues'[t] = requeues[t] + 1
    BY <2>1, <2>2 DEF TypeOK
  <2> QED BY <1>0, <2>1, <2>3, <2>4, <2>5, <2>6
<1>7. CASE RecoverAfterRestart
  BY <1>0, <1>7 DEF RecoverAfterRestart, Transition, TypeOK, TaskRecord
<1>8. ASSUME UNCHANGED <<tasks, requeues>>
      PROVE  AttemptLeft'
  BY <1>8
<1> QED
  BY <1>1, <1>2, <1>3, <1>4, <1>5, <1>6, <1>7, <1>8
     DEF Next, Request, PumpStep, RunStep, LifeCycle, vars, graph,
         WaitForTask, WaitTimesOut, PumpStart, PumpEnd, PumpSkip,
         RunTimesOut, RunFinally, Shutdown, Exit, Crash, Start

\* Each of the four places that end a task drops its waiters.
LEMMA WaitersStep ==
    ASSUME TypeOK, Coupling, disk = tasks, WaitersInv, [Next]_vars
    PROVE  WaitersInv'
<1> USE DEF WaitersInv, Exists, Terminal, TerminalStatuses
<1>1. ASSUME NEW deps \in SUBSET TaskIds, NEW b \in AttemptBudgets,
             SpawnTask(deps, b)
      PROVE  WaitersInv'
  BY <1>1 DEF SpawnTask, Transition, TypeOK, TaskRecord
<1>2. ASSUME NEW t \in TaskIds, CancelTask(t) PROVE WaitersInv'
  BY <1>2 DEF CancelTask, Transition, WithStatus, NotifyWaiters, graph,
              TypeOK, TaskRecord
<1>3. ASSUME NEW t \in TaskIds, RetryTask(t) PROVE WaitersInv'
  BY <1>3 DEF RetryTask, Transition, TypeOK, TaskRecord
<1>4. ASSUME NEW t \in TaskIds, PumpFail(t) \/ PumpWait(t)
      PROVE  WaitersInv'
  <2>1. CASE PumpFail(t)
    BY <2>1 DEF PumpFail, NotifyWaiters, Transition, WithStatus, TypeOK,
                TaskRecord
  <2>2. CASE PumpWait(t)
    BY <2>2 DEF PumpWait, Transition, WithStatus, TypeOK, TaskRecord
  <2> QED BY <1>4, <2>1, <2>2
<1>5. ASSUME NEW t \in TaskIds, StartTask(t) PROVE WaitersInv'
  BY <1>5 DEF StartTask, Transition, TypeOK, TaskRecord
<1>6. ASSUME NEW r \in RunIds, NEW o \in Outcomes, SettleRun(r, o)
      PROVE  WaitersInv'
  <2> DEFINE t == runs[r].task
             s == StatusAfter(r, o)
  <2>1. t \in TaskIds
    BY <1>6, SettlingTaskIsRunning
  <2>2. /\ tasks' = WithStatus(t, s)
        /\ IF s \in TerminalStatuses
             THEN waiters' = [waiters EXCEPT ![t] = 0]
             ELSE waiters' = waiters
    BY <1>6 DEF SettleRun, Transition, NotifyWaiters
  <2>3. s \in TaskStatus
    BY StatusAfterType
  <2>4. /\ \A u \in TaskIds : u # t => tasks'[u].status = tasks[u].status
        /\ tasks'[t].status = s
    BY <2>1, <2>2 DEF WithStatus, TypeOK, TaskRecord
  <2> HIDE DEF t, s
  <2> QED BY <2>1, <2>2, <2>3, <2>4 DEF TaskStatus, TypeOK
<1>7. CASE RecoverAfterRestart
  BY <1>7 DEF RecoverAfterRestart, Transition, TypeOK, TaskRecord
<1>8. ASSUME NEW t \in TaskIds, WaitForTask(t) \/ WaitTimesOut(t)
      PROVE  WaitersInv'
  <2>1. CASE WaitForTask(t)
    BY <2>1 DEF WaitForTask, graph, TypeOK
  <2>2. CASE WaitTimesOut(t)
    BY <2>2 DEF WaitTimesOut, graph, TypeOK
  <2> QED BY <1>8, <2>1, <2>2
<1>9. CASE Crash \/ Start
  BY <1>9 DEF Crash, Start, FreshProcess
<1>10. ASSUME UNCHANGED <<tasks, waiters>>
       PROVE  WaitersInv'
  BY <1>10
<1> QED
  BY <1>1, <1>2, <1>3, <1>4, <1>5, <1>6, <1>7, <1>8, <1>9, <1>10
     DEF Next, Request, PumpStep, RunStep, LifeCycle, vars, graph,
         PumpStart, PumpEnd, PumpSkip, RunTimesOut, RunFinally, Shutdown,
         Exit

-----------------------------------------------------------------------------
(* The theorems.  serve() must not let requests in before recovery. *)

\* The inductive invariant holds in every reachable state.
THEOREM InductiveInvariant ==
    ASSUME EarlyRequests = FALSE
    PROVE  Spec => []IInv
<1>1. Init => IInv
  <2> SUFFICES ASSUME Init PROVE IInv
    OBVIOUS
  <2>1. Coupling
    BY CouplingInit
  <2>2. Cardinality(RunningTasks) <= MaxConcurrent
    <3>1. RunningTasks = {}
      BY DEF Init, RunningTasks
    <3> QED BY <3>1, FS_EmptySet, TaskSupervisorAssumption
            DEF TaskSupervisorAssumption
  <2>3. DependenciesHonoured /\ AttemptLeft /\ WaitersInv
    BY DEF Init, DependenciesHonoured, AttemptLeft, WaitersInv, NoTask,
           Startable
  <2>4. disk = tasks
    BY DEF Init
  <2> QED BY <2>1, <2>2, <2>3, <2>4 DEF IInv
<1>2. TypeOK /\ TypeOK' /\ IInv /\ [Next]_vars => IInv'
  <2> SUFFICES ASSUME TypeOK, TypeOK', IInv, [Next]_vars PROVE IInv'
    OBVIOUS
  <2>1. /\ Coupling /\ disk = tasks /\ DependenciesHonoured
        /\ Cardinality(RunningTasks) <= MaxConcurrent
        /\ AttemptLeft /\ WaitersInv
    BY DEF IInv
  <2>2. Coupling'
    BY <2>1, CouplingStep
  <2>3. Cardinality(RunningTasks)' <= MaxConcurrent
    BY <2>1, MapBounded
  <2>4. disk' = tasks'
    BY <2>1, DiskStep
  <2>5. DependenciesHonoured'
    BY <2>1, DependenciesStep
  <2>6. AttemptLeft'
    BY <2>1, AttemptLeftStep
  <2>7. WaitersInv'
    BY <2>1, WaitersStep
  <2> QED BY <2>2, <2>3, <2>4, <2>5, <2>6, <2>7 DEF IInv
<1> QED BY <1>1, <1>2, TypeInvariant, PTL DEF Spec

\* For any number of tasks and restarts, pump() never lets more executions
\* live than maxConcurrent.
THEOREM ConcurrencyIsLimited ==
    ASSUME EarlyRequests = FALSE
    PROVE  Spec => []ConcurrencyLimit
<1>1. TypeOK /\ IInv => ConcurrencyLimit
  BY RunsBounded DEF IInv, Coupling, ConcurrencyLimit
<1> QED BY <1>1, TypeInvariant, InductiveInvariant, PTL

\* No execution ever escapes the running map, so cancelTask and shutdown
\* reach all of them, and no task is marked running without one.
THEOREM RunsAreControlled ==
    ASSUME EarlyRequests = FALSE
    PROVE  Spec => []EveryRunIsControlled
<1>1. TypeOK /\ IInv => EveryRunIsControlled
  BY DEF IInv, Coupling, RunsMatchMap, StatusMatchesRuns,
         EveryRunIsControlled, Up
<1> QED BY <1>1, TypeInvariant, InductiveInvariant, PTL

\* Whatever is cancelled, retried, killed or recovered in between, pump()
\* starts a task only after all its dependencies have completed.
THEOREM DependenciesAreHonoured ==
    ASSUME EarlyRequests = FALSE
    PROVE  Spec => []DependenciesHonoured
<1>1. IInv => DependenciesHonoured
  BY DEF IInv
<1> QED BY <1>1, InductiveInvariant, PTL

\* A waitForTask promise is never left behind on a task that has ended.
THEOREM NoWaiterIsStranded ==
    ASSUME EarlyRequests = FALSE
    PROVE  Spec => []NoStrandedWaiter
<1>1. IInv => NoStrandedWaiter
  BY DEF IInv, WaitersInv, NoStrandedWaiter
<1> QED BY <1>1, InductiveInvariant, PTL

\* handleFailure, retryTask and recovery together never start a task more
\* often than its budget and the runs it lost allow.
THEOREM AttemptsAreBounded ==
    ASSUME EarlyRequests = FALSE
    PROVE  Spec => []AttemptsBounded
<1>1. IInv => AttemptsBounded
  BY DEF IInv, AttemptLeft, AttemptsBounded
<1> QED BY <1>1, InductiveInvariant, PTL

\* shutdown() waits for every execution, and its final tasks.json names no
\* task as running.
THEOREM ExitIsClean ==
    ASSUME EarlyRequests = FALSE
    PROVE  Spec => []CleanExit
<1>1. TypeOK /\ IInv => CleanExit
  BY DEF TypeOK, IInv, Coupling, RunsMatchMap, StatusMatchesRuns,
         LifeCycleInv, CleanExit
<1> QED BY <1>1, TypeInvariant, InductiveInvariant, PTL

\* While the daemon is up, tasks.json equals the task map.
THEOREM DiskAlwaysCurrent ==
    ASSUME EarlyRequests = FALSE
    PROVE  Spec => []DiskIsCurrent
<1>1. IInv => DiskIsCurrent
  BY DEF IInv, DiskIsCurrent
<1> QED BY <1>1, InductiveInvariant, PTL

\* No late settlement, timer, pump or recovery rewrites a task that has
\* ended; only retryTask does, and never one that completed.
THEOREM TerminalStatusesAreFinal ==
    ASSUME EarlyRequests = FALSE
    PROVE  Spec => TerminalIsFinal
<1> DEFINE Change == \A t \in TaskIds :
               Terminal(t) /\ tasks'[t] # tasks[t] =>
                  RetryTask(t) /\ tasks[t].status # "completed"
<1>1. TypeOK /\ IInv /\ [Next]_vars => [Change]_vars
  <2> SUFFICES ASSUME TypeOK, IInv, Next, NEW t \in TaskIds, Terminal(t),
                      tasks'[t] # tasks[t]
               PROVE  RetryTask(t) /\ tasks[t].status # "completed"
    BY DEF vars, graph
  <2> USE DEF Terminal, TerminalStatuses
  <2>1. Coupling /\ disk = tasks
    BY DEF IInv
  <2>2. ASSUME NEW u \in TaskIds, tasks[u].status \notin TerminalStatuses,
               \A v \in TaskIds \ {u} : tasks'[v] = tasks[v]
        PROVE  FALSE
    BY <2>2
  <2>3. ASSUME NEW deps \in SUBSET TaskIds, NEW b \in AttemptBudgets,
               SpawnTask(deps, b)
        PROVE  FALSE
    BY <2>3 DEF SpawnTask, Transition, Exists, TypeOK
  <2>4. ASSUME NEW u \in TaskIds, CancelTask(u) PROVE FALSE
    BY <2>4 DEF CancelTask, Cancellable, Transition, WithStatus, graph, TypeOK
  <2>5. ASSUME NEW u \in TaskIds, RetryTask(u)
        PROVE  RetryTask(t) /\ tasks[t].status # "completed"
    BY <2>5 DEF RetryTask, Transition, TypeOK
  <2>6. ASSUME NEW u \in TaskIds, PumpFail(u) \/ PumpWait(u) \/ StartTask(u)
        PROVE  FALSE
    <3>1. /\ tasks[u].status \in {"queued", "waiting"}
          /\ \A v \in TaskIds \ {u} : tasks'[v] = tasks[v]
      BY <2>6 DEF PumpFail, PumpWait, StartTask, Startable, Transition,
                  WithStatus, TypeOK
    <3> QED BY <3>1, <2>2
  <2>7. ASSUME NEW r \in RunIds, NEW o \in Outcomes, SettleRun(r, o)
        PROVE  FALSE
    <3>1. /\ runs[r].task \in TaskIds
          /\ tasks[runs[r].task].status = "running"
      BY <2>1, <2>7, SettlingTaskIsRunning
    <3>2. tasks' = WithStatus(runs[r].task, StatusAfter(r, o))
      BY <2>7 DEF SettleRun, Transition
    <3> QED BY <2>2, <3>1, <3>2 DEF WithStatus, TypeOK
  <2>8. CASE RecoverAfterRestart
    BY <2>8 DEF RecoverAfterRestart, Transition
  <2>9. tasks' # tasks
    OBVIOUS
  <2> QED
    BY <2>1, <2>3, <2>4, <2>5, <2>6, <2>7, <2>8, <2>9
       DEF Next, Request, PumpStep, RunStep, LifeCycle, graph,
           WaitForTask, WaitTimesOut, PumpStart, PumpEnd, PumpSkip,
           RunTimesOut, RunFinally, Shutdown, Exit, Crash, Start
<1> QED BY <1>1, TypeInvariant, InductiveInvariant, PTL
        DEF Spec, TerminalIsFinal

-----------------------------------------------------------------------------
(***************************************************************************)
(* No task is forgotten.  The property speaks of the time when pump() is   *)
(* idle; the invariant below says what holds in the middle of its loop: of *)
(* the tasks already visited, one is left startable only if something is   *)
(* running.  That a waiting task is covered rests on dependencies being    *)
(* older than their dependants, so visited before them.                    *)
(***************************************************************************)

\* Tasks are numbered without gaps and depend on older tasks only.
GraphIsOrdered ==
    /\ \A t \in TaskIds : \A d \in tasks[t].dependencies : d < t /\ Exists(d)
    /\ \A t, u \in TaskIds : u < t /\ Exists(t) => Exists(u)

Visited(t) == pumpAt = 0 \/ t < pumpAt

VisitedAreCovered ==
    daemon = "serving" /\ ~pumpQueued =>
        \A t \in TaskIds : Startable(t) /\ Visited(t) => RunningTasks # {}

PumpCovers == GraphIsOrdered /\ VisitedAreCovered

\* spawnTask appends a task whose dependencies are known; nothing else adds
\* a task or touches dependencies, and no task disappears.
LEMMA GraphStep ==
    ASSUME TypeOK, Coupling, disk = tasks, GraphIsOrdered, [Next]_vars
    PROVE  GraphIsOrdered'
<1>1. ASSUME NEW deps \in SUBSET TaskIds, NEW b \in AttemptBudgets,
             SpawnTask(deps, b)
      PROVE  GraphIsOrdered'
  <2>1. PICK t \in TaskIds :
          /\ ~Exists(t)
          /\ \A u \in TaskIds : u < t => Exists(u)
          /\ \A d \in deps : Exists(d)
          /\ tasks' = [tasks EXCEPT ![t] =
                 [status |-> "queued", dependencies |-> deps, attempt |-> 0,
                  maxAttempts |-> b]]
    BY <1>1 DEF SpawnTask, Transition
  <2>2. \A d \in TaskIds : Exists(d) => d < t
    BY <2>1 DEF GraphIsOrdered, TaskIds
  <2>3. \A u \in TaskIds : Exists(u)' <=> Exists(u) \/ u = t
    BY <2>1 DEF Exists, TypeOK
  <2>4. \A u \in TaskIds : u # t =>
           tasks'[u].dependencies = tasks[u].dependencies
    BY <2>1 DEF TypeOK
  <2>5. tasks'[t].dependencies = deps
    BY <2>1 DEF TypeOK
  <2>6. \A u \in TaskIds : tasks[u].dependencies \subseteq TaskIds
    BY DEF TypeOK, TaskRecord
  <2>7. ASSUME NEW u \in TaskIds, NEW d \in tasks'[u].dependencies
        PROVE  d < u /\ Exists(d)'
    BY <2>1, <2>2, <2>3, <2>4, <2>5, <2>6, <2>7 DEF GraphIsOrdered
  <2>8. ASSUME NEW u \in TaskIds, NEW v \in TaskIds, v < u, Exists(u)'
        PROVE  Exists(v)'
    BY <2>1, <2>3, <2>8 DEF GraphIsOrdered
  <2> QED BY <2>7, <2>8 DEF GraphIsOrdered
<1>2. ASSUME \A t \in TaskIds :
               /\ tasks'[t].dependencies = tasks[t].dependencies
               /\ Exists(t)' <=> Exists(t)
      PROVE  GraphIsOrdered'
  <2>1. \A u \in TaskIds : tasks[u].dependencies \subseteq TaskIds
    BY DEF TypeOK, TaskRecord
  <2> QED BY <1>2, <2>1 DEF GraphIsOrdered
<1> DEFINE Same == \A t \in TaskIds :
               /\ tasks'[t].dependencies = tasks[t].dependencies
               /\ Exists(t)' <=> Exists(t)
<1> USE DEF Exists
<1>3. ASSUME NEW t \in TaskIds, CancelTask(t) PROVE Same
  BY <1>3 DEF CancelTask, Cancellable, Transition, WithStatus, graph, TypeOK,
              TaskRecord
<1>4. ASSUME NEW t \in TaskIds, RetryTask(t) PROVE Same
  BY <1>4 DEF RetryTask, Terminal, TerminalStatuses, Transition, TypeOK,
              TaskRecord
<1>5. ASSUME NEW t \in TaskIds, PumpFail(t) \/ PumpWait(t) PROVE Same
  <2>1. CASE PumpFail(t)
    BY <2>1 DEF PumpFail, Visiting, Transition, WithStatus, TypeOK, TaskRecord
  <2>2. CASE PumpWait(t)
    BY <2>2 DEF PumpWait, Visiting, Transition, WithStatus, TypeOK, TaskRecord
  <2> QED BY <1>5, <2>1, <2>2
<1>6. ASSUME NEW t \in TaskIds, StartTask(t) PROVE Same
  BY <1>6 DEF StartTask, Visiting, Transition, TypeOK, TaskRecord
<1>7. ASSUME NEW r \in RunIds, NEW o \in Outcomes, SettleRun(r, o)
      PROVE  Same
  <2>1. /\ runs[r].task \in TaskIds
        /\ tasks[runs[r].task].status = "running"
    BY <1>7, SettlingTaskIsRunning
  <2>2. tasks' = WithStatus(runs[r].task, StatusAfter(r, o))
    BY <1>7 DEF SettleRun, Transition
  <2>3. StatusAfter(r, o) # "absent"
    BY StatusAfterType DEF TaskStatus, TerminalStatuses
  <2> QED BY <2>1, <2>2, <2>3 DEF WithStatus, TypeOK, TaskRecord
<1>8. ASSUME RecoverAfterRestart PROVE Same
  BY <1>8 DEF RecoverAfterRestart, Transition, TypeOK, TaskRecord
<1>9. ASSUME tasks' = tasks PROVE Same
  BY <1>9
<1> HIDE DEF Exists
<1> QED
  BY <1>1, <1>2, <1>3, <1>4, <1>5, <1>6, <1>7, <1>8, <1>9
     DEF Next, Request, PumpStep, RunStep, LifeCycle, vars, graph,
         WaitForTask, WaitTimesOut, PumpStart, PumpEnd, PumpSkip,
         RunTimesOut, RunFinally, Shutdown, Exit, Crash, Start

\* At the concurrency limit, which is at least one, something is running.
LEMMA LimitMeansRunning ==
    ASSUME LimitReached PROVE RunningTasks # {}
BY FS_EmptySet, TaskSupervisorAssumption
   DEF TaskSupervisorAssumption, LimitReached

\* A run's end, a spawn, a retry and the recovery queue another pump(); a
\* cancellation does not need to; and pump() leaves a task waiting only
\* behind a task that runs or is itself covered.
LEMMA CoverStep ==
    ASSUME TypeOK, Coupling, PumpCovers, disk = tasks, [Next]_vars
    PROVE  VisitedAreCovered'
<1> USE DEF VisitedAreCovered, Visited, Startable
<1> SUFFICES ASSUME (daemon = "serving" /\ ~pumpQueued)',
                    NEW u \in TaskIds, (Startable(u) /\ Visited(u))'
             PROVE  (RunningTasks # {})'
  OBVIOUS
<1>0. VisitedAreCovered /\ GraphIsOrdered
  BY DEF PumpCovers
<1>1. ASSUME NEW deps \in SUBSET TaskIds, NEW b \in AttemptBudgets,
             SpawnTask(deps, b)
      PROVE  FALSE
  BY <1>1 DEF SpawnTask, SchedulePump, life, Coupling, LifeCycleInv
<1>2. ASSUME NEW t \in TaskIds, CancelTask(t)
      PROVE  (RunningTasks # {})'
  <2>1. Startable(u)
    BY <1>2 DEF CancelTask, Transition, WithStatus, graph, TypeOK, TaskRecord
  <2> QED BY <1>0, <1>2, <2>1
          DEF CancelTask, pumping, life, RunningTasks
<1>3. ASSUME NEW t \in TaskIds, RetryTask(t) PROVE FALSE
  BY <1>3 DEF RetryTask, SchedulePump, life, Coupling, LifeCycleInv
<1>4. CASE PumpStart
  BY <1>4 DEF PumpStart, life, Coupling, LifeCycleInv, TaskIds
<1>5. CASE PumpEnd
  <2>1. CASE LimitReached
    BY <1>5, <2>1, LimitMeansRunning DEF PumpEnd, execution, RunningTasks
  <2>2. CASE ~LimitReached
    <3>1. Exists(u) /\ Startable(u)
      BY <1>5 DEF PumpEnd, graph, Exists
    <3>2. pumpAt > MaxTasks \/ (pumpAt \in TaskIds /\ ~Exists(pumpAt))
      BY <1>5, <2>2 DEF PumpEnd
    <3>3. u < pumpAt
      <4>1. CASE pumpAt > MaxTasks
        BY <4>1, TaskSupervisorAssumption
           DEF TaskIds, TypeOK, TaskSupervisorAssumption
      <4>2. CASE pumpAt \in TaskIds /\ ~Exists(pumpAt)
        <5>1. pumpAt # u /\ ~(pumpAt < u)
          BY <1>0, <3>1, <4>2 DEF GraphIsOrdered
        <5> QED BY <4>2, <5>1 DEF TaskIds
      <4> QED BY <3>2, <4>1, <4>2
    <3> QED BY <1>0, <1>5, <3>1, <3>3
            DEF PumpEnd, life, execution, RunningTasks
  <2> QED BY <2>1, <2>2
<1>6. ASSUME NEW t \in TaskIds, PumpSkip(t) PROVE (RunningTasks # {})'
  BY <1>0, <1>6 DEF PumpSkip, Visiting, InPump, graph, life, execution,
                    RunningTasks, TaskIds
<1>7. ASSUME NEW t \in TaskIds, PumpFail(t) PROVE (RunningTasks # {})'
  <2>1. u # t /\ Startable(u)
    BY <1>7 DEF PumpFail, Transition, WithStatus, TypeOK, TaskRecord
  <2>2. u < t /\ pumpAt = t /\ daemon = "serving" /\ ~pumpQueued
    BY <1>7, <2>1 DEF PumpFail, Visiting, InPump, life, TaskIds
  <2> QED BY <1>0, <1>7, <2>1, <2>2 DEF PumpFail, execution, RunningTasks
<1>8. ASSUME NEW t \in TaskIds, PumpWait(t) PROVE (RunningTasks # {})'
  <2>1. /\ pumpAt = t /\ daemon = "serving" /\ ~pumpQueued
        /\ UNCHANGED running /\ DependencyPending(t) /\ ~DependencyFailed(t)
    BY <1>8 DEF PumpWait, Visiting, InPump, life, execution
  <2>2. PICK d \in tasks[t].dependencies : tasks[d].status # "completed"
    BY <2>1 DEF DependencyPending
  <2>3. /\ d \in TaskIds /\ d < t /\ Exists(d) /\ ~Terminal(d)
        /\ tasks[d].status \in TaskStatus \cup {"absent"}
    BY <1>0, <2>1, <2>2
       DEF GraphIsOrdered, DependencyFailed, TypeOK, TaskRecord
  <2>4. Startable(d) \/ tasks[d].status = "running"
    BY <2>3 DEF Exists, Terminal, TaskStatus
  <2>5. RunningTasks # {}
    <3>1. CASE Startable(d)
      BY <1>0, <2>1, <2>3, <3>1
    <3>2. CASE tasks[d].status = "running"
      BY <2>1, <2>3, <3>2 DEF Coupling, StatusMatchesRuns, RunningTasks
    <3> QED BY <2>4, <3>1, <3>2
  <2> QED BY <2>1, <2>5 DEF RunningTasks
<1>9. ASSUME NEW t \in TaskIds, StartTask(t) PROVE (RunningTasks # {})'
  BY <1>9, TaskSupervisorAssumption
     DEF StartTask, RunningTasks, TypeOK, TaskSupervisorAssumption
<1>10. ASSUME NEW r \in RunIds, NEW o \in Outcomes, SettleRun(r, o)
       PROVE  (RunningTasks # {})'
  <2>1. runs[r].task \in TaskIds /\ running[runs[r].task] = r /\ r # 0
    BY <1>10, SettlingTaskIsRunning, TaskSupervisorAssumption
       DEF SettleRun, Coupling, RunsMatchMap, TaskSupervisorAssumption
  <2> QED BY <1>10, <2>1 DEF SettleRun, RunningTasks
<1>11. ASSUME NEW r \in RunIds, RunFinally(r) PROVE FALSE
  BY <1>11 DEF RunFinally, SchedulePump, life, Coupling, LifeCycleInv
<1>12. CASE LifeCycle
  BY <1>12 DEF LifeCycle, RecoverAfterRestart, Shutdown, Exit, Crash, Start
<1>13. ASSUME UNCHANGED <<tasks, running, daemon, pumpQueued, pumpAt>>
       PROVE  (RunningTasks # {})'
  BY <1>0, <1>13 DEF RunningTasks
<1> QED
  BY <1>1, <1>2, <1>3, <1>4, <1>5, <1>6, <1>7, <1>8, <1>9, <1>10, <1>11,
     <1>12, <1>13
     DEF Next, Request, PumpStep, RunStep, vars, graph, execution, pumping,
         life, WaitForTask, WaitTimesOut, RunTimesOut

\* Cancelling a task that others depend on schedules no pump, and still no
\* task is ever left queued or waiting with nothing to bring pump() back.
THEOREM NoTaskIsForgotten ==
    ASSUME EarlyRequests = FALSE
    PROVE  Spec => []NoForgottenTask
<1>1. Init => PumpCovers
  BY DEF Init, PumpCovers, GraphIsOrdered, VisitedAreCovered, NoTask, Exists
<1>2. TypeOK /\ IInv /\ PumpCovers /\ [Next]_vars => PumpCovers'
  BY GraphStep, CoverStep DEF IInv, PumpCovers
<1>3. TypeOK /\ IInv /\ PumpCovers => NoForgottenTask
  BY DEF IInv, Coupling, RunsMatchMap, PumpCovers, VisitedAreCovered, Visited,
         RunningTasks, NoForgottenTask
<1> QED BY <1>1, <1>2, <1>3, TypeInvariant, InductiveInvariant, PTL DEF Spec
=============================================================================
