--------------------------- MODULE TaskSupervisor ---------------------------
(***************************************************************************)
(* The durable task graph of packages/orchestrator/src/task-supervisor.ts, *)
(* together with the parts of serve.ts that start and stop it.             *)
(*                                                                         *)
(* The code runs on one JavaScript thread, so the atomic step is the code  *)
(* between two returns to the event loop.  Requests, timers and the        *)
(* settlement of an executor are macrotasks: they happen when no microtask *)
(* is waiting (Drained).  pump() is a microtask, and so is the reaction    *)
(* startTask hangs on the promise of a run.  The iterations of pump() are  *)
(* steps of their own because each may write tasks.json, and the process   *)
(* can be killed between two writes.                                       *)
(***************************************************************************)
EXTENDS Naturals, FiniteSets

CONSTANTS
    MaxTasks,       \* bound: tasks the daemon is ever given
    MaxConcurrent,  \* TaskSupervisorOptions.maxConcurrent
    RunIds,         \* identities for the runs alive at the same time
    AttemptBudgets, \* the values of SpawnTaskOptions.maxAttempts
    MaxRetries,     \* bound: attempts after which no explicit retry is made
    MaxWaiters,     \* bound: waitForTask promises pending on one task
    MaxRestarts,    \* bound: how often the daemon is started again
    EarlyRequests   \* may a request arrive between listen() and recovery?

ASSUME TaskSupervisorAssumption ==
    /\ MaxTasks \in Nat \ {0}
    /\ MaxConcurrent \in Nat \ {0}
    /\ IsFiniteSet(RunIds)
    /\ RunIds \subseteq Nat \ {0}
    /\ AttemptBudgets \subseteq Nat \ {0}
    /\ MaxRetries \in Nat
    /\ MaxWaiters \in Nat
    /\ MaxRestarts \in Nat
    /\ EarlyRequests \in BOOLEAN

(***************************************************************************)
(* A task's number is its place in the insertion order of the Map, which   *)
(* is the order pump() visits tasks in and the order tasks.json keeps.     *)
(***************************************************************************)
TaskIds == 1..MaxTasks

TerminalStatuses == {"completed", "failed", "cancelled", "timed_out"}

TaskStatus == {"queued", "waiting", "running"} \cup TerminalStatuses

\* Status "absent" marks a number that no task has yet.
TaskRecord == [status       : TaskStatus \cup {"absent"},
               dependencies : SUBSET TaskIds,
               attempt      : Nat,
               maxAttempts  : Nat]

NoTask == [status |-> "absent", dependencies |-> {}, attempt |-> 0,
           maxAttempts |-> 0]

\* What a run's AbortController was aborted with; the first abort wins.
AbortReasons == {"none", "cancelled", "timed_out", "shutdown"}

\* "settled": executeTask has returned and its finally reaction is queued.
RunRecord == [task : TaskIds, phase : {"executing", "settled"},
              aborted : AbortReasons]

VARIABLES
    daemon,        \* life cycle of the orchestrator process
    tasks,         \* TaskSupervisor.tasks
    disk,          \* tasks.json
    runs,          \* the executions alive, by identity
    running,       \* TaskSupervisor.running: task -> run, 0 when absent
    waiters,       \* promises registered by waitForTask, per task
    pumpQueued,    \* TaskSupervisor.pumpQueued
    pumpAt,        \* next task the loop of pump() visits, 0 outside pump()
    shuttingDown,  \* TaskSupervisor.shuttingDown
    awaited,       \* runs shutdown() waits for
    restarts,      \* number of times the daemon was started again
    requeues       \* history: runs of a task lost to a crash or a shutdown

graph == <<tasks, disk>>
execution == <<runs, running>>
pumping == <<pumpQueued, pumpAt>>
life == <<daemon, shuttingDown, awaited, restarts>>

vars == <<graph, execution, waiters, pumping, life, requeues>>

DaemonStates == {"down", "listening", "serving", "stopping", "exited"}

Up == daemon \in {"listening", "serving", "stopping"}

Exists(t) == tasks[t].status # "absent"
Terminal(t) == tasks[t].status \in TerminalStatuses
RunningTasks == {t \in TaskIds : running[t] # 0}

\* No microtask is waiting and none is being executed.
Drained == /\ ~pumpQueued
           /\ pumpAt = 0
           /\ \A r \in DOMAIN runs : runs[r].phase = "executing"

\* server.close() ends listening, but open connections still deliver.
AcceptsRequests ==
    /\ Drained
    /\ \/ daemon \in {"serving", "stopping"}
       \/ daemon = "listening" /\ EarlyRequests

-----------------------------------------------------------------------------
(* Helpers shared by the operations. *)

\* Slip: the record is changed and the file is not.
TransitionUnsaved(new) == tasks' = new /\ UNCHANGED disk

\* transition() and persist(): every change of a task is written at once.
Transition(new) == /\ tasks' = new
                   /\ disk' = new

WithStatus(t, s) == [tasks EXCEPT ![t].status = s]

\* Slip: one waiter is counted off and the others are kept.
NotifyOneWaiter(t) == waiters' = [waiters EXCEPT ![t] = @ - 1]

\* Slip: nobody is told.
NotifyNobody(t) == t \in TaskIds /\ UNCHANGED waiters

\* notifyWaiters(): the set of waiters is dropped and each one is resolved.
NotifyWaiters(t) == waiters' = [waiters EXCEPT ![t] = 0]

\* Slip: no pump is wanted while something runs.
SchedulePumpWhenIdle ==
    pumpQueued' = (pumpQueued \/ (~shuttingDown /\ RunningTasks = {}))

\* schedulePump(): at most one pump() is queued, none during shutdown.
SchedulePump == pumpQueued' = (pumpQueued \/ ~shuttingDown)

Init ==
    /\ daemon = "listening"
    /\ tasks = [t \in TaskIds |-> NoTask]
    /\ disk = tasks
    /\ runs = [r \in {} |-> 0]
    /\ running = [t \in TaskIds |-> 0]
    /\ waiters = [t \in TaskIds |-> 0]
    /\ pumpQueued = FALSE
    /\ pumpAt = 0
    /\ shuttingDown = FALSE
    /\ awaited = {}
    /\ restarts = 0
    /\ requeues = [t \in TaskIds |-> 0]

-----------------------------------------------------------------------------
(* Requests from clients, dispatched by handleIpcRequest. *)

\* A dependency must be a known task, so the graph cannot have a cycle.
SpawnTask(deps, budget) ==
    /\ AcceptsRequests
    /\ \E t \in TaskIds :
         /\ ~Exists(t)
         /\ \A u \in TaskIds : u < t => Exists(u)
         /\ \A d \in deps : Exists(d)
         /\ Transition([tasks EXCEPT ![t] =
                 [status |-> "queued", dependencies |-> deps, attempt |-> 0,
                  maxAttempts |-> budget]])
    /\ SchedulePump
    /\ UNCHANGED <<execution, waiters, pumpAt, life, requeues>>

\* abort() of the controller of run r; a second abort changes nothing.
AbortRun(r, reason) ==
    IF r \in DOMAIN runs /\ runs[r].aborted = "none"
      THEN [runs EXCEPT ![r].aborted = reason]
      ELSE runs

\* Slip: the terminal statuses are not excluded.
CancellableAny(t) == Exists(t)

Cancellable(t) == Exists(t) /\ ~Terminal(t)

\* A running task is only asked to stop; any other is cancelled at once.
\* No pump is scheduled: dependants are looked at by a later pump().
CancelTask(t) ==
    /\ AcceptsRequests
    /\ Cancellable(t)
    /\ IF tasks[t].status = "running"
         THEN /\ runs' = AbortRun(running[t], "cancelled")
              /\ UNCHANGED <<graph, waiters>>
         ELSE /\ Transition(WithStatus(t, "cancelled"))
              /\ NotifyWaiters(t)
              /\ UNCHANGED runs
    /\ UNCHANGED <<running, pumping, life, requeues>>

RetryTask(t) ==
    /\ AcceptsRequests
    /\ Terminal(t) /\ tasks[t].status # "completed"
    /\ tasks[t].attempt < MaxRetries
    /\ LET needed == tasks[t].attempt + 1
           allowed == IF tasks[t].maxAttempts < needed
                        THEN needed ELSE tasks[t].maxAttempts
       IN  Transition([tasks EXCEPT ![t] =
               [tasks[t] EXCEPT !.status = "queued",
                                !.maxAttempts = allowed]])
    /\ SchedulePump
    /\ UNCHANGED <<execution, waiters, pumpAt, life, requeues>>

\* On a terminal task waitForTask answers at once and nothing is registered.
WaitForTask(t) ==
    /\ AcceptsRequests
    /\ Exists(t) /\ ~Terminal(t)
    /\ waiters[t] < MaxWaiters
    /\ waiters' = [waiters EXCEPT ![t] = @ + 1]
    /\ UNCHANGED <<graph, execution, pumping, life, requeues>>

\* The timer of waitForTask fires: the waiter is rejected and removed.
WaitTimesOut(t) ==
    /\ Up /\ Drained
    /\ waiters[t] > 0
    /\ waiters' = [waiters EXCEPT ![t] = @ - 1]
    /\ UNCHANGED <<graph, execution, pumping, life, requeues>>

-----------------------------------------------------------------------------
(* pump(): a microtask; one step per iteration of its loop. *)

PumpStart ==
    /\ Up /\ pumpQueued
    /\ pumpQueued' = FALSE
    /\ pumpAt' = IF shuttingDown THEN 0 ELSE 1
    /\ UNCHANGED <<graph, execution, waiters, life, requeues>>

InPump == Up /\ pumpAt # 0

\* Slip: off by one.
LimitPassed == Cardinality(RunningTasks) > MaxConcurrent

LimitReached == Cardinality(RunningTasks) >= MaxConcurrent

\* The loop runs out of tasks, or breaks at the concurrency limit.
PumpEnd ==
    /\ InPump
    /\ \/ pumpAt > MaxTasks
       \/ pumpAt \in TaskIds /\ (~Exists(pumpAt) \/ LimitReached)
    /\ pumpAt' = 0
    /\ UNCHANGED <<graph, execution, waiters, pumpQueued, life, requeues>>

Visiting(t) == InPump /\ pumpAt = t /\ Exists(t) /\ ~LimitReached

\* Slip: whatever has not ended may be started.
StartableUnlessEnded(t) == Exists(t) /\ ~Terminal(t)

Startable(t) == tasks[t].status \in {"queued", "waiting"}

DependencyFailed(t) ==
    \E d \in tasks[t].dependencies :
        Terminal(d) /\ tasks[d].status # "completed"

\* Slip: a dependency that waits itself holds nothing back.
DependencyUnderWay(t) ==
    \E d \in tasks[t].dependencies : tasks[d].status \in {"queued", "running"}

DependencyPending(t) ==
    \E d \in tasks[t].dependencies : tasks[d].status # "completed"

PumpSkip(t) ==
    /\ Visiting(t) /\ ~Startable(t)
    /\ pumpAt' = t + 1
    /\ UNCHANGED <<graph, execution, waiters, pumpQueued, life, requeues>>

PumpFail(t) ==
    /\ Visiting(t) /\ Startable(t) /\ DependencyFailed(t)
    /\ Transition(WithStatus(t, "failed"))
    /\ NotifyWaiters(t)
    /\ pumpAt' = t + 1
    /\ UNCHANGED <<execution, pumpQueued, life, requeues>>

PumpWait(t) ==
    /\ Visiting(t) /\ Startable(t) /\ ~DependencyFailed(t)
    /\ DependencyPending(t)
    /\ Transition(WithStatus(t, "waiting"))
    /\ pumpAt' = t + 1
    /\ UNCHANGED <<execution, waiters, pumpQueued, life, requeues>>

\* startTask() and the synchronous beginning of executeTask().
StartTask(t) ==
    /\ Visiting(t) /\ Startable(t) /\ ~DependencyFailed(t)
    /\ ~DependencyPending(t)
    /\ \E r \in RunIds \ DOMAIN runs :
         /\ \A s \in RunIds \ DOMAIN runs : r <= s
         /\ runs' = [s \in DOMAIN runs \cup {r} |->
                       IF s = r THEN [task |-> t, phase |-> "executing",
                                      aborted |-> "none"]
                                ELSE runs[s]]
         /\ running' = [running EXCEPT ![t] = r]
    /\ Transition([tasks EXCEPT ![t] =
            [tasks[t] EXCEPT !.status = "running",
                             !.attempt = tasks[t].attempt + 1]])
    /\ pumpAt' = t + 1
    /\ UNCHANGED <<waiters, pumpQueued, life, requeues>>

-----------------------------------------------------------------------------
(* A run ends. *)

\* The timer executeTask sets for budget.timeoutMs, cleared when it returns.
\* Without a budget the timer never fires, which this action allows too.
RunTimesOut(r) ==
    /\ Up /\ Drained
    /\ r \in DOMAIN runs
    /\ runs[r].aborted = "none"
    /\ runs' = AbortRun(r, "timed_out")
    /\ UNCHANGED <<graph, running, waiters, pumping, life, requeues>>

\* What executor.run() ends with: a result, the reason of the abort, or an
\* error of its own, whose text may happen to contain "timed out" (the text
\* of an RPC error carries the stderr of the child).
Outcomes == {"result", "abort_reason", "error", "error_timed_out"}

SaysTimedOut(r, outcome) ==
    \/ outcome = "error_timed_out"
    \/ outcome = "abort_reason" /\ runs[r].aborted = "timed_out"

\* Slip: one attempt too many.
AfterFailureOffByOne(t, status) ==
    IF tasks[t].attempt <= tasks[t].maxAttempts THEN "queued" ELSE status

\* handleFailure(): try again while attempts remain.
AfterFailure(t, status) ==
    IF tasks[t].attempt < tasks[t].maxAttempts THEN "queued" ELSE status

\* The status executeTask() leaves its task in, branch by branch.
StatusAfter(r, outcome) ==
    LET t == runs[r].task
        aborted == runs[r].aborted # "none"
    IN  CASE outcome = "result" -> "completed"
          [] outcome # "result" /\ shuttingDown -> "queued"
          [] outcome # "result" /\ ~shuttingDown /\ aborted
                /\ SaysTimedOut(r, outcome) -> AfterFailure(t, "timed_out")
          [] outcome # "result" /\ ~shuttingDown /\ aborted
                /\ ~SaysTimedOut(r, outcome) -> "cancelled"
          [] OTHER -> AfterFailure(t, "failed")

\* executeTask() resumes after executor.run() and runs to its end.
SettleRun(r, outcome) ==
    /\ Up /\ Drained
    /\ r \in DOMAIN runs
    /\ outcome = "abort_reason" => runs[r].aborted # "none"
    /\ LET t == runs[r].task
           s == StatusAfter(r, outcome)
       IN  /\ Transition(WithStatus(t, s))
           /\ IF s \in TerminalStatuses
                THEN NotifyWaiters(t) ELSE UNCHANGED waiters
           /\ requeues' = IF outcome # "result" /\ shuttingDown
                            THEN [requeues EXCEPT ![t] = @ + 1] ELSE requeues
    /\ runs' = [runs EXCEPT ![r].phase = "settled"]
    /\ UNCHANGED <<running, pumping, life>>

\* The finally reaction of startTask().
RunFinally(r) ==
    /\ Up
    /\ r \in DOMAIN runs
    /\ runs[r].phase = "settled"
    /\ running' = [running EXCEPT ![runs[r].task] = 0]
    /\ runs' = [s \in DOMAIN runs \ {r} |-> runs[s]]
    /\ SchedulePump
    /\ UNCHANGED <<graph, waiters, pumpAt, life, requeues>>

-----------------------------------------------------------------------------
(* Life cycle of the daemon. *)

\* serve() calls recoverAfterRestart() once the socket is listening and the
\* live instances are restored.
RecoverAfterRestart ==
    /\ daemon = "listening"
    /\ Drained
    /\ Transition([t \in TaskIds |->
                     IF tasks[t].status = "running"
                       THEN [tasks[t] EXCEPT !.status = "queued"]
                       ELSE tasks[t]])
    /\ requeues' = [t \in TaskIds |->
                      IF tasks[t].status = "running"
                        THEN requeues[t] + 1 ELSE requeues[t]]
    /\ daemon' = "serving"
    /\ pumpQueued' = TRUE
    /\ UNCHANGED <<execution, waiters, pumpAt, shuttingDown, awaited,
                   restarts>>

\* Slip: shutdown() aborts the runs and waits for none of them.
AwaitNothing == {}

\* The runs shutdown() aborts and then waits for.
RunsInMap == {running[t] : t \in RunningTasks}

\* SIGINT or SIGTERM: shutdown() aborts every run the map knows of.
Shutdown ==
    /\ daemon = "serving"
    /\ Drained
    /\ restarts < MaxRestarts
    /\ shuttingDown' = TRUE
    /\ awaited' = RunsInMap
    /\ runs' = [r \in DOMAIN runs |->
                  IF r \in RunsInMap /\ runs[r].aborted = "none"
                    THEN [runs[r] EXCEPT !.aborted = "shutdown"]
                    ELSE runs[r]]
    /\ daemon' = "stopping"
    /\ UNCHANGED <<graph, running, waiters, pumping, restarts, requeues>>

\* shutdown() has seen every awaited promise settle: persist and exit.
Exit ==
    /\ daemon = "stopping"
    /\ awaited \cap DOMAIN runs = {}
    /\ disk' = tasks
    /\ daemon' = "exited"
    /\ UNCHANGED <<tasks, execution, waiters, pumping, shuttingDown, awaited,
                   restarts, requeues>>

\* The maps, sets and flags of a process that does not run (yet).
FreshProcess ==
    /\ runs' = [r \in {} |-> 0]
    /\ running' = [t \in TaskIds |-> 0]
    /\ waiters' = [t \in TaskIds |-> 0]
    /\ pumpQueued' = FALSE
    /\ pumpAt' = 0
    /\ shuttingDown' = FALSE
    /\ awaited' = {}

\* The process is killed, at any point; only tasks.json survives.
Crash ==
    /\ Up
    /\ restarts < MaxRestarts
    /\ daemon' = "down"
    /\ FreshProcess
    /\ UNCHANGED <<graph, restarts, requeues>>

\* A new process: the constructor loads tasks.json, then serve() listens.
Start ==
    /\ daemon \in {"down", "exited"}
    /\ daemon' = "listening"
    /\ restarts' = restarts + 1
    /\ tasks' = disk
    /\ FreshProcess
    /\ UNCHANGED <<disk, requeues>>

-----------------------------------------------------------------------------

Request ==
    \/ \E deps \in SUBSET TaskIds, b \in AttemptBudgets : SpawnTask(deps, b)
    \/ \E t \in TaskIds : CancelTask(t)
    \/ \E t \in TaskIds : RetryTask(t)
    \/ \E t \in TaskIds : WaitForTask(t)
    \/ \E t \in TaskIds : WaitTimesOut(t)

PumpStep ==
    \/ PumpStart
    \/ PumpEnd
    \/ \E t \in TaskIds : PumpSkip(t)
    \/ \E t \in TaskIds : PumpFail(t)
    \/ \E t \in TaskIds : PumpWait(t)
    \/ \E t \in TaskIds : StartTask(t)

RunStep ==
    \/ \E r \in RunIds : RunTimesOut(r)
    \/ \E r \in RunIds, o \in Outcomes : SettleRun(r, o)
    \/ \E r \in RunIds : RunFinally(r)

LifeCycle ==
    \/ RecoverAfterRestart
    \/ Shutdown
    \/ Exit
    \/ Crash
    \/ Start

Next == Request \/ PumpStep \/ RunStep \/ LifeCycle

Spec == Init /\ [][Next]_vars

(***************************************************************************)
(* Microtasks always run, a stopped daemon is started again, shutdown ends *)
(* when it can, and - the assumption the executor must meet - every run    *)
(* settles.  Settlement is strongly fair: clients may keep the microtask   *)
(* queue busy again and again, but the event loop takes ready macrotasks   *)
(* in turn.  Requests, time-outs, crashes and shutdowns need not happen.   *)
(***************************************************************************)
Fairness ==
    /\ WF_vars(PumpStep)
    /\ \A r \in RunIds : WF_vars(RunFinally(r))
    /\ \A r \in RunIds : SF_vars(\E o \in Outcomes : SettleRun(r, o))
    /\ WF_vars(RecoverAfterRestart)
    /\ WF_vars(Exit)
    /\ WF_vars(Start)

FairSpec == Spec /\ Fairness

-----------------------------------------------------------------------------
(* Properties. *)

\* The maps, counters and flags of the supervisor keep their shapes.
TypeOK ==
    /\ daemon \in DaemonStates
    /\ tasks \in [TaskIds -> TaskRecord]
    /\ disk \in [TaskIds -> TaskRecord]
    /\ DOMAIN runs \subseteq RunIds
    /\ \A r \in DOMAIN runs : runs[r] \in RunRecord
    /\ running \in [TaskIds -> RunIds \cup {0}]
    /\ waiters \in [TaskIds -> Nat]
    /\ pumpQueued \in BOOLEAN
    /\ pumpAt \in 0..(MaxTasks + 1)
    /\ shuttingDown \in BOOLEAN
    /\ awaited \subseteq RunIds
    /\ restarts \in Nat
    /\ requeues \in [TaskIds -> Nat]

\* maxConcurrent bounds the executions alive, not merely the size of the map
\* pump() compares it with, through retries, recoveries and cancellations.
ConcurrencyLimit == Up => Cardinality(DOMAIN runs) <= MaxConcurrent

\* Every execution alive is the one the running map holds for its task, so
\* cancelTask and shutdown can abort it; and once recovery is over a task
\* marked "running" really has an execution.
EveryRunIsControlled ==
    Up => /\ \A r \in DOMAIN runs :
               /\ running[runs[r].task] = r
               /\ runs[r].phase = "executing" =>
                     tasks[runs[r].task].status = "running"
          /\ \A t \in TaskIds :
               /\ running[t] # 0 => running[t] \in DOMAIN runs
               /\ tasks[t].status = "running" /\ daemon # "listening" =>
                     running[t] # 0

\* No attempt of a task was ever started before all its dependencies had
\* completed, and none of them is taken back afterwards.
DependenciesHonoured ==
    \A t \in TaskIds : tasks[t].attempt > 0 =>
        \A d \in tasks[t].dependencies : tasks[d].status = "completed"

\* Whoever waits for a task waits for one that can still end: every path to
\* a terminal status resolves the waiters.
NoStrandedWaiter ==
    Up => \A t \in TaskIds : waiters[t] > 0 => Exists(t) /\ ~Terminal(t)

\* When pump() is neither queued nor active, a task left queued or waiting has
\* some run whose end will bring pump() back.  Cancelling a task that others
\* depend on schedules no pump, and is safe only because of this.
NoForgottenTask ==
    (daemon = "serving" /\ ~pumpQueued /\ pumpAt = 0
        /\ \E t \in TaskIds : Startable(t)) => DOMAIN runs # {}

\* The attempts of a task exceed its budget at most by the runs that a crash
\* or a shutdown took away.
AttemptsBounded ==
    \A t \in TaskIds : tasks[t].attempt <= tasks[t].maxAttempts + requeues[t]

\* A daemon that exits by shutdown() leaves no execution behind and no task
\* that tasks.json calls running.
CleanExit ==
    daemon = "exited" => /\ DOMAIN runs = {}
                         /\ \A t \in TaskIds : disk[t].status # "running"

\* What a client has been told is on disk: a crash forgets nothing.
DiskIsCurrent == Up => disk = tasks

\* Only an explicit retry moves a task out of a terminal status, and nothing
\* moves it out of "completed".
TerminalIsFinal ==
    [][\A t \in TaskIds :
          Terminal(t) /\ tasks'[t] # tasks[t] =>
              RetryTask(t) /\ tasks[t].status # "completed"]_vars

\* Every task the daemon accepted reaches a terminal status, whatever was
\* cancelled, retried, killed or restarted in between.
EveryTaskSettles == \A t \in TaskIds : Exists(t) ~> Terminal(t)

\* Every waitForTask promise is settled, or lost with the process.
EveryWaiterAnswered == \A t \in TaskIds : waiters[t] > 0 ~> waiters[t] = 0
=============================================================================
