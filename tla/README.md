# Verification of eagent

TLA+ models of the parts of eagent that are concurrent, that fail and that
recover: the task graph and the instances of the orchestrator, the execution
of a task in a child agent, the agent loop with its queues, the session that
drives it with retries and compactions, and the session trees with their
files.  TLC checks the models on small instances; TLAPS proves, for every
instance, the safety of the task graph, that a run in a child keeps the
contract the task graph relies on, that the instances and their records agree,
that the agent sends what it shows and loses no message, that an idle session
is idle and leaves nothing queued, that failures are bounded, that session files
hold the sessions, and that compactions drop no message and cut no tool call.

## The system

Paths are below `packages/`.

| Component | State | Operations | Hard behaviours |
|---|---|---|---|
| Task graph (`orchestrator/src/task-supervisor.ts`, started and stopped by `serve.ts`) | map of tasks, `tasks.json`, map of running tasks, waiters, the pump flag | spawn, cancel, retry, wait, pump, end of a run, recovery, shutdown | microtasks between requests; a kill between two writes; requests before recovery; cancels racing results |
| Task execution (`RpcTaskExecutor` in the same file, over `rpc-process.ts`) | pending requests, the settled promise, the child process | prompt, await, query, abort, dispose | the child dies at any moment; exit and output are unordered; an abort before the prompt is accepted |
| Agent and loop (`agent/src/agent.ts`, `agent-loop.ts`) | transcript, context of the loop, steering and follow-up queues, active run | prompt, continue, steer, followUp, clear, abort, reset; turns, batches of tool calls | messages queued during awaits; aborts inside a batch; parallel tools; listeners that throw |
| Request preparation (`ai/src/api/transform-messages.ts`) | none | transformMessages | conversations with aborted, failed or unanswered parts |
| Agent session (`coding-agent/src/core/agent-session.ts`) | retry and overflow counters, mirrors of the queues, bash messages put off, who waits for idle | prompt, post-run handling, retry, compaction, abort, compact, bash | checks before awaits, aborts of waits, two prompts at once, a compaction beside a run |
| Orchestrator instances (`orchestrator/src/supervisor.ts`) | live instances, `instances.json`, a child each | spawn, RPC, stop, exit, recovery, shutdown | stop during spawn, exit during stop, a crash between two writes, shutdown beside requests |
| Session trees (`coding-agent/src/core/session-manager.ts`, `agent-session-runtime.ts`) | append-only entries with a leaf, one file a session | append, label, navigate, new, resume, fork, clone, reload | the file comes into being late; entries appended while a summary is made; copies of a branch |
| Compaction (`coding-agent/src/core/compaction`) | none | choice of the cut, preparation, summary | splitting a turn; a second compaction over the first |
| Agent harness (`agent/src/harness/agent-harness.ts`) | phase, pending session writes, queues | prompt, steer, compact, navigate | idle before the last listeners have run |
| RPC mode and client, web server | child processes, event streams | forwarding | reconnects, a child that goes away |
| Tools, extensions, providers, terminal UI, settings, packages | files, screens, wire formats | | mostly sequential I/O |

A client asks the task graph for tasks; its pump starts runs; each run is an
`RpcTaskExecutor.run()` with a child that is the RPC mode of the coding agent;
inside the child a session drives an `Agent`, whose loop calls models with
what `transformMessages` makes of the conversation; the session appends what
the agent announces to a session tree and, when it compacts, takes the
transcript anew from that tree.  Instances are children of the same kind that
live on between requests of the clients.

What makes each part correct:

- task graph: the limit on executions, dependencies before dependants, no task
  and no waiter forgotten, a file that a restart can start from, a shutdown
  that leaves nothing running;
- task execution: the run ends, the child is reaped, the result belongs to a
  session that has settled;
- agent: every request is acceptable to a provider, no queued message is lost
  or doubled, no executed tool call goes unanswered, runs end;
- session: idle only when nothing is under way, retries and compactions end,
  transcript and session file agree, no message is stranded, what the user sees
  queued is queued;
- instances: no child is left behind, an acknowledged stop is final, record,
  file and child agree on the session;
- session trees: a tree in memory and in every file, the same in both; no
  message leaves the context without a summary of it; no result without its
  call.

## Modules

| Module | Models | State in the code |
|---|---|---|
| `TaskSupervisor` | the task graph, the daemon's life | `tasks`, `running`, `waiters`, `pumpQueued`, `shuttingDown` are the fields of the class; `disk` is `tasks.json`; `runs` are the calls of `executeTask()` alive; `pumpAt` is the position of the loop in `pump()`; `requeues` is a history variable |
| `MCTaskSupervisor` | instances for TLC | |
| `TaskSupervisorProofs` | theorems about `TaskSupervisor` | |
| `TaskExecution` | what the task graph relies on from one run, abstractly | the promise of `run()`, the signal, whoever does the work |
| `RpcTaskExecutor` | one run in a child | `requests` and `exited` are fields of `RpcProcessInstance`; `settled` is the promise of `run()`; `stdin` and `stdout` are the pipes, writes to a dead child fail (`WriteFails`); `agent` is the session in the child |
| `RpcTaskExecutorProofs` | theorems about `RpcTaskExecutor` | |
| `TransformMessages` | the second pass of `transformMessages()` | a pure function on sequences of messages |
| `Agent` | the agent and its loop | `transcript` is `_state.messages`; `context` is `currentContext.messages`; `pc` is the await the loop is at; `batch` holds the locals of the three functions that run tool calls; `accepted`, `gone` and the counters are history |
| `MCAgent` | instances for TLC | |
| `AgentProofs` | theorems about `Agent` | |
| `AgentSession` | prompts, retries, compactions, abort, bash results and queue mirrors of a session | `pc` is the await each call of `prompt()` is at; `active`, `retryAttempt`, `overflowTried`, `lastAssistant`, the mirrors and `pendingBash` are the fields with an underscore; `loop`, `deliver`, `steering`, `followUp` stand for the agent; `session` is the branch in the file; `manual` is the await of `compact()` |
| `MCAgentSession` | instances for TLC | |
| `AgentSessionProofs` | theorems about the control of `AgentSession` | |
| `AgentSessionDataProofs` | theorems about what `AgentSession` holds: types, queues, failures | |
| `OrchestratorSupervisor` | instances, their records and their children | `live` is the key set of `liveInstances`, `record` its values, `disk` is `instances.json`; `boot`, `rpc`, `disposer` are the awaits, `rpc` also of a stream, whose handle keeps the process after its release; `todo` and `toClose` the rests of the two loops; `daemon` is "draining" while the tasks are shut down; `stopped` and `reaped` are history |
| `MCOrchestratorSupervisor` | the instance for TLC | |
| `OrchestratorSupervisorProofs` | theorems about `OrchestratorSupervisor` | |
| `SessionTree` | session manager, cut point, compaction, navigation, fork, clone | `entries` is `fileEntries`, `leaf` is `leafId`, `flushed` is the field; `files` is the session directory; `pending` is the compaction being summarised; `told` and `base` of an entry are history |
| `MCSessionTree` | instances for TLC | |
| `SessionTreeProofs` | theorems about `SessionTree` | |
| `SequenceLemmas` | facts about numbers and sequences that the proofs share | |

Operators whose comment begins with *Slip* are plausible mistakes in the code
next to the definition they would replace; each shows that a property notices
that mistake.  No specification uses them.

### Granularity

The code runs on one JavaScript thread, so a step is the code between two
returns to the event loop.  `TaskSupervisor` tells microtasks from macrotasks:
requests, timers and the end of an executor wait until no microtask is left
(`Drained`), while `pump()` and the `finally` reaction of a run are microtasks
of their own, in either order.  Each iteration of `pump()` is a step because
each may write `tasks.json` and the process can be killed between two writes.
In `Agent` and `AgentSession` the loop and each call are coroutines and every
await on a listener, on the model, on a tool, a timer, a handler of an
extension or a summary is a point where callers may act.  In
`OrchestratorSupervisor` a step is what runs between two awaits on a child.  In
`SessionTree` an append is one step: the code appends synchronously, to memory
and then to the file.  The start and end events of
one message are a single step, except that a failure may fall between them.

### What is abstracted

Prompts, results, labels, costs, timestamps and the parent links of tasks have
no influence on the control and are left out.  A message is its role, its
identity, its stop reason and its tool calls.  An error of an executor is told
from others only by whether its text contains "timed out", which the code
tests.  The mirrors `_state.isStreaming` and `streamingMessage` follow `pc`.
The first pass of `transformMessages()` rewrites single messages.

`AgentSession` sees the agent by the messages it announces, the response a run
ends with and the queues it drains, not by its batches.  A context overflow is
an error ("overflow") or a response cut off with `stopReason` "length" before
any output ("length"), which is saved like an answer.  In `SessionTree` a run is
a series of entries: prompts and steered messages, responses, and calls with one or
more results, and it may end after a batch.  A message weighs one token, so that
`KeepRecent` counts messages, and `told` is a history variable in a summary: the
messages whose text went into it, directly or by the summary before it; `base`
is the leaf at the time the compaction was prepared.  Budgets bound each kind of
step; they are chosen at `Init`, so that one run checks several mixtures without
the product of all of them.

## Runs

| Run | Bounds | Shows |
|---|---|---|
| `task_supervisor` | 3 tasks, 2 at a time, up to 3 attempts, 1 waiter each, 1 restart | the safety of the task graph through cancels, retries, time-outs, a crash or a shutdown |
| `task_supervisor_live` | 3 tasks, 1 at a time, 1 restart | every task ends, every waiter is answered |
| `task_supervisor_early` | as the first, requests before recovery | *violated*: the concurrency limit |
| `rpc_task_executor` | none needed, the state space is finite | `RpcTaskExecutor` implements `TaskExecution`, the child is reaped, the run ends unless `Abandoned` |
| `rpc_task_executor_abort` | the same | *violated*: an aborted run ends |
| `agent` | 2 or 3 messages, batches of up to 2 calls in the first responses, up to 2 failures, 1 retry, in four mixtures | requests, messages and calls; runs end |
| `agent_queues` | 2 messages | *violated*: queues are empty at `agent_end` |
| `agent_session` | 2 calls of `prompt()`, up to 3 messages, 5 responses that are no answers, a bash command, a compaction by hand, an abort, in seven mixtures | idle means idle, transcript and file agree, bounded failures, nothing stranded; prompts and waits end |
| `agent_session_overflow` | 1 prompt, 5 failures, overflows of both kinds | *violated*: the retry after an overflow is never refused |
| `orchestrator_supervisor` | 2 instances, sessions opened by the commands of one and by the recovery of either, 2 starts of the daemon | children, stops, records, every await ends |
| `session_tree` | up to 8 entries, 2 compactions, 1 navigation, 2 new sessions, in six mixtures; 2 recent messages kept | trees, files, contexts |
| `session_tree_told` | 8 entries, 2 compactions | *violated*: a summary passes on the one before it |

Bounds.  Three tasks allow a chain, a diamond's half and an unrelated task that
competes for a slot; two slots allow a run to settle while another is alive; a
task may be retried by hand after its budget is used up.  One restart is enough
for state to pass through the file; the proofs cover any number.  Two calls in a
batch allow an abort, a failure or a termination between calls and results out
of order; three messages allow two of one kind next to a prompt.  The two queue
modes are covered by giving each queue its own.  Two prompts are what a race
between checks takes; five failures exceed what one retry and one overflow
recovery allow, so `ErrorsBounded` could be violated.  Two instances let one be
stopped while the loop of recovery or shutdown is at the other; two lives of the
daemon let a record pass through the file; the second instance has a session
that a command opens while it is stopped or recovered, the first may be
recovered into another.  Six entries hold a prompt, a call with two results, an
answer and a compaction between them, seven two compactions with the leaf moved,
eight two compactions the second of which splits the turn the first kept.

`CHECK_DEADLOCK FALSE` stands where the models may stop: no request need ever
come, and a run that has ended has nothing left to do.

### Fairness

- `TaskSupervisor`: microtasks run, a stopped daemon is started again, a
  shutdown that can end does.  That every run settles is assumed, with strong
  fairness because the event loop serves ready macrotasks in turn.
  `RpcTaskExecutor` examines that assumption and finds where it fails.
- `RpcTaskExecutor`: the child reads, answers and settles, and SIGTERM ends it;
  its output and its exit are seen.  That it dies on its own is never assumed
  and always possible.
- `AgentSession`: handlers of extensions, providers, timers and summaries end,
  and the loop goes on: each is a promise the code awaits without a limit of its
  own except by abort.  That messages or failures keep coming is bounded by the
  budgets, failures also by the code, which `ErrorsBounded` checks.
- `OrchestratorSupervisor`: a child that was asked answers or exits, SIGTERM
  ends it, and the loops of recovery and shutdown go on.  That the tasks are shut
  down in the end, which comes before the instances, is not assumed: a run may
  hold the daemon up (`rpc_task_executor_abort`).
- `Agent`: model, tools and listeners answer; the code sets no time limit for
  any of them.  The bounds say that callers stop queueing and the model stops
  calling tools at some point, without which a run need not end.

### Disagreements found

1. `serve()` listens before it recovers.  A task started by a request in that
   window is requeued by `recoverAfterRestart()` while it runs, is started a
   second time, and its first execution can no longer be cancelled.  With
   `EarlyRequests = FALSE` everything holds; the theorems state this premise.
2. After the prompt is accepted, `RpcTaskExecutor.run()` waits for
   `agent_settled` only.  If the child dies, or handles the prompt as a command
   of an extension, neither a cancel nor the time budget ends the run, and a
   shutdown of the daemon waits for it for ever.  `RunEndsUnlessAbandoned` says
   that this is the only such state.
3. A comment in `agent-session.ts` says that the loop drains both queues before
   `agent_end`.  It does not after an error or an abort, so messages queued
   during an aborted run start another run.
4. Recovery from a context overflow rebuilds the transcript from the session,
   where the overflow was saved, and drops a last message that is an error.  An
   overflow with `stopReason` "length" is none and stays; so does an earlier
   error that was retried, when the overflow answered the retry.  The agent
   refuses to continue from either: the promised retry does not happen.
5. A compaction that splits a turn hands the previous summary on only if there
   are messages before that turn.  If the previous compaction kept from that
   very turn there are none: the new summary begins with "No prior history."
   and what the conversation was about before is lost to the model.

Two more are noted among the hazards in `PROJECT.json`.  `findCutPoint()` may
keep from a label entry, and a clone makes labels anew with other ids, so its
copied compaction does not find the entry and the kept messages vanish from the
context.  And `navigateTree()` may move the leaf while a compaction is
summarised, which is then appended to a branch it was not made for.  There

- the entry to keep from may be missing, so that nothing is kept;
- the context may begin at a tool result: a branch has a call, an entry without
  messages and the result, a second branch starts at the entry between them, and
  a compaction prepared on the second branch keeps from that entry and lands on
  the first;
- what an earlier summary told of may be lost: a second compaction that splits
  a turn does not hand that summary on (5), and it lands beside the compaction
  that holds it.

`NothingDropped` and `NoOrphanResults` therefore speak of compactions that land
on the branch they were made for (`Lands`), the first also of compactions that
find the entry they keep from (`Finds`).

## Proofs

`TaskSupervisorProofs` proves, for any number of tasks, runs, waiters, attempts
and restarts, type correctness and, if no request precedes recovery, the
invariants of the first run and `TerminalIsFinal`.

Most of these are not inductive.  That at most `MaxConcurrent` executions are
alive needs that the map which `pump()` counts has exactly the executions
alive, which needs that a task's status says whether it has one, which needs
that a settled run is the only microtask until it has left the map: otherwise
`pump()` could start the task again and overwrite its entry.  `IInv` collects
this:

- `disk = tasks`, since every operation writes what it changes;
- `RunsMatchMap` and `StatusMatchesRuns`: runs, the running map and the
  statuses describe the same executions;
- `OneMicrotask`: at most one settled run, and no pump beside it;
- `LifeCycleInv`: what holds before recovery, in shutdown and after the exit;
- the bound on the map, completed dependencies, attempts left to queued tasks,
  and waiters on tasks that have not ended.

The proofs rest on the assumption `TaskSupervisorAssumption` on the constants
and on the library's theorems about finite sets.  `CouplingStep` treats the
actions one by one; `ConcurrencyIsLimited` follows by counting: the executions
map one to one into the entries of the running map.

`NoTaskIsForgotten` needs one more invariant, on top of `IInv`, since the
property speaks of a `pump()` that is idle.  `PumpCovers` speaks of its loop as
well: of the tasks visited so far, one is left startable only while something
runs.  A task left waiting has a dependency that is older, hence was visited
before it and is either running or itself covered; the loop stops early only
at the limit, when something runs.  `GraphIsOrdered`, which `spawnTask`
guarantees by demanding known dependencies, is what makes this go through.

`RpcTaskExecutorProofs` proves type correctness, `ChildReaped` and that
`RpcTaskExecutor` implements `TaskExecution` (`KeepsContract`), from no
assumption.  The hard step of the refinement is `End` with a result: the worker
must be gone and have finished.  `Asked` says that queries are sent only after
`agent_settled`, `OnePrompt` that after `agent_settled`, seen or still in the
pipe, the agent does not work again, because there is one prompt and it comes
first; `Exits` and `Waiting` relate the exit event, the pending requests and
the place where `run()` is suspended.

`SessionTreeProofs` proves all four invariants of its run from
`SessionTreeAssumption`, for every budget and every `KeepRecent`.  `DiskIsTree`
needs `NamesFree`: a new session takes a name that no file has, which the code
gets from a time stamp and a UUID and the model from the numbers left.

The others rest on `Holds`, that is `IInv` with `Trees` and `Working`.  Neither
`NothingDropped` nor `NoOrphanResults` is inductive: both speak of the branch of
the leaf, and a navigation, a resume or a fork makes any other branch, in memory
or in a file, the one they speak of.  So `Sound` says of every tree and every
entry in it that its branch is `Sane`, at each of its positions:

- a result stands behind its call with nothing but other results of the batch
  and entries without messages between them (`Called`);
- a compaction that came to its branch and finds its entry `CutsWell`: what it
  keeps begins with a message of the user or of an assistant, and each message
  before that was told of by it or by a compaction before it, if those came to
  their branches in turn.

`Grows` says that ids grow along the file and parents come before children;
appending an entry then leaves all older branches alone (`BranchGrows`), and a
new branch is an old one with an entry behind it.  `Working` carries the same
for a compaction that is being summarised (`Prepares`), between its preparation
and its append, and for the call whose results are outstanding.  The longest
parts are that `prepareCompaction()` cuts well (the cut moves forward to a valid
message, back over entries without messages, and what is summarised reaches from
the previous boundary to the cut) and that `createBranchedSession()` keeps a
branch sane while it takes labels out of it and chains the rest anew.

`OrchestratorSupervisorProofs` proves, from `OrchestratorSupervisorAssumption`
and for any number of instances, sessions and starts of the daemon, type
correctness and the three invariants of its run.  They are taken together with
what they need of each other.  `ChildrenAccounted` needs `DisposedIsDying`: who
waits for an exit waits for a child that was sent SIGTERM and that nobody holds
any more, or the exit could hit a child that was spawned meanwhile.
`StoppedStaysGone` needs `ClosingSparesStopped`, since the loop of `shutdown()`
stores records again, and `FreshIsNowhere`, since a new instance takes an
identity that no record has.  A stream that has kept the process of an instance
may send to it while a stop awaits its exit; the answer stores the record, even
after a second stop was acknowledged.  `StoppedIsRecorded` says that the record
is then "stopped" and the stop that awaits the exit has not been acknowledged,
which removes it again.  `RecordsAgree` needs `LiveIsRecorded` and, for the
steps of recovery and a crash, `TodoIsIdle` and `DownIsEmpty`.

`AgentProofs` proves type correctness, `ContextIsTranscript`,
`CallsAnswered`, `MessagesAccounted` and `RequestsWellFormed` from
`AgentAssumption`, for every
budget, both modes of each queue and batches of any size.  The first two
invariants are not inductive: each is about
one place of the loop and depends on how the loop came there.  `Copies` says at
every place how the context and the transcript differ: by the prompts that are
still to be emitted at the start of a run, by nothing between turns, and inside
a batch by the `n` results at the end of the transcript, which are those of the
first `n` calls.  That results are told in order needs `BatchProgress`, which
says how far a sequential batch can be when one of its calls is under way, and
for a parallel batch the guard of `EmitResult`.  `TurnComplete` carries what
`BatchDone` finds to the end of the turn; `PendingAreUnderWay` gives that nothing
is pending there.  Every action has a lemma; those on sequences
(`PromptMoves`, `ResultTold`, `ResultsJoin`) come first.  `MessagesAccounted`
follows from `Accounts`: the transcript, the hands of the loop, then the queues
form one line in which messages of one kind are in the order of their numbers
(`InLine`); a queue holds one kind only (`QueuesByKind`), and the loop holds
drained messages only where it is about to tell them (`HandsEmpty`).

`RequestsWellFormed` is about the loop of the second pass of
`transformMessages()`, over a conversation of any length.  Of the agent it needs
`ResultsInPlace`: in the transcript each result stands behind a whole response
and the results of the calls before its own, at the distance its number says.
That is kept with `Asks`, which remembers during a batch that the response was
whole and how many calls it made.  The rest holds for every sequence of messages
with that property.  After each message the pass either has no call open
(`Closed`), or has sent a response and its first `r` results (`Opened`), and
`Tracks` says where these stand in the conversation; a result then answers the
call that is due, and anything else closes the response with the results it
lacks.  An aborted batch and a run that failed come down to a response with fewer
results than calls.

`AgentSessionProofs` proves `IdleMeansIdle` and `BashNotForgotten` from
`AgentSessionAssumption`, for every budget and number of retries.  `Alone` is
what makes the first inductive: as long as no two prompts pass the check of
`isStreaming` together, at most one call is past it, the flag says whether that
call runs, and the loop of the agent, when it is not idle, is run by that call.
Without the last part a call that ends its wait for a retry could find the loop
busy with another's run, settle, and leave the session idle beside it.

`AgentSessionDataProofs` builds on it.  `Data` types every field: messages and
entries are dated by the clock, and what a compaction under way keeps from is
still in the session when it is appended.  On top of `Data` four invariants
are proved, each with what it needs of its own:

- `NoGhostQueued` needs `Delivering`: the messages that the loop has drained are
  announced one by one before it does anything else, so that each leaves its
  mirror when it leaves the hands of the loop.  It counts occurrences, which
  `SequenceLemmas` provides for concatenation and removal.
- `NothingStranded` needs `Attending`: the session listens to a run it has
  started, so that a run that ends knows its last response, and the transcript
  goes on from a message that a run can be continued from; otherwise
  `_handlePostAgentRun()` would stop before it looks at the queues.
- `ErrorsBounded` needs `Limits`, which says at each place of the loop and of
  the calls how many failures the counters stand for (`Credit`): a response that
  is asked for follows at most as many failures as retries were counted, plus one
  whole series if an overflow was recovered.  An overflow with `stopReason`
  "length" is no failure: it clears the flag of the recovery and ends a row, as
  an answer does.  `compact()` that has stopped
  listening can make the session miss one response (`Deaf`), whose failure is
  the last one.
- `HistoryIsTranscript` speaks of messages that are neither errors nor
  overflows: a recovery takes an overflow off the transcript, and leaves it off
  when the compaction fails.  It needs `History`: besides the agreement itself,
  that the message being saved, when the session listens or has listened to the
  run, is the last of the transcript and not in the session yet (`Told`), that
  the transcript of a run which ended with an error or an overflow ends with
  that, or with one that was announced to nobody (`Ends`), so that a retry and
  a recovery, which take the last message off the transcript, take nothing off
  that lasts, and that an overflow is never what is retried (`Retrying`).  From
  `Limits` it takes that `compact()` replaces the transcript only while nothing
  is being saved that will enter the session.  The agreement (`Same`) is about
  two sequences of any length: what lasts of each is in the other in the same
  order (`Embeds`), with one lemma for each way the code changes them: joined,
  dropped, announced, saved, flushed and compacted.  `ContextIs` says what
  stands where in the context after a compaction.

The attempt to prove two properties showed them false in instances larger than
those that were checked.  `ErrorsBounded` did not exclude two prompts that
recover side by side; it does now, and a retry that an abort cuts short starts
the count anew, since the follow-up that comes next is an intervention of the
user.  `NothingDropped` and `NoOrphanResults` did not exclude a leaf that is
moved during a summary, as described above; a mixture of budgets in which that
happens with two compactions was added to the run.

Recursion and induction.  The library's induction theorem takes a predicate as
a parameter, which no installed backend can instantiate; `SequenceLemmas` states
induction with the set of the numbers that have the property instead, from the
well-foundedness of inclusion on finite sets.  A recursive function in a `LET`
can be unfolded only where it is known to exist: `CanBuild` in
`SessionTreeProofs` shows that, by induction, for sequences each of which is an
earlier one or an earlier one with an element behind it, of which branches and
picked sequences are instances; `OwedIs` and `CanLoop` in `AgentProofs` show it
for the results that are made up and for the loop of the second pass.

Model-checked only: liveness, which is out of TLAPS's reach.  Every invariant
that a run checks is proved.

## Plan

Done: the task graph, its executor and the contract between them, the agent,
its session, the instances and the session trees.  Left, in this order:

1. An abstract agent which `Agent` implements and which `AgentSession` takes
   its steps from.
2. Failing writes of `tasks.json` and of session files.
3. `AgentHarness`, then the web server's sessions and event streams.

## Not modelled

The terminal UI, key handling, themes and HTML export are rendering.  Providers
translate wire formats.  Settings, resources, packages and trust read and write
configuration sequentially.  Extensions are third-party code; what their hooks
may do to a run is a choice in the models.  Failing writes and a full disk are
not modelled: what is left in a file is up to the file system.

Of `AgentSession` custom and nextTurn messages, changes of model and tools,
listeners that throw and the trace are left out; of `OrchestratorSupervisor`
`updateInstance()`, subscribers, handlers of UI requests and a `get_state` that
fails (`supervisor.ts:134-137`; the child's RPC mode always answers it with a
success); of the session trees the in-memory mode, migration of old files,
compactions given by extensions, a prompt that is sent while a compaction is
summarised, and navigation or a fork during a run.  The agent harness, which the
coding agent does not use, and the web server are not reached.
