---------------------------- MODULE AgentSession ----------------------------
(***************************************************************************)
(* The AgentSession of packages/coding-agent/src/core/agent-session.ts:    *)
(* prompts and their checks, the handling that follows a run of the agent  *)
(* (retry, compaction, queued messages), abort, manual compaction, bash    *)
(* results and the mirrors of the queues.                                  *)
(*                                                                         *)
(* Every operation is a coroutine on one thread; a step is the code        *)
(* between two awaits that can last.  The agent itself, see Agent, is      *)
(* reduced to what a session sees of it: the messages it announces, the    *)
(* responses it ends with and the queues it drains.                        *)
(***************************************************************************)
EXTENDS Naturals, Sequences, FiniteSets, SequencesExt

CONSTANTS
    Callers,         \* 1 .. the calls of prompt() alive at the same time
    Texts,           \* texts of user messages; two may be the same
    QueueMode,       \* mode of both queues of the agent
    MaxRetries,      \* retry.maxRetries of the settings
    Budgets          \* bounds: how many messages are sent, how many responses
                     \* are anything but answers, how many bash commands,
                     \* compactions by hand and aborts there are

ASSUME AgentSessionAssumption ==
    /\ Callers \in {1 .. n : n \in 1 .. 3}
    /\ QueueMode \in {"all", "one-at-a-time"}
    /\ MaxRetries \in Nat
    /\ Budgets \subseteq [sent : Nat, responses : Nat, bashes : Nat,
                         manuals : Nat, aborts : Nat]

VARIABLES
    pc,              \* where each call of prompt() is suspended
    job,             \* what a suspended call is going to need
    active,          \* _isAgentRunActive
    idleWaiters,     \* who waits for _idleWaitPromise
    loop,            \* where the agent's loop is suspended
    owner,           \* the call that runs the agent
    deliver,         \* messages drained or prompted, not yet announced
    polled,          \* has the loop polled the steering queue since it began?
    saving,          \* the message whose message_end is being handled
    aborted,         \* the signal of the run
    steering,        \* steering queue of the agent
    followUp,        \* follow-up queue of the agent
    steeringMirror,  \* _steeringMessages
    followUpMirror,  \* _followUpMessages
    transcript,      \* agent.state.messages
    session,         \* the branch in the session file
    clock,           \* timestamps of messages and compactions
    lastAssistant,   \* _lastAssistantMessage
    retryAttempt,    \* _retryAttempt
    retryController, \* _retryAbortController: whose wait it can cut short
    cancelled,       \* the calls whose wait was cut short
    overflowTried,   \* _overflowRecoveryAttempted
    pendingBash,     \* number of _pendingBashMessages
    connected,       \* is _handleAgentEvent subscribed?
    manual,          \* where compact() is suspended
    manualKeep,      \* the first entry compact() is going to keep
    left,            \* what is left of the budget of this behaviour
    failed,          \* history: failed responses since the user last sent a
                     \* message or cut a retry short
    overlapped,      \* history: two prompts were past the check at once
    refused,         \* history: continue() refused an assistant message
    unheard,         \* history: a queued message was announced to nobody
    strayed          \* history: a message was queued outside a run, or
                     \* compact() did not listen to one

calls == <<pc, job>>
agent == <<loop, owner, deliver, polled, saving, aborted>>
queues == <<steering, followUp>>
mirrors == <<steeringMirror, followUpMirror>>
conversation == <<transcript, session>>
recovery == <<lastAssistant, retryAttempt, retryController, cancelled,
              overflowTried>>
compaction == <<connected, manual, manualKeep>>

vars == <<calls, active, idleWaiters, agent, queues, mirrors, conversation,
          clock, recovery, pendingBash, compaction, left, failed,
          overlapped, refused, unheard, strayed>>

(***************************************************************************)
(* input       the extension's command or input handler                    *)
(* auth        checkAuth()                                                 *)
(* precompact  compaction before the prompt is sent                        *)
(* before      emitBeforeAgentStart()                                      *)
(* run         agent.prompt() or agent.continue()                          *)
(* retry       the wait before a retry                                     *)
(* compact     compaction after a run                                      *)
(* settling    the extension's agent_settled handler                       *)
(***************************************************************************)
Preflight == {"auth", "precompact", "before"}
Running == {"run", "retry", "compact"}
CallStates == {"idle", "input", "settling"} \cup Preflight \cup Running

LoopStates == {"idle", "deliver", "model", "saving", "ended"}

(***************************************************************************)
(* Responses: an answer, one whose usage calls for compaction, tool calls  *)
(* with their results, an error worth a retry, one that is not, an abort,  *)
(* and the overflows of the context: those that the provider reports as an *)
(* error, and those it cuts off with stopReason "length" before any output *)
(* ("length"), which are no errors.                                        *)
(***************************************************************************)
Errors == {"error", "fatal", "overflow"}
Failures == Errors \cup {"aborted"}
Overflows == {"overflow", "length"}
Usages == {"answer", "large", "length", "tools"}
Finals == (Usages \ {"tools"}) \cup Failures
Kinds == {"user", "bash", "compaction", "tools"} \cup Finals

\* A message of the transcript; its timestamp identifies it.
Message(kind, time) == [kind |-> kind, time |-> time]
None == Message("none", 0)

\* An entry of the session; a compaction names the first entry it keeps.
Entry(kind, time, keep) == [kind |-> kind, time |-> time, keep |-> keep]

NoJob == [keep |-> 0, retry |-> FALSE, message |-> None]
NotSaving == [message |-> None, heard |-> FALSE]

Init ==
    /\ pc = [c \in Callers |-> "idle"] /\ job = [c \in Callers |-> NoJob]
    /\ active = FALSE /\ idleWaiters = {}
    /\ loop = "idle" /\ owner = 1
    /\ deliver = <<>> /\ polled = TRUE /\ saving = NotSaving
    /\ aborted = FALSE
    /\ steering = <<>> /\ followUp = <<>>
    /\ steeringMirror = <<>> /\ followUpMirror = <<>>
    /\ transcript = <<>> /\ session = <<>> /\ clock = 0
    /\ lastAssistant = None /\ retryAttempt = 0
    /\ retryController = {} /\ cancelled = {} /\ overflowTried = FALSE
    /\ pendingBash = 0
    /\ connected = TRUE /\ manual = "none" /\ manualKeep = 0
    /\ left \in Budgets
    /\ failed = 0 /\ overlapped = FALSE /\ refused = FALSE
    /\ unheard = FALSE /\ strayed = FALSE

-----------------------------------------------------------------------------
(* The session and the conversation it stands for. *)

LastCompaction(entries) ==
    SelectLastInSeq(entries, LAMBDA e : e.kind = "compaction")

Index(entries, time) == SelectInSeq(entries, LAMBDA e : e.time = time)

\* buildContextEntries(): the last summary, what it keeps, what came later.
ContextEntries(entries) ==
    LET k == LastCompaction(entries)
    IN  IF k = 0 THEN entries
        ELSE <<entries[k]>>
             \o SubSeq(entries, Index(entries, entries[k].keep), k - 1)
             \o SubSeq(entries, k + 1, Len(entries))

Context(entries) ==
    LET visible == ContextEntries(entries)
    IN  [i \in DOMAIN visible |-> Message(visible[i].kind, visible[i].time)]

\* prepareCompaction(): nothing follows the last compaction, or what is kept
\* and what is summarized depends on sizes.
Keeps(entries) ==
    LET k == LastCompaction(entries)
        first == IF k = 0 THEN 1 ELSE Index(entries, entries[k].keep)
    IN  IF k = Len(entries) THEN {}
        ELSE {entries[i].time : i \in
                {i \in first + 1 .. Len(entries) :
                    /\ entries[i].kind # "compaction"
                    /\ \E j \in first .. i - 1 :
                          entries[j].kind # "compaction"}}

CompactionEntry(keep) == Entry("compaction", clock + 1, keep)

EndsWith(messages, kinds) ==
    messages # <<>> /\ Last(messages).kind \in kinds

WithoutLast(messages, kinds) ==
    IF EndsWith(messages, kinds) THEN Front(messages) ELSE messages

-----------------------------------------------------------------------------
(* What a call does when it leaves one await and reaches the next.  Each   *)
(* of these is the end of a step: it is given the transcript and the       *)
(* session as the step leaves them, and says where the call is suspended.  *)

Drained(queue) ==
    IF QueueMode = "all" \/ queue = <<>> THEN queue ELSE <<Head(queue)>>

Left(queue) ==
    IF QueueMode = "all" \/ queue = <<>> THEN <<>> ELSE Tail(queue)

Queued == steering # <<>> \/ followUp # <<>>

\* agent.activeRun is gone, or goes in this step, in which c sees it end.
LoopFree(c) ==
    loop = "idle" \/ (loop = "ended" /\ owner = c /\ pc[c] = "run")

LoopLeft(c) ==
    /\ loop' = IF LoopFree(c) THEN "idle" ELSE loop
    /\ aborted' = (aborted /\ ~LoopFree(c))

\* runWithLifecycle() with these messages to announce.
BeginRun(c, messages, skipPoll) ==
    /\ pc' = [pc EXCEPT ![c] = "run"]
    /\ job' = [job EXCEPT ![c] = NoJob]
    /\ loop' = "deliver" /\ owner' = c
    /\ deliver' = messages /\ polled' = skipPoll
    /\ saving' = NotSaving /\ aborted' = FALSE

BashMessages(first) ==
    [i \in 1 .. pendingBash |-> Message("bash", first + i)]

BashEntries(first) ==
    [i \in 1 .. pendingBash |-> Entry("bash", first + i, 0)]

\* Slip: the results that were flushed are kept for another time.
FlushBashAgain(messages, entries, now) ==
    /\ transcript' = messages \o BashMessages(now)
    /\ session' = entries \o BashEntries(now)
    /\ clock' = now + pendingBash
    /\ UNCHANGED pendingBash

\* _flushPendingBashMessages(), with the clock at now.
FlushBash(messages, entries, now) ==
    /\ transcript' = messages \o BashMessages(now)
    /\ session' = entries \o BashEntries(now)
    /\ clock' = now + pendingBash
    /\ pendingBash' = 0

\* The finally block of _runAgentPrompt(), up to the handler of agent_settled.
Settle(c, messages, entries, now) ==
    /\ FlushBash(messages, entries, now)
    /\ active' = FALSE
    /\ pc' = [pc EXCEPT ![c] = "settling"]
    /\ job' = [job EXCEPT ![c] = NoJob]
    /\ LoopLeft(c)
    /\ UNCHANGED <<owner, deliver, polled, saving, queues>>

\* agent.continue() starts a run, or throws out of _runAgentPrompt().
Continue(c, messages, entries, now) ==
    \/ /\ LoopFree(c) /\ messages # <<>>
       /\ \/ /\ ~EndsWith(messages, Finals)
             /\ BeginRun(c, <<>>, FALSE)
             /\ UNCHANGED queues
          \/ /\ EndsWith(messages, Finals) /\ steering # <<>>
             /\ BeginRun(c, Drained(steering), TRUE)
             /\ steering' = Left(steering)
             /\ UNCHANGED followUp
          \/ /\ EndsWith(messages, Finals)
             /\ steering = <<>> /\ followUp # <<>>
             /\ BeginRun(c, Drained(followUp), FALSE)
             /\ followUp' = Left(followUp)
             /\ UNCHANGED steering
       /\ transcript' = messages /\ session' = entries /\ clock' = now
       /\ UNCHANGED <<active, pendingBash, refused>>
    \/ /\ LoopFree(c) /\ messages # <<>>
       /\ EndsWith(messages, Finals) /\ ~Queued
       /\ Settle(c, messages, entries, now)
       /\ refused' = TRUE
    \/ /\ ~LoopFree(c) \/ messages = <<>>
       /\ Settle(c, messages, entries, now)
       /\ UNCHANGED refused

\* Slip: the messages that came in late wait for the next prompt.
SettleThoughQueued(c, messages, entries, now) ==
    Settle(c, messages, entries, now) /\ UNCHANGED refused

\* _handlePostAgentRun() returned agent.hasQueuedMessages().
ContinueIfQueued(c, messages, entries, now) ==
    \/ Queued /\ Continue(c, messages, entries, now)
    \/ ~Queued /\ Settle(c, messages, entries, now) /\ UNCHANGED refused

-----------------------------------------------------------------------------
(* _checkCompaction() *)

\* The message is younger than the last compaction.
Fresh(m) ==
    \A i \in DOMAIN session :
        session[i].kind = "compaction" => session[i].time < m.time

\* The last usage that estimateContextTokens() finds, if it is not stale.
FreshUsage ==
    \E i \in DOMAIN transcript :
        /\ transcript[i].kind \in Usages
        /\ \A j \in i + 1 .. Len(transcript) : transcript[j].kind \notin Usages
        /\ Fresh(transcript[i])

\* Slip: every overflow is compacted away and tried again.
RecoversAgain(m) == m.kind \in Overflows /\ Fresh(m)

\* An overflow is worth one compaction that is followed by a retry.
Recovers(m) == m.kind \in Overflows /\ Fresh(m) /\ ~overflowTried

\* May the check go on to _runAutoCompaction()?
Compacts(m) ==
    \/ Recovers(m)
    \/ m.kind = "large" /\ Fresh(m)
    \/ m.kind \in {"error", "fatal"} /\ Fresh(m) /\ FreshUsage

\* Before a prompt, aborted responses count as well.
CompactsBeforePrompt(m) == Compacts(m) \/ (m.kind = "aborted" /\ Fresh(m))

\* The response that a recovery drops before it compacts, an error or not.
Checked(m) ==
    IF Recovers(m) THEN WithoutLast(transcript, Finals) ELSE transcript

StartCompaction(c, m, at) ==
    /\ \E keep \in Keeps(session) :
          job' = [job EXCEPT ![c] = [keep |-> keep, retry |-> Recovers(m),
                                     message |-> None]]
    /\ pc' = [pc EXCEPT ![c] = at]
    /\ transcript' = Checked(m)

\* What follows a run when it is not retried: compact, continue or settle.
\* The second case is also the one of a compaction that has nothing to do.
AfterRun(c, m) ==
    /\ overflowTried' = (overflowTried \/ Recovers(m))
    /\ \/ /\ Compacts(m)
          /\ StartCompaction(c, m, "compact")
          /\ LoopLeft(c)
          /\ UNCHANGED <<active, owner, deliver, polled, saving, queues,
                         session, clock, pendingBash, refused>>
       \/ ContinueIfQueued(c, Checked(m), session, clock)

\* Takes one from the budget.
Spend(what) == left[what] > 0 /\ left' = [left EXCEPT ![what] = @ - 1]

-----------------------------------------------------------------------------
(* prompt() *)

\* Slip: only the agent is asked, which is idle while a retry waits.
LoopStreaming == loop # "idle"

\* isStreaming
Streaming == active

\* The calls are alike: a new one is given the first number that is free.
StartPrompt(c) ==
    /\ pc[c] = "idle" /\ \A d \in 1 .. c - 1 : pc[d] # "idle"
    /\ Spend("sent")
    /\ pc' = [pc EXCEPT ![c] = "input"]
    /\ UNCHANGED <<job, active, idleWaiters, agent, queues, mirrors,
                   conversation, clock, recovery, pendingBash, compaction,
                   failed, overlapped, refused, unheard, strayed>>

\* An extension handled the input, or a run is active and the message may not
\* be queued.
PromptEnds(c) ==
    /\ pc[c] = "input"
    /\ pc' = [pc EXCEPT ![c] = "idle"]
    /\ UNCHANGED <<job, active, idleWaiters, agent, queues, mirrors,
                   conversation, clock, recovery, pendingBash, compaction,
                   left, failed, overlapped, refused, unheard, strayed>>

\* _queueSteer() and _queueFollowUp()
Queue(x) ==
    \/ /\ steeringMirror' = Append(steeringMirror, x)
       /\ steering' = Append(steering, x)
       /\ UNCHANGED <<followUpMirror, followUp>>
    \/ /\ followUpMirror' = Append(followUpMirror, x)
       /\ followUp' = Append(followUp, x)
       /\ UNCHANGED <<steeringMirror, steering>>

PromptQueued(c) ==
    /\ pc[c] = "input" /\ Streaming
    /\ \E x \in Texts : Queue(x)
    /\ pc' = [pc EXCEPT ![c] = "idle"]
    /\ UNCHANGED <<job, active, idleWaiters, agent, conversation, clock,
                   recovery, pendingBash, compaction, left, failed, overlapped,
                   refused, unheard, strayed>>

\* steer() and followUp(), whether a run is active or not.
QueueMessage ==
    /\ Spend("sent")
    /\ \E x \in Texts : Queue(x)
    /\ strayed' = (strayed \/ ~active)
    /\ UNCHANGED <<calls, active, idleWaiters, agent, conversation, clock,
                   recovery, pendingBash, compaction, failed, overlapped,
                   refused, unheard>>

PromptAccepted(c) ==
    /\ pc[c] = "input" /\ ~Streaming
    /\ FlushBash(transcript, session, clock)
    /\ pc' = [pc EXCEPT ![c] = "auth"]
    /\ overlapped' = (overlapped \/ \E d \in Callers : pc[d] \in Preflight)
    /\ UNCHANGED <<job, active, idleWaiters, agent, queues, mirrors, recovery,
                   left, compaction, failed, refused, unheard, strayed>>

\* No model, or no credentials for it.
NoAuth(c) ==
    /\ pc[c] = "auth"
    /\ pc' = [pc EXCEPT ![c] = "idle"]
    /\ UNCHANGED <<job, active, idleWaiters, agent, queues, mirrors,
                   conversation, clock, recovery, pendingBash, compaction,
                   left, failed, overlapped, refused, unheard, strayed>>

\* _findLastAssistantMessage()
LastAssistantIndex ==
    SelectLastInSeq(transcript, LAMBDA m : m.kind \in Finals \cup {"tools"})

LastOfTranscript ==
    IF LastAssistantIndex = 0 THEN None ELSE transcript[LastAssistantIndex]

CheckBeforePrompt(c) ==
    /\ pc[c] = "auth"
    /\ LET m == LastOfTranscript
       IN  /\ overflowTried' = (overflowTried \/ Recovers(m))
           /\ \/ /\ CompactsBeforePrompt(m)
                 /\ StartCompaction(c, m, "precompact")
              \/ /\ pc' = [pc EXCEPT ![c] = "before"]
                 /\ transcript' = Checked(m)
                 /\ UNCHANGED job
    /\ UNCHANGED <<active, idleWaiters, agent, queues, mirrors, session, clock,
                   lastAssistant, retryAttempt, retryController, cancelled,
                   pendingBash, compaction, left, failed, overlapped, refused,
                   unheard, strayed>>

\* The beginning of _runAgentPrompt(); agent.prompt() throws while the loop
\* is busy, and the call settles.
RunPrompt(c) ==
    /\ pc[c] = "before"
    /\ \/ /\ loop = "idle"
          /\ \E x \in Texts : BeginRun(c, <<x>>, FALSE)
          /\ active' = TRUE
          /\ UNCHANGED <<conversation, clock, pendingBash, queues>>
       \/ /\ loop # "idle"
          /\ FlushBash(transcript, session, clock)
          /\ active' = FALSE
          /\ pc' = [pc EXCEPT ![c] = "settling"]
          /\ UNCHANGED <<job, agent, queues>>
    /\ UNCHANGED <<idleWaiters, mirrors, recovery, left, compaction, failed,
                   overlapped, refused, unheard, strayed>>

-----------------------------------------------------------------------------
(* The loop of the agent and _handleAgentEvent(). *)

\* Slip: only the steering mirror is searched.
ForgetSteering(x) ==
    /\ steeringMirror' = RemoveFirst(steeringMirror, x)
    /\ UNCHANGED followUpMirror

\* The mirrors after the start of a user message: the first equal text of
\* the steering mirror goes, else the one of the follow-up mirror.
ForgetMirrored(x) ==
    /\ steeringMirror' = RemoveFirst(steeringMirror, x)
    /\ followUpMirror' = IF Contains(steeringMirror, x) THEN followUpMirror
                         ELSE RemoveFirst(followUpMirror, x)

\* message_start and message_end of a user message: the agent adds it to the
\* transcript, a subscribed session starts to handle it.
Announce ==
    /\ loop = "deliver" /\ deliver # <<>>
    /\ deliver' = Tail(deliver)
    /\ clock' = clock + 1
    /\ LET m == Message("user", clock')
       IN  /\ transcript' = Append(transcript, m)
           /\ saving' = [message |-> m, heard |-> connected]
    /\ loop' = "saving"
    /\ \/ /\ connected
          /\ ForgetMirrored(Head(deliver))
          /\ overflowTried' = FALSE
          /\ UNCHANGED <<unheard, strayed>>
       \/ /\ ~connected
          /\ unheard' = TRUE /\ strayed' = TRUE
          /\ UNCHANGED <<mirrors, overflowTried>>
    /\ failed' = 0
    /\ UNCHANGED <<calls, active, idleWaiters, owner, polled, aborted, queues,
                   session, lastAssistant, retryAttempt, retryController,
                   cancelled, pendingBash, compaction, left, overlapped,
                   refused>>

\* Nothing left to announce: the first poll of steering messages, then the
\* model.
CallModel ==
    /\ loop = "deliver" /\ deliver = <<>>
    /\ polled' = TRUE
    /\ \/ /\ ~polled /\ steering # <<>>
          /\ deliver' = Drained(steering)
          /\ steering' = Left(steering)
          /\ UNCHANGED loop
       \/ /\ polled \/ steering = <<>>
          /\ loop' = "model"
          /\ UNCHANGED <<deliver, steering>>
    /\ UNCHANGED <<calls, active, idleWaiters, owner, saving, aborted,
                   followUp, mirrors, conversation, clock, recovery,
                   pendingBash, compaction, left, failed, overlapped, refused,
                   unheard, strayed>>

Respond(kind) ==
    /\ loop = "model"
    /\ kind = "aborted" => aborted
    /\ \/ Spend("responses")
       \/ /\ left.responses = 0 /\ kind \in {"answer", "aborted"}
          /\ UNCHANGED left
    /\ clock' = clock + 1
    /\ LET m == Message(kind, clock')
       IN  /\ transcript' = Append(transcript, m)
           /\ saving' = [message |-> m, heard |-> connected]
    /\ loop' = "saving"
    /\ failed' = IF kind \in Errors THEN failed + 1 ELSE 0
    /\ UNCHANGED <<calls, active, idleWaiters, owner, deliver, polled, aborted,
                   queues, mirrors, session, recovery, pendingBash, compaction,
                   overlapped, refused, unheard, strayed>>

\* The rest of _handleAgentEvent() for a message_end: the message is saved,
\* and any response that is not an error ends a series of retries.
Saved ==
    IF saving.heard
    THEN LET m == saving.message
         IN  /\ session' = Append(session, Entry(m.kind, m.time, 0))
             /\ \/ /\ m.kind = "user"
                   /\ UNCHANGED <<lastAssistant, overflowTried, retryAttempt>>
                \/ /\ m.kind # "user"
                   /\ lastAssistant' = m
                   /\ overflowTried' = (overflowTried /\ m.kind \in Errors)
                   /\ retryAttempt' =
                        IF m.kind \in Errors THEN retryAttempt ELSE 0
    ELSE UNCHANGED <<session, lastAssistant, overflowTried, retryAttempt>>

\* The polls that follow a message: none while messages are announced, the
\* steering queue after a turn, the follow-up queue when the agent would stop.
NextTurn(kind) ==
    \/ /\ kind = "user"
       /\ loop' = "deliver"
       /\ UNCHANGED <<deliver, queues>>
    \/ /\ kind \in Failures
       /\ loop' = "ended"
       /\ UNCHANGED <<deliver, queues>>
    \/ /\ kind \in Usages
       /\ kind = "tools" \/ steering # <<>>
       /\ loop' = "deliver"
       /\ deliver' = Drained(steering)
       /\ steering' = Left(steering)
       /\ UNCHANGED followUp
    \/ /\ kind \in Usages \ {"tools"} /\ steering = <<>>
       /\ loop' = IF followUp = <<>> THEN "ended" ELSE "deliver"
       /\ deliver' = Drained(followUp)
       /\ followUp' = Left(followUp)
       /\ UNCHANGED steering

MessageSaved ==
    /\ loop = "saving"
    /\ Saved
    /\ NextTurn(saving.message.kind)
    /\ saving' = NotSaving
    /\ UNCHANGED <<calls, active, idleWaiters, owner, polled, aborted, mirrors,
                   transcript, clock, retryController, cancelled, pendingBash,
                   compaction, left, failed, overlapped, refused, unheard,
                   strayed>>

-----------------------------------------------------------------------------
(* _handlePostAgentRun() and what it waits for. *)

\* Slip: there is no limit.
RetryableAlways(m) == m.kind = "error"

\* _isRetryableError() and the limit of _prepareRetry()
Retryable(m) == m.kind = "error" /\ retryAttempt < MaxRetries

\* _prepareRetry(): the error leaves the transcript and stays in the session.
BeginRetry(c, m) ==
    /\ Retryable(m)
    /\ retryAttempt' = retryAttempt + 1
    /\ transcript' = WithoutLast(transcript, Finals)
    /\ retryController' = {c}
    /\ pc' = [pc EXCEPT ![c] = "retry"]
    /\ job' = [job EXCEPT ![c].message = m]
    /\ LoopLeft(c)
    /\ UNCHANGED <<active, owner, deliver, polled, saving, queues, session,
                   clock, overflowTried, pendingBash, refused>>

RunEnds(c) ==
    /\ pc[c] = "run" /\ owner = c /\ loop = "ended"
    /\ LET m == lastAssistant
       IN  \/ /\ m = None
              /\ Settle(c, transcript, session, clock)
              /\ UNCHANGED <<retryAttempt, retryController, overflowTried,
                             refused>>
           \/ BeginRetry(c, m)
           \/ /\ m # None /\ ~Retryable(m)
              /\ retryAttempt' = IF m.kind \in Errors THEN 0 ELSE retryAttempt
              /\ AfterRun(c, m)
              /\ UNCHANGED retryController
    /\ lastAssistant' = None
    /\ UNCHANGED <<idleWaiters, mirrors, cancelled, left, compaction, failed,
                   overlapped, unheard, strayed>>

RetryWakes(c) ==
    /\ pc[c] = "retry" /\ c \notin cancelled
    /\ retryController' = {}
    /\ Continue(c, transcript, session, clock)
    /\ UNCHANGED <<idleWaiters, mirrors, lastAssistant, retryAttempt,
                   cancelled, overflowTried, left, compaction, failed,
                   overlapped, unheard, strayed>>

\* Slip: a wait that was cut short never settles.
NeverCancelled(c) == FALSE

\* The signal cut the wait short: no retry, the checks that follow a run.
RetryCancelled(c) ==
    /\ pc[c] = "retry" /\ c \in cancelled
    /\ retryController' = {} /\ cancelled' = cancelled \ {c}
    /\ retryAttempt' = 0
    /\ AfterRun(c, job[c].message)
    /\ failed' = 0
    /\ UNCHANGED <<idleWaiters, mirrors, lastAssistant, left, compaction,
                   overlapped, unheard, strayed>>

\* The transcript is rebuilt from the session; a retry drops the last error,
\* but not a response that overflowed without being one.
Compacted(c) ==
    LET messages == Context(Append(session, CompactionEntry(job[c].keep)))
    IN  IF job[c].retry THEN WithoutLast(messages, Errors) ELSE messages

CompactionSucceeds(c) ==
    /\ pc[c] = "compact"
    /\ LET entries == Append(session, CompactionEntry(job[c].keep))
       IN  \/ /\ job[c].retry
              /\ Continue(c, Compacted(c), entries, clock + 1)
           \/ /\ ~job[c].retry
              /\ ContinueIfQueued(c, Compacted(c), entries, clock + 1)
    /\ UNCHANGED <<idleWaiters, mirrors, recovery, left, compaction, failed,
                   overlapped, unheard, strayed>>

\* An error, a cancellation by an extension or abortCompaction().
CompactionFails(c) ==
    /\ pc[c] = "compact"
    /\ ContinueIfQueued(c, transcript, session, clock)
    /\ UNCHANGED <<idleWaiters, mirrors, recovery, left, compaction, failed,
                   overlapped, unheard, strayed>>

PrecompactionEnds(c) ==
    /\ pc[c] = "precompact"
    /\ \/ /\ session' = Append(session, CompactionEntry(job[c].keep))
          /\ transcript' = Compacted(c)
          /\ clock' = clock + 1
       \/ UNCHANGED <<session, transcript, clock>>
    /\ pc' = [pc EXCEPT ![c] = "before"]
    /\ job' = [job EXCEPT ![c] = NoJob]
    /\ UNCHANGED <<active, idleWaiters, agent, queues, mirrors, recovery,
                   pendingBash, compaction, left, failed, overlapped, refused,
                   unheard, strayed>>

\* Slip: nobody is told.
SettledSilently(c) ==
    /\ pc[c] = "settling"
    /\ pc' = [pc EXCEPT ![c] = "idle"]
    /\ UNCHANGED <<job, active, idleWaiters, agent, queues, mirrors,
                   conversation, clock, recovery, pendingBash, compaction,
                   left, failed, overlapped, refused, unheard, strayed>>

\* _emitAgentSettled() after its handler: who waits for an idle session goes
\* on, unless another run has become active.
Settled(c) ==
    /\ pc[c] = "settling"
    /\ pc' = [pc EXCEPT ![c] = "idle"]
    /\ idleWaiters' = IF active THEN idleWaiters ELSE {}
    /\ UNCHANGED <<job, active, agent, queues, mirrors, conversation, clock,
                   recovery, pendingBash, compaction, left, failed, overlapped,
                   refused, unheard, strayed>>

-----------------------------------------------------------------------------
(* abort(), compact(), clearQueue() and bash commands. *)

\* abortRetry(), agent.abort() and waitForIdle().
AbortAll(waiter) ==
    /\ cancelled' = cancelled \cup retryController
    /\ aborted' = (aborted \/ loop # "idle")
    /\ idleWaiters' = IF active THEN idleWaiters \cup {waiter} ELSE idleWaiters

Abort ==
    /\ Spend("aborts")
    /\ AbortAll("abort")
    /\ UNCHANGED <<calls, active, loop, owner, deliver, polled, saving, queues,
                   mirrors, conversation, clock, lastAssistant, retryAttempt,
                   retryController, overflowTried, pendingBash, compaction,
                   failed, overlapped, refused, unheard, strayed>>

RequestCompact ==
    /\ manual = "none" /\ Spend("manuals")
    /\ connected' = FALSE
    /\ AbortAll("compact")
    /\ manual' = "waiting"
    /\ strayed' = (strayed \/ active)
    /\ UNCHANGED <<calls, active, loop, owner, deliver, polled, saving, queues,
                   mirrors, conversation, clock, lastAssistant, retryAttempt,
                   retryController, overflowTried, pendingBash, manualKeep,
                   failed, overlapped, refused, unheard>>

ManualBegins ==
    /\ manual = "waiting" /\ "compact" \notin idleWaiters
    /\ manualKeep' \in Keeps(session)
    /\ manual' = "working"
    /\ UNCHANGED <<calls, active, idleWaiters, agent, queues, mirrors,
                   conversation, clock, recovery, pendingBash, connected, left,
                   failed, overlapped, refused, unheard, strayed>>

ManualSucceeds ==
    /\ manual = "working"
    /\ session' = Append(session, CompactionEntry(manualKeep))
    /\ transcript' = Context(session')
    /\ clock' = clock + 1
    /\ manual' = "none" /\ manualKeep' = 0
    /\ connected' = TRUE
    /\ UNCHANGED <<calls, active, idleWaiters, agent, queues, mirrors,
                   recovery, pendingBash, left, failed, overlapped, refused,
                   unheard, strayed>>

\* No model, nothing to compact, an error or a cancellation.
ManualFails ==
    /\ manual \in {"waiting", "working"} /\ "compact" \notin idleWaiters
    /\ manual' = "none" /\ manualKeep' = 0
    /\ connected' = TRUE
    /\ UNCHANGED <<calls, active, idleWaiters, agent, queues, mirrors,
                   conversation, clock, recovery, pendingBash, left, failed,
                   overlapped, refused, unheard, strayed>>

ClearQueue ==
    /\ Queued \/ steeringMirror # <<>> \/ followUpMirror # <<>>
    /\ steering' = <<>> /\ followUp' = <<>>
    /\ steeringMirror' = <<>> /\ followUpMirror' = <<>>
    /\ unheard' = FALSE
    /\ UNCHANGED <<calls, active, idleWaiters, agent, conversation, clock,
                   recovery, pendingBash, compaction, left, failed, overlapped,
                   refused, strayed>>

\* Slip: the result is not put off.
RecordBashAtOnce ==
    /\ Spend("bashes")
    /\ clock' = clock + 1
    /\ transcript' = Append(transcript, Message("bash", clock'))
    /\ session' = Append(session, Entry("bash", clock', 0))
    /\ UNCHANGED <<calls, active, idleWaiters, agent, queues, mirrors,
                   recovery, pendingBash, compaction, failed, overlapped,
                   refused, unheard, strayed>>

\* recordBashResult(): while a run is active the result waits for its end.
RecordBash ==
    /\ Spend("bashes")
    /\ \/ /\ Streaming
          /\ pendingBash' = pendingBash + 1
          /\ UNCHANGED <<conversation, clock>>
       \/ /\ ~Streaming
          /\ clock' = clock + 1
          /\ transcript' = Append(transcript, Message("bash", clock'))
          /\ session' = Append(session, Entry("bash", clock', 0))
          /\ UNCHANGED pendingBash
    /\ UNCHANGED <<calls, active, idleWaiters, agent, queues, mirrors,
                   recovery, compaction, failed, overlapped, refused, unheard,
                   strayed>>

-----------------------------------------------------------------------------
(* What the session does of itself, and what others ask of it. *)

InputStep(c) == PromptEnds(c) \/ PromptQueued(c) \/ PromptAccepted(c)
AuthStep(c) == NoAuth(c) \/ CheckBeforePrompt(c)
RetryStep(c) == RetryWakes(c) \/ RetryCancelled(c)
CompactionStep(c) == CompactionFails(c) \/ CompactionSucceeds(c)

CallStep(c) ==
    \/ InputStep(c) \/ AuthStep(c) \/ PrecompactionEnds(c) \/ RunPrompt(c)
    \/ RunEnds(c) \/ RetryStep(c) \/ CompactionStep(c) \/ Settled(c)

LoopStep ==
    \/ Announce \/ CallModel \/ MessageSaved
    \/ \E kind \in Finals \cup {"tools"} : Respond(kind)

ManualStep == ManualBegins \/ ManualSucceeds \/ ManualFails

Next ==
    \/ \E c \in Callers : StartPrompt(c) \/ CallStep(c)
    \/ LoopStep \/ ManualStep
    \/ QueueMessage \/ Abort \/ RequestCompact \/ ClearQueue \/ RecordBash

Spec == Init /\ [][Next]_vars

\* What a call waits for comes: handlers, providers, timers, summaries, and
\* the end of the loop it runs.
FairCall(c) ==
    /\ WF_vars(InputStep(c)) /\ WF_vars(AuthStep(c))
    /\ WF_vars(PrecompactionEnds(c)) /\ WF_vars(RunPrompt(c))
    /\ WF_vars(RunEnds(c)) /\ WF_vars(RetryStep(c))
    /\ WF_vars(CompactionStep(c)) /\ WF_vars(Settled(c))

FairSpec ==
    /\ Spec
    /\ \A c \in Callers : FairCall(c)
    /\ WF_vars(LoopStep) /\ WF_vars(ManualStep)

-----------------------------------------------------------------------------
(* Properties *)

Messages == [kind : Kinds, time : 1 .. clock]

TypeOK ==
    /\ pc \in [Callers -> CallStates]
    /\ job \in [Callers -> [keep : 0 .. clock, retry : BOOLEAN,
                            message : Messages \cup {None}]]
    /\ active \in BOOLEAN /\ idleWaiters \subseteq {"abort", "compact"}
    /\ loop \in LoopStates /\ owner \in Callers
    /\ \A q \in {deliver, steering, followUp, steeringMirror, followUpMirror} :
          q \in Seq(Texts)
    /\ polled \in BOOLEAN /\ aborted \in BOOLEAN
    /\ saving \in [message : Messages \cup {None}, heard : BOOLEAN]
    /\ transcript \in Seq(Messages)
    /\ session \in Seq([kind : Kinds, time : 1 .. clock, keep : 0 .. clock])
    /\ lastAssistant \in Messages \cup {None}
    /\ retryAttempt \in 0 .. MaxRetries
    /\ retryController \subseteq Callers /\ cancelled \subseteq Callers
    /\ overflowTried \in BOOLEAN
    /\ pendingBash \in Nat
    /\ connected = (manual = "none")
    /\ manual \in {"none", "waiting", "working"} /\ manualKeep \in 0 .. clock
    /\ {overlapped, refused, unheard, strayed} \subseteq BOOLEAN

\* A session that calls itself idle has no run, no retry and no compaction
\* under way (isIdle), unless two prompts passed the check of isStreaming
\* before either of them had started a run.
IdleMeansIdle ==
    ~active /\ ~overlapped =>
        loop = "idle" /\ \A c \in Callers : pc[c] \notin Running

\* A bash result put off because of a run is not left behind by the way that
\* run ends: no error path of _runAgentPrompt() skips the flush.
BashNotForgotten == pendingBash > 0 => active

\* What a retry or a recovery takes off the transcript and not off the session.
Passing == Errors \cup {"length"}

\* A message that was saved, and that no retry or recovery takes off, lasts.
Lasts(m, entries) ==
    m.kind \notin Passing /\ \E i \in DOMAIN entries : entries[i].time = m.time

\* The messages that last, each with itself and with every one that follows:
\* where no message is there twice, this is the sequence of them.
Order(messages, entries) ==
    LET lasting == {i \in DOMAIN messages : Lasts(messages[i], entries)}
    IN  {<<messages[p[1]], messages[p[2]]>> :
            p \in {q \in lasting \X lasting : q[1] <= q[2]}}

\* No two of these messages or entries are the same one.
Distinct(s) == \A i, j \in DOMAIN s : s[i].time = s[j].time => i = j

\* What the agent is going to send and what a restart would read from the
\* session are the same messages in the same order, none of them twice, apart
\* from messages that were never saved, and from errors and overflows, which
\* only the session is sure to keep: a compaction that fails after a recovery
\* has dropped an overflow leaves them apart.
HistoryIsTranscript ==
    \/ overlapped
    \/ /\ Order(transcript, session) = Order(Context(session), session)
       /\ Distinct(transcript) /\ Distinct(Context(session))

\* Retries and the recovery of an overflow feed each other only once: between
\* two interventions of the user the model fails a bounded number of times in
\* a row, unless two prompts recover from an overflow side by side.  A response
\* that is no error, an overflow with stopReason "length" included, ends a row.
ErrorsBounded == failed <= 2 * (MaxRetries + 1) \/ overlapped

Count(q, x) == Cardinality({i \in DOMAIN q : q[i] = x})

\* A message shown as queued is queued, or is just going to be announced;
\* only one announced while compact() does not listen is shown for ever.
NoGhostQueued ==
    \/ unheard
    \/ \A x \in Texts :
          Count(steeringMirror, x) + Count(followUpMirror, x)
            <= Count(steering, x) + Count(followUp, x) + Count(deliver, x)

\* A run leaves no message in the queues when it ends, however it ends:
\* aborted, failed, after a retry or after a compaction.
NothingStranded == ~active /\ Queued => strayed \/ overlapped

\* "Overflow: [...] remove error message from agent state, compact,
\* auto-retry": the retry that follows is never refused by the agent.
OverflowRecoveryContinues == ~refused

\* Every call of prompt() returns or throws.
PromptsReturn == \A c \in Callers : pc[c] # "idle" ~> pc[c] = "idle"

\* abort() and compact() get past waitForIdle().
IdleWaitersServed == idleWaiters # {} ~> idleWaiters = {}
=============================================================================
