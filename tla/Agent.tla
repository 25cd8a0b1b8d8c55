------------------------------- MODULE Agent --------------------------------
(***************************************************************************)
(* The Agent of packages/agent/src/agent.ts and the loop it drives in      *)
(* agent-loop.ts: one run at a time, turns of model response and tool      *)
(* calls, and two queues of messages that arrive while a run is active.    *)
(*                                                                         *)
(* The loop is one coroutine.  Its variable pc names the await it is       *)
(* suspended at; everything between two awaits on listeners, on the model  *)
(* or on a tool is one step.  Callers act while the loop is suspended.     *)
(* Two copies of the conversation are kept: the transcript, which          *)
(* processEvents() extends when a message_end event is emitted, and the    *)
(* context of the loop, which the loop extends itself.                     *)
(***************************************************************************)
EXTENDS Naturals, Sequences, FiniteSets, TransformMessages

CONSTANTS
    Budgets,        \* the bounds of the instances that are checked together
    SteeringMode,   \* mode of the steering queue
    FollowUpMode    \* mode of the follow-up queue

ASSUME AgentAssumption ==
    /\ Budgets \subseteq [messages : Nat, calls : Nat, toolTurns : Nat,
                          failures : Nat, retries : Nat]
    /\ {SteeringMode, FollowUpMode} \subseteq {"all", "one-at-a-time"}

VARIABLES
    budget,        \* the bounds of this behaviour, one of Budgets
    pc,            \* where the loop is suspended; "idle": no activeRun
    transcript,    \* Agent._state.messages
    context,       \* currentContext.messages of the loop, <<>> without one
    steering,      \* PendingMessageQueue of steer()
    followUp,      \* PendingMessageQueue of followUp()
    prompts,       \* prompt messages whose events are still to be emitted
    pending,       \* pendingMessages of runLoop
    skipPoll,      \* skipInitialSteeringPoll
    aborted,       \* the signal of the active run
    more,          \* hasMoreToolCalls of runLoop
    batch,         \* the tool calls of the last response
    pendingCalls,  \* _state.pendingToolCalls
    stray,         \* tools still executing for a run that has failed
    accepted,      \* history: number of user messages taken so far
    gone,          \* history: messages cleared by callers or lost to a failure
    responses,     \* history: assistant messages so far, they number them
    failures,      \* history: listeners and hooks that threw
    retries        \* history: errors dropped by the session

conversation == <<transcript, context>>
queues == <<steering, followUp>>
feed == <<prompts, pending, skipPoll>>
tools == <<batch, pendingCalls, stray>>
history == <<accepted, gone, responses, failures, retries>>

vars == <<budget, pc, conversation, queues, feed, aborted, more, tools, history>>

(***************************************************************************)
(* idle       no activeRun                                                 *)
(* prompts    emitting the events of the prompt messages                   *)
(* inject     emitting the events of pendingMessages                       *)
(* stream     in streamAssistantResponse                                   *)
(* tools      in one of the three ways to run a batch of tool calls        *)
(* turn_end   awaiting the listeners of turn_end and prepareNextTurn       *)
(* follow_up  between the steering poll and the follow-up poll             *)
(* agent_end  awaiting the listeners of agent_end                          *)
(* failing    at the beginning of handleRunFailure                         *)
(* reported   awaiting listeners of the failure message                    *)
(***************************************************************************)
Locations == {"idle", "prompts", "inject", "stream", "tools", "turn_end",
              "follow_up", "agent_end", "failing", "reported"}

Active == pc # "idle"

MaxMessages == budget.messages    \* user messages ever given to the agent
MaxCalls == budget.calls          \* tool calls in one response
MaxToolTurns == budget.toolTurns  \* only so many first responses carry calls
MaxFailures == budget.failures    \* listeners or hooks that throw
MaxRetries == budget.retries      \* errors dropped by the session

\* A user message is told from others by how it came and by its number.
Kinds == {"prompt", "steer", "follow_up"}
Id(kind) == <<kind, accepted + 1>>

CallStates == {"new", "preparing", "prepared", "executing", "ended",
               "reported"}
BatchModes == {"none", "truncated", "sequential", "parallel"}

ResponseIds == {"response"} \X (1..responses)
ResponseId == <<"response", responses + 1>>

NoBatch == [mode |-> "none", id |-> <<"response", 0>>, calls |-> <<>>,
            launched |-> FALSE]

Init ==
    /\ budget \in Budgets
    /\ pc = "idle"
    /\ transcript = <<>> /\ context = <<>>
    /\ steering = <<>> /\ followUp = <<>>
    /\ prompts = <<>> /\ pending = <<>> /\ skipPoll = FALSE
    /\ aborted = FALSE
    /\ more = TRUE
    /\ batch = NoBatch /\ pendingCalls = {} /\ stray = {}
    /\ accepted = 0 /\ gone = {}
    /\ responses = 0
    /\ failures = 0
    /\ retries = 0

-----------------------------------------------------------------------------
(* PendingMessageQueue.drain(): what it returns and what it leaves. *)

Drained(queue, mode) ==
    IF mode = "all" \/ queue = <<>> THEN queue ELSE <<Head(queue)>>

\* Slip: the drained message stays in the queue.
LeftUncut(queue, mode) == IF mode = "all" THEN <<>> ELSE queue

Left(queue, mode) ==
    IF mode = "all" \/ queue = <<>> THEN <<>> ELSE Tail(queue)

Users(ids) == [i \in DOMAIN ids |-> UserMessage(ids[i])]

-----------------------------------------------------------------------------
(* What callers do. *)

\* Slip: the context of the loop is the transcript alone.
BeginRunForgetful(ids) ==
    /\ pc' = "prompts"
    /\ prompts' = ids
    /\ context' = transcript
    /\ aborted' = FALSE
    /\ more' = TRUE

\* runWithLifecycle() and the beginning of runAgentLoop(): the context is a
\* copy of the transcript with the prompts at its end.
BeginRun(ids) ==
    /\ pc' = "prompts"
    /\ prompts' = ids
    /\ context' = transcript \o Users(ids)
    /\ aborted' = FALSE
    /\ more' = TRUE

\* prompt() throws while a run is active.
Prompt ==
    /\ ~Active
    /\ accepted < MaxMessages
    /\ BeginRun(<<Id("prompt")>>)
    /\ skipPoll' = FALSE
    /\ accepted' = accepted + 1
    /\ UNCHANGED <<budget, transcript, queues, pending, tools, gone, responses,
                   failures, retries>>

LastMessage == transcript[Len(transcript)]

\* continue() after an assistant message needs a queued message.
ContinueWithSteering ==
    /\ ~Active
    /\ transcript # <<>> /\ LastMessage.role = "assistant"
    /\ steering # <<>>
    /\ BeginRun(Drained(steering, SteeringMode))
    /\ steering' = Left(steering, SteeringMode)
    /\ skipPoll' = TRUE
    /\ UNCHANGED <<budget, transcript, followUp, pending, tools, history>>

ContinueWithFollowUp ==
    /\ ~Active
    /\ transcript # <<>> /\ LastMessage.role = "assistant"
    /\ steering = <<>> /\ followUp # <<>>
    /\ BeginRun(Drained(followUp, FollowUpMode))
    /\ followUp' = Left(followUp, FollowUpMode)
    /\ skipPoll' = FALSE
    /\ UNCHANGED <<budget, transcript, steering, pending, tools, history>>

\* runContinuation(): no prompt, the context is the transcript.
ContinueTranscript ==
    /\ ~Active
    /\ transcript # <<>> /\ LastMessage.role # "assistant"
    /\ BeginRun(<<>>)
    /\ skipPoll' = FALSE
    /\ UNCHANGED <<budget, transcript, queues, pending, tools, history>>

Steer ==
    /\ accepted < MaxMessages
    /\ steering' = Append(steering, Id("steer"))
    /\ accepted' = accepted + 1
    /\ UNCHANGED <<budget, pc, conversation, followUp, feed, aborted, more,
                   tools, gone, responses, failures, retries>>

FollowUp ==
    /\ accepted < MaxMessages
    /\ followUp' = Append(followUp, Id("follow_up"))
    /\ accepted' = accepted + 1
    /\ UNCHANGED <<budget, pc, conversation, steering, feed, aborted, more,
                   tools, gone, responses, failures, retries>>

ClearAllQueues ==
    /\ steering \o followUp # <<>>
    /\ gone' = gone \cup ToSet(steering \o followUp)
    /\ steering' = <<>> /\ followUp' = <<>>
    /\ UNCHANGED <<budget, pc, conversation, feed, aborted, more, tools,
                   accepted, responses, failures, retries>>

Abort ==
    /\ Active /\ ~aborted
    /\ aborted' = TRUE
    /\ UNCHANGED <<budget, pc, conversation, queues, feed, more, tools,
                   history>>

\* The user messages of a conversation.
UsersIn(messages) == {m.id : m \in {n \in ToSet(messages) : n.role = "user"}}

\* reset() has no guard of its own: callers are assumed to be between runs.
Reset ==
    /\ ~Active
    /\ transcript # <<>>
    /\ gone' = gone \cup UsersIn(transcript) \cup ToSet(steering \o followUp)
    /\ transcript' = <<>>
    /\ steering' = <<>> /\ followUp' = <<>>
    /\ pendingCalls' = {}
    /\ UNCHANGED <<budget, pc, context, feed, aborted, more, batch, stray,
                   accepted, responses, failures, retries>>

\* _prepareRetry() of the session drops the error it is about to retry.
DropError ==
    /\ ~Active
    /\ retries < MaxRetries
    /\ transcript # <<>> /\ LastMessage.stop = "error"
    /\ transcript' = Front(transcript)
    /\ retries' = retries + 1
    /\ UNCHANGED <<budget, pc, context, queues, feed, aborted, more, tools,
                   accepted, gone, responses, failures>>

-----------------------------------------------------------------------------
(* From the start of a run to the request. *)

EmitPrompt ==
    /\ pc = "prompts" /\ prompts # <<>>
    /\ transcript' = Append(transcript, UserMessage(Head(prompts)))
    /\ prompts' = Tail(prompts)
    /\ UNCHANGED <<budget, pc, context, queues, pending, skipPoll, aborted,
                   more, tools, history>>

PollInitial ==
    /\ pc = "prompts" /\ prompts = <<>>
    /\ \/ /\ skipPoll
          /\ pending' = <<>> /\ UNCHANGED steering
       \/ /\ ~skipPoll
          /\ pending' = Drained(steering, SteeringMode)
          /\ steering' = Left(steering, SteeringMode)
    /\ skipPoll' = FALSE
    /\ pc' = "inject"
    /\ UNCHANGED <<budget, conversation, followUp, prompts, aborted, more,
                   tools, history>>

Inject ==
    /\ pc = "inject" /\ pending # <<>>
    /\ transcript' = Append(transcript, UserMessage(Head(pending)))
    /\ context' = Append(context, UserMessage(Head(pending)))
    /\ pending' = Tail(pending)
    /\ UNCHANGED <<budget, pc, queues, prompts, skipPoll, aborted, more, tools,
                   history>>

CallModel ==
    /\ pc = "inject" /\ pending = <<>>
    /\ pc' = "stream"
    /\ UNCHANGED <<budget, conversation, queues, feed, aborted, more, tools,
                   history>>

-----------------------------------------------------------------------------
(* The response.  It may carry calls whatever its stop reason. *)

CallId(k) == <<batch.id, k>>

NewBatch(mode, n) ==
    [mode |-> mode, id |-> ResponseId, calls |-> [k \in 1..n |-> "new"],
     launched |-> FALSE]

BatchModesFor(stop) ==
    IF stop = "length" THEN {"truncated"} ELSE {"sequential", "parallel"}

\* The final message of the stream ends up in the context and, with its
\* message_end event, in the transcript.
Respond(stop, n) ==
    LET message == AssistantMessage(ResponseId, stop, n)
    IN  /\ pc = "stream"
        /\ stop = "aborted" => aborted
        /\ n > 0 => responses < MaxToolTurns
        /\ context' = Append(context, message)
        /\ transcript' = Append(transcript, message)
        /\ responses' = responses + 1
        /\ more' = FALSE
        /\ \/ /\ stop \in BrokenStops
              /\ pc' = "agent_end" /\ batch' = NoBatch
           \/ /\ stop \notin BrokenStops /\ n = 0
              /\ pc' = "turn_end" /\ batch' = NoBatch
           \/ /\ stop \notin BrokenStops /\ n > 0
              /\ pc' = "tools"
              /\ \E mode \in BatchModesFor(stop) : batch' = NewBatch(mode, n)
        /\ UNCHANGED <<budget, queues, feed, aborted, pendingCalls, stray,
                       accepted, gone, failures, retries>>

\* "stop" stands for "toolUse" too: the loop looks at the calls themselves.
StopReasons == {"stop", "length", "error", "aborted"}

-----------------------------------------------------------------------------
(* A batch of tool calls: new, preparing, [prepared,] executing, ended and  *)
(* reported once its result is in the transcript.                           *)

Calls == DOMAIN batch.calls
In(state) == {k \in Calls : batch.calls[k] = state}

\* The loops over the calls stop at the first look at an aborted signal.
Broken == aborted /\ 1 \notin In("new")

\* failToolCallsFromTruncatedMessage(): no call is executed.
FailTruncated(k) ==
    /\ pc = "tools" /\ batch.mode = "truncated"
    /\ k \in In("new") /\ k - 1 \notin In("new")
    /\ batch' = [batch EXCEPT !.calls[k] = "reported"]
    /\ transcript' = Append(transcript, ToolResultMessage(batch.id, k))
    /\ more' = TRUE
    /\ UNCHANGED <<budget, pc, context, queues, feed, aborted, pendingCalls,
                   stray, history>>

\* The call before k is done with: reported, or prepared in a parallel batch.
PreviousDone(k) ==
    \/ k = 1
    \/ /\ k - 1 \in Calls
       /\ batch.calls[k - 1] \in IF batch.mode = "sequential"
                                   THEN {"reported"} ELSE {"prepared", "ended"}

ToolStart(k) ==
    /\ pc = "tools" /\ batch.mode \in {"sequential", "parallel"}
    /\ ~batch.launched
    /\ k \in In("new") /\ PreviousDone(k) /\ ~Broken
    /\ batch' = [batch EXCEPT !.calls[k] = "preparing"]
    /\ pendingCalls' = pendingCalls \cup {CallId(k)}
    /\ UNCHANGED <<budget, pc, conversation, queues, feed, aborted, more,
                   stray, history>>

\* prepareToolCall(): the tool is missing, the arguments are bad, the hook
\* blocks the call or the run is aborted.
PrepareImmediate(k) ==
    /\ pc = "tools" /\ k \in In("preparing")
    /\ batch' = [batch EXCEPT !.calls[k] = "ended"]
    /\ pendingCalls' = pendingCalls \ {CallId(k)}
    /\ more' = TRUE
    /\ UNCHANGED <<budget, pc, conversation, queues, feed, aborted, stray,
                   history>>

Prepared(k) ==
    /\ pc = "tools" /\ k \in In("preparing") /\ ~aborted
    /\ batch' = [batch EXCEPT !.calls[k] = IF batch.mode = "sequential"
                                             THEN "executing" ELSE "prepared"]
    /\ UNCHANGED <<budget, pc, conversation, queues, feed, aborted, more,
                   pendingCalls, stray, history>>

\* Slip: waits for calls that are never started once the run is aborted.
NothingToPrepareUnbroken == In("new") = {} /\ In("preparing") = {}

\* The loop of executeToolCallsParallel() is over.
NothingToPrepare ==
    /\ In("preparing") = {}
    /\ In("new") = {} \/ Broken

\* Promise.all() of the parallel batch starts every prepared call.
LaunchAll ==
    /\ pc = "tools" /\ batch.mode = "parallel" /\ ~batch.launched
    /\ NothingToPrepare
    /\ batch' = [batch EXCEPT
                   !.launched = TRUE,
                   !.calls = [k \in Calls |-> IF @[k] = "prepared"
                                                THEN "executing" ELSE @[k]]]
    /\ UNCHANGED <<budget, pc, conversation, queues, feed, aborted, more,
                   pendingCalls, stray, history>>

\* executePreparedToolCall() and finalizeExecutedToolCall(), whose outcome may
\* ask to end the run.
ToolEnds(k, terminate) ==
    /\ pc = "tools" /\ k \in In("executing")
    /\ batch' = [batch EXCEPT !.calls[k] = "ended"]
    /\ pendingCalls' = pendingCalls \ {CallId(k)}
    /\ more' = (more \/ ~terminate)
    /\ UNCHANGED <<budget, pc, conversation, queues, feed, aborted, stray,
                   history>>

\* Slip: results in the order the tools end.
ReportableAsTheyEnd(k) == k \in In("ended")

\* A sequential call is reported when it has ended; a parallel batch is
\* reported in the order of its calls when all have ended.
Reportable(k) ==
    /\ k \in In("ended")
    /\ batch.mode = "parallel" =>
          /\ batch.launched
          /\ In("executing") = {}
          /\ \A j \in 1..(k - 1) : j \in In("reported")

EmitResult(k) ==
    /\ pc = "tools" /\ Reportable(k)
    /\ batch' = [batch EXCEPT !.calls[k] = "reported"]
    /\ transcript' = Append(transcript, ToolResultMessage(batch.id, k))
    /\ UNCHANGED <<budget, pc, context, queues, feed, aborted, more,
                   pendingCalls, stray, history>>

BatchOver ==
    /\ In("reported") # {}
    /\ \A k \in Calls : batch.calls[k] = "reported"
                        \/ (batch.calls[k] = "new" /\ Broken
                              /\ batch.mode # "truncated")

\* The results of the batch, in the order of its calls, join the context.
BatchDone ==
    /\ pc = "tools" /\ BatchOver
    /\ LET reported == [k \in 1..Cardinality(In("reported")) |->
                           ToolResultMessage(batch.id, k)]
       IN  context' = context \o reported
    /\ pc' = "turn_end"
    /\ UNCHANGED <<budget, transcript, queues, feed, aborted, more, tools,
                   history>>

-----------------------------------------------------------------------------
(* Between turns.  Each poll drains its queue at once and is awaited. *)

PollSteering ==
    /\ pc = "turn_end"
    /\ pending' = Drained(steering, SteeringMode)
    /\ steering' = Left(steering, SteeringMode)
    /\ pc' = IF more \/ pending' # <<>> THEN "inject" ELSE "follow_up"
    /\ batch' = NoBatch
    /\ UNCHANGED <<budget, conversation, followUp, prompts, skipPoll, aborted,
                   more, pendingCalls, stray, history>>

PollFollowUp ==
    /\ pc = "follow_up"
    /\ pending' = Drained(followUp, FollowUpMode)
    /\ followUp' = Left(followUp, FollowUpMode)
    /\ pc' = IF pending' # <<>> THEN "inject" ELSE "agent_end"
    /\ more' = TRUE
    /\ UNCHANGED <<budget, conversation, steering, prompts, skipPoll, aborted,
                   tools, history>>

\* Slip: the pending calls of a failed run are kept.
FinishRunKeepingCalls ==
    /\ pc \in {"agent_end", "reported"}
    /\ pc' = "idle"
    /\ context' = <<>> /\ batch' = NoBatch /\ more' = TRUE
    /\ aborted' = FALSE
    /\ UNCHANGED <<budget, transcript, queues, feed, pendingCalls, stray,
                   history>>

\* finishRun(), when the listeners of the last event have settled.  What
\* belonged to the run (its signal, its context) is gone with it.
FinishRun ==
    /\ pc \in {"agent_end", "reported"}
    /\ pc' = "idle"
    /\ context' = <<>> /\ batch' = NoBatch /\ more' = TRUE
    /\ aborted' = FALSE
    /\ pendingCalls' = {}
    /\ UNCHANGED <<budget, transcript, queues, feed, stray, history>>

-----------------------------------------------------------------------------
(* Failures: a listener or a hook throws while the loop awaits it. *)

\* The exception leaves runLoop(): what it had drained is lost.
Abandon ==
    /\ failures < MaxFailures
    /\ failures' = failures + 1
    /\ pc' = "failing"
    /\ gone' = gone \cup ToSet(prompts \o pending)
    /\ prompts' = <<>> /\ pending' = <<>>
    /\ context' = <<>> /\ batch' = NoBatch /\ more' = TRUE
    /\ skipPoll' = FALSE
    /\ UNCHANGED <<budget, transcript, queues, aborted, pendingCalls, accepted,
                   responses, retries>>

Fail ==
    /\ pc \notin {"idle", "failing", "reported"}
    /\ pc = "tools" => In("executing") = {}
    /\ Abandon
    /\ UNCHANGED stray

\* A listener throws on an event of the executing call k.  Promise.all()
\* rejects, the other calls of a parallel batch go on.
FailExecuting(k) ==
    /\ pc = "tools" /\ k \in In("executing")
    /\ Abandon
    /\ stray' = stray \cup {CallId(j) : j \in In("executing") \ {k}}

\* A call of an abandoned batch ends; processEvents() notes it.
StrayEnds(c) ==
    /\ c \in stray
    /\ stray' = stray \ {c}
    /\ pendingCalls' = pendingCalls \ {c}
    /\ UNCHANGED <<budget, pc, conversation, queues, feed, aborted, more,
                   batch, history>>

\* handleRunFailure() tells of the failure in an assistant message.
ReportFailure ==
    /\ pc = "failing"
    /\ transcript' = Append(transcript, AssistantMessage(ResponseId,
                              IF aborted THEN "aborted" ELSE "error", 0))
    /\ responses' = responses + 1
    /\ pc' = "reported"
    /\ UNCHANGED <<budget, context, queues, feed, aborted, more, tools,
                   accepted, gone, failures, retries>>

\* A listener throws on the message_start of that very message.
ReportFails ==
    /\ pc = "failing"
    /\ failures < MaxFailures
    /\ failures' = failures + 1
    /\ pc' = "reported"
    /\ UNCHANGED <<budget, conversation, queues, feed, aborted, more, tools,
                   accepted, gone, responses, retries>>

-----------------------------------------------------------------------------
Callers ==
    \/ Prompt \/ ContinueWithSteering \/ ContinueWithFollowUp
    \/ ContinueTranscript \/ Steer \/ FollowUp \/ ClearAllQueues \/ Abort
    \/ Reset \/ DropError

Response == \E stop \in StopReasons, n \in 0..MaxCalls : Respond(stop, n)

ToolStep(k) ==
    \/ FailTruncated(k) \/ ToolStart(k) \/ PrepareImmediate(k) \/ Prepared(k)
    \/ EmitResult(k)
    \/ \E terminate \in BOOLEAN : ToolEnds(k, terminate)

\* What the loop does when its listeners, its model and its tools answer.
Loop ==
    \/ EmitPrompt \/ PollInitial \/ Inject \/ CallModel \/ Response
    \/ \E k \in 1..MaxCalls : ToolStep(k)
    \/ LaunchAll \/ BatchDone \/ PollSteering \/ PollFollowUp
    \/ ReportFailure \/ FinishRun

Failure ==
    \/ Fail \/ ReportFails
    \/ \E k \in 1..MaxCalls : FailExecuting(k)

Next == Callers \/ Loop \/ Failure \/ \E c \in stray : StrayEnds(c)

Spec == Init /\ [][Next]_vars

(***************************************************************************)
(* The code awaits its listeners, its model and its tools without a        *)
(* timeout: that a run goes on is their promise.  Callers promise nothing. *)
(***************************************************************************)
FairSpec == Spec /\ WF_vars(Loop)

-----------------------------------------------------------------------------
Ids == Kinds \X (1..MaxMessages)
IsMessage(m) ==
    \/ m.role = "user" /\ m = UserMessage(m.id) /\ m.id \in Ids
    \/ /\ m.role = "assistant"
       /\ m = AssistantMessage(m.id, m.stop, m.calls)
       /\ m.id \in ResponseIds /\ m.stop \in StopReasons
       /\ m.calls \in 0..MaxCalls
    \/ /\ m.role = "toolResult"
       /\ m = ToolResultMessage(m.id, m.call)
       /\ m.id \in ResponseIds /\ m.call \in 1..MaxCalls

(***************************************************************************)
(* Types.  Outside a failure the pending calls an observer of the agent    *)
(* sees (_state.pendingToolCalls) are calls of the current batch, so none  *)
(* is left over when a run has ended.                                      *)
(***************************************************************************)
TypeOK ==
    /\ pc \in Locations
    /\ \A m \in ToSet(transcript \o context) : IsMessage(m)
    /\ \A s \in {steering, followUp, prompts, pending} : s \in Seq(Ids)
    /\ {skipPoll, aborted, more} \subseteq BOOLEAN
    /\ batch.mode \in BatchModes /\ batch.launched \in BOOLEAN
    /\ batch.calls \in Seq(CallStates) /\ Len(batch.calls) <= MaxCalls
    /\ gone \subseteq Ids
    /\ stray \subseteq ResponseIds \X (1..MaxCalls)
    /\ pendingCalls \subseteq ResponseIds \X (1..MaxCalls)
    /\ pc \notin {"failing", "reported"} =>
          pendingCalls \subseteq {CallId(k) : k \in Calls}

(***************************************************************************)
(* What is sent to the model is well formed whatever came before: aborted  *)
(* batches, failed runs, dropped errors, queued messages.                  *)
(***************************************************************************)
RequestsWellFormed ==
    pc = "stream" => WellFormedRequest(TransformMessages(context))

(***************************************************************************)
(* The loop and the agent keep the conversation apart, by pushes of the    *)
(* one and events of the other; when the model is called they agree.       *)
(***************************************************************************)
ContextIsTranscript ==
    pc = "stream" => context = transcript

\* Message a was given before message b, or they are of different kinds.
Precedes(a, b) == a[2] # b[2] /\ (a[1] = b[1] => a[2] < b[2])

(***************************************************************************)
(* Every message given to the agent is in exactly one place: a queue, the  *)
(* hands of the loop, or the transcript, unless callers cleared it or a    *)
(* failure lost it; and messages of one kind keep their order.             *)
(***************************************************************************)
MessagesAccounted ==
    LET told == {k \in DOMAIN transcript : transcript[k].role = "user"}
        waiting == prompts \o pending \o steering \o followUp
        held == UsersIn(transcript) \cup ToSet(waiting)
    IN  /\ \A j, k \in told :
              j < k => Precedes(transcript[j].id, transcript[k].id)
        /\ \A m \in UsersIn(transcript), i \in DOMAIN waiting :
              Precedes(m, waiting[i])
        /\ \A i, j \in DOMAIN waiting : i < j => Precedes(waiting[i], waiting[j])
        /\ \A m \in held, g \in gone : m[2] # g[2]
        /\ {m[2] : m \in held \cup gone} = 1..accepted

(***************************************************************************)
(* A turn ends with a result for each call that was started, directly      *)
(* behind the response and in the order of the calls; a call is left       *)
(* without one only if the run is aborted.                                 *)
(***************************************************************************)
CallsAnswered ==
    pc = "turn_end" /\ batch.mode # "none" =>
        LET answered == In("reported")
            n == Cardinality(answered)
            first == Len(transcript) - n
        IN  /\ Calls = answered \cup In("new")
            /\ aborted \/ Calls = answered
            /\ pendingCalls = {}
            /\ transcript[first].id = batch.id
            /\ \A k \in 1..n :
                  transcript[first + k] = ToolResultMessage(batch.id, k)

\* A run that its model, its tools and its listeners do not hold up ends.
EveryRunEnds == Active ~> ~Active

(***************************************************************************)
(* agent-session.ts: "The agent loop drains both queues before emitting    *)
(* agent_end."                                                             *)
(***************************************************************************)
QueuesDrainedAtAgentEnd ==
    [][pc # "agent_end" /\ pc' = "agent_end"
          => steering' = <<>> /\ followUp' = <<>>]_vars
=============================================================================
