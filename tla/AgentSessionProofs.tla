------------------------- MODULE AgentSessionProofs -------------------------
(***************************************************************************)
(* Proofs about AgentSession, for any texts, budgets and number of         *)
(* retries: what the session means by idle.                                *)
(***************************************************************************)
EXTENDS AgentSession, TLAPS

Types ==
    /\ pc \in [Callers -> CallStates] /\ owner \in Callers
    /\ active \in BOOLEAN /\ overlapped \in BOOLEAN
    /\ pendingBash \in Nat

\* A call that has passed the check of isStreaming and has not settled.
Busy(c) == pc[c] \in Preflight \cup Running

\* If no two prompts pass the check together, at most one call is past it,
\* the flag says whether it runs, and the loop is the one that it runs.
Alone ==
    ~overlapped =>
        /\ \A c, d \in Callers : Busy(c) /\ Busy(d) => c = d
        /\ active <=> \E c \in Callers : pc[c] \in Running
        /\ loop # "idle" => pc[owner] = "run"

\* Call c is at an await that its run or what follows it has come to.
AtItsEnd(c) ==
    /\ pc[c] \in Running
    /\ pc[c] = "run" => loop = "ended" /\ owner = c

IInv == Types /\ Alone /\ BashNotForgotten

-----------------------------------------------------------------------------
(* Where a step of a call can leave it.                                    *)

USE DEF IInv, Types, Busy, Alone, BashNotForgotten, Preflight, Running,
        CallStates, calls, agent, queues, mirrors, conversation, recovery,
        compaction

\* The run of c is over, or could not begin again.
LEMMA SettleStep ==
    ASSUME IInv, NEW c \in Callers, NEW messages, NEW entries, NEW now,
           AtItsEnd(c), Settle(c, messages, entries, now),
           overlapped' = overlapped
    PROVE  IInv'
<1> USE DEF Settle, FlushBash, LoopLeft, LoopFree, AtItsEnd
<1>1. Types' /\ BashNotForgotten'
  <2>1. /\ pc' = [pc EXCEPT ![c] = "settling"] /\ active' = FALSE
        /\ pendingBash' = 0 /\ owner' = owner
    OBVIOUS
  <2> HIDE DEF Settle
  <2>2. pc' \in [Callers -> CallStates]
    BY <2>1
  <2>3. active' \in BOOLEAN /\ overlapped' \in BOOLEAN /\ owner' \in Callers
    BY <2>1
  <2>4. pendingBash' \in Nat /\ ~(pendingBash' > 0)
    BY <2>1
  <2> QED BY <2>2, <2>3, <2>4
<1>2. ASSUME ~overlapped PROVE loop' = "idle"
  BY <1>2
<1>3. Alone'
  BY <1>2
<1> QED BY <1>1, <1>3

\* The call goes on to wait for a retry or for a compaction.
LEMMA MovesOnStep ==
    ASSUME IInv, NEW c \in Callers, NEW at \in {"retry", "compact"}, AtItsEnd(c),
           pc' = [pc EXCEPT ![c] = at], LoopLeft(c),
           UNCHANGED <<active, owner, pendingBash, overlapped>>
    PROVE  IInv'
<1>1. ASSUME ~overlapped PROVE loop' = "idle"
  BY <1>1 DEF LoopLeft, LoopFree, AtItsEnd
<1> QED BY <1>1 DEF AtItsEnd

\* A run begins, for a new prompt or to go on.
LEMMA BeginStep ==
    ASSUME IInv, NEW c \in Callers, NEW messages, NEW skipPoll,
           Busy(c), BeginRun(c, messages, skipPoll),
           active' \in BOOLEAN, active' \/ overlapped, active => active',
           UNCHANGED <<overlapped, pendingBash>>
    PROVE  IInv'
BY DEF BeginRun

LEMMA ContinueStep ==
    ASSUME IInv, NEW c \in Callers, NEW messages, NEW entries, NEW now,
           AtItsEnd(c), Continue(c, messages, entries, now),
           overlapped' = overlapped
    PROVE  IInv'
<1>1. CASE Settle(c, messages, entries, now)
  BY <1>1, SettleStep
<1>2. CASE ~Settle(c, messages, entries, now)
  <2>1. PICK m, skipPoll :
           BeginRun(c, m, skipPoll) /\ UNCHANGED <<active, pendingBash>>
    BY <1>2 DEF Continue
  <2>2. Busy(c) /\ (active \/ overlapped)
    BY DEF AtItsEnd
  <2> QED BY <2>1, <2>2, BeginStep
<1> QED BY <1>1, <1>2

LEMMA ContinueIfQueuedStep ==
    ASSUME IInv, NEW c \in Callers, NEW messages, NEW entries, NEW now,
           AtItsEnd(c), ContinueIfQueued(c, messages, entries, now),
           overlapped' = overlapped
    PROVE  IInv'
BY SettleStep, ContinueStep DEF ContinueIfQueued

LEMMA AfterRunStep ==
    ASSUME IInv, NEW c \in Callers, NEW m, AtItsEnd(c), AfterRun(c, m),
           overlapped' = overlapped
    PROVE  IInv'
<1>1. CASE /\ StartCompaction(c, m, "compact") /\ LoopLeft(c)
           /\ UNCHANGED <<active, owner, pendingBash>>
  BY <1>1, MovesOnStep DEF StartCompaction
<1>2. CASE ContinueIfQueued(c, Checked(m), session, clock)
  BY <1>2, ContinueIfQueuedStep
<1> QED BY <1>1, <1>2 DEF AfterRun

-----------------------------------------------------------------------------
(* One lemma for each group of actions.                                    *)

\* The loop goes on, and others ask for things: no call moves.
LEMMA CallsStayStep ==
    ASSUME IInv,
           LoopStep \/ ManualStep \/ QueueMessage \/ Abort \/ RequestCompact
             \/ ClearQueue \/ RecordBash
    PROVE  IInv'
<1>1. CASE LoopStep
  <2>1. UNCHANGED <<pc, active, owner, overlapped, pendingBash>> /\ loop # "idle"
    BY <1>1 DEF LoopStep, Announce, CallModel, MessageSaved, Respond
  <2> QED BY <2>1
<1>2. CASE ManualStep \/ QueueMessage \/ Abort \/ RequestCompact \/ ClearQueue
  <2>1. UNCHANGED <<pc, active, owner, overlapped, pendingBash, loop>>
    BY <1>2 DEF ManualStep, ManualBegins, ManualSucceeds, ManualFails,
                QueueMessage, Abort, RequestCompact, ClearQueue
  <2> QED BY <2>1
<1>3. CASE RecordBash
  <2>1. /\ UNCHANGED <<pc, active, owner, overlapped, loop>>
        /\ \/ pendingBash' = pendingBash
           \/ active /\ pendingBash' = pendingBash + 1
    BY <1>3 DEF RecordBash, Streaming
  <2> QED BY <2>1
<1> QED BY <1>1, <1>2, <1>3

LEMMA PromptStep ==
    ASSUME IInv, NEW c \in Callers,
           StartPrompt(c) \/ InputStep(c) \/ AuthStep(c) \/ PrecompactionEnds(c)
             \/ Settled(c)
    PROVE  IInv'
<1>1. CASE StartPrompt(c) \/ PromptEnds(c) \/ PromptQueued(c) \/ NoAuth(c)
             \/ Settled(c)
  <2>1. /\ UNCHANGED <<active, owner, overlapped, pendingBash, loop>>
        /\ pc[c] \in {"idle", "input", "auth", "settling"}
        /\ \E s \in {"idle", "input"} : pc' = [pc EXCEPT ![c] = s]
    BY <1>1 DEF StartPrompt, PromptEnds, PromptQueued, NoAuth, Settled
  <2> QED BY <2>1
<1>2. CASE CheckBeforePrompt(c) \/ PrecompactionEnds(c)
  <2>1. /\ UNCHANGED <<active, owner, overlapped, pendingBash, loop>>
        /\ pc[c] \in {"auth", "precompact"}
        /\ \E s \in {"precompact", "before"} : pc' = [pc EXCEPT ![c] = s]
    BY <1>2 DEF CheckBeforePrompt, PrecompactionEnds, StartCompaction
  <2> QED BY <2>1
<1>3. CASE PromptAccepted(c)
  <2>1. /\ UNCHANGED <<active, owner, loop>> /\ pendingBash' = 0 /\ ~active
        /\ overlapped' = (overlapped \/ \E d \in Callers : pc[d] \in Preflight)
        /\ pc' = [pc EXCEPT ![c] = "auth"]
    BY <1>3 DEF PromptAccepted, FlushBash, Streaming
  <2>2. Types' /\ BashNotForgotten'
    BY <2>1
  <2>3. Alone'
    <3> SUFFICES ASSUME ~overlapped' PROVE Alone'
      OBVIOUS
    <3>1. ~overlapped /\ \A d \in Callers : ~Busy(d)
      BY <2>1
    <3> QED BY <2>1, <3>1
  <2> QED BY <2>2, <2>3
<1> QED BY <1>1, <1>2, <1>3 DEF InputStep, AuthStep

\* The call that passed the check begins a run, unless another has one.
LEMMA RunPromptStep ==
    ASSUME IInv, NEW c \in Callers, RunPrompt(c) PROVE IInv'
<1>1. CASE /\ loop = "idle" /\ \E x \in Texts : BeginRun(c, <<x>>, FALSE)
           /\ active' = TRUE /\ UNCHANGED <<overlapped, pendingBash>>
  BY <1>1, BeginStep DEF RunPrompt
<1>2. CASE /\ loop # "idle" /\ active' = FALSE /\ pendingBash' = 0
           /\ pc' = [pc EXCEPT ![c] = "settling"]
           /\ UNCHANGED <<owner, loop, overlapped>>
  <2>1. overlapped
    BY <1>2 DEF RunPrompt
  <2>2. pendingBash' \in Nat /\ ~(pendingBash' > 0)
    BY <1>2
  <2>3. Types'
    BY <1>2, <2>2
  <2> QED BY <1>2, <2>1, <2>2, <2>3
<1> QED BY <1>1, <1>2 DEF RunPrompt, FlushBash

LEMMA RunEndsStep ==
    ASSUME IInv, NEW c \in Callers, RunEnds(c) PROVE IInv'
<1>1. AtItsEnd(c) /\ overlapped' = overlapped
  BY DEF RunEnds, AtItsEnd
<1>2. CASE Settle(c, transcript, session, clock)
  BY <1>1, <1>2, SettleStep
<1>3. CASE BeginRetry(c, lastAssistant)
  BY <1>1, <1>3, MovesOnStep DEF BeginRetry
<1>4. CASE AfterRun(c, lastAssistant)
  BY <1>1, <1>4, AfterRunStep
<1> QED BY <1>2, <1>3, <1>4 DEF RunEnds

\* The wait for a retry or for a compaction is over.
LEMMA WaitEndsStep ==
    ASSUME IInv, NEW c \in Callers, RetryStep(c) \/ CompactionStep(c) PROVE IInv'
<1>1. AtItsEnd(c) /\ overlapped' = overlapped
  BY DEF RetryStep, RetryWakes, RetryCancelled, CompactionStep, CompactionFails,
         CompactionSucceeds, AtItsEnd
<1>2. CASE RetryWakes(c)
  BY <1>1, <1>2, ContinueStep DEF RetryWakes
<1>3. CASE RetryCancelled(c)
  BY <1>1, <1>3, AfterRunStep DEF RetryCancelled
<1>4. CASE CompactionSucceeds(c)
  BY <1>1, <1>4, ContinueStep, ContinueIfQueuedStep DEF CompactionSucceeds
<1>5. CASE CompactionFails(c)
  BY <1>1, <1>5, ContinueIfQueuedStep DEF CompactionFails
<1> QED BY <1>2, <1>3, <1>4, <1>5 DEF RetryStep, CompactionStep

LEMMA SessionStep ==
    ASSUME IInv, [Next]_vars PROVE IInv'
<1>1. CASE UNCHANGED vars
  BY <1>1 DEF vars
<1>2. CASE Next
  BY <1>2, CallsStayStep, PromptStep, RunPromptStep, RunEndsStep, WaitEndsStep
     DEF Next, CallStep
<1> QED BY <1>1, <1>2

LEMMA SessionInit == Init => IInv
<1> SUFFICES ASSUME Init PROVE IInv
  OBVIOUS
<1> USE DEF Init
<1>1. 1 \in Callers
  BY AgentSessionAssumption
<1>2. Types /\ Alone
  BY <1>1
<1>3. BashNotForgotten
  OBVIOUS
<1> QED BY <1>2, <1>3

-----------------------------------------------------------------------------
\* The inductive invariant: prompts, runs, retries and compactions of the
\* session come one at a time unless two prompts pass the check together.
THEOREM SessionInvariant == Spec => []IInv
BY SessionInit, SessionStep, PTL DEF Spec

\* isIdle of the session: no run, no retry and no compaction is under way.
THEOREM IdleAlwaysMeansIdle == Spec => []IdleMeansIdle
<1>1. IInv => IdleMeansIdle
  BY DEF IdleMeansIdle
<1> QED BY <1>1, SessionInvariant, PTL

\* No way out of _runAgentPrompt() skips _flushPendingBashMessages().
THEOREM BashNeverForgotten == Spec => []BashNotForgotten
<1>1. IInv => BashNotForgotten
  OBVIOUS
<1> QED BY <1>1, SessionInvariant, PTL
=============================================================================
