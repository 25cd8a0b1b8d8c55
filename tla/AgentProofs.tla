---------------------------- MODULE AgentProofs -----------------------------
(***************************************************************************)
(* Proofs about Agent, for any budget and any modes of the queues: the     *)
(* conversation that is sent to the model is the transcript, a turn ends   *)
(* with the results of its calls, no message is lost, told twice or        *)
(* overtaken by a later one of its kind, and what transformMessages()      *)
(* makes of a conversation is well formed.                                 *)
(***************************************************************************)
EXTENDS Agent, SequenceLemmas

\* The messages there can be.
Conversation ==
    {UserMessage(i) : i \in Ids}
      \cup {AssistantMessage(i, stop, n) :
              i \in ResponseIds, stop \in StopReasons, n \in 0..MaxCalls}
      \cup {ToolResultMessage(i, k) : i \in ResponseIds, k \in 1..MaxCalls}

CallIds == ResponseIds \X (1..MaxCalls)

Shapes ==
    /\ budget \in Budgets /\ pc \in Locations
    /\ responses \in Nat /\ accepted \in 0..MaxMessages
    /\ transcript \in Seq(Conversation) /\ context \in Seq(Conversation)
    /\ steering \in Seq(Ids) /\ followUp \in Seq(Ids)
    /\ prompts \in Seq(Ids) /\ pending \in Seq(Ids)
    /\ skipPoll \in BOOLEAN /\ aborted \in BOOLEAN /\ more \in BOOLEAN
    /\ gone \subseteq Ids
    /\ pendingCalls \subseteq CallIds /\ stray \subseteq CallIds

BatchShape ==
    /\ batch.mode \in BatchModes /\ batch.launched \in BOOLEAN
    /\ batch.calls \in Seq(CallStates) /\ Len(batch.calls) <= MaxCalls
    /\ batch = [mode |-> batch.mode, id |-> batch.id, calls |-> batch.calls,
                launched |-> batch.launched]
    /\ batch.mode # "none" => batch.id \in ResponseIds
    /\ pc = "tools" => batch.mode # "none"
    /\ pc \notin {"tools", "turn_end"} => batch = NoBatch
    /\ batch.mode = "none" => batch.calls = <<>>

\* How far a batch can be: a sequential one has a single call under way.
BatchProgress ==
    /\ batch.mode = "truncated" => Calls = In("new") \cup In("reported")
    /\ batch.mode = "sequential" =>
          \A k \in Calls : batch.calls[k] \notin {"new", "reported"} =>
             \A j \in 1..(k - 1) : j \in In("reported")

\* An observer sees the calls that are under way as pending.
PendingAreUnderWay ==
    pc \notin {"failing", "reported"} =>
        pendingCalls \subseteq
            {CallId(k) : k \in In("preparing") \cup In("prepared") \cup In("executing")}

\* The transcript ends with n results, and with the response before them.
EndsWith(n) ==
    /\ Len(transcript) > n
    /\ transcript[Len(transcript) - n].id = batch.id
    /\ \A k \in 1..n :
          transcript[Len(transcript) - n + k] = ToolResultMessage(batch.id, k)

\* The two copies of the conversation at each place of the loop.
Copies ==
    /\ pc = "prompts" => context = transcript \o Users(prompts)
    /\ pc \in {"inject", "stream", "turn_end", "follow_up"} => context = transcript
    /\ pc = "tools" => \E n \in 0..Len(batch.calls) :
          /\ In("reported") = 1..n
          /\ EndsWith(n)
          /\ context = SubSeq(transcript, 1, Len(transcript) - n)

\* What a turn has when it ends.
TurnComplete ==
    pc = "turn_end" /\ batch.mode # "none" =>
        \E n \in 0..Len(batch.calls) :
            /\ In("reported") = 1..n /\ Calls = In("reported") \cup In("new")
            /\ aborted \/ Calls = In("reported")
            /\ EndsWith(n)

IInv ==
    /\ Shapes /\ BatchShape /\ BatchProgress /\ PendingAreUnderWay
    /\ Copies /\ TurnComplete

-----------------------------------------------------------------------------
(* The messages, numbers and calls of a state are those of the next.       *)

LEMMA Universe ==
    ASSUME budget' = budget, responses \in Nat, responses' \in {responses, responses + 1}
    PROVE  /\ Ids' = Ids /\ MaxMessages' = MaxMessages /\ MaxCalls' = MaxCalls
           /\ ResponseIds \subseteq ResponseIds' /\ CallIds \subseteq CallIds'
           /\ Conversation \subseteq Conversation'
<1>1. /\ Ids' = Ids /\ MaxMessages' = MaxMessages /\ MaxCalls' = MaxCalls
  BY DEF Ids, MaxMessages, MaxCalls
<1>2. ResponseIds \subseteq ResponseIds'
  BY DEF ResponseIds
<1>3. CallIds \subseteq CallIds'
  BY <1>1, <1>2 DEF CallIds
<1>4. Conversation \subseteq Conversation'
  BY <1>1, <1>2 DEF Conversation
<1> QED BY <1>1, <1>2, <1>3, <1>4

LEMMA Widened ==
    ASSUME NEW S, NEW T, S \subseteq T, NEW s \in Seq(S)
    PROVE  s \in Seq(T)
BY SeqMonotonic

LEMMA InConversation ==
    ASSUME Shapes
    PROVE  /\ \A i \in Ids : UserMessage(i) \in Conversation
           /\ \A i \in ResponseIds, k \in 1..MaxCalls :
                 ToolResultMessage(i, k) \in Conversation
           /\ \A stop \in StopReasons, n \in 0..MaxCalls :
                 responses' = responses + 1 /\ budget' = budget =>
                     AssistantMessage(ResponseId, stop, n) \in Conversation'
<1>1. ASSUME responses' = responses + 1, budget' = budget,
             NEW stop \in StopReasons, NEW n \in 0..MaxCalls
      PROVE  AssistantMessage(ResponseId, stop, n) \in Conversation'
  <2>1. ResponseId \in ResponseIds'
    BY <1>1 DEF ResponseId, ResponseIds, Shapes
  <2>2. MaxCalls' = MaxCalls
    BY <1>1 DEF MaxCalls
  <2> QED BY <2>1, <2>2 DEF Conversation
<1>2. \A i \in Ids : UserMessage(i) \in Conversation
  BY DEF Conversation
<1>3. \A i \in ResponseIds, k \in 1..MaxCalls : ToolResultMessage(i, k) \in Conversation
  BY DEF Conversation
<1> QED BY <1>1, <1>2, <1>3

-----------------------------------------------------------------------------
(* Queues and conversations as sequences.                                  *)

LEMMA AppendTyped ==
    ASSUME NEW S, NEW s \in Seq(S), NEW x \in S
    PROVE  Append(s, x) \in Seq(S)
BY AppendProperties

LEMMA TailTyped ==
    ASSUME NEW S, NEW s \in Seq(S), s # <<>>
    PROVE  Head(s) \in S /\ Tail(s) \in Seq(S)
BY HeadTailProperties

LEMMA DrainTyped ==
    ASSUME NEW S, NEW queue \in Seq(S), NEW mode
    PROVE  Drained(queue, mode) \in Seq(S) /\ Left(queue, mode) \in Seq(S)
<1>1. <<>> \in Seq(S)
  BY EmptySeq
<1>2. CASE mode = "all" \/ queue = <<>>
  BY <1>1, <1>2 DEF Drained, Left
<1>3. CASE ~(mode = "all" \/ queue = <<>>)
  <2>1. Head(queue) \in S /\ Tail(queue) \in Seq(S)
    BY <1>3, TailTyped
  <2>2. <<Head(queue)>> \in Seq(S)
    BY <2>1
  <2> QED BY <1>3, <2>1, <2>2 DEF Drained, Left
<1> QED BY <1>2, <1>3

LEMMA UsersTyped ==
    ASSUME Shapes, NEW ids \in Seq(Ids)
    PROVE  /\ Users(ids) \in Seq(Conversation) /\ Len(Users(ids)) = Len(ids)
           /\ \A i \in 1..Len(ids) : Users(ids)[i] = UserMessage(ids[i])
<1>1. \A i \in 1..Len(ids) : ids[i] \in Ids
  BY ElementOfSeq
<1>2. Users(ids) = [i \in 1..Len(ids) |-> UserMessage(ids[i])]
  BY LenProperties DEF Users
<1>3. \A i \in 1..Len(ids) : UserMessage(ids[i]) \in Conversation
  BY <1>1, InConversation
<1> HIDE DEF Users
<1>4. Len(ids) \in Nat
  BY LenProperties
<1> QED BY <1>2, <1>3, <1>4, IsASeq, LenProperties

\* A prompt moves from what is to be told to what was told.
LEMMA PromptMoves ==
    ASSUME Shapes, prompts # <<>>
    PROVE  Append(transcript, UserMessage(Head(prompts))) \o Users(Tail(prompts))
             = transcript \o Users(prompts)
<1> DEFINE x == UserMessage(Head(prompts))
           A == Append(transcript, x)
           U == Users(prompts)
           V == Users(Tail(prompts))
<1>1. /\ Tail(prompts) \in Seq(Ids) /\ Head(prompts) = prompts[1] /\ Head(prompts) \in Ids
      /\ Len(Tail(prompts)) = Len(prompts) - 1 /\ Len(prompts) \in Nat \ {0}
      /\ \A i \in 1..Len(Tail(prompts)) : Tail(prompts)[i] = prompts[i + 1]
  BY HeadTailProperties, LenProperties DEF Shapes
<1>2. /\ U \in Seq(Conversation) /\ Len(U) = Len(prompts)
      /\ \A i \in 1..Len(prompts) : U[i] = UserMessage(prompts[i])
  BY UsersTyped DEF Shapes
<1>3. /\ V \in Seq(Conversation) /\ Len(V) = Len(prompts) - 1
      /\ \A i \in 1..Len(prompts) - 1 : V[i] = UserMessage(Tail(prompts)[i])
  BY <1>1, UsersTyped
<1>4. x \in Conversation /\ transcript \in Seq(Conversation)
  BY <1>1, InConversation DEF Shapes
<1> HIDE DEF U, V, x
<1>5. /\ A \in Seq(Conversation) /\ Len(A) = Len(transcript) + 1
      /\ \A i \in 1..Len(transcript) : A[i] = transcript[i]
      /\ A[Len(transcript) + 1] = x
  BY <1>4, AppendProperties
<1>6. x = U[1]
  BY <1>1, <1>2 DEF x
<1>7. \A i \in 1..Len(V) : V[i] = U[i + 1]
  BY <1>1, <1>2, <1>3
<1> HIDE DEF A
<1>8. /\ A \o V \in Seq(Conversation) /\ Len(A \o V) = Len(A) + Len(V)
      /\ \A i \in 1..Len(A) + Len(V) :
            (A \o V)[i] = IF i <= Len(A) THEN A[i] ELSE V[i - Len(A)]
  BY <1>3, <1>5, ConcatProperties
<1>9. /\ transcript \o U \in Seq(Conversation)
      /\ Len(transcript \o U) = Len(transcript) + Len(U)
      /\ \A i \in 1..Len(transcript) + Len(U) :
            (transcript \o U)[i] = IF i <= Len(transcript) THEN transcript[i]
                                   ELSE U[i - Len(transcript)]
  BY <1>2, <1>4, ConcatProperties
<1>10. Len(transcript) \in Nat /\ Len(A \o V) = Len(transcript \o U)
  BY <1>1, <1>2, <1>3, <1>4, <1>5, <1>8, <1>9, LenProperties
<1>11. \A i \in 1..Len(A \o V) : (A \o V)[i] = (transcript \o U)[i]
  BY <1>1, <1>2, <1>3, <1>5, <1>6, <1>7, <1>8, <1>9, <1>10, SMTT(40)
<1>12. A \o V = transcript \o U
  BY <1>8, <1>9, <1>10, <1>11, SeqEqual
<1> QED BY <1>12 DEF A, U, V, x

\* A result that is told extends the results at the end of the transcript.
LEMMA ResultTold ==
    ASSUME Shapes, Shapes', NEW n \in Nat, EndsWith(n), batch'.id = batch.id,
           transcript' = Append(transcript, ToolResultMessage(batch.id, n + 1))
    PROVE  /\ EndsWith(n + 1)'
           /\ SubSeq(transcript', 1, Len(transcript') - (n + 1))
                = SubSeq(transcript, 1, Len(transcript) - n)
<1> DEFINE x == ToolResultMessage(batch.id, n + 1)
<1> HIDE DEF x
<1>1. Len(transcript) \in Nat /\ transcript \in Seq(Conversation)
  BY LenProperties DEF Shapes
<1>2. /\ Len(transcript') = Len(transcript) + 1 
      /\ \A i \in 1..Len(transcript) : transcript'[i] = transcript[i]
      /\ transcript'[Len(transcript) + 1] = x
  BY <1>1 DEF x
<1>3. /\ Len(transcript) - n \in 1..Len(transcript)
      /\ transcript[Len(transcript) - n].id = batch.id
      /\ \A k \in 1..n : /\ Len(transcript) - n + k \in 1..Len(transcript)
                        /\ transcript[Len(transcript) - n + k] = ToolResultMessage(batch.id, k)
  BY <1>1 DEF EndsWith
<1>6. /\ Len(transcript') > n + 1
      /\ Len(transcript') - (n + 1) = Len(transcript) - n
      /\ transcript'[Len(transcript) - n].id = batch.id
  BY <1>1, <1>2, <1>3
<1>7. ASSUME NEW k \in 1..(n + 1)
      PROVE  transcript'[Len(transcript) - n + k] = ToolResultMessage(batch.id, k)
  <2>1. CASE k \in 1..n
    BY <1>2, <1>3, <2>1
  <2>2. CASE k = n + 1
    <3>1. Len(transcript) - n + k = Len(transcript) + 1
      BY <1>1, <2>2
    <3> QED BY <1>2, <2>2, <3>1 DEF x
  <2>3. k \in 1..n \/ k = n + 1
    OBVIOUS
  <2> QED BY <2>1, <2>2, <2>3
<1>8. EndsWith(n + 1)'
  BY <1>6, <1>7 DEF EndsWith
<1>4. /\ Len(transcript) - n \in 0..Len(transcript)
      /\ Len(transcript') - (n + 1) = Len(transcript) - n
  BY <1>1, <1>2 DEF EndsWith
<1>5. SubSeq(transcript', 1, Len(transcript) - n) = SubSeq(transcript, 1, Len(transcript) - n)
  BY <1>1, <1>2, <1>4
<1> QED BY <1>4, <1>5, <1>8

\* The results of a batch complete the context.
LEMMA ResultsJoin ==
    ASSUME Shapes, NEW n \in Nat, EndsWith(n)
    PROVE  SubSeq(transcript, 1, Len(transcript) - n)
             \o [k \in 1..n |-> ToolResultMessage(batch.id, k)] = transcript
<1> DEFINE R == [k \in 1..n |-> ToolResultMessage(batch.id, k)]
           C == SubSeq(transcript, 1, Len(transcript) - n)
           S == Conversation \cup {ToolResultMessage(batch.id, k) : k \in 1..n}
<1>1. R \in Seq(S) /\ Len(R) = n
  BY IsASeq, LenProperties
<1>2. Conversation \subseteq S
  OBVIOUS
<1>3. \A k \in 1..n : R[k] = transcript[Len(transcript) - n + k]
  BY DEF EndsWith
<1> HIDE DEF S, R
<1>4. transcript \in Seq(S) /\ Len(transcript) \in Nat /\ Len(transcript) > n
  BY <1>2, Widened, LenProperties DEF Shapes, EndsWith
<1>5. /\ C \in Seq(S) /\ Len(C) = Len(transcript) - n
      /\ \A i \in 1..Len(transcript) - n : C[i] = transcript[i]
  BY <1>4
<1> HIDE DEF C
<1>6. /\ C \o R \in Seq(S) /\ Len(C \o R) = Len(C) + Len(R)
      /\ \A i \in 1..Len(C) + Len(R) :
            (C \o R)[i] = IF i <= Len(C) THEN C[i] ELSE R[i - Len(C)]
  BY <1>1, <1>5, ConcatProperties
<1>7. Len(C \o R) = Len(transcript) /\ Len(C) + Len(R) = Len(transcript)
  BY <1>1, <1>4, <1>5, <1>6
<1>8. ASSUME NEW i \in 1..Len(transcript)
      PROVE  (C \o R)[i] = transcript[i]
  <2>1. CASE i <= Len(C)
    BY <1>4, <1>5, <1>6, <1>7, <2>1
  <2>2. CASE i > Len(C)
    <3>1. i - Len(C) \in 1..n /\ i = Len(transcript) - n + (i - Len(C))
      BY <1>4, <1>5, <2>2
    <3>2. (C \o R)[i] = R[i - Len(C)]
      BY <1>4, <1>5, <1>6, <1>7, <2>2
    <3> QED BY <1>3, <3>1, <3>2
  <2>3. i <= Len(C) \/ i > Len(C)
    BY <1>4, <1>5
  <2> QED BY <2>1, <2>2, <2>3
<1>9. C \o R = transcript
  BY <1>4, <1>6, <1>7, <1>8, SeqEqual
<1> QED BY <1>9 DEF C, R

-----------------------------------------------------------------------------
(* What does not change.                                                   *)

\* Whatever a step adds, what there was can still be there.
Widens ==
    /\ Ids' = Ids /\ MaxMessages' = MaxMessages /\ MaxCalls' = MaxCalls
    /\ ResponseIds \subseteq ResponseIds' /\ CallIds \subseteq CallIds'
    /\ Conversation \subseteq Conversation'
    /\ transcript \in Seq(Conversation') /\ context \in Seq(Conversation')
    /\ <<>> \in Seq(Conversation')
    /\ MaxMessages \in Nat /\ MaxCalls \in Nat

LEMMA EverythingWidens ==
    ASSUME Shapes, budget' = budget, responses' \in {responses, responses + 1}
    PROVE  Widens
<1>1. /\ Ids' = Ids /\ MaxMessages' = MaxMessages /\ MaxCalls' = MaxCalls
      /\ ResponseIds \subseteq ResponseIds' /\ CallIds \subseteq CallIds'
      /\ Conversation \subseteq Conversation'
  BY Universe DEF Shapes
<1>2. transcript \in Seq(Conversation') /\ context \in Seq(Conversation')
  BY <1>1, Widened DEF Shapes
<1>3. MaxMessages \in Nat /\ MaxCalls \in Nat
  BY AgentAssumption DEF Shapes, MaxMessages, MaxCalls
<1> QED BY <1>1, <1>2, <1>3, EmptySeq DEF Widens

LEMMA SameBatch ==
    ASSUME batch' = batch
    PROVE  /\ Calls' = Calls /\ \A state : In(state)' = In(state)
           /\ \A k : CallId(k)' = CallId(k)
BY DEF Calls, In, CallId

LEMMA SameEnd ==
    ASSUME batch'.id = batch.id, transcript' = transcript, NEW n
    PROVE  EndsWith(n)' <=> EndsWith(n)
BY DEF EndsWith

LEMMA BatchDropped ==
    ASSUME batch' = NoBatch
    PROVE  /\ Calls' = {} /\ \A state : In(state)' = {}
           /\ batch'.mode = "none" /\ batch'.launched = FALSE /\ batch'.calls = <<>>
           /\ batch' = [mode |-> batch'.mode, id |-> batch'.id,
                        calls |-> batch'.calls, launched |-> batch'.launched]
BY DEF Calls, In, NoBatch

\* A loop that is not in a batch has none.
LEMMA DroppedShape ==
    ASSUME batch' = NoBatch, pc' # "tools", MaxCalls' \in Nat
    PROVE  BatchShape'
<1>1. /\ batch'.mode = "none" /\ batch'.launched = FALSE /\ batch'.calls = <<>>
      /\ batch' = [mode |-> batch'.mode, id |-> batch'.id,
                   calls |-> batch'.calls, launched |-> batch'.launched]
  BY BatchDropped
<1>2. batch'.calls \in Seq(CallStates) /\ Len(batch'.calls) = 0
  BY <1>1, EmptySeq
<1>3. Len(batch'.calls) <= MaxCalls'
  BY <1>2
<1> QED BY <1>1, <1>2, <1>3 DEF BatchShape, BatchModes

LEMMA CallsAre ==
    ASSUME BatchShape
    PROVE  /\ Len(batch.calls) \in Nat /\ Calls = 1..Len(batch.calls)
           /\ \A k \in Calls : batch.calls[k] \in CallStates
           /\ \A state : In(state) \subseteq Calls
BY LenProperties, ElementOfSeq DEF BatchShape, Calls, In

\* One call changes its state, the others keep theirs.
Moves(k, s) ==
    /\ batch'.mode = batch.mode /\ batch'.id = batch.id
    /\ batch'.launched = batch.launched
    /\ batch' = [mode |-> batch'.mode, id |-> batch'.id,
                 calls |-> batch'.calls, launched |-> batch'.launched]
    /\ batch'.calls \in Seq(CallStates) /\ Len(batch'.calls) = Len(batch.calls)
    /\ Calls' = Calls
    /\ \A j \in Calls : batch'.calls[j] = IF j = k THEN s ELSE batch.calls[j]
    /\ \A t : In(t)' = IF t = s THEN In(t) \cup {k} ELSE In(t) \ {k}
    /\ \A j : CallId(j)' = CallId(j)

LEMMA CallMoves ==
    ASSUME BatchShape, NEW k \in Calls, NEW s \in CallStates,
           batch' = [batch EXCEPT !.calls[k] = s]
    PROVE  Moves(k, s)
<1>1. /\ Len(batch.calls) \in Nat /\ Calls = 1..Len(batch.calls)
      /\ \A j \in Calls : batch.calls[j] \in CallStates
  BY CallsAre
<1>2. /\ batch'.mode = batch.mode /\ batch'.id = batch.id
      /\ batch'.launched = batch.launched
      /\ batch'.calls = [batch.calls EXCEPT ![k] = s]
      /\ batch' = [mode |-> batch'.mode, id |-> batch'.id,
                   calls |-> batch'.calls, launched |-> batch'.launched]
  BY DEF BatchShape
<1>3. batch'.calls \in Seq(CallStates) /\ Len(batch'.calls) = Len(batch.calls)
  BY <1>1, <1>2, ExceptSeq DEF BatchShape
<1>4. Calls' = Calls /\ \A j \in Calls : batch'.calls[j] = IF j = k THEN s ELSE batch.calls[j]
  BY <1>1, <1>2, <1>3, ExceptSeq DEF BatchShape, Calls
<1>5. \A t : In(t)' = IF t = s THEN In(t) \cup {k} ELSE In(t) \ {k}
  BY <1>4 DEF In
<1>6. \A j : CallId(j)' = CallId(j)
  BY <1>2 DEF CallId
<1> QED BY <1>2, <1>3, <1>4, <1>5, <1>6 DEF Moves

\* A run begins with well-typed messages.
LEMMA BeginTyped ==
    ASSUME Shapes, NEW ids \in Seq(Ids)
    PROVE  transcript \o Users(ids) \in Seq(Conversation)
BY UsersTyped, ConcatProperties DEF Shapes

\* Without prompts the context of a new run is the transcript.
LEMMA NoUsers ==
    ASSUME Shapes
    PROVE  transcript \o Users(<<>>) = transcript
BY DEF Users, Shapes

LEMMA EmptyBatch ==
    ASSUME batch = NoBatch
    PROVE  Calls = {} /\ \A state : In(state) = {}
BY DEF Calls, In, NoBatch

\* A response brings n calls.
LEMMA BatchBegins ==
    ASSUME Shapes, responses' = responses + 1, NEW n \in Nat, NEW mode,
           batch' = NewBatch(mode, n)
    PROVE  /\ batch'.mode = mode /\ batch'.id = ResponseId /\ batch'.launched = FALSE
           /\ ResponseId \in ResponseIds'
           /\ batch' = [mode |-> batch'.mode, id |-> batch'.id,
                        calls |-> batch'.calls, launched |-> batch'.launched]
           /\ batch'.calls \in Seq(CallStates) /\ Len(batch'.calls) = n
           /\ Calls' = 1..n /\ \A k \in 1..n : batch'.calls[k] = "new"
           /\ \A state : state # "new" => In(state)' = {}
<1> DEFINE c == [k \in 1..n |-> "new"]
<1>1. /\ batch'.mode = mode /\ batch'.id = ResponseId /\ batch'.launched = FALSE
      /\ batch'.calls = c
      /\ batch' = [mode |-> batch'.mode, id |-> batch'.id,
                   calls |-> batch'.calls, launched |-> batch'.launched]
  BY DEF NewBatch
<1>2. c \in Seq(CallStates) /\ Len(c) = n /\ DOMAIN c = 1..n
  BY DEF CallStates
<1>3. ResponseId \in ResponseIds'
  BY DEF ResponseId, ResponseIds, Shapes
<1>4. Calls' = 1..n /\ \A k \in 1..n : batch'.calls[k] = "new"
  BY <1>1, <1>2 DEF Calls
<1>5. \A state : state # "new" => In(state)' = {}
  BY <1>4 DEF In
<1> QED BY <1>1, <1>2, <1>3, <1>4, <1>5

\* The prepared calls start to execute, the others stay as they are.
Launches ==
    /\ batch'.mode = batch.mode /\ batch'.id = batch.id
    /\ batch'.launched = TRUE
    /\ batch' = [mode |-> batch'.mode, id |-> batch'.id,
                 calls |-> batch'.calls, launched |-> batch'.launched]
    /\ batch'.calls \in Seq(CallStates) /\ Len(batch'.calls) = Len(batch.calls)
    /\ Calls' = Calls
    /\ In("reported")' = In("reported") /\ In("new")' = In("new")
    /\ In("preparing")' = In("preparing") /\ In("prepared")' = {}
    /\ In("executing")' = In("executing") \cup In("prepared")
    /\ \A j : CallId(j)' = CallId(j)

LEMMA CallsLaunched ==
    ASSUME BatchShape,
           batch' = [batch EXCEPT
                       !.launched = TRUE,
                       !.calls = [k \in Calls |-> IF @[k] = "prepared"
                                                    THEN "executing" ELSE @[k]]]
    PROVE  Launches
<1> DEFINE Launched(s) == IF s = "prepared" THEN "executing" ELSE s
           c == [k \in Calls |-> Launched(batch.calls[k])]
<1>1. /\ Len(batch.calls) \in Nat /\ Calls = 1..Len(batch.calls)
      /\ \A j \in Calls : batch.calls[j] \in CallStates
  BY CallsAre
<1>2. /\ batch'.mode = batch.mode /\ batch'.id = batch.id
      /\ batch'.launched = TRUE /\ batch'.calls = c
      /\ batch' = [mode |-> batch'.mode, id |-> batch'.id,
                   calls |-> batch'.calls, launched |-> batch'.launched]
  BY DEF BatchShape
<1>3. \A k \in Calls : Launched(batch.calls[k]) \in CallStates
  BY <1>1 DEF CallStates
<1>4. c \in Seq(CallStates) /\ Len(c) = Len(batch.calls) /\ DOMAIN c = Calls
  BY <1>1, <1>3
<1>5. Calls' = Calls /\ \A j \in Calls : batch'.calls[j] = Launched(batch.calls[j])
  BY <1>2, <1>4 DEF Calls
<1>6. \A t : In(t)' = {j \in Calls : Launched(batch.calls[j]) = t}
  BY <1>5 DEF In
<1>7. /\ In("reported")' = In("reported") /\ In("new")' = In("new")
      /\ In("preparing")' = In("preparing") /\ In("prepared")' = {}
      /\ In("executing")' = In("executing") \cup In("prepared")
  BY <1>6 DEF In
<1>8. \A j : CallId(j)' = CallId(j)
  BY <1>2 DEF CallId
<1> QED BY <1>2, <1>4, <1>5, <1>7, <1>8 DEF Launches

\* A call that moves on without a result leaves the conversation alone.
LEMMA NothingTold ==
    ASSUME Copies, pc = "tools", pc' = "tools", batch'.id = batch.id,
           Len(batch'.calls) = Len(batch.calls), In("reported")' = In("reported"),
           transcript' = transcript, context' = context
    PROVE  Copies'
<1>1. PICK n \in 0..Len(batch.calls) :
          /\ In("reported") = 1..n /\ EndsWith(n)
          /\ context = SubSeq(transcript, 1, Len(transcript) - n)
  BY DEF Copies
<1>2. EndsWith(n)'
  BY <1>1, SameEnd
<1> QED BY <1>1, <1>2 DEF Copies

\* The result of the next call joins those that were told.
LEMMA NextTold ==
    ASSUME Copies, BatchShape, Shapes, Shapes', pc = "tools", pc' = "tools",
           batch'.id = batch.id, Len(batch'.calls) = Len(batch.calls),
           NEW k \in Calls, In("reported") = 1..(k - 1),
           In("reported")' = In("reported") \cup {k},
           transcript' = Append(transcript, ToolResultMessage(batch.id, k)),
           context' = context
    PROVE  Copies'
<1>1. Len(batch.calls) \in Nat /\ k \in 1..Len(batch.calls)
  BY CallsAre
<1>2. PICK n \in 0..Len(batch.calls) :
          /\ In("reported") = 1..n /\ EndsWith(n)
          /\ context = SubSeq(transcript, 1, Len(transcript) - n)
  BY DEF Copies
<1>3. n \in Nat /\ n + 1 = k
  BY <1>1, <1>2
<1>4. /\ EndsWith(n + 1)'
      /\ SubSeq(transcript', 1, Len(transcript') - (n + 1))
           = SubSeq(transcript, 1, Len(transcript) - n)
  BY <1>2, <1>3, ResultTold
<1>5. In("reported")' = 1..(n + 1) /\ n + 1 \in 0..Len(batch'.calls)
  <2>1. n + 1 \in 0..Len(batch'.calls)
    BY <1>1, <1>3
  <2>2. 1..(n + 1) = (1..n) \cup {n + 1}
    BY <1>3
  <2> QED BY <1>2, <1>3, <2>1, <2>2
<1>6. context' = SubSeq(transcript', 1, Len(transcript') - (n + 1))
  BY <1>2, <1>4
<1> QED BY <1>4, <1>5, <1>6 DEF Copies

LEMMA SetTyped ==
    ASSUME NEW S, NEW s \in Seq(S)
    PROVE  ToSet(s) \subseteq S
BY ElementOfSeq, LenProperties DEF ToSet

LEMMA FrontTyped ==
    ASSUME NEW S, NEW s \in Seq(S), s # <<>>
    PROVE  Front(s) \in Seq(S)
BY DEF Front

-----------------------------------------------------------------------------
(* One lemma for each action: IInv is inductive.                           *)

LEMMA PromptStep ==
    ASSUME IInv, Prompt PROVE IInv'
<1>a. /\ Shapes /\ BatchShape /\ BatchProgress
      /\ PendingAreUnderWay /\ Copies /\ TurnComplete
  BY DEF IInv
<1> USE DEF Widens, Prompt, BeginRun, Active, vars, conversation, queues,
           feed, tools, history
<1>b. budget' = budget /\ responses' \in {responses, responses + 1}
  BY <1>a
<1>c. Widens
  BY <1>a, <1>b, EverythingWidens
<1>d. <<Id("prompt")>> \in Seq(Ids)
  BY <1>a, <1>c DEF Shapes, Id, Ids, Kinds
<1>e. transcript \o Users(<<Id("prompt")>>) \in Seq(Conversation')
  BY <1>a, <1>c, <1>d, BeginTyped, Widened
<1>1. Shapes'
  <2>1. accepted' \in 0..MaxMessages'
    BY <1>a, <1>c DEF Shapes
  <2> QED BY <1>a, <1>c, <1>d, <1>e, <2>1 DEF Shapes, Locations
<1>2. BatchShape'
  BY <1>a, <1>c DEF BatchShape, Shapes
<1>3. BatchProgress'
  BY <1>a, SameBatch DEF BatchProgress, BatchShape
<1>4. PendingAreUnderWay'
  BY <1>a, SameBatch DEF PendingAreUnderWay, BatchShape
<1>5. Copies'
  BY <1>a, SameBatch, SameEnd DEF Copies, BatchShape, Shapes
<1>6. TurnComplete'
  BY <1>a, SameBatch, SameEnd DEF TurnComplete, BatchShape
<1> QED BY <1>1, <1>2, <1>3, <1>4, <1>5, <1>6 DEF IInv

LEMMA ContinueWithSteeringStep ==
    ASSUME IInv, ContinueWithSteering PROVE IInv'
<1>a. /\ Shapes /\ BatchShape /\ BatchProgress
      /\ PendingAreUnderWay /\ Copies /\ TurnComplete
  BY DEF IInv
<1> USE DEF Widens, ContinueWithSteering, BeginRun, Active, vars,
           conversation, queues, feed, tools, history
<1>b. budget' = budget /\ responses' \in {responses, responses + 1}
  BY <1>a
<1>c. Widens
  BY <1>a, <1>b, EverythingWidens
<1>x. Drained(steering, SteeringMode) \in Seq(Ids) /\ Left(steering, SteeringMode) \in Seq(Ids)
  BY <1>a, DrainTyped DEF Shapes
<1>d. Drained(steering, SteeringMode) \in Seq(Ids)
  BY <1>x
<1>e. transcript \o Users(Drained(steering, SteeringMode)) \in Seq(Conversation')
  BY <1>a, <1>c, <1>d, BeginTyped, Widened
<1>1. Shapes'
  BY <1>a, <1>c, <1>d, <1>e, <1>x DEF Shapes, Locations
<1>2. BatchShape'
  BY <1>a, <1>c DEF BatchShape, Shapes
<1>3. BatchProgress'
  BY <1>a, SameBatch DEF BatchProgress, BatchShape
<1>4. PendingAreUnderWay'
  BY <1>a, SameBatch DEF PendingAreUnderWay, BatchShape
<1>5. Copies'
  BY <1>a, SameBatch, SameEnd DEF Copies, BatchShape, Shapes
<1>6. TurnComplete'
  BY <1>a, SameBatch, SameEnd DEF TurnComplete, BatchShape
<1> QED BY <1>1, <1>2, <1>3, <1>4, <1>5, <1>6 DEF IInv

LEMMA ContinueWithFollowUpStep ==
    ASSUME IInv, ContinueWithFollowUp PROVE IInv'
<1>a. /\ Shapes /\ BatchShape /\ BatchProgress
      /\ PendingAreUnderWay /\ Copies /\ TurnComplete
  BY DEF IInv
<1> USE DEF Widens, ContinueWithFollowUp, BeginRun, Active, vars,
           conversation, queues, feed, tools, history
<1>b. budget' = budget /\ responses' \in {responses, responses + 1}
  BY <1>a
<1>c. Widens
  BY <1>a, <1>b, EverythingWidens
<1>x. Drained(followUp, FollowUpMode) \in Seq(Ids) /\ Left(followUp, FollowUpMode) \in Seq(Ids)
  BY <1>a, DrainTyped DEF Shapes
<1>d. Drained(followUp, FollowUpMode) \in Seq(Ids)
  BY <1>x
<1>e. transcript \o Users(Drained(followUp, FollowUpMode)) \in Seq(Conversation')
  BY <1>a, <1>c, <1>d, BeginTyped, Widened
<1>1. Shapes'
  BY <1>a, <1>c, <1>d, <1>e, <1>x DEF Shapes, Locations
<1>2. BatchShape'
  BY <1>a, <1>c DEF BatchShape, Shapes
<1>3. BatchProgress'
  BY <1>a, SameBatch DEF BatchProgress, BatchShape
<1>4. PendingAreUnderWay'
  BY <1>a, SameBatch DEF PendingAreUnderWay, BatchShape
<1>5. Copies'
  BY <1>a, SameBatch, SameEnd DEF Copies, BatchShape, Shapes
<1>6. TurnComplete'
  BY <1>a, SameBatch, SameEnd DEF TurnComplete, BatchShape
<1> QED BY <1>1, <1>2, <1>3, <1>4, <1>5, <1>6 DEF IInv

LEMMA ContinueTranscriptStep ==
    ASSUME IInv, ContinueTranscript PROVE IInv'
<1>a. /\ Shapes /\ BatchShape /\ BatchProgress
      /\ PendingAreUnderWay /\ Copies /\ TurnComplete
  BY DEF IInv
<1> USE DEF Widens, ContinueTranscript, BeginRun, Active, vars, conversation,
           queues, feed, tools, history
<1>b. budget' = budget /\ responses' \in {responses, responses + 1}
  BY <1>a
<1>c. Widens
  BY <1>a, <1>b, EverythingWidens
<1>d. <<>> \in Seq(Ids)
  BY EmptySeq
<1>e. transcript \o Users(<<>>) \in Seq(Conversation')
  BY <1>a, <1>c, <1>d, BeginTyped, Widened
<1>1. Shapes'
  BY <1>a, <1>c, <1>d, <1>e DEF Shapes, Locations
<1>2. BatchShape'
  BY <1>a, <1>c DEF BatchShape, Shapes
<1>3. BatchProgress'
  BY <1>a, SameBatch DEF BatchProgress, BatchShape
<1>4. PendingAreUnderWay'
  BY <1>a, SameBatch DEF PendingAreUnderWay, BatchShape
<1>5. Copies'
  BY <1>a, SameBatch, SameEnd DEF Copies, BatchShape, Shapes
<1>6. TurnComplete'
  BY <1>a, SameBatch, SameEnd DEF TurnComplete, BatchShape
<1> QED BY <1>1, <1>2, <1>3, <1>4, <1>5, <1>6 DEF IInv

LEMMA SteerStep ==
    ASSUME IInv, Steer PROVE IInv'
<1>a. /\ Shapes /\ BatchShape /\ BatchProgress
      /\ PendingAreUnderWay /\ Copies /\ TurnComplete
  BY DEF IInv
<1> USE DEF Widens, Steer, vars, conversation, queues, feed, tools, history
<1>b. budget' = budget /\ responses' \in {responses, responses + 1}
  BY <1>a
<1>c. Widens
  BY <1>a, <1>b, EverythingWidens
<1>d. Id("steer") \in Ids
  BY <1>a, <1>c DEF Shapes, Id, Ids, Kinds
<1>e. Append(steering, Id("steer")) \in Seq(Ids)
  BY <1>a, <1>d, AppendTyped DEF Shapes
<1>1. Shapes'
  BY <1>a, <1>c, <1>e DEF Shapes, Locations
<1>2. BatchShape'
  BY <1>a, <1>c DEF BatchShape, Shapes
<1>3. BatchProgress'
  BY <1>a, SameBatch DEF BatchProgress, BatchShape
<1>4. PendingAreUnderWay'
  BY <1>a, SameBatch DEF PendingAreUnderWay, BatchShape
<1>5. Copies'
  BY <1>a, SameBatch, SameEnd DEF Copies, BatchShape, Shapes
<1>6. TurnComplete'
  BY <1>a, SameBatch, SameEnd DEF TurnComplete, BatchShape
<1> QED BY <1>1, <1>2, <1>3, <1>4, <1>5, <1>6 DEF IInv

LEMMA FollowUpStep ==
    ASSUME IInv, FollowUp PROVE IInv'
<1>a. /\ Shapes /\ BatchShape /\ BatchProgress
      /\ PendingAreUnderWay /\ Copies /\ TurnComplete
  BY DEF IInv
<1> USE DEF Widens, FollowUp, vars, conversation, queues, feed, tools, history
<1>b. budget' = budget /\ responses' \in {responses, responses + 1}
  BY <1>a
<1>c. Widens
  BY <1>a, <1>b, EverythingWidens
<1>d. Id("follow_up") \in Ids
  BY <1>a, <1>c DEF Shapes, Id, Ids, Kinds
<1>e. Append(followUp, Id("follow_up")) \in Seq(Ids)
  BY <1>a, <1>d, AppendTyped DEF Shapes
<1>1. Shapes'
  BY <1>a, <1>c, <1>e DEF Shapes, Locations
<1>2. BatchShape'
  BY <1>a, <1>c DEF BatchShape, Shapes
<1>3. BatchProgress'
  BY <1>a, SameBatch DEF BatchProgress, BatchShape
<1>4. PendingAreUnderWay'
  BY <1>a, SameBatch DEF PendingAreUnderWay, BatchShape
<1>5. Copies'
  BY <1>a, SameBatch, SameEnd DEF Copies, BatchShape, Shapes
<1>6. TurnComplete'
  BY <1>a, SameBatch, SameEnd DEF TurnComplete, BatchShape
<1> QED BY <1>1, <1>2, <1>3, <1>4, <1>5, <1>6 DEF IInv

LEMMA ClearAllQueuesStep ==
    ASSUME IInv, ClearAllQueues PROVE IInv'
<1>a. /\ Shapes /\ BatchShape /\ BatchProgress
      /\ PendingAreUnderWay /\ Copies /\ TurnComplete
  BY DEF IInv
<1> USE DEF Widens, ClearAllQueues, vars, conversation, queues, feed, tools,
           history
<1>b. budget' = budget /\ responses' \in {responses, responses + 1}
  BY <1>a
<1>c. Widens
  BY <1>a, <1>b, EverythingWidens
<1>d. steering \o followUp \in Seq(Ids)
  BY <1>a, ConcatProperties DEF Shapes
<1>e. ToSet(steering \o followUp) \subseteq Ids /\ <<>> \in Seq(Ids)
  BY <1>d, SetTyped, EmptySeq
<1>1. Shapes'
  BY <1>a, <1>c, <1>e DEF Shapes, Locations
<1>2. BatchShape'
  BY <1>a, <1>c DEF BatchShape, Shapes
<1>3. BatchProgress'
  BY <1>a, SameBatch DEF BatchProgress, BatchShape
<1>4. PendingAreUnderWay'
  BY <1>a, SameBatch DEF PendingAreUnderWay, BatchShape
<1>5. Copies'
  BY <1>a, SameBatch, SameEnd DEF Copies, BatchShape, Shapes
<1>6. TurnComplete'
  BY <1>a, SameBatch, SameEnd DEF TurnComplete, BatchShape
<1> QED BY <1>1, <1>2, <1>3, <1>4, <1>5, <1>6 DEF IInv

LEMMA AbortStep ==
    ASSUME IInv, Abort PROVE IInv'
<1>a. /\ Shapes /\ BatchShape /\ BatchProgress
      /\ PendingAreUnderWay /\ Copies /\ TurnComplete
  BY DEF IInv
<1> USE DEF Widens, Abort, Active, vars, conversation, queues, feed, tools,
           history
<1>b. budget' = budget /\ responses' \in {responses, responses + 1}
  BY <1>a
<1>c. Widens
  BY <1>a, <1>b, EverythingWidens
<1>1. Shapes'
  BY <1>a, <1>c DEF Shapes, Locations
<1>2. BatchShape'
  BY <1>a, <1>c DEF BatchShape, Shapes
<1>3. BatchProgress'
  BY <1>a, SameBatch DEF BatchProgress, BatchShape
<1>4. PendingAreUnderWay'
  BY <1>a, SameBatch DEF PendingAreUnderWay, BatchShape
<1>5. Copies'
  BY <1>a, SameBatch, SameEnd DEF Copies, BatchShape, Shapes
<1>6. TurnComplete'
  BY <1>a, SameBatch, SameEnd DEF TurnComplete, BatchShape
<1> QED BY <1>1, <1>2, <1>3, <1>4, <1>5, <1>6 DEF IInv

LEMMA ResetStep ==
    ASSUME IInv, Reset PROVE IInv'
<1>a. /\ Shapes /\ BatchShape /\ BatchProgress
      /\ PendingAreUnderWay /\ Copies /\ TurnComplete
  BY DEF IInv
<1> USE DEF Widens, Reset, Active, vars, conversation, queues, feed, tools,
           history
<1>b. budget' = budget /\ responses' \in {responses, responses + 1}
  BY <1>a
<1>c. Widens
  BY <1>a, <1>b, EverythingWidens
<1>d. steering \o followUp \in Seq(Ids)
  BY <1>a, ConcatProperties DEF Shapes
<1>e. ToSet(steering \o followUp) \subseteq Ids /\ <<>> \in Seq(Ids)
  BY <1>d, SetTyped, EmptySeq
<1>f. UsersIn(transcript) \subseteq Ids
  <2>1. ToSet(transcript) \subseteq Conversation
    BY <1>a, SetTyped DEF Shapes
  <2>2. \A m \in Conversation : m.role = "user" => m.id \in Ids
    BY DEF Conversation, UserMessage, AssistantMessage, ToolResultMessage
  <2> QED BY <2>1, <2>2 DEF UsersIn
<1>1. Shapes'
  BY <1>a, <1>c, <1>e, <1>f DEF Shapes, Locations
<1>2. BatchShape'
  BY <1>a, <1>c DEF BatchShape, Shapes
<1>3. BatchProgress'
  BY <1>a, SameBatch DEF BatchProgress, BatchShape
<1>4. PendingAreUnderWay'
  BY <1>a, SameBatch DEF PendingAreUnderWay, BatchShape
<1>5. Copies'
  BY <1>a, SameBatch, SameEnd DEF Copies, BatchShape, Shapes
<1>6. TurnComplete'
  BY <1>a, SameBatch, SameEnd DEF TurnComplete, BatchShape
<1> QED BY <1>1, <1>2, <1>3, <1>4, <1>5, <1>6 DEF IInv

LEMMA DropErrorStep ==
    ASSUME IInv, DropError PROVE IInv'
<1>a. /\ Shapes /\ BatchShape /\ BatchProgress
      /\ PendingAreUnderWay /\ Copies /\ TurnComplete
  BY DEF IInv
<1> USE DEF Widens, DropError, Active, vars, conversation, queues, feed,
           tools, history
<1>b. budget' = budget /\ responses' \in {responses, responses + 1}
  BY <1>a
<1>c. Widens
  BY <1>a, <1>b, EverythingWidens
<1>d. Front(transcript) \in Seq(Conversation')
  BY <1>c, FrontTyped
<1>1. Shapes'
  BY <1>a, <1>c, <1>d DEF Shapes, Locations
<1>2. BatchShape'
  BY <1>a, <1>c DEF BatchShape, Shapes
<1>3. BatchProgress'
  BY <1>a, SameBatch DEF BatchProgress, BatchShape
<1>4. PendingAreUnderWay'
  BY <1>a, SameBatch DEF PendingAreUnderWay, BatchShape
<1>5. Copies'
  BY <1>a, SameBatch, SameEnd DEF Copies, BatchShape, Shapes
<1>6. TurnComplete'
  BY <1>a, SameBatch, SameEnd DEF TurnComplete, BatchShape
<1> QED BY <1>1, <1>2, <1>3, <1>4, <1>5, <1>6 DEF IInv

LEMMA EmitPromptStep ==
    ASSUME IInv, EmitPrompt PROVE IInv'
<1>a. /\ Shapes /\ BatchShape /\ BatchProgress
      /\ PendingAreUnderWay /\ Copies /\ TurnComplete
  BY DEF IInv
<1> USE DEF Widens, EmitPrompt, vars, conversation, queues, feed, tools,
           history
<1>b. budget' = budget /\ responses' \in {responses, responses + 1}
  BY <1>a
<1>c. Widens
  BY <1>a, <1>b, EverythingWidens
<1>d. Head(prompts) \in Ids /\ Tail(prompts) \in Seq(Ids)
  BY <1>a, TailTyped DEF Shapes
<1>e. UserMessage(Head(prompts)) \in Conversation'
  BY <1>a, <1>c, <1>d, InConversation
<1>f. transcript' \in Seq(Conversation')
  BY <1>c, <1>e, AppendTyped
<1>1. Shapes'
  BY <1>a, <1>c, <1>d, <1>f DEF Shapes, Locations
<1>2. BatchShape'
  BY <1>a, <1>c DEF BatchShape, Shapes
<1>3. BatchProgress'
  BY <1>a, SameBatch DEF BatchProgress, BatchShape
<1>4. PendingAreUnderWay'
  BY <1>a, SameBatch DEF PendingAreUnderWay, BatchShape
<1>5. Copies'
  <2>1. context = transcript \o Users(prompts)
    BY <1>a DEF Copies
  <2>2. transcript' \o Users(prompts') = transcript \o Users(prompts)
    BY <1>a, PromptMoves
  <2> QED BY <2>1, <2>2 DEF Copies
<1>6. TurnComplete'
  BY <1>a, SameBatch, SameEnd DEF TurnComplete, BatchShape
<1> QED BY <1>1, <1>2, <1>3, <1>4, <1>5, <1>6 DEF IInv

LEMMA PollInitialStep ==
    ASSUME IInv, PollInitial PROVE IInv'
<1>a. /\ Shapes /\ BatchShape /\ BatchProgress
      /\ PendingAreUnderWay /\ Copies /\ TurnComplete
  BY DEF IInv
<1> USE DEF Widens, PollInitial, vars, conversation, queues, feed, tools,
           history
<1>b. budget' = budget /\ responses' \in {responses, responses + 1}
  BY <1>a
<1>c. Widens
  BY <1>a, <1>b, EverythingWidens
<1>d. Drained(steering, SteeringMode) \in Seq(Ids) /\ Left(steering, SteeringMode) \in Seq(Ids)
  BY <1>a, DrainTyped DEF Shapes
<1>1. Shapes'
  <2>1. pending' \in Seq(Ids) /\ steering' \in Seq(Ids)
    BY <1>a, <1>d, EmptySeq DEF Shapes
  <2> QED BY <1>a, <1>c, <2>1 DEF Shapes, Locations
<1>2. BatchShape'
  BY <1>a, <1>c DEF BatchShape, Shapes
<1>3. BatchProgress'
  BY <1>a, SameBatch DEF BatchProgress, BatchShape
<1>4. PendingAreUnderWay'
  BY <1>a, SameBatch DEF PendingAreUnderWay, BatchShape
<1>5. Copies'
  <2>1. context = transcript
    BY <1>a, NoUsers DEF Copies
  <2> QED BY <2>1 DEF Copies
<1>6. TurnComplete'
  BY <1>a, SameBatch, SameEnd DEF TurnComplete, BatchShape
<1> QED BY <1>1, <1>2, <1>3, <1>4, <1>5, <1>6 DEF IInv

LEMMA InjectStep ==
    ASSUME IInv, Inject PROVE IInv'
<1>a. /\ Shapes /\ BatchShape /\ BatchProgress
      /\ PendingAreUnderWay /\ Copies /\ TurnComplete
  BY DEF IInv
<1> USE DEF Widens, Inject, vars, conversation, queues, feed, tools, history
<1>b. budget' = budget /\ responses' \in {responses, responses + 1}
  BY <1>a
<1>c. Widens
  BY <1>a, <1>b, EverythingWidens
<1>d. Head(pending) \in Ids /\ Tail(pending) \in Seq(Ids)
  BY <1>a, TailTyped DEF Shapes
<1>e. UserMessage(Head(pending)) \in Conversation'
  BY <1>a, <1>c, <1>d, InConversation
<1>f. transcript' \in Seq(Conversation') /\ context' \in Seq(Conversation')
  BY <1>c, <1>e, AppendTyped
<1>1. Shapes'
  BY <1>a, <1>c, <1>d, <1>f DEF Shapes, Locations
<1>2. BatchShape'
  BY <1>a, <1>c DEF BatchShape, Shapes
<1>3. BatchProgress'
  BY <1>a, SameBatch DEF BatchProgress, BatchShape
<1>4. PendingAreUnderWay'
  BY <1>a, SameBatch DEF PendingAreUnderWay, BatchShape
<1>5. Copies'
  BY <1>a, SameBatch, SameEnd DEF Copies, BatchShape, Shapes
<1>6. TurnComplete'
  BY <1>a, SameBatch, SameEnd DEF TurnComplete, BatchShape
<1> QED BY <1>1, <1>2, <1>3, <1>4, <1>5, <1>6 DEF IInv

LEMMA CallModelStep ==
    ASSUME IInv, CallModel PROVE IInv'
<1>a. /\ Shapes /\ BatchShape /\ BatchProgress
      /\ PendingAreUnderWay /\ Copies /\ TurnComplete
  BY DEF IInv
<1> USE DEF Widens, CallModel, vars, conversation, queues, feed, tools, history
<1>b. budget' = budget /\ responses' \in {responses, responses + 1}
  BY <1>a
<1>c. Widens
  BY <1>a, <1>b, EverythingWidens
<1>1. Shapes'
  BY <1>a, <1>c DEF Shapes, Locations
<1>2. BatchShape'
  BY <1>a, <1>c DEF BatchShape, Shapes
<1>3. BatchProgress'
  BY <1>a, SameBatch DEF BatchProgress, BatchShape
<1>4. PendingAreUnderWay'
  BY <1>a, SameBatch DEF PendingAreUnderWay, BatchShape
<1>5. Copies'
  BY <1>a, SameBatch, SameEnd DEF Copies, BatchShape, Shapes
<1>6. TurnComplete'
  BY <1>a, SameBatch, SameEnd DEF TurnComplete, BatchShape
<1> QED BY <1>1, <1>2, <1>3, <1>4, <1>5, <1>6 DEF IInv

LEMMA RespondStep ==
    ASSUME IInv, NEW stop \in StopReasons, NEW n \in 0..MaxCalls, Respond(stop, n) PROVE IInv'
<1>a. /\ Shapes /\ BatchShape /\ BatchProgress
      /\ PendingAreUnderWay /\ Copies /\ TurnComplete
  BY DEF IInv
<1> USE DEF Widens, Respond, vars, conversation, queues, feed, tools, history
<1>b. budget' = budget /\ responses' \in {responses, responses + 1}
  BY <1>a
<1>c. Widens
  BY <1>a, <1>b, EverythingWidens
<1>d. AssistantMessage(ResponseId, stop, n) \in Conversation'
  BY <1>a, InConversation
<1>e. transcript' \in Seq(Conversation') /\ context' \in Seq(Conversation')
  BY <1>c, <1>d, AppendTyped
<1>f. ASSUME pc' # "tools"
      PROVE  batch' = NoBatch /\ pc' \in {"agent_end", "turn_end"}
  BY <1>f
<1>g. ASSUME pc' = "tools"
      PROVE  \E mode \in {"truncated", "sequential", "parallel"} : batch' = NewBatch(mode, n)
  BY <1>g DEF BatchModesFor
<1>h. n \in Nat /\ n <= MaxCalls /\ pc = "stream" /\ pc' \in {"agent_end", "turn_end", "tools"}
  BY <1>c
<1>i. context = transcript /\ batch = NoBatch
  BY <1>a, <1>h DEF Copies, BatchShape
<1>j. context' = transcript'
  BY <1>i
<1>k. ASSUME pc' = "tools"
      PROVE  /\ batch'.mode \in {"truncated", "sequential", "parallel"}
             /\ batch'.launched = FALSE
             /\ batch'.id = ResponseId /\ batch'.id \in ResponseIds'
             /\ batch' = [mode |-> batch'.mode, id |-> batch'.id,
                          calls |-> batch'.calls, launched |-> batch'.launched]
             /\ batch'.calls \in Seq(CallStates) /\ Len(batch'.calls) = n
             /\ Calls' = 1..n /\ \A k \in 1..n : batch'.calls[k] = "new"
             /\ \A state : state # "new" => In(state)' = {}
  <2>1. PICK mode \in {"truncated", "sequential", "parallel"} : batch' = NewBatch(mode, n)
    BY <1>g, <1>k
  <2> QED BY <1>a, <1>h, <2>1, BatchBegins
<1>1. Shapes'
  <2>1. /\ budget' = budget /\ responses' = responses + 1 /\ accepted' = accepted
        /\ steering' = steering /\ followUp' = followUp /\ prompts' = prompts
        /\ pending' = pending /\ skipPoll' = skipPoll /\ aborted' = aborted
        /\ more' = FALSE /\ gone' = gone /\ pendingCalls' = pendingCalls
        /\ stray' = stray
    OBVIOUS
  <2>2. pc' \in Locations
    BY <1>h DEF Locations
  <2>3. budget' \in Budgets /\ responses' \in Nat /\ accepted' \in 0..MaxMessages'
    BY <1>a, <1>c, <2>1 DEF Shapes
  <2>4. /\ steering' \in Seq(Ids') /\ followUp' \in Seq(Ids')
        /\ prompts' \in Seq(Ids') /\ pending' \in Seq(Ids') /\ gone' \subseteq Ids'
        /\ pendingCalls' \subseteq CallIds' /\ stray' \subseteq CallIds'
    BY <1>a, <1>c, <2>1 DEF Shapes
  <2>5. skipPoll' \in BOOLEAN /\ aborted' \in BOOLEAN /\ more' \in BOOLEAN
    BY <1>a, <2>1 DEF Shapes
  <2> QED BY <1>e, <2>2, <2>3, <2>4, <2>5 DEF Shapes
<1>2. BatchShape'
  <2>1. CASE pc' # "tools"
    BY <1>c, <1>f, <2>1, DroppedShape
  <2>2. CASE pc' = "tools"
    BY <1>c, <1>h, <1>k, <2>2 DEF BatchShape, BatchModes
  <2> QED BY <2>1, <2>2
<1>3. BatchProgress'
  <2>1. CASE pc' # "tools"
    BY <1>f, <2>1, BatchDropped DEF BatchProgress
  <2>2. CASE pc' = "tools"
    BY <1>k, <2>2 DEF BatchProgress, In
  <2> QED BY <2>1, <2>2
<1>4. PendingAreUnderWay'
  <2>1. pendingCalls = {}
    BY <1>a, <1>h, <1>i, EmptyBatch DEF PendingAreUnderWay
  <2> QED BY <2>1 DEF PendingAreUnderWay
<1>5. Copies'
  <2>1. CASE pc' # "tools"
    BY <1>f, <1>j, <2>1 DEF Copies
  <2>2. CASE pc' = "tools"
    <3>1. /\ Len(transcript) \in Nat /\ Len(transcript') = Len(transcript) + 1
          /\ transcript'[Len(transcript')] = AssistantMessage(ResponseId, stop, n)
      BY <1>c, <1>d, AppendProperties, LenProperties
    <3>2. EndsWith(0)'
      BY <1>k, <2>2, <3>1 DEF EndsWith, AssistantMessage
    <3>3. SubSeq(transcript', 1, Len(transcript') - 0) = transcript'
      BY <1>e, <3>1
    <3>4. In("reported")' = 1..0 /\ 0 \in 0..Len(batch'.calls)
      BY <1>h, <1>k, <2>2
    <3> QED BY <1>j, <2>2, <3>2, <3>3, <3>4 DEF Copies
  <2> QED BY <2>1, <2>2
<1>6. TurnComplete'
  BY <1>f, BatchDropped DEF TurnComplete
<1> QED BY <1>1, <1>2, <1>3, <1>4, <1>5, <1>6 DEF IInv

LEMMA FailTruncatedStep ==
    ASSUME IInv, NEW k \in 1..MaxCalls, FailTruncated(k) PROVE IInv'
<1>a. /\ Shapes /\ BatchShape /\ BatchProgress
      /\ PendingAreUnderWay /\ Copies /\ TurnComplete
  BY DEF IInv
<1> USE DEF Moves, Widens, FailTruncated, vars, conversation, queues, feed,
           tools, history
<1>b. budget' = budget /\ responses' \in {responses, responses + 1}
  BY <1>a
<1>c. Widens
  BY <1>a, <1>b, EverythingWidens
<1>d. pc = "tools" /\ pc' = "tools" /\ batch.mode # "none" /\ batch.id \in ResponseIds
  BY <1>a DEF BatchShape
<1>e. k \in Calls /\ "reported" \in CallStates
  BY DEF In, CallStates
<1>f. Moves(k, "reported")
  BY <1>a, <1>e, CallMoves
<1>g. Calls = 1..Len(batch.calls) /\ Len(batch.calls) \in Nat
  BY <1>a, CallsAre
<1>h. PICK n \in 0..Len(batch.calls) : In("reported") = 1..n
  BY <1>a, <1>d DEF Copies
<1>i. In("reported") = 1..(k - 1) /\ In("reported")' = In("reported") \cup {k}
  <2>1. \A j \in 1..(k - 1) : j \in In("reported")
    BY <1>a, <1>d, <1>e, <1>g, <1>h DEF BatchProgress, In
  <2>2. k \notin In("reported")
    BY DEF In
  <2>3. n = k - 1
    <3>1. n \in Nat /\ k \in Nat /\ k >= 1 /\ k \notin 1..n
      BY <1>e, <1>g, <1>h, <2>2
    <3>2. k - 1 >= 1 => k - 1 \in 1..n
      BY <1>h, <2>1, <3>1
    <3> QED BY <3>1, <3>2
  <2> QED BY <1>f, <1>h, <2>3
<1>j. transcript' \in Seq(Conversation')
  <2>1. k \in 1..MaxCalls
    BY <1>a, <1>e, <1>g DEF BatchShape
  <2>2. ToolResultMessage(batch.id, k) \in Conversation'
    BY <1>a, <1>c, <1>d, <2>1, InConversation
  <2> QED BY <1>c, <2>2, AppendTyped
<1>1. Shapes'
  BY <1>a, <1>c, <1>d, <1>j DEF Shapes, Locations
<1>2. BatchShape'
  BY <1>a, <1>c, <1>d, <1>f DEF BatchShape
<1>3. BatchProgress'
  BY <1>a, <1>d, <1>e, <1>f, <1>g DEF BatchProgress, In
<1>4. PendingAreUnderWay'
  BY <1>a, <1>d, <1>f DEF PendingAreUnderWay, In
<1>5. Copies'
  BY <1>a, <1>d, <1>e, <1>f, <1>1, <1>i, NextTold
<1>6. TurnComplete'
  BY <1>d DEF TurnComplete
<1> QED BY <1>1, <1>2, <1>3, <1>4, <1>5, <1>6 DEF IInv

LEMMA ToolStartStep ==
    ASSUME IInv, NEW k \in 1..MaxCalls, ToolStart(k) PROVE IInv'
<1>a. /\ Shapes /\ BatchShape /\ BatchProgress
      /\ PendingAreUnderWay /\ Copies /\ TurnComplete
  BY DEF IInv
<1> USE DEF Moves, Widens, ToolStart, vars, conversation, queues, feed, tools,
           history
<1>b. budget' = budget /\ responses' \in {responses, responses + 1}
  BY <1>a
<1>c. Widens
  BY <1>a, <1>b, EverythingWidens
<1>d. pc = "tools" /\ pc' = "tools" /\ batch.mode # "none" /\ batch.id \in ResponseIds
  BY <1>a DEF BatchShape
<1>e. k \in Calls /\ "preparing" \in CallStates
  BY DEF In, CallStates
<1>f. Moves(k, "preparing")
  BY <1>a, <1>e, CallMoves
<1>g. Calls = 1..Len(batch.calls) /\ Len(batch.calls) \in Nat
  BY <1>a, CallsAre
<1>h. PICK n \in 0..Len(batch.calls) : In("reported") = 1..n
  BY <1>a, <1>d DEF Copies
<1>1. Shapes'
  BY <1>a, <1>c, <1>d DEF Shapes, Locations, CallId, CallIds
<1>2. BatchShape'
  BY <1>a, <1>c, <1>d, <1>f DEF BatchShape
<1>3. BatchProgress'
  BY <1>a, <1>d, <1>e, <1>f, <1>g, <1>h DEF BatchProgress, In, PreviousDone
<1>4. PendingAreUnderWay'
  BY <1>a, <1>d, <1>f DEF PendingAreUnderWay, In
<1>5. Copies'
  <2>1. In("reported")' = In("reported")
    BY <1>f DEF In
  <2> QED BY <1>a, <1>d, <1>f, <2>1, NothingTold
<1>6. TurnComplete'
  BY <1>d DEF TurnComplete
<1> QED BY <1>1, <1>2, <1>3, <1>4, <1>5, <1>6 DEF IInv

LEMMA PrepareImmediateStep ==
    ASSUME IInv, NEW k \in 1..MaxCalls, PrepareImmediate(k) PROVE IInv'
<1>a. /\ Shapes /\ BatchShape /\ BatchProgress
      /\ PendingAreUnderWay /\ Copies /\ TurnComplete
  BY DEF IInv
<1> USE DEF Moves, Widens, PrepareImmediate, vars, conversation, queues, feed,
           tools, history
<1>b. budget' = budget /\ responses' \in {responses, responses + 1}
  BY <1>a
<1>c. Widens
  BY <1>a, <1>b, EverythingWidens
<1>d. pc = "tools" /\ pc' = "tools" /\ batch.mode # "none" /\ batch.id \in ResponseIds
  BY <1>a DEF BatchShape
<1>e. k \in Calls /\ "ended" \in CallStates
  BY DEF In, CallStates
<1>f. Moves(k, "ended")
  BY <1>a, <1>e, CallMoves
<1>g. Calls = 1..Len(batch.calls) /\ Len(batch.calls) \in Nat
  BY <1>a, CallsAre
<1>h. PICK n \in 0..Len(batch.calls) : In("reported") = 1..n
  BY <1>a, <1>d DEF Copies
<1>1. Shapes'
  BY <1>a, <1>c, <1>d DEF Shapes, Locations, CallId, CallIds
<1>2. BatchShape'
  BY <1>a, <1>c, <1>d, <1>f DEF BatchShape
<1>3. BatchProgress'
  BY <1>a, <1>d, <1>e, <1>f, <1>g, <1>h DEF BatchProgress, In, PreviousDone
<1>4. PendingAreUnderWay'
  BY <1>a, <1>d, <1>f DEF PendingAreUnderWay, In
<1>5. Copies'
  <2>1. In("reported")' = In("reported")
    BY <1>f DEF In
  <2> QED BY <1>a, <1>d, <1>f, <2>1, NothingTold
<1>6. TurnComplete'
  BY <1>d DEF TurnComplete
<1> QED BY <1>1, <1>2, <1>3, <1>4, <1>5, <1>6 DEF IInv

LEMMA PreparedStep ==
    ASSUME IInv, NEW k \in 1..MaxCalls, Prepared(k) PROVE IInv'
<1>a. /\ Shapes /\ BatchShape /\ BatchProgress
      /\ PendingAreUnderWay /\ Copies /\ TurnComplete
  BY DEF IInv
<1> USE DEF Moves, Widens, Prepared, vars, conversation, queues, feed, tools,
           history
<1>b. budget' = budget /\ responses' \in {responses, responses + 1}
  BY <1>a
<1>c. Widens
  BY <1>a, <1>b, EverythingWidens
<1>s. PICK s \in {"executing", "prepared"} : batch' = [batch EXCEPT !.calls[k] = s]
  OBVIOUS
<1>d. pc = "tools" /\ pc' = "tools" /\ batch.mode # "none" /\ batch.id \in ResponseIds
  BY <1>a DEF BatchShape
<1>e. k \in Calls /\ s \in CallStates
  BY DEF In, CallStates
<1>f. Moves(k, s)
  BY <1>a, <1>e, <1>s, CallMoves
<1>g. Calls = 1..Len(batch.calls) /\ Len(batch.calls) \in Nat
  BY <1>a, CallsAre
<1>h. PICK n \in 0..Len(batch.calls) : In("reported") = 1..n
  BY <1>a, <1>d DEF Copies
<1>1. Shapes'
  BY <1>a, <1>c, <1>d DEF Shapes, Locations, CallId, CallIds
<1>2. BatchShape'
  BY <1>a, <1>c, <1>d, <1>f DEF BatchShape
<1>3. BatchProgress'
  BY <1>a, <1>d, <1>e, <1>f, <1>g, <1>h DEF BatchProgress, In
<1>4. PendingAreUnderWay'
  BY <1>a, <1>d, <1>f DEF PendingAreUnderWay, In
<1>5. Copies'
  <2>1. In("reported")' = In("reported")
    BY <1>f DEF In
  <2> QED BY <1>a, <1>d, <1>f, <2>1, NothingTold
<1>6. TurnComplete'
  BY <1>d DEF TurnComplete
<1> QED BY <1>1, <1>2, <1>3, <1>4, <1>5, <1>6 DEF IInv

LEMMA LaunchAllStep ==
    ASSUME IInv, LaunchAll PROVE IInv'
<1>a. /\ Shapes /\ BatchShape /\ BatchProgress
      /\ PendingAreUnderWay /\ Copies /\ TurnComplete
  BY DEF IInv
<1> USE DEF Launches, Widens, LaunchAll, vars, conversation, queues, feed,
           tools, history
<1>b. budget' = budget /\ responses' \in {responses, responses + 1}
  BY <1>a
<1>c. Widens
  BY <1>a, <1>b, EverythingWidens
<1>d. pc = "tools" /\ pc' = "tools" /\ batch.mode # "none" /\ batch.id \in ResponseIds
  BY <1>a DEF BatchShape
<1>f. Launches
  BY <1>a, CallsLaunched
<1>1. Shapes'
  BY <1>a, <1>c DEF Shapes, Locations
<1>2. BatchShape'
  BY <1>a, <1>c, <1>d, <1>f DEF BatchShape
<1>3. BatchProgress'
  BY <1>f DEF BatchProgress
<1>4. PendingAreUnderWay'
  BY <1>a, <1>d, <1>f DEF PendingAreUnderWay
<1>5. Copies'
  BY <1>a, <1>d, <1>f, NothingTold
<1>6. TurnComplete'
  BY <1>d DEF TurnComplete
<1> QED BY <1>1, <1>2, <1>3, <1>4, <1>5, <1>6 DEF IInv

LEMMA ToolEndsStep ==
    ASSUME IInv, NEW k \in 1..MaxCalls, NEW terminate \in BOOLEAN, ToolEnds(k, terminate) PROVE IInv'
<1>a. /\ Shapes /\ BatchShape /\ BatchProgress
      /\ PendingAreUnderWay /\ Copies /\ TurnComplete
  BY DEF IInv
<1> USE DEF Moves, Widens, ToolEnds, vars, conversation, queues, feed, tools,
           history
<1>b. budget' = budget /\ responses' \in {responses, responses + 1}
  BY <1>a
<1>c. Widens
  BY <1>a, <1>b, EverythingWidens
<1>d. pc = "tools" /\ pc' = "tools" /\ batch.mode # "none" /\ batch.id \in ResponseIds
  BY <1>a DEF BatchShape
<1>e. k \in Calls /\ "ended" \in CallStates
  BY DEF In, CallStates
<1>f. Moves(k, "ended")
  BY <1>a, <1>e, CallMoves
<1>g. Calls = 1..Len(batch.calls) /\ Len(batch.calls) \in Nat
  BY <1>a, CallsAre
<1>h. PICK n \in 0..Len(batch.calls) : In("reported") = 1..n
  BY <1>a, <1>d DEF Copies
<1>1. Shapes'
  BY <1>a, <1>c, <1>d DEF Shapes, Locations, CallId, CallIds
<1>2. BatchShape'
  BY <1>a, <1>c, <1>d, <1>f DEF BatchShape
<1>3. BatchProgress'
  BY <1>a, <1>d, <1>e, <1>f, <1>g, <1>h DEF BatchProgress, In, PreviousDone
<1>4. PendingAreUnderWay'
  BY <1>a, <1>d, <1>f DEF PendingAreUnderWay, In
<1>5. Copies'
  <2>1. In("reported")' = In("reported")
    BY <1>f DEF In
  <2> QED BY <1>a, <1>d, <1>f, <2>1, NothingTold
<1>6. TurnComplete'
  BY <1>d DEF TurnComplete
<1> QED BY <1>1, <1>2, <1>3, <1>4, <1>5, <1>6 DEF IInv

LEMMA EmitResultStep ==
    ASSUME IInv, NEW k \in 1..MaxCalls, EmitResult(k) PROVE IInv'
<1>a. /\ Shapes /\ BatchShape /\ BatchProgress
      /\ PendingAreUnderWay /\ Copies /\ TurnComplete
  BY DEF IInv
<1> USE DEF Moves, Widens, EmitResult, vars, conversation, queues, feed,
           tools, history
<1>b. budget' = budget /\ responses' \in {responses, responses + 1}
  BY <1>a
<1>c. Widens
  BY <1>a, <1>b, EverythingWidens
<1>d. pc = "tools" /\ pc' = "tools" /\ batch.mode # "none" /\ batch.id \in ResponseIds
  BY <1>a DEF BatchShape
<1>e. k \in Calls /\ "reported" \in CallStates
  BY DEF In, CallStates, Reportable
<1>f. Moves(k, "reported")
  BY <1>a, <1>e, CallMoves
<1>g. Calls = 1..Len(batch.calls) /\ Len(batch.calls) \in Nat
  BY <1>a, CallsAre
<1>h. PICK n \in 0..Len(batch.calls) : In("reported") = 1..n
  BY <1>a, <1>d DEF Copies
<1>i. In("reported") = 1..(k - 1) /\ In("reported")' = In("reported") \cup {k}
  <2>1. \A j \in 1..(k - 1) : j \in In("reported")
    BY <1>a, <1>d, <1>e, <1>g DEF BatchProgress, BatchShape, BatchModes, In, Reportable
  <2>2. k \notin In("reported")
    BY DEF In, Reportable
  <2>3. n = k - 1
    <3>1. n \in Nat /\ k \in Nat /\ k >= 1 /\ k \notin 1..n
      BY <1>e, <1>g, <1>h, <2>2
    <3>2. k - 1 >= 1 => k - 1 \in 1..n
      BY <1>h, <2>1, <3>1
    <3> QED BY <3>1, <3>2
  <2> QED BY <1>f, <1>h, <2>3
<1>j. transcript' \in Seq(Conversation')
  <2>1. k \in 1..MaxCalls
    BY <1>a, <1>e, <1>g DEF BatchShape
  <2>2. ToolResultMessage(batch.id, k) \in Conversation'
    BY <1>a, <1>c, <1>d, <2>1, InConversation
  <2> QED BY <1>c, <2>2, AppendTyped
<1>1. Shapes'
  BY <1>a, <1>c, <1>d, <1>j DEF Shapes, Locations
<1>2. BatchShape'
  BY <1>a, <1>c, <1>d, <1>f DEF BatchShape
<1>3. BatchProgress'
  BY <1>a, <1>d, <1>e, <1>f, <1>g, <1>h DEF BatchProgress, In, Reportable
<1>4. PendingAreUnderWay'
  BY <1>a, <1>d, <1>f DEF PendingAreUnderWay, In, Reportable
<1>5. Copies'
  BY <1>a, <1>d, <1>e, <1>f, <1>1, <1>i, NextTold
<1>6. TurnComplete'
  BY <1>d DEF TurnComplete
<1> QED BY <1>1, <1>2, <1>3, <1>4, <1>5, <1>6 DEF IInv

LEMMA BatchDoneStep ==
    ASSUME IInv, BatchDone PROVE IInv'
<1>a. /\ Shapes /\ BatchShape /\ BatchProgress
      /\ PendingAreUnderWay /\ Copies /\ TurnComplete
  BY DEF IInv
<1> USE DEF Widens, BatchDone, vars, conversation, queues, feed, tools, history
<1>b. budget' = budget /\ responses' \in {responses, responses + 1}
  BY <1>a
<1>c. Widens
  BY <1>a, <1>b, EverythingWidens
<1>d. PICK n \in 0..Len(batch.calls) :
          /\ In("reported") = 1..n /\ EndsWith(n)
          /\ context = SubSeq(transcript, 1, Len(transcript) - n)
  BY <1>a DEF Copies
<1>e. n \in Nat /\ Cardinality(1..n) = n
  BY <1>a, CallsAre, FS_Interval
<1>f. context' = context \o [k \in 1..n |-> ToolResultMessage(batch.id, k)]
  BY <1>d, <1>e
<1>g. context' = transcript
  BY <1>a, <1>d, <1>e, <1>f, ResultsJoin
<1>1. Shapes'
  BY <1>a, <1>c, <1>g DEF Shapes, Locations
<1>2. BatchShape'
  BY <1>a, <1>c DEF BatchShape, Shapes
<1>3. BatchProgress'
  BY <1>a, SameBatch DEF BatchProgress, BatchShape
<1>4. PendingAreUnderWay'
  BY <1>a, SameBatch DEF PendingAreUnderWay, BatchShape
<1>5. Copies'
  BY <1>g DEF Copies
<1>6. TurnComplete'
  <2>1. Calls = In("reported") \cup In("new") /\ (aborted \/ Calls = In("reported"))
    BY DEF BatchOver, Broken, In
  <2> QED BY <1>d, <2>1, SameBatch, SameEnd DEF TurnComplete
<1> QED BY <1>1, <1>2, <1>3, <1>4, <1>5, <1>6 DEF IInv

LEMMA PollSteeringStep ==
    ASSUME IInv, PollSteering PROVE IInv'
<1>a. /\ Shapes /\ BatchShape /\ BatchProgress
      /\ PendingAreUnderWay /\ Copies /\ TurnComplete
  BY DEF IInv
<1> USE DEF Widens, PollSteering, vars, conversation, queues, feed, tools,
           history
<1>b. budget' = budget /\ responses' \in {responses, responses + 1}
  BY <1>a
<1>c. Widens
  BY <1>a, <1>b, EverythingWidens
<1>d. Drained(steering, SteeringMode) \in Seq(Ids) /\ Left(steering, SteeringMode) \in Seq(Ids)
  BY <1>a, DrainTyped DEF Shapes
<1>1. Shapes'
  BY <1>a, <1>c, <1>d DEF Shapes, Locations
<1>2. BatchShape'
  BY <1>c, DroppedShape
<1>3. BatchProgress'
  BY BatchDropped DEF BatchProgress
<1>4. PendingAreUnderWay'
  <2>1. pendingCalls = {}
    <3>1. In("preparing") = {} /\ In("prepared") = {} /\ In("executing") = {}
      <4>1. CASE batch.mode = "none"
        BY <1>a, <4>1 DEF BatchShape, In, Calls
      <4>2. CASE batch.mode # "none"
        BY <1>a, <4>2 DEF TurnComplete, In
      <4> QED BY <4>1, <4>2
    <3> QED BY <1>a, <3>1 DEF PendingAreUnderWay
  <2> QED BY <2>1 DEF PendingAreUnderWay
<1>5. Copies'
  BY <1>a DEF Copies
<1>6. TurnComplete'
  BY BatchDropped DEF TurnComplete
<1> QED BY <1>1, <1>2, <1>3, <1>4, <1>5, <1>6 DEF IInv

LEMMA PollFollowUpStep ==
    ASSUME IInv, PollFollowUp PROVE IInv'
<1>a. /\ Shapes /\ BatchShape /\ BatchProgress
      /\ PendingAreUnderWay /\ Copies /\ TurnComplete
  BY DEF IInv
<1> USE DEF Widens, PollFollowUp, vars, conversation, queues, feed, tools,
           history
<1>b. budget' = budget /\ responses' \in {responses, responses + 1}
  BY <1>a
<1>c. Widens
  BY <1>a, <1>b, EverythingWidens
<1>d. Drained(followUp, FollowUpMode) \in Seq(Ids) /\ Left(followUp, FollowUpMode) \in Seq(Ids)
  BY <1>a, DrainTyped DEF Shapes
<1>1. Shapes'
  BY <1>a, <1>c, <1>d DEF Shapes, Locations
<1>2. BatchShape'
  BY <1>a, <1>c DEF BatchShape, Shapes
<1>3. BatchProgress'
  BY <1>a, SameBatch DEF BatchProgress, BatchShape
<1>4. PendingAreUnderWay'
  BY <1>a, SameBatch DEF PendingAreUnderWay, BatchShape
<1>5. Copies'
  BY <1>a, SameBatch, SameEnd DEF Copies, BatchShape, Shapes
<1>6. TurnComplete'
  BY <1>a, SameBatch, SameEnd DEF TurnComplete, BatchShape
<1> QED BY <1>1, <1>2, <1>3, <1>4, <1>5, <1>6 DEF IInv

LEMMA FinishRunStep ==
    ASSUME IInv, FinishRun PROVE IInv'
<1>a. /\ Shapes /\ BatchShape /\ BatchProgress
      /\ PendingAreUnderWay /\ Copies /\ TurnComplete
  BY DEF IInv
<1> USE DEF Widens, FinishRun, vars, conversation, queues, feed, tools, history
<1>b. budget' = budget /\ responses' \in {responses, responses + 1}
  BY <1>a
<1>c. Widens
  BY <1>a, <1>b, EverythingWidens
<1>1. Shapes'
  BY <1>a, <1>c DEF Shapes, Locations
<1>2. BatchShape'
  BY <1>a, <1>c DEF BatchShape, Shapes
<1>3. BatchProgress'
  BY <1>a, SameBatch DEF BatchProgress, BatchShape
<1>4. PendingAreUnderWay'
  BY <1>a, SameBatch DEF PendingAreUnderWay, BatchShape
<1>5. Copies'
  BY <1>a, SameBatch, SameEnd DEF Copies, BatchShape, Shapes
<1>6. TurnComplete'
  BY <1>a, SameBatch, SameEnd DEF TurnComplete, BatchShape
<1> QED BY <1>1, <1>2, <1>3, <1>4, <1>5, <1>6 DEF IInv

LEMMA FailStep ==
    ASSUME IInv, Fail PROVE IInv'
<1>a. /\ Shapes /\ BatchShape /\ BatchProgress
      /\ PendingAreUnderWay /\ Copies /\ TurnComplete
  BY DEF IInv
<1> USE DEF Widens, Fail, Abandon, vars, conversation, queues, feed, tools,
           history
<1>b. budget' = budget /\ responses' \in {responses, responses + 1}
  BY <1>a
<1>c. Widens
  BY <1>a, <1>b, EverythingWidens
<1>d. prompts \o pending \in Seq(Ids)
  BY <1>a, ConcatProperties DEF Shapes
<1>e. ToSet(prompts \o pending) \subseteq Ids /\ <<>> \in Seq(Ids)
  BY <1>d, SetTyped, EmptySeq
<1>1. Shapes'
  BY <1>a, <1>c, <1>e DEF Shapes, Locations
<1>2. BatchShape'
  BY <1>c, DroppedShape
<1>3. BatchProgress'
  BY BatchDropped DEF BatchProgress
<1>4. PendingAreUnderWay'
  BY <1>a, SameBatch DEF PendingAreUnderWay, BatchShape
<1>5. Copies'
  BY <1>a, SameBatch, SameEnd DEF Copies, BatchShape, Shapes
<1>6. TurnComplete'
  BY <1>a, SameBatch, SameEnd DEF TurnComplete, BatchShape
<1> QED BY <1>1, <1>2, <1>3, <1>4, <1>5, <1>6 DEF IInv

LEMMA FailExecutingStep ==
    ASSUME IInv, NEW k \in 1..MaxCalls, FailExecuting(k) PROVE IInv'
<1>a. /\ Shapes /\ BatchShape /\ BatchProgress
      /\ PendingAreUnderWay /\ Copies /\ TurnComplete
  BY DEF IInv
<1> USE DEF Widens, FailExecuting, Abandon, vars, conversation, queues, feed,
           tools, history
<1>b. budget' = budget /\ responses' \in {responses, responses + 1}
  BY <1>a
<1>c. Widens
  BY <1>a, <1>b, EverythingWidens
<1>d. prompts \o pending \in Seq(Ids)
  BY <1>a, ConcatProperties DEF Shapes
<1>e. ToSet(prompts \o pending) \subseteq Ids /\ <<>> \in Seq(Ids)
  BY <1>d, SetTyped, EmptySeq
<1>f. stray' \subseteq CallIds
  <2>1. batch.id \in ResponseIds
    BY <1>a DEF BatchShape
  <2>2. In("executing") \subseteq 1..MaxCalls
    BY <1>a, <1>c, CallsAre DEF BatchShape
  <2> QED BY <1>a, <2>1, <2>2 DEF Shapes, CallId, CallIds
<1>1. Shapes'
  BY <1>a, <1>c, <1>e, <1>f DEF Shapes, Locations
<1>2. BatchShape'
  BY <1>c, DroppedShape
<1>3. BatchProgress'
  BY BatchDropped DEF BatchProgress
<1>4. PendingAreUnderWay'
  BY <1>a, SameBatch DEF PendingAreUnderWay, BatchShape
<1>5. Copies'
  BY <1>a, SameBatch, SameEnd DEF Copies, BatchShape, Shapes
<1>6. TurnComplete'
  BY <1>a, SameBatch, SameEnd DEF TurnComplete, BatchShape
<1> QED BY <1>1, <1>2, <1>3, <1>4, <1>5, <1>6 DEF IInv

LEMMA StrayEndsStep ==
    ASSUME IInv, NEW c, StrayEnds(c) PROVE IInv'
<1>a. /\ Shapes /\ BatchShape /\ BatchProgress
      /\ PendingAreUnderWay /\ Copies /\ TurnComplete
  BY DEF IInv
<1> USE DEF Widens, StrayEnds, vars, conversation, queues, feed, tools, history
<1>b. budget' = budget /\ responses' \in {responses, responses + 1}
  BY <1>a
<1>c. Widens
  BY <1>a, <1>b, EverythingWidens
<1>1. Shapes'
  BY <1>a, <1>c DEF Shapes, Locations
<1>2. BatchShape'
  BY <1>a, <1>c DEF BatchShape, Shapes
<1>3. BatchProgress'
  BY <1>a, SameBatch DEF BatchProgress, BatchShape
<1>4. PendingAreUnderWay'
  BY <1>a, SameBatch DEF PendingAreUnderWay, BatchShape
<1>5. Copies'
  BY <1>a, SameBatch, SameEnd DEF Copies, BatchShape, Shapes
<1>6. TurnComplete'
  BY <1>a, SameBatch, SameEnd DEF TurnComplete, BatchShape
<1> QED BY <1>1, <1>2, <1>3, <1>4, <1>5, <1>6 DEF IInv

LEMMA ReportFailureStep ==
    ASSUME IInv, ReportFailure PROVE IInv'
<1>a. /\ Shapes /\ BatchShape /\ BatchProgress
      /\ PendingAreUnderWay /\ Copies /\ TurnComplete
  BY DEF IInv
<1> USE DEF Widens, ReportFailure, vars, conversation, queues, feed, tools,
           history
<1>b. budget' = budget /\ responses' \in {responses, responses + 1}
  BY <1>a
<1>c. Widens
  BY <1>a, <1>b, EverythingWidens
<1>d. transcript' \in Seq(Conversation')
  <2>1. 0 \in 0..MaxCalls /\ {"aborted", "error"} \subseteq StopReasons
    BY <1>c DEF StopReasons
  <2>2. PICK stop \in StopReasons :
           transcript' = Append(transcript, AssistantMessage(ResponseId, stop, 0))
    BY <2>1
  <2>3. AssistantMessage(ResponseId, stop, 0) \in Conversation'
    BY <1>a, <2>1, InConversation
  <2> QED BY <1>c, <2>2, <2>3, AppendTyped
<1>1. Shapes'
  BY <1>a, <1>c, <1>d DEF Shapes, Locations
<1>2. BatchShape'
  BY <1>a, <1>c DEF BatchShape, Shapes
<1>3. BatchProgress'
  BY <1>a, SameBatch DEF BatchProgress, BatchShape
<1>4. PendingAreUnderWay'
  BY <1>a, SameBatch DEF PendingAreUnderWay, BatchShape
<1>5. Copies'
  BY <1>a, SameBatch, SameEnd DEF Copies, BatchShape, Shapes
<1>6. TurnComplete'
  BY <1>a, SameBatch, SameEnd DEF TurnComplete, BatchShape
<1> QED BY <1>1, <1>2, <1>3, <1>4, <1>5, <1>6 DEF IInv

LEMMA ReportFailsStep ==
    ASSUME IInv, ReportFails PROVE IInv'
<1>a. /\ Shapes /\ BatchShape /\ BatchProgress
      /\ PendingAreUnderWay /\ Copies /\ TurnComplete
  BY DEF IInv
<1> USE DEF Widens, ReportFails, vars, conversation, queues, feed, tools,
           history
<1>b. budget' = budget /\ responses' \in {responses, responses + 1}
  BY <1>a
<1>c. Widens
  BY <1>a, <1>b, EverythingWidens
<1>1. Shapes'
  BY <1>a, <1>c DEF Shapes, Locations
<1>2. BatchShape'
  BY <1>a, <1>c DEF BatchShape, Shapes
<1>3. BatchProgress'
  BY <1>a, SameBatch DEF BatchProgress, BatchShape
<1>4. PendingAreUnderWay'
  BY <1>a, SameBatch DEF PendingAreUnderWay, BatchShape
<1>5. Copies'
  BY <1>a, SameBatch, SameEnd DEF Copies, BatchShape, Shapes
<1>6. TurnComplete'
  BY <1>a, SameBatch, SameEnd DEF TurnComplete, BatchShape
<1> QED BY <1>1, <1>2, <1>3, <1>4, <1>5, <1>6 DEF IInv

LEMMA StutterStep ==
    ASSUME IInv, UNCHANGED vars PROVE IInv'
<1> USE DEF vars, conversation, queues, feed, tools, history
<1>a. /\ Shapes /\ BatchShape /\ BatchProgress
      /\ PendingAreUnderWay /\ Copies /\ TurnComplete
  BY DEF IInv
<1>b. Ids' = Ids /\ MaxMessages' = MaxMessages /\ MaxCalls' = MaxCalls
  BY DEF Ids, MaxMessages, MaxCalls
<1>c. ResponseIds' = ResponseIds /\ CallIds' = CallIds /\ Conversation' = Conversation
  BY <1>b DEF ResponseIds, CallIds, Conversation
<1>1. Shapes'
  BY <1>a, <1>b, <1>c DEF Shapes
<1>2. BatchShape'
  BY <1>a, <1>b, <1>c DEF BatchShape
<1>3. BatchProgress'
  BY <1>a, SameBatch DEF BatchProgress
<1>4. PendingAreUnderWay'
  BY <1>a, SameBatch DEF PendingAreUnderWay
<1>5. Copies'
  BY <1>a, SameBatch, SameEnd DEF Copies
<1>6. TurnComplete'
  BY <1>a, SameBatch, SameEnd DEF TurnComplete
<1> QED BY <1>1, <1>2, <1>3, <1>4, <1>5, <1>6 DEF IInv

LEMMA CallerStep ==
    ASSUME IInv, Callers PROVE IInv'
BY PromptStep, ContinueWithSteeringStep, ContinueWithFollowUpStep,
   ContinueTranscriptStep, SteerStep, FollowUpStep, ClearAllQueuesStep,
   AbortStep, ResetStep, DropErrorStep DEF Callers

LEMMA ToolsStep ==
    ASSUME IInv, NEW k \in 1..MaxCalls, ToolStep(k) PROVE IInv'
BY FailTruncatedStep, ToolStartStep, PrepareImmediateStep, PreparedStep,
   EmitResultStep, ToolEndsStep DEF ToolStep

LEMMA LoopStep ==
    ASSUME IInv, Loop PROVE IInv'
<1>1. CASE Response
  BY <1>1, RespondStep DEF Response
<1>2. CASE \E k \in 1..MaxCalls : ToolStep(k)
  BY <1>2, ToolsStep
<1> QED
  BY <1>1, <1>2, EmitPromptStep, PollInitialStep, InjectStep, CallModelStep,
     LaunchAllStep, BatchDoneStep, PollSteeringStep, PollFollowUpStep,
     ReportFailureStep, FinishRunStep DEF Loop

LEMMA FailureStep ==
    ASSUME IInv, Failure PROVE IInv'
BY FailStep, ReportFailsStep, FailExecutingStep DEF Failure

-----------------------------------------------------------------------------
LEMMA Initially ==
    ASSUME Init PROVE IInv
<1> USE DEF Init
<1>1. Calls = {} /\ \A state : In(state) = {}
  BY EmptyBatch
<1>2. MaxMessages \in Nat /\ MaxCalls \in Nat
  BY AgentAssumption DEF MaxMessages, MaxCalls
<1>3. /\ <<>> \in Seq(Conversation) /\ <<>> \in Seq(Ids) /\ <<>> \in Seq(CallStates)
      /\ Len(<<>>) = 0
  BY EmptySeq
<1>4. Shapes
  <2>1. budget \in Budgets /\ pc \in Locations
    BY DEF Locations
  <2>2. responses \in Nat /\ accepted \in 0..MaxMessages
    BY <1>2
  <2>3. /\ transcript \in Seq(Conversation) /\ context \in Seq(Conversation)
        /\ steering \in Seq(Ids) /\ followUp \in Seq(Ids)
        /\ prompts \in Seq(Ids) /\ pending \in Seq(Ids)
    BY <1>3
  <2> QED BY <2>1, <2>2, <2>3 DEF Shapes
<1>5. BatchShape
  BY <1>2, <1>3 DEF BatchShape, NoBatch, BatchModes
<1>6. BatchProgress /\ PendingAreUnderWay
  BY <1>1 DEF BatchProgress, PendingAreUnderWay, NoBatch
<1>7. Copies /\ TurnComplete
  BY DEF Copies, TurnComplete
<1> QED BY <1>4, <1>5, <1>6, <1>7 DEF IInv

\* The invariant on which the theorems rest, about every step of the callers,
\* of the loop and of a failure: at each await of agent-loop.ts, what the
\* context lacks of the transcript is what the loop has still to do.
THEOREM AgentInvariant == Spec => []IInv
<1>1. Init => IInv
  BY Initially
<1>2. IInv /\ [Next]_vars => IInv'
  BY CallerStep, LoopStep, FailureStep, StrayEndsStep, StutterStep DEF Next
<1> QED BY <1>1, <1>2, PTL DEF Spec

-----------------------------------------------------------------------------
\* The types of Agent, and that the calls an observer sees as pending are calls
\* of the current batch outside a failure (_state.pendingToolCalls).
THEOREM TypeInvariant == Spec => []TypeOK
<1>1. IInv => TypeOK
  <2> SUFFICES ASSUME IInv PROVE TypeOK
    OBVIOUS
  <2>1. Shapes /\ BatchShape /\ PendingAreUnderWay
    BY DEF IInv
  <2>2. \A m \in Conversation : IsMessage(m)
    BY DEF Conversation, IsMessage, UserMessage, AssistantMessage, ToolResultMessage
  <2>3. transcript \o context \in Seq(Conversation)
    BY <2>1, ConcatProperties DEF Shapes
  <2>4. \A m \in ToSet(transcript \o context) : IsMessage(m)
    BY <2>2, <2>3, SetTyped
  <2>5. pc \notin {"failing", "reported"} => pendingCalls \subseteq {CallId(k) : k \in Calls}
    BY <2>1 DEF PendingAreUnderWay, In
  <2> QED BY <2>1, <2>4, <2>5 DEF TypeOK, Shapes, BatchShape, CallIds
<1> QED BY <1>1, AgentInvariant, PTL

\* When agent-loop.ts calls the model, the context it has put together itself
\* is the transcript that Agent.processEvents() has put together from events.
THEOREM ContextIsAlwaysTranscript == Spec => []ContextIsTranscript
<1>1. IInv => ContextIsTranscript
  BY DEF IInv, Copies, ContextIsTranscript
<1> QED BY <1>1, AgentInvariant, PTL

\* A turn of runLoop() ends with the results of the calls that were started,
\* behind their response and in order, whoever aborts and whatever fails.
THEOREM CallsAlwaysAnswered == Spec => []CallsAnswered
<1>1. IInv => CallsAnswered
  <2> SUFFICES ASSUME IInv, pc = "turn_end", batch.mode # "none"
               PROVE  CallsAnswered
    BY DEF CallsAnswered
  <2>1. PICK n \in 0..Len(batch.calls) :
           /\ In("reported") = 1..n /\ Calls = In("reported") \cup In("new")
           /\ aborted \/ Calls = In("reported")
           /\ EndsWith(n)
    BY DEF IInv, TurnComplete
  <2>2. n \in Nat /\ Cardinality(1..n) = n
    BY CallsAre, FS_Interval DEF IInv
  <2>3. pendingCalls = {}
    BY <2>1 DEF IInv, PendingAreUnderWay, In
  <2> QED BY <2>1, <2>2, <2>3 DEF CallsAnswered, EndsWith
<1> QED BY <1>1, AgentInvariant, PTL


-----------------------------------------------------------------------------
(* Where the user messages are, and in which order they came.              *)

Ahead(A, B) == \A a \in A, b \in B : Precedes(a, b)
Ordered(s) == \A i, j \in 1..Len(s) : i < j => Precedes(s[i], s[j])

\* The user messages of a conversation stand in the order they came.
ToldInOrder(messages) ==
    \A j, k \in 1..Len(messages) :
        j < k /\ messages[j].role = "user" /\ messages[k].role = "user"
           => Precedes(messages[j].id, messages[k].id)

InHand == ToSet(prompts) \cup ToSet(pending)
Queued == ToSet(steering) \cup ToSet(followUp)
Held == UsersIn(transcript) \cup InHand \cup Queued

\* The loop has drained messages only where it is about to tell them.
HandsEmpty ==
    /\ pc # "prompts" => prompts = <<>>
    /\ pc # "inject" => pending = <<>>

QueuesByKind ==
    /\ \A m \in ToSet(steering) : m[1] = "steer"
    /\ \A m \in ToSet(followUp) : m[1] = "follow_up"

\* What was told came before what the loop holds, and that before what waits.
InLine ==
    /\ ToldInOrder(transcript) /\ Ordered(prompts) /\ Ordered(pending)
    /\ Ordered(steering) /\ Ordered(followUp)
    /\ Ahead(UsersIn(transcript), InHand \cup Queued)
    /\ Ahead(InHand, Queued)
    /\ Ahead(ToSet(steering), ToSet(followUp))

AllNumbered ==
    /\ \A m \in Held, g \in gone : m[2] # g[2]
    /\ {m[2] : m \in Held \cup gone} = 1..accepted

Accounts == HandsEmpty /\ QueuesByKind /\ InLine /\ AllNumbered

-----------------------------------------------------------------------------
LEMMA EmptyHas == ToSet(<<>>) = {} /\ Ordered(<<>>)
BY DEF ToSet, Ordered

LEMMA HasAppended ==
    ASSUME NEW S, NEW s \in Seq(S), NEW x \in S
    PROVE  ToSet(Append(s, x)) = ToSet(s) \cup {x}
<1>1. /\ Append(s, x) \in Seq(S) /\ Len(Append(s, x)) = Len(s) + 1
      /\ \A i \in 1..Len(s) : Append(s, x)[i] = s[i]
      /\ Append(s, x)[Len(s) + 1] = x
      /\ Len(s) \in Nat /\ DOMAIN s = 1..Len(s)
  BY AppendProperties, LenProperties
<1>2. DOMAIN Append(s, x) = 1..(Len(s) + 1) /\ Len(s) + 1 \in 1..(Len(s) + 1)
  BY <1>1, LenProperties
<1>3. 1..(Len(s) + 1) = 1..Len(s) \cup {Len(s) + 1}
  BY <1>1
<1> QED BY <1>1, <1>2, <1>3, SMTT(40) DEF ToSet

LEMMA HasElement ==
    ASSUME NEW S, NEW s \in Seq(S)
    PROVE  /\ \A i \in 1..Len(s) : s[i] \in ToSet(s)
           /\ \A x \in ToSet(s) : x \in S /\ \E i \in 1..Len(s) : x = s[i]
BY LenProperties, ElementOfSeq DEF ToSet

LEMMA OrderedAppended ==
    ASSUME NEW S, NEW s \in Seq(S), NEW x \in S, Ordered(s), Ahead(ToSet(s), {x})
    PROVE  Ordered(Append(s, x))
<1>1. /\ Len(Append(s, x)) = Len(s) + 1 /\ Len(s) \in Nat
      /\ \A i \in 1..Len(s) : Append(s, x)[i] = s[i]
      /\ Append(s, x)[Len(s) + 1] = x
  BY AppendProperties, LenProperties
<1>2. \A i \in 1..Len(s) : Precedes(s[i], x)
  BY HasElement DEF Ahead
<1> QED BY <1>1, <1>2 DEF Ordered

LEMMA FirstAndRest ==
    ASSUME NEW S, NEW s \in Seq(S), s # <<>>
    PROVE  /\ ToSet(s) = {Head(s)} \cup ToSet(Tail(s))
           /\ Ordered(s) => Ordered(Tail(s)) /\ Ahead({Head(s)}, ToSet(Tail(s)))
<1>1. /\ Tail(s) \in Seq(S) /\ Head(s) = s[1] /\ Len(s) \in Nat \ {0}
      /\ Len(Tail(s)) = Len(s) - 1
      /\ \A i \in 1..Len(Tail(s)) : Tail(s)[i] = s[i + 1]
  BY HeadTailProperties, LenProperties
<1>2. DOMAIN s = 1..Len(s) /\ DOMAIN Tail(s) = 1..(Len(s) - 1)
  BY <1>1, LenProperties
<1>3. ToSet(s) = {Head(s)} \cup ToSet(Tail(s))
  <2>1. \A x \in ToSet(s) : x \in {Head(s)} \cup ToSet(Tail(s))
    <3> SUFFICES ASSUME NEW i \in 1..Len(s), i # 1 PROVE s[i] \in ToSet(Tail(s))
      BY <1>1, <1>2 DEF ToSet
    <3>1. i - 1 \in 1..Len(Tail(s)) /\ Tail(s)[i - 1] = s[i]
      BY <1>1
    <3>2. Tail(s)[i - 1] \in ToSet(Tail(s))
      BY <1>1, <3>1, HasElement
    <3> QED BY <3>1, <3>2
  <2>2. \A x \in ToSet(Tail(s)) : x \in ToSet(s)
    BY <1>1, <1>2 DEF ToSet
  <2>3. Head(s) \in ToSet(s)
    BY <1>1, <1>2 DEF ToSet
  <2> QED BY <2>1, <2>2, <2>3
<1>4. ASSUME Ordered(s) PROVE Ordered(Tail(s)) /\ Ahead({Head(s)}, ToSet(Tail(s)))
  <2>1. Ordered(Tail(s))
    BY <1>1, <1>4 DEF Ordered
  <2>2. \A i \in 1..Len(Tail(s)) : Precedes(Head(s), Tail(s)[i])
    BY <1>1, <1>4 DEF Ordered
  <2>3. \A x \in ToSet(Tail(s)) : \E i \in 1..Len(Tail(s)) : x = Tail(s)[i]
    BY <1>1, LenProperties, Zenon DEF ToSet
  <2>4. \A x \in ToSet(Tail(s)) : Precedes(Head(s), x)
    BY <2>2, <2>3
  <2> QED BY <2>1, <2>4 DEF Ahead
<1> QED BY <1>3, <1>4

LEMMA DrainedInOrder ==
    ASSUME NEW S, NEW q \in Seq(S), NEW mode
    PROVE  /\ ToSet(q) = ToSet(Drained(q, mode)) \cup ToSet(Left(q, mode))
           /\ Ordered(q) => /\ Ordered(Drained(q, mode)) /\ Ordered(Left(q, mode))
                            /\ Ahead(ToSet(Drained(q, mode)), ToSet(Left(q, mode)))
<1>1. CASE mode = "all" \/ q = <<>>
  BY <1>1, EmptyHas DEF Drained, Left, Ahead
<1>2. CASE ~(mode = "all" \/ q = <<>>)
  <2>1. Drained(q, mode) = <<Head(q)>> /\ Left(q, mode) = Tail(q)
    BY <1>2 DEF Drained, Left
  <2>2. ToSet(<<Head(q)>>) = {Head(q)} /\ Ordered(<<Head(q)>>)
    BY DEF ToSet, Ordered
  <2> QED BY <1>2, <2>1, <2>2, FirstAndRest
<1> QED BY <1>1, <1>2

LEMMA JoinedInOrder ==
    ASSUME NEW S, NEW s \in Seq(S), NEW t \in Seq(S)
    PROVE  /\ s \o t \in Seq(S) /\ ToSet(s \o t) = ToSet(s) \cup ToSet(t)
           /\ Ordered(s) /\ Ordered(t) /\ Ahead(ToSet(s), ToSet(t)) => Ordered(s \o t)
<1>1. /\ s \o t \in Seq(S) /\ Len(s \o t) = Len(s) + Len(t)
      /\ \A i \in 1..Len(s) + Len(t) :
            (s \o t)[i] = IF i <= Len(s) THEN s[i] ELSE t[i - Len(s)]
      /\ Len(s) \in Nat /\ Len(t) \in Nat
  BY ConcatProperties, LenProperties
<1> DEFINE u == s \o t
<1> HIDE DEF u
<1>2. /\ u \in Seq(S) /\ Len(u) = Len(s) + Len(t)
      /\ \A i \in 1..Len(s) : u[i] = s[i]
      /\ \A i \in 1..Len(t) : u[Len(s) + i] = t[i]
      /\ \A i \in 1..Len(u) : i \in 1..Len(s) \/ \E j \in 1..Len(t) : i = Len(s) + j
  <2>1. u \in Seq(S) /\ Len(u) = Len(s) + Len(t)
    BY <1>1 DEF u
  <2>2. \A i \in 1..Len(s) : u[i] = s[i]
    BY <1>1 DEF u
  <2>3. \A i \in 1..Len(t) : u[Len(s) + i] = t[i]
    BY <1>1 DEF u
  <2>4. ASSUME NEW i \in 1..Len(u), i \notin 1..Len(s)
        PROVE  \E j \in 1..Len(t) : i = Len(s) + j
    <3>1. i - Len(s) \in 1..Len(t) /\ i = Len(s) + (i - Len(s))
      BY <1>1, <2>1, <2>4
    <3> QED BY <3>1
  <2> QED BY <2>1, <2>2, <2>3, <2>4
<1>3. ToSet(u) = ToSet(s) \cup ToSet(t)
  <2>1. ASSUME NEW x \in ToSet(u) PROVE x \in ToSet(s) \cup ToSet(t)
    <3>1. PICK i \in 1..Len(u) : x = u[i]
      BY <1>2, LenProperties, Zenon DEF ToSet
    <3>2. CASE i \in 1..Len(s)
      BY <1>2, <3>1, <3>2, HasElement
    <3>3. CASE \E j \in 1..Len(t) : i = Len(s) + j
      BY <1>2, <3>1, <3>3, HasElement
    <3> QED BY <1>2, <3>2, <3>3
  <2>2. ASSUME NEW x \in ToSet(s) PROVE x \in ToSet(u)
    <3>1. PICK i \in 1..Len(s) : x = s[i]
      BY LenProperties, Zenon DEF ToSet
    <3>2. i \in 1..Len(u) /\ u[i] = x
      BY <1>1, <1>2, <3>1
    <3> QED BY <1>2, <3>2, LenProperties, Zenon DEF ToSet
  <2>3. ASSUME NEW x \in ToSet(t) PROVE x \in ToSet(u)
    <3>1. PICK i \in 1..Len(t) : x = t[i]
      BY LenProperties, Zenon DEF ToSet
    <3>2. Len(s) + i \in 1..Len(u) /\ u[Len(s) + i] = x
      BY <1>1, <1>2, <3>1
    <3> QED BY <1>2, <3>2, LenProperties, Zenon DEF ToSet
  <2> QED BY <2>1, <2>2, <2>3
<1>4. ASSUME Ordered(s), Ordered(t), Ahead(ToSet(s), ToSet(t)),
             NEW i \in 1..Len(u), NEW j \in 1..Len(u), i < j
      PROVE  Precedes(u[i], u[j])
  <2>1. CASE i \in 1..Len(s) /\ j \in 1..Len(s)
    BY <1>2, <1>4, <2>1 DEF Ordered
  <2>2. CASE i \in 1..Len(s) /\ j \notin 1..Len(s)
    <3>1. PICK b \in 1..Len(t) : j = Len(s) + b
      BY <1>2, <2>2
    <3>2. u[i] \in ToSet(s) /\ u[j] \in ToSet(t)
      BY <1>2, <2>2, <3>1, HasElement
    <3> QED BY <1>4, <3>2 DEF Ahead
  <2>3. CASE i \notin 1..Len(s)
    <3>1. PICK a \in 1..Len(t) : i = Len(s) + a
      BY <1>2, <2>3
    <3>2. j \notin 1..Len(s)
      BY <1>1, <1>4, <3>1
    <3>3. PICK b \in 1..Len(t) : j = Len(s) + b
      BY <1>2, <3>2
    <3>4. a < b
      BY <1>1, <1>4, <3>1, <3>3
    <3> QED BY <1>2, <1>4, <3>1, <3>3, <3>4 DEF Ordered
  <2> QED BY <2>1, <2>2, <2>3
<1> QED BY <1>1, <1>3, <1>4 DEF u, Ordered

-----------------------------------------------------------------------------
\* What a conversation tells, and what a message adds to it.
LEMMA ToldAppended ==
    ASSUME NEW S, NEW s \in Seq(S), NEW x \in S
    PROVE  /\ x.role # "user" =>
                 /\ UsersIn(Append(s, x)) = UsersIn(s)
                 /\ ToldInOrder(s) => ToldInOrder(Append(s, x))
           /\ x.role = "user" =>
                 /\ UsersIn(Append(s, x)) = UsersIn(s) \cup {x.id}
                 /\ ToldInOrder(s) /\ Ahead(UsersIn(s), {x.id})
                      => ToldInOrder(Append(s, x))
<1>1. /\ Len(Append(s, x)) = Len(s) + 1 /\ Len(s) \in Nat
      /\ \A i \in 1..Len(s) : Append(s, x)[i] = s[i]
      /\ Append(s, x)[Len(s) + 1] = x
  BY AppendProperties, LenProperties
<1>2. ToSet(Append(s, x)) = ToSet(s) \cup {x}
  BY HasAppended
<1>3. \A i \in 1..Len(s) : s[i].role = "user" => s[i].id \in UsersIn(s)
  BY HasElement DEF UsersIn
<1>4. ASSUME ToldInOrder(s), x.role # "user" \/ Ahead(UsersIn(s), {x.id})
      PROVE  ToldInOrder(Append(s, x))
  <2>1. \A i \in 1..Len(s) :
           s[i].role = "user" /\ x.role = "user" => Precedes(s[i].id, x.id)
    BY <1>3, <1>4 DEF Ahead
  <2> QED BY <1>1, <1>4, <2>1 DEF ToldInOrder
<1>5. UsersIn(Append(s, x)) = IF x.role = "user" THEN UsersIn(s) \cup {x.id} ELSE UsersIn(s)
  BY <1>2 DEF UsersIn
<1> QED BY <1>4, <1>5

LEMMA ToldBefore ==
    ASSUME NEW S, NEW s \in Seq(S), s # <<>>, s[Len(s)].role # "user"
    PROVE  UsersIn(Front(s)) = UsersIn(s) /\ (ToldInOrder(s) => ToldInOrder(Front(s)))
<1> DEFINE f == Front(s)
<1>1. /\ Len(s) \in Nat \ {0} /\ f \in Seq(S) /\ Len(f) = Len(s) - 1
      /\ \A i \in 1..Len(f) : f[i] = s[i]
  <2>1. Len(s) \in Nat \ {0} /\ f = SubSeq(s, 1, Len(s) - 1)
    BY EmptySeq, LenProperties DEF Front
  <2>2. \A i \in 1..Len(s) - 1 : s[i] \in S
    BY <2>1, ElementOfSeq
  <2> DEFINE n == Len(s) - 1
  <2>3. n \in Int /\ n >= 0 /\ n = Len(s) - 1 /\ f = SubSeq(s, 1, n)
        /\ \A i \in 1..n : s[i] \in S
    BY <2>1, <2>2
  <2> HIDE DEF n, f
  <2>4. f \in Seq(S) /\ Len(f) = n /\ \A i \in 1..n : f[i] = s[i]
    BY <2>3, SubSeqProperties
  <2> QED BY <2>1, <2>3, <2>4
<1> HIDE DEF f
<1>2. \A m \in ToSet(s) : m \in ToSet(f) \/ m = s[Len(s)]
  <2> SUFFICES ASSUME NEW i \in 1..Len(s), i # Len(s) PROVE s[i] \in ToSet(f)
    BY HasElement
  <2>1. i \in 1..Len(f) /\ f[i] = s[i]
    BY <1>1
  <2> QED BY <1>1, <2>1, HasElement
<1>3. \A m \in ToSet(f) : m \in ToSet(s)
  <2> SUFFICES ASSUME NEW i \in 1..Len(f) PROVE f[i] \in ToSet(s)
    BY <1>1, HasElement
  <2>1. i \in 1..Len(s) /\ f[i] = s[i]
    BY <1>1
  <2> QED BY <2>1, HasElement
<1>4. UsersIn(f) = UsersIn(s)
  BY <1>2, <1>3 DEF UsersIn
<1>5. ToldInOrder(s) => ToldInOrder(f)
  BY <1>1 DEF ToldInOrder
<1> QED BY <1>4, <1>5 DEF f

-----------------------------------------------------------------------------
(* The messages through the steps.                                         *)

\* Steps that move no user message.
LEMMA StillStep ==
    ASSUME IInv, Accounts, UNCHANGED <<steering, followUp, accepted, gone>>,
           prompts' = prompts, pending' = pending,
           UsersIn(transcript') = UsersIn(transcript), ToldInOrder(transcript'),
           pc' # "prompts" => prompts = <<>>, pc' # "inject" => pending = <<>>
    PROVE  Accounts'
<1>1. HandsEmpty' /\ QueuesByKind'
  BY DEF Accounts, HandsEmpty, QueuesByKind
<1>2. UsersIn(transcript)' = UsersIn(transcript) /\ InHand' = InHand /\ Queued' = Queued
  BY DEF InHand, Queued
<1>3. InLine'
  BY <1>2 DEF Accounts, InLine
<1>4. AllNumbered'
  BY <1>2 DEF Accounts, AllNumbered, Held
<1> QED BY <1>1, <1>3, <1>4 DEF Accounts

\* Numbers are given out one by one.
LEMMA Numbers ==
    ASSUME Shapes, Accounts
    PROVE  /\ accepted \in Nat
           /\ \A m \in Held \cup gone : m[2] \in 1..accepted
           /\ \A m \in Held \cup gone, kind \in Kinds : Precedes(m, Id(kind))
<1>1. accepted \in Nat
  BY AgentAssumption DEF Shapes, MaxMessages
<1>2. \A m \in Held \cup gone : m[2] \in 1..accepted
  BY DEF Accounts, AllNumbered
<1>3. \A kind : Id(kind)[2] = accepted + 1
  BY DEF Id
<1> QED BY <1>1, <1>2, <1>3 DEF Precedes

LEMMA NumberGiven ==
    ASSUME Shapes, Accounts, NEW kind \in Kinds, accepted' = accepted + 1, gone' = gone,
           Held' = Held \cup {Id(kind)}
    PROVE  AllNumbered'
<1>1. /\ accepted \in Nat /\ Id(kind)[2] = accepted + 1
      /\ \A m \in Held \cup gone : m[2] \in 1..accepted
      /\ {m[2] : m \in Held \cup gone} = 1..accepted
      /\ \A m \in Held, g \in gone : m[2] # g[2]
  BY Numbers DEF Id, Accounts, AllNumbered
<1>2. {m[2] : m \in Held' \cup gone'} = 1..accepted \cup {accepted + 1}
  BY <1>1
<1>3. 1..accepted \cup {accepted + 1} = 1..accepted'
  BY <1>1
<1>4. \A m \in Held', g \in gone' : m[2] # g[2]
  BY <1>1
<1> QED BY <1>2, <1>3, <1>4 DEF AllNumbered

LEMMA PromptAccounted ==
    ASSUME IInv, Accounts, Prompt PROVE Accounts'
<1>1. /\ pc = "idle" /\ pc' = "prompts" /\ prompts' = <<Id("prompt")>>
      /\ transcript' = transcript /\ pending' = pending
      /\ steering' = steering /\ followUp' = followUp
      /\ accepted' = accepted + 1 /\ gone' = gone
  BY DEF Prompt, BeginRun, Active, queues
<1>2. Shapes /\ "prompt" \in Kinds /\ Id("prompt")[1] = "prompt"
  BY DEF IInv, Kinds, Id
<1>3. pending = <<>> /\ prompts = <<>> /\ InHand = {}
  BY <1>1, EmptyHas DEF Accounts, HandsEmpty, InHand
<1>4. ToSet(prompts') = {Id("prompt")} /\ Ordered(prompts')
  BY <1>1 DEF ToSet, Ordered
<1>5. InHand' = {Id("prompt")} /\ Queued' = Queued
  BY <1>1, <1>3, <1>4, EmptyHas DEF InHand, Queued
<1>6. \A m \in Held \cup gone : Precedes(m, Id("prompt")) /\ m[2] # Id("prompt")[2]
  BY <1>2, Numbers DEF Precedes
<1>7. HandsEmpty' /\ QueuesByKind'
  BY <1>1, <1>3 DEF Accounts, HandsEmpty, QueuesByKind
<1>8. InLine'
  <2>1. Ahead(UsersIn(transcript'), InHand' \cup Queued')
    BY <1>1, <1>5, <1>6 DEF Accounts, InLine, Ahead, Held
  <2>2. \A m \in Queued : m[1] # "prompt"
    BY DEF Accounts, QueuesByKind, Queued
  <2>3. Ahead(InHand', Queued')
    BY <1>2, <1>5, <1>6, <2>2 DEF Ahead, Held, Precedes
  <2> QED BY <1>1, <1>4, <2>1, <2>3 DEF Accounts, InLine
<1>9. AllNumbered'
  <2>1. Held' = Held \cup {Id("prompt")}
    BY <1>1, <1>3, <1>5 DEF Held
  <2> QED BY <1>1, <1>2, <2>1, NumberGiven
<1> QED BY <1>7, <1>8, <1>9 DEF Accounts

LEMMA SteerAccounted ==
    ASSUME IInv, Accounts, Steer PROVE Accounts'
<1>1. /\ pc' = pc /\ prompts' = prompts /\ transcript' = transcript /\ pending' = pending
      /\ steering' = Append(steering, Id("steer")) /\ followUp' = followUp
      /\ accepted' = accepted + 1 /\ gone' = gone /\ accepted < MaxMessages
  BY DEF Steer, conversation, feed
<1>2. /\ Shapes /\ "steer" \in Kinds /\ Id("steer")[1] = "steer"
      /\ steering \in Seq(Ids) /\ Id("steer") \in Ids
  <2>1. MaxMessages \in Nat
    BY AgentAssumption DEF IInv, Shapes, MaxMessages
  <2> QED BY <1>1, <2>1 DEF IInv, Shapes, Kinds, Id, Ids
<1>3. ToSet(steering') = ToSet(steering) \cup {Id("steer")}
  BY <1>1, <1>2, HasAppended
<1>4. InHand' = InHand /\ Queued' = Queued \cup {Id("steer")}
  BY <1>1, <1>3 DEF InHand, Queued
<1>5. \A m \in Held : Precedes(m, Id("steer")) /\ m[2] # Id("steer")[2]
  BY <1>2, Numbers DEF Precedes
<1>6. HandsEmpty' /\ QueuesByKind'
  BY <1>1, <1>2, <1>3 DEF Accounts, HandsEmpty, QueuesByKind
<1>7. InLine'
  <2>1. Ahead(UsersIn(transcript'), InHand' \cup Queued')
    BY <1>1, <1>4, <1>5 DEF Accounts, InLine, Ahead, Held
  <2>2. Ahead(InHand', Queued')
    BY <1>4, <1>5 DEF Accounts, InLine, Ahead, Held
  <2>3. Ordered(steering')
    BY <1>1, <1>2, <1>5, OrderedAppended DEF Accounts, InLine, Ahead, Held, Queued
  <2>4. Ahead(ToSet(steering'), ToSet(followUp'))
    <3>1. \A m \in ToSet(followUp) : m[1] # "steer" /\ m[2] # Id("steer")[2]
      BY <1>5 DEF Accounts, QueuesByKind, Held, Queued
    <3> QED BY <1>1, <1>2, <1>3, <3>1 DEF Accounts, InLine, Ahead, Precedes
  <2> QED BY <1>1, <2>1, <2>2, <2>3, <2>4 DEF Accounts, InLine
<1>8. AllNumbered'
  <2>1. Held' = Held \cup {Id("steer")}
    BY <1>1, <1>4 DEF Held
  <2> QED BY <1>1, <1>2, <2>1, NumberGiven
<1> QED BY <1>6, <1>7, <1>8 DEF Accounts

LEMMA FollowUpAccounted ==
    ASSUME IInv, Accounts, FollowUp PROVE Accounts'
<1>1. /\ pc' = pc /\ prompts' = prompts /\ transcript' = transcript /\ pending' = pending
      /\ followUp' = Append(followUp, Id("follow_up")) /\ steering' = steering
      /\ accepted' = accepted + 1 /\ gone' = gone /\ accepted < MaxMessages
  BY DEF FollowUp, conversation, feed
<1>2. /\ Shapes /\ "follow_up" \in Kinds /\ Id("follow_up")[1] = "follow_up"
      /\ followUp \in Seq(Ids) /\ Id("follow_up") \in Ids
  <2>1. MaxMessages \in Nat
    BY AgentAssumption DEF IInv, Shapes, MaxMessages
  <2> QED BY <1>1, <2>1 DEF IInv, Shapes, Kinds, Id, Ids
<1>3. ToSet(followUp') = ToSet(followUp) \cup {Id("follow_up")}
  BY <1>1, <1>2, HasAppended
<1>4. InHand' = InHand /\ Queued' = Queued \cup {Id("follow_up")}
  BY <1>1, <1>3 DEF InHand, Queued
<1>5. \A m \in Held : Precedes(m, Id("follow_up"))
  BY <1>2, Numbers
<1>6. HandsEmpty' /\ QueuesByKind'
  BY <1>1, <1>2, <1>3 DEF Accounts, HandsEmpty, QueuesByKind
<1>7. InLine'
  <2>1. Ahead(UsersIn(transcript'), InHand' \cup Queued')
    BY <1>1, <1>4, <1>5 DEF Accounts, InLine, Ahead, Held
  <2>2. Ahead(InHand', Queued')
    BY <1>4, <1>5 DEF Accounts, InLine, Ahead, Held
  <2>3. Ordered(followUp')
    BY <1>1, <1>2, <1>5, OrderedAppended DEF Accounts, InLine, Ahead, Held, Queued
  <2>4. Ahead(ToSet(steering'), ToSet(followUp'))
    BY <1>1, <1>3, <1>5 DEF Accounts, InLine, Ahead, Held, Queued
  <2> QED BY <1>1, <2>1, <2>2, <2>3, <2>4 DEF Accounts, InLine
<1>8. AllNumbered'
  <2>1. Held' = Held \cup {Id("follow_up")}
    BY <1>1, <1>4 DEF Held
  <2> QED BY <1>1, <1>2, <2>1, NumberGiven
<1> QED BY <1>6, <1>7, <1>8 DEF Accounts

\* What a poll or continue() drains goes from a queue into empty hands, ahead
\* of what is left of that queue.
LEMMA DrainStep ==
    ASSUME IInv, Accounts, transcript' = transcript, accepted' = accepted, gone' = gone,
           prompts = <<>>, pending = <<>>,
           NEW drained, Ordered(drained),
           \/ prompts' = drained /\ pending' = <<>>
           \/ prompts' = <<>> /\ pending' = drained,
           Ordered(steering'), Ordered(followUp'),
           ToSet(drained) \cup ToSet(steering') \cup ToSet(followUp') = Queued,
           ToSet(steering') \subseteq ToSet(steering),
           ToSet(followUp') \subseteq ToSet(followUp),
           Ahead(ToSet(drained), Queued'), HandsEmpty'
    PROVE  Accounts'
<1>1. InHand = {} /\ InHand' = ToSet(drained)
  BY EmptyHas DEF InHand
<1>2. InHand' \cup Queued' = Queued
  BY <1>1 DEF Queued
<1>3. QueuesByKind'
  BY DEF Accounts, QueuesByKind
<1>4. InLine'
  <2>1. Ordered(prompts') /\ Ordered(pending')
    BY EmptyHas
  <2>2. Ahead(ToSet(steering'), ToSet(followUp'))
    BY DEF Accounts, InLine, Ahead
  <2>3. Ahead(UsersIn(transcript'), InHand' \cup Queued')
    BY <1>1, <1>2 DEF Accounts, InLine
  <2> QED BY <1>1, <2>1, <2>2, <2>3 DEF Accounts, InLine
<1>5. AllNumbered'
  <2>1. Held' = Held
    BY <1>1, <1>2 DEF Held
  <2> QED BY <2>1 DEF Accounts, AllNumbered
<1> QED BY <1>3, <1>4, <1>5 DEF Accounts

LEMMA SteeringDrained ==
    ASSUME IInv, Accounts
    PROVE  LET drained == Drained(steering, SteeringMode)
               rest == Left(steering, SteeringMode)
           IN  /\ Ordered(drained) /\ Ordered(rest)
               /\ ToSet(steering) = ToSet(drained) \cup ToSet(rest)
               /\ Ahead(ToSet(drained), ToSet(rest) \cup ToSet(followUp))
BY DrainedInOrder DEF IInv, Shapes, Accounts, InLine, Ahead

LEMMA FollowUpDrained ==
    ASSUME IInv, Accounts
    PROVE  LET drained == Drained(followUp, FollowUpMode)
               rest == Left(followUp, FollowUpMode)
           IN  /\ Ordered(drained) /\ Ordered(rest)
               /\ ToSet(followUp) = ToSet(drained) \cup ToSet(rest)
               /\ Ahead(ToSet(drained), ToSet(rest) \cup ToSet(steering))
<1> DEFINE drained == Drained(followUp, FollowUpMode)
           rest == Left(followUp, FollowUpMode)
<1>1. /\ Ordered(drained) /\ Ordered(rest)
      /\ ToSet(followUp) = ToSet(drained) \cup ToSet(rest)
      /\ Ahead(ToSet(drained), ToSet(rest))
  BY DrainedInOrder DEF IInv, Shapes, Accounts, InLine
<1> HIDE DEF drained, rest
<1>2. Ahead(ToSet(drained), ToSet(steering))
  BY <1>1 DEF Accounts, InLine, QueuesByKind, Ahead, Precedes
<1>3. Ahead(ToSet(drained), ToSet(rest) \cup ToSet(steering))
  BY <1>1, <1>2 DEF Ahead
<1> QED BY <1>1, <1>3 DEF drained, rest

LEMMA ContinueWithSteeringAccounted ==
    ASSUME IInv, Accounts, ContinueWithSteering PROVE Accounts'
<1>1. /\ pc = "idle" /\ pc' = "prompts" /\ prompts' = Drained(steering, SteeringMode)
      /\ transcript' = transcript /\ pending' = pending
      /\ steering' = Left(steering, SteeringMode) /\ followUp' = followUp
      /\ accepted' = accepted /\ gone' = gone
  BY DEF ContinueWithSteering, BeginRun, Active, history
<1>2. pending = <<>> /\ pending' = <<>> /\ prompts = <<>> /\ HandsEmpty'
  BY <1>1 DEF Accounts, HandsEmpty
<1>3. Ordered(followUp)
  BY DEF Accounts, InLine
<1> DEFINE d == Drained(steering, SteeringMode)
<1>4. /\ Ordered(d) /\ Ordered(steering') /\ prompts' = d
      /\ ToSet(steering) = ToSet(d) \cup ToSet(steering')
      /\ Ahead(ToSet(d), ToSet(steering') \cup ToSet(followUp))
  BY <1>1, SteeringDrained
<1> HIDE DEF d
<1>5. Ahead(ToSet(d), Queued') /\ ToSet(d) \cup ToSet(steering') \cup ToSet(followUp') = Queued
  BY <1>1, <1>4 DEF Queued
<1>6. /\ ToSet(steering') \subseteq ToSet(steering) /\ ToSet(followUp') \subseteq ToSet(followUp)
      /\ Ordered(steering') /\ Ordered(followUp')
  BY <1>1, <1>3, <1>4
<1> QED BY <1>1, <1>2, <1>4, <1>5, <1>6, DrainStep

LEMMA ContinueWithFollowUpAccounted ==
    ASSUME IInv, Accounts, ContinueWithFollowUp PROVE Accounts'
<1>1. /\ pc = "idle" /\ pc' = "prompts" /\ prompts' = Drained(followUp, FollowUpMode)
      /\ transcript' = transcript /\ pending' = pending
      /\ followUp' = Left(followUp, FollowUpMode) /\ steering' = steering
      /\ accepted' = accepted /\ gone' = gone
  BY DEF ContinueWithFollowUp, BeginRun, Active, history
<1>2. pending = <<>> /\ pending' = <<>> /\ prompts = <<>> /\ HandsEmpty'
  BY <1>1 DEF Accounts, HandsEmpty
<1>3. Ordered(steering)
  BY DEF Accounts, InLine
<1> DEFINE d == Drained(followUp, FollowUpMode)
<1>4. /\ Ordered(d) /\ Ordered(followUp') /\ prompts' = d
      /\ ToSet(followUp) = ToSet(d) \cup ToSet(followUp')
      /\ Ahead(ToSet(d), ToSet(followUp') \cup ToSet(steering))
  BY <1>1, FollowUpDrained
<1> HIDE DEF d
<1>5. Ahead(ToSet(d), Queued') /\ ToSet(d) \cup ToSet(steering') \cup ToSet(followUp') = Queued
  BY <1>1, <1>4 DEF Queued
<1>6. /\ ToSet(steering') \subseteq ToSet(steering) /\ ToSet(followUp') \subseteq ToSet(followUp)
      /\ Ordered(steering') /\ Ordered(followUp')
  BY <1>1, <1>3, <1>4
<1> QED BY <1>1, <1>2, <1>4, <1>5, <1>6, DrainStep

LEMMA PollInitialAccounted ==
    ASSUME IInv, Accounts, PollInitial PROVE Accounts'
<1>1. /\ pc = "prompts" /\ prompts = <<>> /\ prompts' = prompts /\ pc' = "inject"
      /\ transcript' = transcript /\ followUp' = followUp
      /\ accepted' = accepted /\ gone' = gone
  BY DEF PollInitial, conversation, history
<1>2. pending = <<>> /\ HandsEmpty'
  BY <1>1 DEF Accounts, HandsEmpty
<1>3. Ordered(followUp) /\ Ordered(steering)
  BY DEF Accounts, InLine
<1>4. CASE pending' = <<>> /\ steering' = steering
  <2>1. Ahead({}, Queued')
    BY DEF Ahead
  <2> QED BY <1>1, <1>2, <1>3, <1>4, <2>1, EmptyHas, DrainStep DEF Queued
<1>5. CASE /\ pending' = Drained(steering, SteeringMode)
           /\ steering' = Left(steering, SteeringMode)
  BY <1>1, <1>2, <1>3, <1>5, SteeringDrained, DrainStep DEF Queued
<1> QED BY <1>4, <1>5 DEF PollInitial

LEMMA PollSteeringAccounted ==
    ASSUME IInv, Accounts, PollSteering PROVE Accounts'
<1>1. /\ pc = "turn_end" /\ prompts' = prompts /\ pc' \in {"inject", "follow_up"}
      /\ pc' # "inject" => pending' = <<>>
      /\ pending' = Drained(steering, SteeringMode)
      /\ steering' = Left(steering, SteeringMode)
      /\ transcript' = transcript /\ followUp' = followUp
      /\ accepted' = accepted /\ gone' = gone
  BY DEF PollSteering, conversation, history
<1>2. prompts = <<>> /\ pending = <<>> /\ HandsEmpty'
  BY <1>1 DEF Accounts, HandsEmpty
<1>3. Ordered(followUp)
  BY DEF Accounts, InLine
<1> QED BY <1>1, <1>2, <1>3, SteeringDrained, DrainStep DEF Queued

LEMMA PollFollowUpAccounted ==
    ASSUME IInv, Accounts, PollFollowUp PROVE Accounts'
<1>1. /\ pc = "follow_up" /\ prompts' = prompts /\ pc' \in {"inject", "agent_end"}
      /\ pc' # "inject" => pending' = <<>>
      /\ pending' = Drained(followUp, FollowUpMode)
      /\ followUp' = Left(followUp, FollowUpMode)
      /\ transcript' = transcript /\ steering' = steering
      /\ accepted' = accepted /\ gone' = gone
  BY DEF PollFollowUp, conversation, history
<1>2. prompts = <<>> /\ pending = <<>> /\ HandsEmpty'
  BY <1>1 DEF Accounts, HandsEmpty
<1>3. Ordered(steering)
  BY DEF Accounts, InLine
<1> QED BY <1>1, <1>2, <1>3, FollowUpDrained, DrainStep DEF Queued

\* What callers clear and what a failure loses is accounted for as gone.
LEMMA ClearAllQueuesAccounted ==
    ASSUME IInv, Accounts, ClearAllQueues PROVE Accounts'
<1>1. /\ pc' = pc /\ prompts' = prompts /\ transcript' = transcript /\ pending' = pending
      /\ followUp' = <<>> /\ steering' = <<>> /\ accepted' = accepted
      /\ gone' = gone \cup ToSet(steering \o followUp)
  BY DEF ClearAllQueues, conversation, feed
<1>2. ToSet(steering \o followUp) = Queued
  BY JoinedInOrder DEF IInv, Shapes, Queued
<1>3. InHand' = InHand /\ Queued' = {} /\ ToSet(steering') = {} /\ ToSet(followUp') = {}
  BY <1>1, EmptyHas DEF InHand, Queued
<1>4. HandsEmpty' /\ QueuesByKind'
  BY <1>1, <1>3 DEF Accounts, HandsEmpty, QueuesByKind
<1>5. InLine'
  BY <1>1, <1>3, EmptyHas DEF Accounts, InLine, Ahead
<1>6. AllNumbered'
  <2>1. Held = Held' \cup Queued /\ gone' = gone \cup Queued
    BY <1>1, <1>2, <1>3 DEF Held
  <2>2. \A m \in Held', g \in Queued : m[2] # g[2]
    BY <1>1, <1>3 DEF Accounts, InLine, Ahead, Precedes, Held
  <2>3. \A m \in Held', g \in gone' : m[2] # g[2]
    BY <2>1, <2>2 DEF Accounts, AllNumbered
  <2>4. Held' \cup gone' = Held \cup gone
    BY <2>1
  <2> QED BY <1>1, <2>3, <2>4 DEF Accounts, AllNumbered
<1> QED BY <1>4, <1>5, <1>6 DEF Accounts

LEMMA ResetAccounted ==
    ASSUME IInv, Accounts, Reset PROVE Accounts'
<1>1. /\ pc = "idle" /\ pc' = pc /\ prompts' = prompts /\ pending' = pending
      /\ transcript' = <<>> /\ followUp' = <<>> /\ steering' = <<>> /\ accepted' = accepted
      /\ gone' = gone \cup UsersIn(transcript) \cup ToSet(steering \o followUp)
  BY DEF Reset, Active, feed
<1>2. ToSet(steering \o followUp) = Queued
  BY JoinedInOrder DEF IInv, Shapes, Queued
<1>3. prompts = <<>> /\ pending = <<>> /\ InHand = {}
  BY <1>1, EmptyHas DEF Accounts, HandsEmpty, InHand
<1>4. /\ InHand' = {} /\ Queued' = {} /\ ToSet(steering') = {} /\ ToSet(followUp') = {}
      /\ UsersIn(transcript') = {} /\ ToldInOrder(transcript')
  BY <1>1, <1>3, EmptyHas DEF InHand, Queued, UsersIn, ToldInOrder
<1>5. HandsEmpty' /\ QueuesByKind'
  BY <1>1, <1>4 DEF Accounts, HandsEmpty, QueuesByKind
<1>6. InLine'
  BY <1>1, <1>3, <1>4, EmptyHas DEF InLine, Ahead
<1>7. AllNumbered'
  <2>1. Held' = {} /\ Held' \cup gone' = Held \cup gone
    BY <1>1, <1>2, <1>3, <1>4 DEF Held
  <2> QED BY <1>1, <2>1 DEF Accounts, AllNumbered
<1> QED BY <1>5, <1>6, <1>7 DEF Accounts

LEMMA AbandonAccounted ==
    ASSUME IInv, Accounts, Abandon PROVE Accounts'
<1>1. /\ pc' = "failing" /\ prompts' = <<>> /\ pending' = <<>>
      /\ transcript' = transcript /\ followUp' = followUp /\ steering' = steering
      /\ accepted' = accepted /\ gone' = gone \cup ToSet(prompts \o pending)
  BY DEF Abandon, queues
<1>2. ToSet(prompts \o pending) = InHand
  BY JoinedInOrder DEF IInv, Shapes, InHand
<1>3. InHand' = {} /\ Queued' = Queued /\ ToSet(steering') = ToSet(steering)
  BY <1>1, EmptyHas DEF InHand, Queued
<1>4. HandsEmpty' /\ QueuesByKind'
  BY <1>1 DEF Accounts, HandsEmpty, QueuesByKind
<1>5. InLine'
  <2>1. /\ Ordered(prompts') /\ Ordered(pending') /\ Ordered(steering')
        /\ Ordered(followUp') /\ ToldInOrder(transcript')
    BY <1>1, EmptyHas DEF Accounts, InLine
  <2>2. Ahead(UsersIn(transcript'), InHand' \cup Queued') /\ Ahead(InHand', Queued')
    BY <1>1, <1>3 DEF Accounts, InLine, Ahead
  <2>3. Ahead(ToSet(steering'), ToSet(followUp'))
    BY <1>1 DEF Accounts, InLine
  <2> QED BY <2>1, <2>2, <2>3 DEF InLine
<1>6. AllNumbered'
  <2>1. Held = Held' \cup InHand /\ gone' = gone \cup InHand
    BY <1>1, <1>2, <1>3 DEF Held
  <2>2. \A m \in Held', g \in InHand : m[2] # g[2]
    BY <1>1, <1>3 DEF Accounts, InLine, Ahead, Precedes, Held
  <2>3. \A m \in Held', g \in gone' : m[2] # g[2]
    BY <2>1, <2>2 DEF Accounts, AllNumbered
  <2>4. Held' \cup gone' = Held \cup gone
    BY <2>1
  <2> QED BY <1>1, <2>3, <2>4 DEF Accounts, AllNumbered
<1> QED BY <1>4, <1>5, <1>6 DEF Accounts

\* A message that is told goes from the hands of the loop to the transcript.
LEMMA UserTold ==
    ASSUME Shapes, NEW i \in Ids, transcript' = Append(transcript, UserMessage(i))
    PROVE  /\ UsersIn(transcript') = UsersIn(transcript) \cup {i}
           /\ ToldInOrder(transcript) /\ Ahead(UsersIn(transcript), {i})
                => ToldInOrder(transcript')
<1>1. UserMessage(i).role = "user" /\ UserMessage(i).id = i
  BY DEF UserMessage
<1>2. UserMessage(i) \in Conversation /\ transcript \in Seq(Conversation)
  BY InConversation DEF Shapes
<1> DEFINE x == UserMessage(i)
<1> HIDE DEF x
<1>3. x.role = "user" /\ x.id = i /\ x \in Conversation /\ transcript' = Append(transcript, x)
  BY <1>1, <1>2 DEF x
<1>4. /\ UsersIn(Append(transcript, x)) = UsersIn(transcript) \cup {x.id}
      /\ ToldInOrder(transcript) /\ Ahead(UsersIn(transcript), {x.id})
           => ToldInOrder(Append(transcript, x))
  BY <1>2, <1>3, ToldAppended
<1> QED BY <1>3, <1>4

LEMMA ToldStep ==
    ASSUME IInv, Accounts, NEW i \in InHand, NEW rest,
           transcript' = Append(transcript, UserMessage(i)), i \in Ids,
           UNCHANGED <<steering, followUp, accepted, gone>>,
           InHand = {i} \cup rest, InHand' = rest, Ahead({i}, rest),
           Ordered(prompts'), Ordered(pending'), HandsEmpty'
    PROVE  Accounts'
<1>1. QueuesByKind' /\ Queued' = Queued
  BY DEF Accounts, QueuesByKind, Queued
<1>2. Ahead(UsersIn(transcript), {i})
  BY DEF Accounts, InLine, Ahead
<1>3. /\ UsersIn(transcript)' = UsersIn(transcript) \cup {i}
      /\ ToldInOrder(transcript)'
  BY <1>2, UserTold DEF IInv, Accounts, InLine
<1>4. InLine'
  <2>1. Ahead(UsersIn(transcript)', InHand' \cup Queued')
    BY <1>1, <1>3 DEF Accounts, InLine, Ahead
  <2>2. Ahead(InHand', Queued')
    BY <1>1 DEF Accounts, InLine, Ahead
  <2> QED BY <1>3, <2>1, <2>2 DEF Accounts, InLine
<1>5. AllNumbered'
  <2>1. Held' = Held
    BY <1>1, <1>3 DEF Held
  <2> QED BY <2>1 DEF Accounts, AllNumbered
<1> QED BY <1>1, <1>4, <1>5 DEF Accounts

LEMMA EmitPromptAccounted ==
    ASSUME IInv, Accounts, EmitPrompt PROVE Accounts'
<1>1. /\ pc = "prompts" /\ pc' = pc /\ prompts # <<>> /\ prompts' = Tail(prompts)
      /\ pending' = pending /\ transcript' = Append(transcript, UserMessage(Head(prompts)))
      /\ UNCHANGED <<steering, followUp, accepted, gone>>
  BY DEF EmitPrompt, queues, history
<1>2. /\ prompts \in Seq(Ids) /\ pending = <<>> /\ pending' = <<>>
      /\ HandsEmpty' /\ Ordered(prompts)
  BY <1>1 DEF IInv, Shapes, Accounts, InLine, HandsEmpty
<1>3. /\ ToSet(prompts) = {Head(prompts)} \cup ToSet(Tail(prompts))
      /\ Ordered(Tail(prompts)) /\ Ahead({Head(prompts)}, ToSet(Tail(prompts)))
      /\ Head(prompts) \in Ids
  BY <1>1, <1>2, FirstAndRest, TailTyped
<1>4. InHand = ToSet(prompts) /\ InHand' = ToSet(Tail(prompts)) /\ Ordered(pending')
  BY <1>1, <1>2, EmptyHas DEF InHand
<1> QED BY <1>1, <1>2, <1>3, <1>4, ToldStep

LEMMA InjectAccounted ==
    ASSUME IInv, Accounts, Inject PROVE Accounts'
<1>1. /\ pc = "inject" /\ pc' = pc /\ pending # <<>> /\ pending' = Tail(pending)
      /\ prompts' = prompts /\ transcript' = Append(transcript, UserMessage(Head(pending)))
      /\ UNCHANGED <<steering, followUp, accepted, gone>>
  BY DEF Inject, queues, history
<1>2. /\ pending \in Seq(Ids) /\ prompts = <<>> /\ prompts' = <<>>
      /\ HandsEmpty' /\ Ordered(pending)
  BY <1>1 DEF IInv, Shapes, Accounts, InLine, HandsEmpty
<1>3. /\ ToSet(pending) = {Head(pending)} \cup ToSet(Tail(pending))
      /\ Ordered(Tail(pending)) /\ Ahead({Head(pending)}, ToSet(Tail(pending)))
      /\ Head(pending) \in Ids
  BY <1>1, <1>2, FirstAndRest, TailTyped
<1>4. InHand = ToSet(pending) /\ InHand' = ToSet(Tail(pending)) /\ Ordered(prompts')
  BY <1>1, <1>2, EmptyHas DEF InHand
<1> QED BY <1>1, <1>2, <1>3, <1>4, ToldStep

\* Steps of the loop that tell of an answer, of a result, or of nothing.
LEMMA OthersTold ==
    ASSUME Shapes, NEW x, x.role # "user", transcript' = Append(transcript, x)
    PROVE  /\ UsersIn(transcript') = UsersIn(transcript)
           /\ ToldInOrder(transcript) => ToldInOrder(transcript')
<1> DEFINE S == Conversation \cup {x}
<1>1. transcript \in Seq(S) /\ x \in S
  BY Widened DEF Shapes
<1> QED BY <1>1, ToldAppended, ZenonT(60)

LEMMA AnswerAccounted ==
    ASSUME IInv, Accounts, Response \/ ReportFailure
    PROVE  Accounts'
<1>1. /\ UNCHANGED <<prompts, pending, steering, followUp, accepted, gone>>
      /\ pc \in {"stream", "failing"} /\ pc' \notin {"prompts", "inject"}
      /\ \E i, stop, n : transcript' = Append(transcript, AssistantMessage(i, stop, n))
  BY DEF Response, Respond, ReportFailure, queues, feed
<1>2. \A i, stop, n : AssistantMessage(i, stop, n).role # "user"
  BY DEF AssistantMessage
<1>3. UsersIn(transcript') = UsersIn(transcript) /\ ToldInOrder(transcript')
  BY <1>1, <1>2, OthersTold DEF IInv, Accounts, InLine
<1> QED BY <1>1, <1>3, StillStep DEF Accounts, HandsEmpty

LEMMA ResultAccounted ==
    ASSUME IInv, Accounts, NEW k, FailTruncated(k) \/ EmitResult(k)
    PROVE  Accounts'
<1>1. /\ UNCHANGED <<prompts, pending, steering, followUp, accepted, gone>>
      /\ pc = "tools" /\ pc' = pc
      /\ transcript' = Append(transcript, ToolResultMessage(batch.id, k))
  BY DEF FailTruncated, EmitResult, queues, feed, history
<1>2. ToolResultMessage(batch.id, k).role # "user"
  BY DEF ToolResultMessage
<1>3. UsersIn(transcript') = UsersIn(transcript) /\ ToldInOrder(transcript')
  BY <1>1, <1>2, OthersTold DEF IInv, Accounts, InLine
<1> QED BY <1>1, <1>3, StillStep DEF Accounts, HandsEmpty

LEMMA DropErrorAccounted ==
    ASSUME IInv, Accounts, DropError PROVE Accounts'
<1>1. /\ UNCHANGED <<pc, prompts, pending, steering, followUp, accepted, gone>>
      /\ transcript # <<>> /\ transcript[Len(transcript)].stop = "error"
      /\ transcript' = Front(transcript)
  BY DEF DropError, queues, feed, LastMessage
<1>2. transcript[Len(transcript)].role # "user"
  <2>1. transcript[Len(transcript)] \in Conversation
    <3>1. Len(transcript) \in 1..Len(transcript)
      BY <1>1, EmptySeq, LenProperties DEF IInv, Shapes
    <3> QED BY <3>1, ElementOfSeq DEF IInv, Shapes
  <2> QED BY <1>1, <2>1 DEF Conversation, UserMessage, AssistantMessage, ToolResultMessage
<1>3. UsersIn(transcript') = UsersIn(transcript) /\ ToldInOrder(transcript')
  BY <1>1, <1>2, ToldBefore DEF IInv, Shapes, Accounts, InLine
<1> QED BY <1>1, <1>3, StillStep DEF Accounts, HandsEmpty

LEMMA QuietAccounted ==
    ASSUME IInv, Accounts,
           UNCHANGED <<prompts, pending, steering, followUp, accepted, gone, transcript>>,
           pc' # "prompts" => prompts = <<>>, pc' # "inject" => pending = <<>>
    PROVE  Accounts'
BY StillStep DEF Accounts, InLine

LEMMA ContinueTranscriptAccounted ==
    ASSUME IInv, Accounts, ContinueTranscript PROVE Accounts'
<1>1. pc = "idle" /\ prompts' = <<>> /\ UNCHANGED <<pending, queues, history, transcript>>
  BY DEF ContinueTranscript, BeginRun, Active
<1>2. prompts = <<>> /\ pending = <<>>
  BY <1>1 DEF Accounts, HandsEmpty
<1> QED BY <1>1, <1>2, QuietAccounted DEF queues, history

LEMMA CallersAccounted ==
    ASSUME IInv, Accounts, Callers PROVE Accounts'
<1>1. CASE Abort
  BY <1>1, QuietAccounted
     DEF Abort, conversation, queues, feed, history, Accounts, HandsEmpty
<1> QED
  BY <1>1, PromptAccounted, ContinueWithSteeringAccounted, ContinueWithFollowUpAccounted,
     ContinueTranscriptAccounted, SteerAccounted, FollowUpAccounted,
     ClearAllQueuesAccounted, ResetAccounted, DropErrorAccounted DEF Callers

LEMMA ToolsAccounted ==
    ASSUME IInv, Accounts, NEW k, ToolStep(k) PROVE Accounts'
<1>1. CASE FailTruncated(k) \/ EmitResult(k)
  BY <1>1, ResultAccounted
<1>2. CASE ToolStart(k) \/ PrepareImmediate(k) \/ Prepared(k)
           \/ \E terminate \in BOOLEAN : ToolEnds(k, terminate)
  BY <1>2, QuietAccounted
     DEF ToolStart, PrepareImmediate, Prepared, ToolEnds, conversation, queues, feed,
         history, Accounts, HandsEmpty
<1> QED BY <1>1, <1>2 DEF ToolStep

LEMMA LoopAccounted ==
    ASSUME IInv, Accounts, Loop PROVE Accounts'
<1> USE DEF conversation, queues, feed, history
<1>1. CASE CallModel
  BY <1>1, QuietAccounted DEF CallModel, Accounts, HandsEmpty
<1>2. CASE LaunchAll
  BY <1>2, QuietAccounted DEF LaunchAll, Accounts, HandsEmpty
<1>3. CASE BatchDone
  BY <1>3, QuietAccounted DEF BatchDone, Accounts, HandsEmpty
<1>4. CASE FinishRun
  BY <1>4, QuietAccounted DEF FinishRun, Accounts, HandsEmpty
<1>5. CASE \E k \in 1..MaxCalls : ToolStep(k)
  BY <1>5, ToolsAccounted
<1> QED
  BY <1>1, <1>2, <1>3, <1>4, <1>5, EmitPromptAccounted, PollInitialAccounted,
     InjectAccounted, AnswerAccounted, PollSteeringAccounted, PollFollowUpAccounted
     DEF Loop

LEMMA FailureAccounted ==
    ASSUME IInv, Accounts, Failure \/ (\E c \in stray : StrayEnds(c)) PROVE Accounts'
<1>1. CASE ReportFails \/ \E c \in stray : StrayEnds(c)
  BY <1>1, QuietAccounted
     DEF ReportFails, StrayEnds, conversation, queues, feed, history, Accounts, HandsEmpty
<1>2. CASE Fail \/ \E k \in 1..MaxCalls : FailExecuting(k)
  BY <1>2, AbandonAccounted DEF Fail, FailExecuting
<1> QED BY <1>1, <1>2 DEF Failure

\* The property follows from the parts of the invariant.
LEMMA AccountsComplete ==
    ASSUME IInv, Accounts PROVE MessagesAccounted
<1> DEFINE hand == prompts \o pending
           ahead == hand \o steering
           waiting == ahead \o followUp
<1>1. /\ transcript \in Seq(Conversation) /\ prompts \in Seq(Ids) /\ pending \in Seq(Ids)
      /\ steering \in Seq(Ids) /\ followUp \in Seq(Ids)
      /\ Ordered(prompts) /\ Ordered(pending) /\ Ordered(steering) /\ Ordered(followUp)
  BY DEF IInv, Shapes, Accounts, InLine
<1>2. hand \in Seq(Ids) /\ ToSet(hand) = InHand /\ Ordered(hand)
  <2>1. prompts = <<>> \/ pending = <<>>
    BY DEF Accounts, HandsEmpty
  <2>2. Ahead(ToSet(prompts), ToSet(pending))
    BY <2>1, EmptyHas DEF Ahead
  <2> QED BY <1>1, <2>2, JoinedInOrder DEF InHand
<1> HIDE DEF hand
<1>3. /\ ahead \in Seq(Ids) /\ ToSet(ahead) = InHand \cup ToSet(steering)
      /\ Ordered(ahead)
  <2>1. Ahead(ToSet(hand), ToSet(steering))
    BY <1>2 DEF Accounts, InLine, Ahead, Queued
  <2> QED BY <1>1, <1>2, <2>1, JoinedInOrder
<1> HIDE DEF ahead
<1>4. /\ waiting \in Seq(Ids) /\ ToSet(waiting) = InHand \cup Queued
      /\ Ordered(waiting)
  <2>1. Ahead(ToSet(ahead), ToSet(followUp))
    BY <1>3 DEF Accounts, InLine, Ahead, Queued
  <2>2. /\ ToSet(waiting) = ToSet(ahead) \cup ToSet(followUp)
        /\ waiting \in Seq(Ids) /\ Ordered(waiting)
    <3>1. followUp \in Seq(Ids) /\ Ordered(followUp) /\ ahead \in Seq(Ids) /\ Ordered(ahead)
      BY <1>1, <1>3
    <3> QED BY <2>1, <3>1, JoinedInOrder
  <2> QED BY <1>3, <2>2 DEF Queued
<1> HIDE DEF waiting
<1>5. DOMAIN waiting = 1..Len(waiting) /\ DOMAIN transcript = 1..Len(transcript)
  BY <1>1, <1>4, LenProperties
<1>6. \A j, k \in {i \in DOMAIN transcript : transcript[i].role = "user"} :
         j < k => Precedes(transcript[j].id, transcript[k].id)
  BY <1>5 DEF Accounts, InLine, ToldInOrder
<1>7. \A m \in UsersIn(transcript), i \in DOMAIN waiting : Precedes(m, waiting[i])
  BY <1>4, <1>5, HasElement DEF Accounts, InLine, Ahead
<1>8. \A i, j \in DOMAIN waiting : i < j => Precedes(waiting[i], waiting[j])
  BY <1>4, <1>5 DEF Ordered
<1>9. UsersIn(transcript) \cup ToSet(waiting) = Held
  BY <1>4 DEF Held
<1>10. MessagesAccounted <=>
         /\ \A j, k \in {i \in DOMAIN transcript : transcript[i].role = "user"} :
               j < k => Precedes(transcript[j].id, transcript[k].id)
         /\ \A m \in UsersIn(transcript), i \in DOMAIN waiting : Precedes(m, waiting[i])
         /\ \A i, j \in DOMAIN waiting : i < j => Precedes(waiting[i], waiting[j])
         /\ \A m \in Held, g \in gone : m[2] # g[2]
         /\ {m[2] : m \in Held \cup gone} = 1..accepted
  BY <1>9 DEF MessagesAccounted, waiting, ahead, hand
<1> QED BY <1>6, <1>7, <1>8, <1>10 DEF Accounts, AllNumbered

LEMMA InitiallyAccounted ==
    ASSUME Init PROVE Accounts
<1>1. InHand = {} /\ Queued = {} /\ Held = {} /\ UsersIn(transcript) = {}
  BY EmptyHas DEF Init, InHand, Queued, Held, UsersIn
<1>2. HandsEmpty /\ QueuesByKind
  BY EmptyHas DEF Init, HandsEmpty, QueuesByKind
<1>3. InLine
  BY <1>1, EmptyHas DEF Init, InLine, ToldInOrder, Ahead
<1>4. AllNumbered
  BY <1>1 DEF Init, AllNumbered
<1> QED BY <1>2, <1>3, <1>4 DEF Accounts

\* Every message is in exactly one place, and those of one kind keep their
\* order: through the polls of agent-loop.ts, the drained batches that
\* continue() makes prompts of, aborts and runs that fail with messages in hand.
THEOREM MessagesAlwaysAccounted == Spec => []MessagesAccounted
<1>1. Init => Accounts
  BY InitiallyAccounted
<1>2. IInv /\ Accounts /\ [Next]_vars => Accounts'
  <2> SUFFICES ASSUME IInv, Accounts, [Next]_vars PROVE Accounts'
    OBVIOUS
  <2>1. CASE UNCHANGED vars
    BY <2>1, QuietAccounted
       DEF vars, conversation, queues, feed, history, Accounts, HandsEmpty
  <2> QED BY <2>1, CallersAccounted, LoopAccounted, FailureAccounted DEF Next
<1>3. IInv /\ Accounts => MessagesAccounted
  BY AccountsComplete
<1> QED BY <1>1, <1>2, <1>3, AgentInvariant, PTL DEF Spec
-----------------------------------------------------------------------------
(* What transformMessages() makes of a conversation.                       *)

Whole(m) == m.role = "assistant" /\ m.stop \notin BrokenStops

\* What conversations are made of: results of any call can be made up.
Talk(S) ==
    \A m \in S :
        /\ m.role \in {"user", "assistant", "toolResult"}
        /\ m.role = "assistant" =>
              /\ m = AssistantMessage(m.id, m.stop, m.calls) /\ m.calls \in Nat
              /\ \A k \in 1..m.calls : ToolResultMessage(m.id, k) \in S
        /\ m.role = "toolResult" =>
              m = ToolResultMessage(m.id, m.call) /\ m.call \in Nat \ {0}

\* The message at j is a response, and the first k of its results follow it.
Answers(messages, j, k) ==
    /\ j \in 1..Len(messages) /\ Whole(messages[j]) /\ k <= messages[j].calls
    /\ \A h \in 1..k : /\ j + h \in 1..Len(messages)
                      /\ messages[j + h] = ToolResultMessage(messages[j].id, h)

\* Each result stands behind its response and the results before it.
ResultsInPlace(messages) ==
    \A i \in 1..Len(messages) :
        messages[i].role = "toolResult" =>
            Answers(messages, i - messages[i].call, messages[i].call)

\* The first b messages of a request are well formed by themselves.
FormedAt(req, b, i) ==
    /\ req[i].role = "assistant" =>
          /\ req[i].stop \notin BrokenStops
          /\ i + req[i].calls <= b
          /\ \A k \in 1..req[i].calls : req[i + k] = ToolResultMessage(req[i].id, k)
    /\ req[i].role = "toolResult" =>
          /\ req[i].call < i
          /\ req[i - req[i].call].role = "assistant"
          /\ req[i - req[i].call].id = req[i].id
          /\ req[i].call \in 1..req[i - req[i].call].calls

Formed(req, b) == b \in 0..Len(req) /\ \A i \in 1..b : FormedAt(req, b, i)

LEMMA FormedIsWellFormed ==
    ASSUME NEW S, NEW req \in Seq(S), Formed(req, Len(req))
    PROVE  WellFormedRequest(req)
<1>1. DOMAIN req = 1..Len(req)
  BY LenProperties
<1> QED BY <1>1 DEF Formed, FormedAt, WellFormedRequest

\* One request goes on from the other.
Extends(q, req, b) ==
    /\ b \in 0..Len(req) /\ b \in 0..Len(q) /\ Len(req) \in Nat /\ Len(q) \in Nat
    /\ \A i \in 1..b : q[i] = req[i]

LEMMA FormedExtends ==
    ASSUME NEW S, Talk(S), NEW req \in Seq(S), NEW q, NEW b, Extends(q, req, b),
           Formed(req, b)
    PROVE  Formed(q, b)
<1>1. \A i \in 1..b : req[i] \in S
  BY ElementOfSeq DEF Extends
<1>2. ASSUME NEW i \in 1..b PROVE FormedAt(q, b, i)
  <2>1. q[i] = req[i] /\ FormedAt(req, b, i) /\ req[i] \in S
    BY <1>1, <1>2 DEF Extends, Formed
  <2>2. ASSUME req[i].role = "assistant"
        PROVE  \A k \in 1..req[i].calls : q[i + k] = req[i + k]
    <3>1. req[i].calls \in Nat /\ i + req[i].calls <= b
      BY <2>1, <2>2 DEF FormedAt, Talk
    <3>2. b \in Nat /\ \A k \in 1..req[i].calls : i + k \in 1..b
      BY <3>1 DEF Extends
    <3> QED BY <3>2 DEF Extends
  <2>3. ASSUME req[i].role = "toolResult"
        PROVE  q[i - req[i].call] = req[i - req[i].call]
    <3>1. req[i].call \in Nat /\ req[i].call < i
      BY <2>1, <2>3 DEF FormedAt, Talk
    <3>2. b \in Nat /\ i - req[i].call \in 1..b
      BY <3>1 DEF Extends
    <3> QED BY <3>2 DEF Extends
  <2> QED BY <2>1, <2>2, <2>3 DEF FormedAt
<1> QED BY <1>2 DEF Formed, Extends

\* A message of the user goes on with a request.
LEMMA FormedUser ==
    ASSUME NEW S, Talk(S), NEW req \in Seq(S), NEW m \in S, Formed(req, Len(req)),
           m.role = "user"
    PROVE  Append(req, m) \in Seq(S) /\ Formed(Append(req, m), Len(Append(req, m)))
<1> DEFINE q == Append(req, m)
           b == Len(req)
<1>1. /\ q \in Seq(S) /\ Len(q) = b + 1 /\ b \in Nat /\ q[b + 1] = m
      /\ \A i \in 1..b : q[i] = req[i]
  BY LenProperties, AppendProperties
<1> HIDE DEF q
<1>2. Formed(q, b)
  <2>1. Extends(q, req, b)
    BY <1>1 DEF Extends
  <2> QED BY <2>1, FormedExtends
<1>3. ASSUME NEW i \in 1..b + 1 PROVE FormedAt(q, b + 1, i)
  <2>1. CASE i \in 1..b
    <3>1. FormedAt(q, b, i) /\ q[i] \in S
      BY <1>1, <1>2, <2>1, ElementOfSeq DEF Formed
    <3>2. q[i].role = "assistant" => q[i].calls \in Nat
      BY <3>1 DEF Talk
    <3> QED BY <1>1, <2>1, <3>1, <3>2 DEF FormedAt
  <2>2. CASE i = b + 1
    BY <1>1, <2>2 DEF FormedAt
  <2> QED BY <1>1, <2>1, <2>2
<1> QED BY <1>1, <1>3 DEF Formed, q

\* Whole(m) at b + 1, and the results of its calls behind it.
Complete(req, m, b) ==
    /\ b \in Nat /\ m.calls \in Nat /\ Whole(m) /\ Len(req) = b + 1 + m.calls
    /\ req[b + 1] = m
    /\ \A k \in 1..m.calls : req[b + 1 + k] = ToolResultMessage(m.id, k)

LEMMA FormedComplete ==
    ASSUME NEW S, Talk(S), NEW req \in Seq(S), NEW m \in S, NEW b, Formed(req, b),
           Complete(req, m, b)
    PROVE  Formed(req, Len(req))
<1>1. /\ b \in Nat /\ m.calls \in Nat /\ Len(req) = b + 1 + m.calls /\ req[b + 1] = m
      /\ m.role = "assistant" /\ m.stop \notin BrokenStops
      /\ \A k \in 1..m.calls : req[b + 1 + k] = ToolResultMessage(m.id, k)
  BY DEF Complete, Whole
<1>2. ASSUME NEW i \in 1..b PROVE FormedAt(req, Len(req), i)
  <2>1. i \in 1..Len(req) /\ FormedAt(req, b, i)
    BY <1>1, <1>2 DEF Formed
  <2>2. req[i].role = "assistant" => req[i].calls \in Nat
    BY <2>1, ElementOfSeq DEF Talk
  <2>3. req[i].role = "assistant" /\ i + req[i].calls <= b => i + req[i].calls <= Len(req)
    BY <1>1, <2>1, <2>2
  <2> QED BY <2>1, <2>3 DEF FormedAt
<1>3. FormedAt(req, Len(req), b + 1)
  BY <1>1 DEF FormedAt
<1>4. ASSUME NEW k \in 1..m.calls PROVE FormedAt(req, Len(req), b + 1 + k)
  <2>1. /\ req[b + 1 + k] = ToolResultMessage(m.id, k) /\ k \in Nat
        /\ k < b + 1 + k /\ (b + 1 + k) - k = b + 1
    BY <1>1, <1>4
  <2>2. /\ req[b + 1 + k].role = "toolResult" /\ req[b + 1 + k].id = m.id
        /\ req[b + 1 + k].call = k
    BY <2>1 DEF ToolResultMessage
  <2> QED BY <1>1, <2>1, <2>2 DEF FormedAt
<1>5. ASSUME NEW i \in 1..Len(req)
      PROVE  i \in 1..b \/ i = b + 1 \/ \E k \in 1..m.calls : i = b + 1 + k
  <2>1. CASE i > b + 1
    <3>1. i - (b + 1) \in 1..m.calls /\ i = b + 1 + (i - (b + 1))
      BY <1>1, <2>1
    <3> QED BY <3>1
  <2> QED BY <1>1, <2>1
<1> QED BY <1>1, <1>2, <1>3, <1>4, <1>5 DEF Formed

-----------------------------------------------------------------------------
(* The results that are made up.                                           *)

FirstCalls(id, r) == {<<id, k>> : k \in 1..r}

\* The loop over the calls of acc.owner.
Owed(acc) ==
    CHOOSE owed : owed =
        [k \in 0..acc.owner.calls |->
            IF k = 0 THEN <<>>
            ELSE IF <<acc.owner.id, k>> \in acc.answered THEN owed[k - 1]
            ELSE Append(owed[k - 1], ToolResultMessage(acc.owner.id, k))]

\* Where the first r of c calls are answered, the others are owed in order.
LEMMA OwedIs ==
    ASSUME NEW S, Talk(S), NEW acc, NEW c \in Nat, NEW r \in 0..c, NEW id,
           acc.owner.calls = c, acc.owner.id = id, acc.answered = FirstCalls(id, r),
           \A k \in 1..c : ToolResultMessage(id, k) \in S
    PROVE  /\ SyntheticToolResults(acc) \in Seq(S)
           /\ Len(SyntheticToolResults(acc)) = c - r
           /\ \A j \in 1..c - r : SyntheticToolResults(acc)[j] = ToolResultMessage(id, r + j)
<1> DEFINE x(k) == ToolResultMessage(id, k)
           f == [k \in 0..c |-> IF k <= r THEN <<>> ELSE [j \in 1..k - r |-> x(r + j)]]
<1>1. \A k \in 1..c : <<id, k>> \in acc.answered <=> k <= r
  BY DEF FirstCalls
<1>2. \A k \in 1..c : x(k) \in S
  OBVIOUS
<1> HIDE DEF x
<1>3. ASSUME NEW k \in 1..c, k > r
      PROVE  f[k] = Append(f[k - 1], x(k))
  <2> DEFINE before == [j \in 1..k - 1 - r |-> x(r + j)]
             now == [j \in 1..k - r |-> x(r + j)]
  <2>1. k - 1 - r \in Nat /\ k - r \in Nat /\ k - r = (k - 1 - r) + 1 /\ k \in 0..c /\ k - 1 \in 0..c
    BY <1>3
  <2>2. before \in Seq(S) /\ Len(before) = k - 1 - r
    <3>1. \A j \in 1..k - 1 - r : r + j \in 1..c
      BY <1>3
    <3>2. \A j \in 1..k - 1 - r : x(r + j) \in S
      BY <1>2, <3>1
    <3> QED BY <2>1, <3>2, IsASeq, LenProperties
  <2>3. now = Append(before, x(k))
    <3>1. \A j \in 1..k - r : r + j \in 1..c
      BY <1>3
    <3>2. \A j \in 1..k - r : x(r + j) \in S
      BY <1>2, <3>1
    <3>3. now \in Seq(S) /\ Len(now) = k - r
      BY <2>1, <3>2, IsASeq, LenProperties
    <3>4. \A j \in 1..k - 1 - r : now[j] = before[j]
      BY <2>1
    <3>5. now[k - r] = x(k)
      BY <1>3, <2>1
    <3>6. x(k) \in S
      BY <1>2
    <3> HIDE DEF now, before
    <3>7. /\ Append(before, x(k)) \in Seq(S) /\ Len(Append(before, x(k))) = k - r
          /\ \A j \in 1..k - 1 - r : Append(before, x(k))[j] = before[j]
          /\ Append(before, x(k))[k - r] = x(k)
      BY <2>1, <2>2, <3>6, AppendProperties
    <3>8. \A j \in 1..k - r : j \in 1..k - 1 - r \/ j = k - r
      BY <2>1
    <3>9. \A j \in 1..k - r : now[j] = Append(before, x(k))[j]
      BY <3>4, <3>5, <3>7, <3>8
    <3> QED BY <3>3, <3>7, <3>9, SeqEqual
  <2>4. f[k] = now
    BY <1>3, <2>1
  <2>5. f[k - 1] = before
    <3>1. CASE k - 1 <= r
      <4>1. k - 1 - r = 0
        BY <1>3, <3>1
      <4>2. before = <<>>
        BY <2>2, <4>1, EmptySeq
      <4> QED BY <2>1, <3>1, <4>2
    <3>2. CASE ~(k - 1 <= r)
      BY <2>1, <3>2
    <3> QED BY <3>1, <3>2
  <2> HIDE DEF f, before, now
  <2> QED BY <2>3, <2>4, <2>5
<1>4. f[0] = <<>> /\ \A k \in 1..c : k <= r => f[k] = f[k - 1]
  OBVIOUS
<1>5. f = [k \in 0..c |-> f[k]]
  OBVIOUS
<1> HIDE DEF f
<1>6. f = [k \in 0..c |-> IF k = 0 THEN <<>>
                          ELSE IF <<id, k>> \in acc.answered THEN f[k - 1]
                          ELSE Append(f[k - 1], x(k))]
  <2>1. ASSUME NEW k \in 0..c
        PROVE  f[k] = IF k = 0 THEN <<>>
                      ELSE IF <<id, k>> \in acc.answered THEN f[k - 1]
                      ELSE Append(f[k - 1], x(k))
    <3>1. CASE k = 0
      BY <1>4, <3>1
    <3>2. CASE k \in 1..c /\ k <= r
      BY <1>1, <1>4, <3>2
    <3>3. CASE k \in 1..c /\ k > r
      <4>1. <<id, k>> \notin acc.answered /\ k # 0
        BY <1>1, <3>3
      <4> QED BY <1>3, <3>3, <4>1
    <3>4. k = 0 \/ (k \in 1..c /\ k <= r) \/ (k \in 1..c /\ k > r)
      OBVIOUS
    <3> QED BY <3>1, <3>2, <3>3, <3>4
  <2> QED BY <1>5, <2>1, Zenon
<1>7. Owed(acc) = [k \in 0..c |-> IF k = 0 THEN <<>>
                          ELSE IF <<id, k>> \in acc.answered THEN Owed(acc)[k - 1]
                          ELSE Append(Owed(acc)[k - 1], x(k))]
  BY <1>6, ZenonT(60) DEF Owed, x
<1> DEFINE g == Owed(acc)
           T == {k \in Nat : k <= c => g[k] = f[k]}
<1>8. g[0] = <<>> /\ \A k \in 1..c : g[k] = IF <<id, k>> \in acc.answered THEN g[k - 1]
                                       ELSE Append(g[k - 1], x(k))
  <2>1. 0 \in 0..c /\ \A k \in 1..c : k \in 0..c /\ k # 0
    OBVIOUS
  <2> HIDE DEF g
  <2>2. g = [k \in 0..c |-> IF k = 0 THEN <<>>
                            ELSE IF <<id, k>> \in acc.answered THEN g[k - 1]
                            ELSE Append(g[k - 1], x(k))]
    BY <1>7 DEF g
  <2>3. \A k \in 0..c : g[k] = IF k = 0 THEN <<>>
                               ELSE IF <<id, k>> \in acc.answered THEN g[k - 1]
                               ELSE Append(g[k - 1], x(k))
    BY <2>2, Zenon
  <2> QED BY <2>1, <2>3
<1>9. SyntheticToolResults(acc) = g[c]
  BY Zenon DEF SyntheticToolResults, Owed
<1> HIDE DEF g
<1>10. 0 \in T
  BY <1>4, <1>8
<1>11. ASSUME NEW k \in Nat, k \in T PROVE k + 1 \in T
  <2> SUFFICES ASSUME k + 1 <= c PROVE g[k + 1] = f[k + 1]
    OBVIOUS
  <2>1. k + 1 \in 1..c /\ (k + 1) - 1 = k /\ g[k] = f[k]
    BY <1>11
  <2>2. g[k + 1] = IF <<id, k + 1>> \in acc.answered THEN g[k] ELSE Append(g[k], x(k + 1))
    BY <1>8, <2>1
  <2>3. f[k + 1] = IF k + 1 <= r THEN f[k] ELSE Append(f[k], x(k + 1))
    <3>1. CASE k + 1 <= r
      BY <1>4, <2>1, <3>1
    <3>2. CASE ~(k + 1 <= r)
      <4>1. k + 1 > r
        BY <3>2
      <4> QED BY <1>3, <2>1, <3>2, <4>1
    <3> QED BY <3>1, <3>2
  <2> QED BY <1>1, <2>1, <2>2, <2>3
<1> HIDE DEF T
<1>12. Nat \subseteq T
  BY <1>10, <1>11, Induction
<1>13. g[c] = f[c]
  BY <1>12 DEF T
<1>14. f[c] \in Seq(S) /\ Len(f[c]) = c - r /\ \A j \in 1..c - r : f[c][j] = x(r + j)
  <2>1. CASE c = r
    <3>1. f[c] = <<>> /\ c - r = 0
      BY <2>1 DEF f
    <3> QED BY <3>1
  <2>2. CASE c # r
    <3>1. c > r /\ c - r \in Nat /\ \A j \in 1..c - r : r + j \in 1..c
      BY <2>2
    <3>2. f[c] = [j \in 1..c - r |-> x(r + j)]
      BY <3>1 DEF f
    <3>3. \A j \in 1..c - r : x(r + j) \in S
      BY <1>2, <3>1
    <3> QED BY <3>1, <3>2, <3>3, IsASeq, LenProperties
  <2> QED BY <2>1, <2>2
<1> QED BY <1>9, <1>13, <1>14 DEF x

-----------------------------------------------------------------------------
(* The second pass has no response open, or one with r results behind it.  *)

IsPass(acc) ==
    acc = [result |-> acc.result, owner |-> acc.owner, answered |-> acc.answered]

Closed(S, acc) ==
    /\ IsPass(acc) /\ acc.result \in Seq(S) /\ acc.owner.calls = 0
    /\ Formed(acc.result, Len(acc.result))

Ends(req, m, r, b) ==
    /\ b \in Nat /\ Len(req) = b + 1 + r /\ Formed(req, b) /\ req[b + 1] = m
    /\ \A k \in 1..r : req[b + 1 + k] = ToolResultMessage(m.id, k)

Opened(S, acc, r) ==
    /\ IsPass(acc) /\ acc.result \in Seq(S)
    /\ acc.owner \in S /\ Whole(acc.owner) /\ acc.owner.calls \in Nat \ {0}
    /\ r \in 0..acc.owner.calls /\ acc.answered = FirstCalls(acc.owner.id, r)
    /\ \E b : Ends(acc.result, acc.owner, r, b)

Passing(S, acc) == Closed(S, acc) \/ \E r : Opened(S, acc, r)

\* What is made up completes the results.
LEMMA OpenedCompletes ==
    ASSUME NEW S, Talk(S), NEW req \in Seq(S), NEW m \in S, Whole(m), NEW r \in 0..m.calls,
           m.calls \in Nat, NEW b, Ends(req, m, r, b), NEW made \in Seq(S),
           Len(made) = m.calls - r,
           \A j \in 1..m.calls - r : made[j] = ToolResultMessage(m.id, r + j)
    PROVE  req \o made \in Seq(S) /\ Formed(req \o made, Len(req \o made))
<1> DEFINE q == req \o made
           c == m.calls
<1>1. /\ b \in Nat /\ r \in Nat /\ c \in Nat /\ r <= c /\ Len(req) = b + 1 + r
      /\ req[b + 1] = m /\ Formed(req, b)
  BY DEF Ends
<1>2. /\ q \in Seq(S) /\ Len(q) = Len(req) + Len(made)
      /\ \A i \in 1..Len(req) + Len(made) :
            q[i] = IF i <= Len(req) THEN req[i] ELSE made[i - Len(req)]
  BY ConcatProperties
<1> HIDE DEF q, c
<1>3. Len(made) = c - r /\ Len(q) = b + 1 + c
  BY <1>1, <1>2 DEF c
<1>4. \A i \in 1..b + 1 + r : i \in 1..b + 1 + c /\ q[i] = req[i]
  BY <1>1, <1>2, <1>3
<1>5. Extends(q, req, b)
  BY <1>1, <1>3, <1>4, SMTT(40) DEF Extends
<1>6. Formed(q, b)
  BY <1>1, <1>5, FormedExtends
<1>7. ASSUME NEW k \in 1..c PROVE q[b + 1 + k] = ToolResultMessage(m.id, k)
  <2>1. CASE k <= r
    <3>1. k \in 1..r /\ b + 1 + k \in 1..b + 1 + r
      BY <1>1, <2>1
    <3> QED BY <1>4, <3>1 DEF Ends
  <2>2. CASE k > r
    <3>1. /\ k - r \in 1..c - r /\ r + (k - r) = k
          /\ b + 1 + k \in 1..Len(req) + Len(made) /\ ~(b + 1 + k <= Len(req))
          /\ (b + 1 + k) - Len(req) = k - r
      <4>1. /\ b \in Nat /\ r \in Nat /\ c \in Nat /\ k \in 1..c /\ k > r
            /\ Len(req) = b + 1 + r /\ Len(made) = c - r
        BY <1>1, <1>3, <2>2
      <4> QED BY <4>1
    <3>2. q[b + 1 + k] = made[k - r]
      BY <1>2, <3>1
    <3>3. made[k - r] = ToolResultMessage(m.id, r + (k - r))
      BY <3>1 DEF c
    <3> QED BY <3>1, <3>2, <3>3
  <2> QED BY <1>1, <2>1, <2>2
<1>8. q[b + 1] = m
  BY <1>1, <1>4
<1>9. Complete(q, m, b)
  BY <1>1, <1>3, <1>7, <1>8 DEF Complete, c
<1>10. Formed(q, Len(q))
  BY <1>2, <1>6, <1>9, FormedComplete
<1> QED BY <1>2, <1>10 DEF q

LEMMA Inserted ==
    ASSUME NEW S, Talk(S), NEW acc, Passing(S, acc)
    PROVE  Closed(S, InsertSyntheticToolResults(acc))
<1>1. CASE Closed(S, acc)
  BY <1>1 DEF Closed, InsertSyntheticToolResults
<1>2. ASSUME NEW r, Opened(S, acc, r) PROVE Closed(S, InsertSyntheticToolResults(acc))
  <2> DEFINE made == SyntheticToolResults(acc)
             c == acc.owner.calls
  <2>1. /\ acc.owner \in S /\ acc.owner.role = "assistant" /\ Whole(acc.owner)
        /\ c \in Nat /\ c # 0 /\ r \in 0..c
        /\ acc.answered = FirstCalls(acc.owner.id, r) /\ acc.result \in Seq(S)
    BY <1>2 DEF Opened, Whole
  <2>2. acc.owner = AssistantMessage(acc.owner.id, acc.owner.stop, c)
        /\ \A k \in 1..c : ToolResultMessage(acc.owner.id, k) \in S
    BY <2>1 DEF Talk
  <2>3. /\ made \in Seq(S) /\ Len(made) = c - r
        /\ \A j \in 1..c - r : made[j] = ToolResultMessage(acc.owner.id, r + j)
    BY <2>1, <2>2, OwedIs
  <2>4. PICK b : Ends(acc.result, acc.owner, r, b)
    BY <1>2 DEF Opened
  <2>5. acc.result \o made \in Seq(S) /\ Formed(acc.result \o made, Len(acc.result \o made))
    <3> HIDE DEF made
    <3> QED BY <2>1, <2>3, <2>4, OpenedCompletes
  <2>6. InsertSyntheticToolResults(acc) =
          [result |-> acc.result \o made, owner |-> [acc.owner EXCEPT !.calls = 0],
           answered |-> {}]
    BY <2>1 DEF InsertSyntheticToolResults
  <2>7. [acc.owner EXCEPT !.calls = 0].calls = 0
    BY <2>2 DEF AssistantMessage
  <2> DEFINE p == InsertSyntheticToolResults(acc)
             res == acc.result \o made
  <2>8. p = [result |-> res, owner |-> [acc.owner EXCEPT !.calls = 0], answered |-> {}]
    BY <2>6
  <2>9. res \in Seq(S) /\ Formed(res, Len(res))
    BY <2>5
  <2> HIDE DEF p, res
  <2>10. p.result = res /\ p.owner.calls = 0 /\ IsPass(p)
    BY <2>7, <2>8 DEF IsPass
  <2>11. Closed(S, p)
    BY <2>9, <2>10 DEF Closed
  <2> QED BY <2>11 DEF p
<1> QED BY <1>1, <1>2 DEF Passing

\* A response opens, and its next result follows.
LEMMA EndsAppended ==
    ASSUME NEW S, Talk(S), NEW req \in Seq(S), NEW m \in S, Formed(req, Len(req))
    PROVE  Append(req, m) \in Seq(S) /\ Ends(Append(req, m), m, 0, Len(req))
<1> DEFINE q == Append(req, m)
           b == Len(req)
<1>1. /\ q \in Seq(S) /\ Len(q) = b + 1 /\ b \in Nat /\ q[b + 1] = m
      /\ \A i \in 1..b : q[i] = req[i]
  BY LenProperties, AppendProperties
<1> HIDE DEF q
<1>2. Extends(q, req, b)
  BY <1>1 DEF Extends
<1>3. Formed(q, b)
  BY <1>2, FormedExtends
<1>4. Ends(q, m, 0, b)
  BY <1>1, <1>3 DEF Ends
<1> QED BY <1>1, <1>4 DEF q

LEMMA EndsFurther ==
    ASSUME NEW S, Talk(S), NEW req \in Seq(S), NEW m, NEW r \in Nat, NEW b,
           Ends(req, m, r, b), ToolResultMessage(m.id, r + 1) \in S
    PROVE  /\ Append(req, ToolResultMessage(m.id, r + 1)) \in Seq(S)
           /\ Ends(Append(req, ToolResultMessage(m.id, r + 1)), m, r + 1, b)
<1> DEFINE x == ToolResultMessage(m.id, r + 1)
           q == Append(req, x)
<1> HIDE DEF x
<1>1. /\ b \in Nat /\ Len(req) = b + 1 + r /\ Formed(req, b) /\ req[b + 1] = m
      /\ \A k \in 1..r : req[b + 1 + k] = ToolResultMessage(m.id, k)
      /\ x \in S
  BY DEF Ends, x
<1>2. /\ q \in Seq(S) /\ Len(q) = b + 1 + (r + 1) /\ q[b + 1 + (r + 1)] = x
      /\ \A i \in 1..b + 1 + r : q[i] = req[i]
  <2>1. /\ q \in Seq(S) /\ Len(q) = Len(req) + 1 /\ q[Len(req) + 1] = x
        /\ \A i \in 1..Len(req) : q[i] = req[i]
    BY <1>1, AppendProperties
  <2>2. Len(req) + 1 = b + 1 + (r + 1)
    BY <1>1
  <2> HIDE DEF q
  <2> QED BY <1>1, <2>1, <2>2
<1> HIDE DEF q
<1>3. Formed(q, b)
  <2>1. Extends(q, req, b)
    BY <1>1, <1>2 DEF Extends
  <2> QED BY <1>1, <2>1, FormedExtends
<1>4. q[b + 1] = m
  BY <1>1, <1>2
<1>5. ASSUME NEW k \in 1..r + 1 PROVE q[b + 1 + k] = ToolResultMessage(m.id, k)
  <2>1. CASE k \in 1..r
    BY <1>1, <1>2, <2>1
  <2>2. CASE k = r + 1
    BY <1>2, <2>2 DEF x
  <2> QED BY <2>1, <2>2
<1>6. Ends(q, m, r + 1, b)
  BY <1>1, <1>2, <1>3, <1>4, <1>5 DEF Ends
<1> QED BY <1>2, <1>6 DEF q, x

-----------------------------------------------------------------------------
(* One iteration of the loop.                                              *)

\* The response that the last messages follow is the one that is open.
Tracks(S, messages, n, acc) ==
    \A r \in 0..n - 1 :
        Answers(messages, n - r, r) /\ messages[n - r].calls # 0
           => acc.owner = messages[n - r] /\ Opened(S, acc, r)

\* Only a result is told after the response it answers.
LEMMA NoResultTracks ==
    ASSUME NEW messages, NEW n \in Nat, messages[n + 1].role # "toolResult",
           NEW r \in 0..n, Answers(messages, n + 1 - r, r)
    PROVE  r = 0
<1> SUFFICES ASSUME r # 0 PROVE FALSE
  OBVIOUS
<1>1. r \in 1..r /\ n + 1 - r + r = n + 1
  OBVIOUS
<1>2. messages[n + 1] = ToolResultMessage(messages[n + 1 - r].id, r)
  BY <1>1 DEF Answers
<1> QED BY <1>2 DEF ToolResultMessage

LEMMA StepCloses ==
    ASSUME NEW S, Talk(S), NEW messages \in Seq(S), NEW n \in 0..Len(messages) - 1,
           NEW acc, Closed(S, acc),
           LET m == messages[n + 1]
           IN  m.role # "toolResult" /\ (m.role = "assistant" => ~Whole(m) \/ m.calls = 0)
    PROVE  Passing(S, acc) /\ Tracks(S, messages, n + 1, acc)
<1>1. n \in Nat /\ messages[n + 1].role # "toolResult"
  BY LenProperties
<1>2. ASSUME NEW r \in 0..(n + 1) - 1, Answers(messages, n + 1 - r, r),
             messages[n + 1 - r].calls # 0
      PROVE  FALSE
  <2>1. r \in 0..n
    BY <1>1, <1>2
  <2>2. r = 0
    BY <1>1, <1>2, <2>1, NoResultTracks
  <2>3. Whole(messages[n + 1]) /\ messages[n + 1].calls # 0
    BY <1>1, <1>2, <2>2 DEF Answers
  <2> QED BY <2>3 DEF Whole
<1>3. Tracks(S, messages, n + 1, acc)
  <2> SUFFICES ASSUME NEW r \in 0..(n + 1) - 1, Answers(messages, n + 1 - r, r),
                      messages[n + 1 - r].calls # 0
               PROVE  FALSE
    BY SMTT(40) DEF Tracks
  <2> QED BY <1>2
<1> QED BY <1>3 DEF Passing

LEMMA StepOpens ==
    ASSUME NEW S, Talk(S), NEW messages \in Seq(S), NEW n \in 0..Len(messages) - 1,
           NEW acc, Opened(S, acc, 0), acc.owner = messages[n + 1]
    PROVE  Passing(S, acc) /\ Tracks(S, messages, n + 1, acc)
<1>1. n \in Nat /\ messages[n + 1].role # "toolResult"
  BY LenProperties DEF Opened, Whole
<1>2. ASSUME NEW r \in 0..(n + 1) - 1, Answers(messages, n + 1 - r, r)
      PROVE  acc.owner = messages[n + 1 - r] /\ Opened(S, acc, r)
  <2>1. r \in 0..n
    BY <1>1, <1>2
  <2>2. r = 0
    BY <1>1, <1>2, <2>1, NoResultTracks
  <2>3. n + 1 - r = n + 1
    BY <1>1, <2>2
  <2> QED BY <2>2, <2>3
<1> QED BY <1>2 DEF Passing, Tracks

LEMMA StepGoesOn ==
    ASSUME NEW S, Talk(S), NEW messages \in Seq(S), NEW n \in 0..Len(messages) - 1,
           ResultsInPlace(messages), NEW acc, Tracks(S, messages, n, acc),
           messages[n + 1].role = "toolResult"
    PROVE  \E r \in 0..n - 1 :
              /\ Opened(S, acc, r) /\ r < acc.owner.calls /\ acc.owner = messages[n - r]
              /\ messages[n + 1] = ToolResultMessage(acc.owner.id, r + 1)
<1> DEFINE m == messages[n + 1]
           k == m.call
           j == (n + 1) - k
<1>1. n \in Nat /\ n + 1 \in 1..Len(messages) /\ m \in S
  <2>1. n \in Nat /\ n + 1 \in 1..Len(messages)
    BY LenProperties
  <2> QED BY <2>1, ElementOfSeq
<1>2. k \in Nat /\ k # 0
  BY <1>1 DEF Talk
<1>3. Answers(messages, j, k)
  <2>1. \A i \in 1..Len(messages) :
           messages[i].role = "toolResult" =>
              Answers(messages, i - messages[i].call, messages[i].call)
    BY DEF ResultsInPlace
  <2> DEFINE i == n + 1
  <2>2. i \in 1..Len(messages) /\ messages[i].role = "toolResult"
    BY <1>1
  <2> HIDE DEF i
  <2>3. Answers(messages, i - messages[i].call, messages[i].call)
    BY <2>1, <2>2
  <2> QED BY <2>3 DEF i
<1> HIDE DEF k
<1>4. /\ k - 1 \in 0..n - 1 /\ n - (k - 1) = j /\ j \in 1..Len(messages) /\ j + k = n + 1
      /\ k \in 1..k /\ \A h \in 1..k - 1 : h \in 1..k
  <2>1. j \in 1..Len(messages)
    BY <1>3 DEF Answers
  <2> QED BY <1>1, <1>2, <2>1
<1>5. messages[j] \in S /\ Whole(messages[j]) /\ k <= messages[j].calls
  BY <1>3, <1>4, ElementOfSeq DEF Answers
<1>6. messages[j].calls \in Nat /\ messages[j].calls # 0 /\ k - 1 < messages[j].calls
  <2>1. messages[j].calls \in Nat
    BY <1>5 DEF Talk, Whole
  <2> QED BY <1>2, <1>5, <2>1
<1>7. Answers(messages, n - (k - 1), k - 1)
  <2>1. k - 1 <= messages[j].calls
    BY <1>2, <1>6
  <2> HIDE DEF j
  <2> QED BY <1>3, <1>4, <2>1 DEF Answers
<1>8. acc.owner = messages[n - (k - 1)] /\ Opened(S, acc, k - 1)
  BY <1>4, <1>6, <1>7 DEF Tracks
<1>9. m = ToolResultMessage(messages[j].id, k)
  <2> HIDE DEF j, m
  <2>1. messages[j + k] = ToolResultMessage(messages[j].id, k)
    BY <1>3, <1>4 DEF Answers
  <2> QED BY <1>4, <2>1 DEF m
<1>10. (k - 1) + 1 = k
  BY <1>2
<1> HIDE DEF j, m
<1> QED BY <1>4, <1>6, <1>8, <1>9, <1>10 DEF m

\* Appending a result to a pass.
LEMMA ResultOpens ==
    ASSUME NEW S, Talk(S), NEW acc, NEW r, Opened(S, acc, r), r < acc.owner.calls,
           NEW m, m = ToolResultMessage(acc.owner.id, r + 1)
    PROVE  /\ Opened(S, TransformStep(acc, m), r + 1)
           /\ TransformStep(acc, m).owner = acc.owner
<1> DEFINE p == TransformStep(acc, m)
<1>1. m.role = "toolResult" /\ <<m.id, m.call>> = <<acc.owner.id, r + 1>>
  BY DEF ToolResultMessage
<1>2. p = [acc EXCEPT !.result = Append(acc.result, m),
                      !.answered = @ \cup {<<m.id, m.call>>}]
  BY <1>1 DEF TransformStep
<1>3. acc = [result |-> acc.result, owner |-> acc.owner, answered |-> acc.answered]
  BY DEF Opened, IsPass
<1> HIDE DEF p
<1>4. p = [result |-> Append(acc.result, m), owner |-> acc.owner,
           answered |-> acc.answered \cup {<<m.id, m.call>>}]
  BY <1>2, <1>3
<1>5. /\ p.result = Append(acc.result, m) /\ p.owner = acc.owner /\ IsPass(p)
      /\ p.answered = acc.answered \cup {<<acc.owner.id, r + 1>>}
  BY <1>1, <1>4 DEF IsPass
<1>6. /\ acc.owner \in S /\ acc.owner.calls \in Nat \ {0} /\ r \in Nat /\ Whole(acc.owner)
      /\ r + 1 \in 1..acc.owner.calls /\ acc.result \in Seq(S)
      /\ acc.answered = FirstCalls(acc.owner.id, r)
  BY DEF Opened
<1>7. m \in S
  BY <1>6 DEF Talk, Whole
<1>8. PICK b : Ends(acc.result, acc.owner, r, b)
  BY DEF Opened
<1>9. Append(acc.result, m) \in Seq(S) /\ Ends(Append(acc.result, m), acc.owner, r + 1, b)
  BY <1>6, <1>7, <1>8, EndsFurther
<1>10. acc.answered \cup {<<acc.owner.id, r + 1>>} = FirstCalls(acc.owner.id, r + 1)
  <2>1. 1..r + 1 = 1..r \cup {r + 1}
    BY <1>6
  <2> QED BY <1>6, <2>1 DEF FirstCalls
<1>11. r + 1 \in 0..acc.owner.calls
  BY <1>6
<1>12. Opened(S, p, r + 1)
  BY <1>5, <1>6, <1>9, <1>10, <1>11 DEF Opened
<1> QED BY <1>5, <1>12 DEF p

LEMMA OneMessage ==
    ASSUME NEW S, Talk(S), NEW messages \in Seq(S), NEW n \in 0..Len(messages) - 1,
           ResultsInPlace(messages), NEW acc, Passing(S, acc), Tracks(S, messages, n, acc)
    PROVE  /\ Passing(S, TransformStep(acc, messages[n + 1]))
           /\ Tracks(S, messages, n + 1, TransformStep(acc, messages[n + 1]))
<1> DEFINE m == messages[n + 1]
           flushed == InsertSyntheticToolResults(acc)
           sent == Append(flushed.result, m)
           p == TransformStep(acc, m)
<1>1. n \in Nat /\ n + 1 \in 1..Len(messages) /\ m \in S
  <2>1. n \in Nat /\ n + 1 \in 1..Len(messages)
    BY LenProperties
  <2> QED BY <2>1, ElementOfSeq
<1>2. Closed(S, flushed)
  BY Inserted
<1>3. m.role \in {"user", "assistant", "toolResult"}
  BY <1>1 DEF Talk
<1>4. p = CASE m.role = "assistant" /\ m.stop \in BrokenStops -> flushed
            [] m.role = "assistant" /\ m.stop \notin BrokenStops ->
                  IF m.calls > 0
                    THEN [result |-> sent, owner |-> m, answered |-> {}]
                    ELSE [flushed EXCEPT !.result = sent]
            [] m.role = "toolResult" ->
                  [acc EXCEPT !.result = Append(acc.result, m),
                              !.answered = @ \cup {<<m.id, m.call>>}]
            [] OTHER -> [flushed EXCEPT !.result = sent]
  BY Zenon DEF TransformStep
<1>5. flushed = [result |-> flushed.result, owner |-> flushed.owner,
                 answered |-> flushed.answered]
      /\ flushed.result \in Seq(S) /\ Formed(flushed.result, Len(flushed.result))
      /\ flushed.owner.calls = 0
  BY <1>2 DEF Closed, IsPass
<1> HIDE DEF flushed, p
<1>6. CASE m.role = "assistant" /\ ~Whole(m)
  <2>1. p = flushed
    BY <1>4, <1>6 DEF Whole
  <2>2. Closed(S, p)
    BY <1>2, <2>1
  <2> HIDE DEF m
  <2>3. m.role # "toolResult" /\ ~Whole(m)
    BY <1>6
  <2>4. Passing(S, p) /\ Tracks(S, messages, n + 1, p)
    BY <2>2, <2>3, StepCloses DEF m
  <2> QED BY <2>4 DEF p, m
<1>7. CASE m.role = "user" \/ (Whole(m) /\ m.calls = 0)
  <2> HIDE DEF sent
  <2>1. p = [flushed EXCEPT !.result = sent]
    BY <1>4, <1>7 DEF Whole
  <2>2. p = [result |-> sent, owner |-> flushed.owner, answered |-> flushed.answered]
    BY <1>5, <2>1
  <2>3. p.result = sent /\ p.owner = flushed.owner /\ IsPass(p)
    BY <2>2 DEF IsPass
  <2>4. sent \in Seq(S) /\ Formed(sent, Len(sent))
    <3>1. CASE m.role = "user"
      <4>1. /\ Append(flushed.result, m) \in Seq(S)
            /\ Formed(Append(flushed.result, m), Len(Append(flushed.result, m)))
        BY <1>1, <1>5, <3>1, FormedUser
      <4> QED BY <4>1 DEF sent
    <3>2. CASE Whole(m) /\ m.calls = 0
      <4>1. sent \in Seq(S) /\ Ends(sent, m, 0, Len(flushed.result))
        BY <1>1, <1>5, EndsAppended DEF sent
      <4>2. Complete(sent, m, Len(flushed.result)) /\ Formed(sent, Len(flushed.result))
        BY <3>2, <4>1 DEF Ends, Complete
      <4> QED BY <1>1, <4>1, <4>2, FormedComplete
    <3> QED BY <1>7, <3>1, <3>2
  <2>5. Closed(S, p)
    BY <1>5, <2>3, <2>4 DEF Closed
  <2>6. m.role # "toolResult" /\ (m.role = "assistant" => m.calls = 0)
    BY <1>7 DEF Whole
  <2>7. Passing(S, p) /\ Tracks(S, messages, n + 1, p)
    <3> HIDE DEF m
    <3> QED BY <2>5, <2>6, StepCloses DEF m
  <2> QED BY <2>7 DEF p
<1>8. CASE Whole(m) /\ m.calls # 0
  <2>1. m.calls \in Nat \ {0} /\ m.calls > 0 /\ m.role = "assistant" /\ m.stop \notin BrokenStops
    BY <1>1, <1>8 DEF Whole, Talk
  <2> HIDE DEF sent
  <2>2. p = [result |-> sent, owner |-> m, answered |-> {}]
    BY <1>4, <2>1
  <2>3. p.result = sent /\ p.owner = m /\ p.answered = {} /\ IsPass(p)
    BY <2>2 DEF IsPass
  <2>4. sent \in Seq(S) /\ Ends(sent, m, 0, Len(flushed.result))
    BY <1>1, <1>5, EndsAppended DEF sent
  <2>5. FirstCalls(m.id, 0) = {} /\ 0 \in 0..m.calls
    BY <2>1 DEF FirstCalls
  <2> HIDE DEF m
  <2>6. Opened(S, p, 0)
    BY <1>1, <1>8, <2>1, <2>3, <2>4, <2>5 DEF Opened
  <2>7. Passing(S, p) /\ Tracks(S, messages, n + 1, p)
    BY <2>3, <2>6, StepOpens DEF m
  <2> QED BY <2>7 DEF p, m
<1>9. CASE m.role = "toolResult"
  <2>1. PICK r \in 0..n - 1 :
           /\ Opened(S, acc, r) /\ r < acc.owner.calls /\ acc.owner = messages[n - r]
           /\ m = ToolResultMessage(acc.owner.id, r + 1)
    BY <1>9, StepGoesOn
  <2> HIDE DEF m
  <2>2. Opened(S, p, r + 1) /\ p.owner = acc.owner
    BY <2>1, ResultOpens DEF p
  <2>3. ASSUME NEW s \in 0..(n + 1) - 1, Answers(messages, n + 1 - s, s),
               messages[n + 1 - s].calls # 0
        PROVE  p.owner = messages[n + 1 - s] /\ Opened(S, p, s)
    <3>1. n + 1 - s \in 1..Len(messages) /\ Whole(messages[n + 1 - s])
      BY <2>3 DEF Answers
    <3>2. s # 0
      <4> SUFFICES ASSUME s = 0 PROVE FALSE
        OBVIOUS
      <4>1. n + 1 - s = n + 1
        BY <1>1
      <4> QED BY <1>9, <3>1, <4>1 DEF Whole, m
    <3>3. s \in 1..s /\ n + 1 - s + s = n + 1
      BY <1>1, <3>2
    <3>4. messages[n + 1] = ToolResultMessage(messages[n + 1 - s].id, s)
      BY <2>3, <3>3 DEF Answers
    <3>5. s = r + 1
      BY <2>1, <3>4 DEF m, ToolResultMessage
    <3>6. n + 1 - s = n - r
      BY <1>1, <2>1, <3>5
    <3> QED BY <2>1, <2>2, <3>5, <3>6
  <2>4. Tracks(S, messages, n + 1, p)
    BY <2>3 DEF Tracks
  <2>5. Passing(S, p)
    BY <2>2 DEF Passing
  <2> QED BY <2>4, <2>5 DEF p, m
<1> QED
  <2>1. Whole(m) \/ ~Whole(m)
    OBVIOUS
  <2>2. m.role = "assistant" \/ m.role = "user" \/ m.role = "toolResult"
    BY <1>3
  <2> QED BY <1>6, <1>7, <1>8, <1>9, <2>1, <2>2

-----------------------------------------------------------------------------
(* The whole pass.                                                         *)

Loops(messages, k, f) ==
    f = [n \in 0..k |->
            IF n = 0 THEN NothingSent ELSE TransformStep(f[n - 1], messages[n])]

After(messages) == CHOOSE after : Loops(messages, Len(messages), after)

LEMMA LoopValues ==
    ASSUME NEW messages, NEW k \in Nat, NEW f, Loops(messages, k, f)
    PROVE  /\ f[0] = NothingSent /\ f = [n \in 0..k |-> f[n]]
           /\ \A n \in 1..k : f[n] = TransformStep(f[n - 1], messages[n])
<1>1. f = [n \in 0..k |->
            IF n = 0 THEN NothingSent ELSE TransformStep(f[n - 1], messages[n])]
  BY DEF Loops
<1>2. \A n \in 0..k :
         f[n] = IF n = 0 THEN NothingSent ELSE TransformStep(f[n - 1], messages[n])
  BY <1>1, Zenon
<1>3. 0 \in 0..k /\ \A n \in 1..k : n \in 0..k /\ n # 0
  OBVIOUS
<1>4. f = [n \in 0..k |-> f[n]]
  BY <1>1, Zenon
<1> QED BY <1>2, <1>3, <1>4

LEMMA CanLoop ==
    ASSUME NEW messages, NEW k \in Nat
    PROVE  \E f : Loops(messages, k, f)
<1> DEFINE T == {m \in Nat : \E f : Loops(messages, m, f)}
<1>1. 0 \in T
  <2> DEFINE f == [n \in 0..0 |-> NothingSent]
  <2>1. f[0] = NothingSent /\ \A n \in 0..0 : n = 0 /\ f[n] = NothingSent
    OBVIOUS
  <2>2. f = [n \in 0..0 |->
                IF n = 0 THEN NothingSent ELSE TransformStep(f[n - 1], messages[n])]
    BY <2>1, Zenon
  <2>3. Loops(messages, 0, f)
    BY <2>2, Zenon DEF Loops
  <2> HIDE DEF f
  <2> QED BY <2>3
<1>2. ASSUME NEW m \in Nat, m \in T PROVE m + 1 \in T
  <2>1. PICK f : Loops(messages, m, f)
    BY <1>2
  <2>2. /\ f[0] = NothingSent
        /\ \A n \in 1..m : f[n] = TransformStep(f[n - 1], messages[n])
    BY <2>1, LoopValues, ZenonT(60)
  <2> DEFINE g == [n \in 0..m + 1 |->
                      IF n <= m THEN f[n] ELSE TransformStep(f[m], messages[m + 1])]
  <2>3. /\ \A n \in 0..m : g[n] = f[n]
        /\ g[m + 1] = TransformStep(f[m], messages[m + 1])
    OBVIOUS
  <2>4. g = [n \in 0..m + 1 |-> g[n]]
    OBVIOUS
  <2> HIDE DEF g
  <2>5. ASSUME NEW n \in 0..m + 1
        PROVE  g[n] = IF n = 0 THEN NothingSent ELSE TransformStep(g[n - 1], messages[n])
    <3>1. CASE n = 0
      BY <2>2, <2>3, <3>1
    <3>2. CASE n \in 1..m
      <4>1. n \in 0..m /\ n - 1 \in 0..m /\ n # 0
        BY <3>2
      <4> QED BY <2>2, <2>3, <3>2, <4>1
    <3>3. CASE n = m + 1
      <4>1. n # 0 /\ n - 1 = m /\ m \in 0..m
        BY <3>3
      <4> QED BY <2>3, <3>3, <4>1
    <3> QED BY <3>1, <3>2, <3>3
  <2>6. Loops(messages, m + 1, g)
    BY <2>4, <2>5, Zenon DEF Loops
  <2> QED BY <2>6
<1> HIDE DEF T
<1>3. Nat \subseteq T
  BY <1>1, <1>2, Induction
<1> QED BY <1>3 DEF T

LEMMA NothingPasses ==
    ASSUME NEW S
    PROVE  Closed(S, NothingSent)
<1>1. NothingSent.result = <<>> /\ NothingSent.owner.calls = 0 /\ IsPass(NothingSent)
  BY DEF NothingSent, AssistantMessage, IsPass
<1>2. <<>> \in Seq(S) /\ Len(<<>>) = 0
  BY EmptySeq
<1>3. Formed(<<>>, 0)
  BY <1>2 DEF Formed
<1> QED BY <1>1, <1>2, <1>3 DEF Closed

\* What transformMessages() makes of a conversation in which each result stands
\* in its place is a request that a provider accepts.
LEMMA TransformedIsWellFormed ==
    ASSUME NEW S, Talk(S), NEW messages \in Seq(S), ResultsInPlace(messages)
    PROVE  WellFormedRequest(TransformMessages(messages))
<1> DEFINE f == After(messages)
           N == Len(messages)
           T == {n \in Nat : n <= N => Passing(S, f[n]) /\ Tracks(S, messages, n, f[n])}
<1>1. N \in Nat
  BY LenProperties
<1>2. Loops(messages, N, f)
  <2>1. \E g : Loops(messages, N, g)
    BY <1>1, CanLoop
  <2> QED BY <2>1, Zenon DEF After
<1>3. TransformMessages(messages) = InsertSyntheticToolResults(f[N]).result
  BY Zenon DEF TransformMessages, After, Loops
<1> HIDE DEF f
<1>4. f[0] = NothingSent /\ \A n \in 1..N : f[n] = TransformStep(f[n - 1], messages[n])
  BY <1>1, <1>2, LoopValues
<1>5. 0 \in T
  <2>1. Tracks(S, messages, 0, f[0])
    BY DEF Tracks
  <2> QED BY <1>4, <2>1, NothingPasses DEF Passing
<1>6. ASSUME NEW n \in Nat, n \in T PROVE n + 1 \in T
  <2> SUFFICES ASSUME n + 1 <= N
               PROVE  Passing(S, f[n + 1]) /\ Tracks(S, messages, n + 1, f[n + 1])
    OBVIOUS
  <2>1. n \in 0..N - 1 /\ n + 1 \in 1..N /\ (n + 1) - 1 = n /\ n <= N
    BY <1>1
  <2>2. Passing(S, f[n]) /\ Tracks(S, messages, n, f[n])
    BY <1>6, <2>1
  <2>3. f[n + 1] = TransformStep(f[n], messages[n + 1])
    BY <1>4, <2>1
  <2> QED BY <2>1, <2>2, <2>3, OneMessage
<1> HIDE DEF T
<1>7. Nat \subseteq T
  BY <1>5, <1>6, Induction
<1>8. Passing(S, f[N])
  BY <1>1, <1>7 DEF T
<1>9. Closed(S, InsertSyntheticToolResults(f[N]))
  BY <1>8, Inserted
<1> QED BY <1>3, <1>9, FormedIsWellFormed DEF Closed

-----------------------------------------------------------------------------
(* Results are in their place in every transcript of the agent.            *)

LEMMA ConversationIsTalk ==
    ASSUME Shapes PROVE Talk(Conversation)
<1>1. MaxCalls \in Nat
  BY AgentAssumption DEF Shapes, MaxCalls
<1>2. ASSUME NEW i \in ResponseIds, NEW stop \in StopReasons, NEW n \in 0..MaxCalls,
             NEW k \in 1..n
      PROVE  ToolResultMessage(i, k) \in Conversation
  <2>1. k \in 1..MaxCalls
    BY <1>1
  <2> QED BY <2>1 DEF Conversation
<1>3. ASSUME NEW m \in Conversation
      PROVE  /\ m.role \in {"user", "assistant", "toolResult"}
             /\ m.role = "assistant" =>
                   /\ m = AssistantMessage(m.id, m.stop, m.calls) /\ m.calls \in Nat
                   /\ \A k \in 1..m.calls : ToolResultMessage(m.id, k) \in Conversation
             /\ m.role = "toolResult" =>
                   m = ToolResultMessage(m.id, m.call) /\ m.call \in Nat \ {0}
  <2>1. CASE \E i \in Ids : m = UserMessage(i)
    BY <2>1 DEF UserMessage
  <2>2. ASSUME NEW i \in ResponseIds, NEW stop \in StopReasons, NEW n \in 0..MaxCalls,
               m = AssistantMessage(i, stop, n)
        PROVE  /\ m.role = "assistant" /\ m.id = i /\ m.stop = stop /\ m.calls = n
               /\ n \in Nat
               /\ \A k \in 1..n : ToolResultMessage(i, k) \in Conversation
    BY <1>1, <1>2, <2>2 DEF AssistantMessage
  <2>3. ASSUME NEW i \in ResponseIds, NEW k \in 1..MaxCalls, m = ToolResultMessage(i, k)
        PROVE  m.role = "toolResult" /\ m.id = i /\ m.call = k /\ k \in Nat \ {0}
    BY <2>3 DEF ToolResultMessage
  <2>4. \/ \E i \in Ids : m = UserMessage(i)
        \/ \E i \in ResponseIds, stop \in StopReasons, n \in 0..MaxCalls :
              m = AssistantMessage(i, stop, n)
        \/ \E i \in ResponseIds, k \in 1..MaxCalls : m = ToolResultMessage(i, k)
    BY DEF Conversation
  <2> QED BY <2>1, <2>2, <2>3, <2>4
<1> QED BY <1>3 DEF Talk

LEMMA AnswersKept ==
    ASSUME NEW s, NEW t, NEW j, NEW k \in Nat, Answers(s, j, k), Len(s) \in Nat,
           Len(t) \in Nat, j + k <= Len(t), \A i \in 1..Len(t) : i \in 1..Len(s) => t[i] = s[i]
    PROVE  Answers(t, j, k)
<1>1. j \in 1..Len(s) /\ Whole(s[j]) /\ k <= s[j].calls
  BY DEF Answers
<1>2. j \in 1..Len(t)
  BY <1>1
<1>3. t[j] = s[j]
  BY <1>1, <1>2
<1>4. ASSUME NEW h \in 1..k PROVE j + h \in 1..Len(t) /\ t[j + h] = ToolResultMessage(s[j].id, h)
  <2>1. j + h \in 1..Len(s) /\ s[j + h] = ToolResultMessage(s[j].id, h)
    BY DEF Answers
  <2>2. j + h \in 1..Len(t)
    BY <1>1
  <2> QED BY <2>1, <2>2
<1> QED BY <1>1, <1>2, <1>3, <1>4 DEF Answers

LEMMA InPlaceAppended ==
    ASSUME NEW S, Talk(S), NEW s \in Seq(S), ResultsInPlace(s), NEW T, NEW x \in T,
           S \subseteq T, NEW u, u = Append(s, x),
           x.role = "toolResult" => Answers(u, Len(u) - x.call, x.call)
    PROVE  ResultsInPlace(u)
<1>1. /\ Len(s) \in Nat /\ Len(u) = Len(s) + 1 /\ u[Len(s) + 1] = x
      /\ \A i \in 1..Len(s) : u[i] = s[i] /\ s[i] \in S
  <2>1. s \in Seq(T)
    BY Widened
  <2> QED BY <2>1, AppendProperties, LenProperties, ElementOfSeq
<1>2. ASSUME NEW i \in 1..Len(s), u[i].role = "toolResult"
      PROVE  Answers(u, i - u[i].call, u[i].call)
  <2> DEFINE k == u[i].call
             j == i - k
  <2>1. s[i] \in S /\ s[i].role = "toolResult" /\ s[i].call = k
    BY <1>1, <1>2
  <2>2. k \in Nat
    BY <2>1 DEF Talk
  <2>3. Answers(s, i - s[i].call, s[i].call)
    BY <2>1 DEF ResultsInPlace
  <2>4. Answers(s, j, k)
    BY <2>1, <2>3
  <2> HIDE DEF k
  <2>5. j + k <= Len(u) /\ \A h \in 1..Len(u) : h \in 1..Len(s) => u[h] = s[h]
    BY <1>1, <2>2
  <2> HIDE DEF j
  <2>6. Answers(u, j, k)
    <3>1. Len(u) \in Nat
      BY <1>1
    <3> QED BY <1>1, <2>2, <2>4, <2>5, <3>1, AnswersKept
  <2> QED BY <2>6 DEF j, k
<1>3. \A i \in 1..Len(u) : i \in 1..Len(s) \/ i = Len(u)
  BY <1>1
<1>4. u[Len(u)] = x
  BY <1>1
<1> QED BY <1>2, <1>3, <1>4 DEF ResultsInPlace

LEMMA InPlaceBefore ==
    ASSUME NEW S, Talk(S), NEW s \in Seq(S), s # <<>>, ResultsInPlace(s)
    PROVE  ResultsInPlace(Front(s))
<1> DEFINE f == Front(s)
<1>1. /\ Len(s) \in Nat \ {0} /\ f \in Seq(S) /\ Len(f) = Len(s) - 1
      /\ \A i \in 1..Len(f) : f[i] = s[i]
  <2>1. Len(s) \in Nat \ {0} /\ f = SubSeq(s, 1, Len(s) - 1)
    BY EmptySeq, LenProperties DEF Front
  <2>2. \A i \in 1..Len(s) - 1 : s[i] \in S
    BY <2>1, ElementOfSeq
  <2> DEFINE n == Len(s) - 1
  <2>3. n \in Int /\ n >= 0 /\ n = Len(s) - 1 /\ f = SubSeq(s, 1, n)
        /\ \A i \in 1..n : s[i] \in S
    BY <2>1, <2>2
  <2> HIDE DEF n, f
  <2>4. f \in Seq(S) /\ Len(f) = n /\ \A i \in 1..n : f[i] = s[i]
    BY <2>3, SubSeqProperties
  <2> QED BY <2>1, <2>3, <2>4
<1> HIDE DEF f
<1>2. ASSUME NEW i \in 1..Len(f), f[i].role = "toolResult"
      PROVE  Answers(f, i - f[i].call, f[i].call)
  <2> DEFINE k == f[i].call
             j == i - k
  <2>1. i \in 1..Len(s) /\ s[i].role = "toolResult" /\ s[i].call = k
    BY <1>1, <1>2
  <2>2. k \in Nat
    BY <2>1, ElementOfSeq DEF Talk
  <2>3. Answers(s, i - s[i].call, s[i].call)
    BY <2>1 DEF ResultsInPlace
  <2>4. Answers(s, j, k)
    BY <2>1, <2>3
  <2> HIDE DEF k
  <2>5. j + k <= Len(f)
    BY <1>1, <2>2
  <2> HIDE DEF j
  <2>6. Answers(f, j, k)
    <3>1. Len(s) \in Nat /\ Len(f) \in Nat
      BY <1>1
    <3> QED BY <1>1, <2>2, <2>4, <2>5, <3>1, AnswersKept
  <2> QED BY <2>6 DEF j, k
<1>3. ResultsInPlace(f)
  BY <1>2 DEF ResultsInPlace
<1> QED BY <1>3 DEF f

\* While the results of a batch are told, the response that asked for them is
\* the message before them.
Asks ==
    pc = "tools" => \A n \in Nat : In("reported") = 1..n =>
        /\ Whole(transcript[Len(transcript) - n])
        /\ transcript[Len(transcript) - n].calls = Len(batch.calls)

Placed == ResultsInPlace(transcript) /\ Asks

\* The next number in a row.
LEMMA NextNumber ==
    ASSUME NEW n \in Nat, NEW p \in Nat, NEW k, k \notin 1..n,
           1..p = (1..n) \cup {k}
    PROVE  p = n + 1 /\ k = n + 1
<1>1. p >= n
  <2>1. n > 0 => n \in 1..p
    OBVIOUS
  <2> QED BY <2>1
<1>2. k \in 1..p /\ k \in Nat /\ k >= n + 1
  <2>1. k \in 1..p
    OBVIOUS
  <2> QED BY <2>1
<1>3. n + 1 \in 1..p
  BY <1>2
<1>4. n + 1 = k
  BY <1>3
<1>5. p \in 1..p
  BY <1>2
<1>6. p = k
  BY <1>2, <1>5
<1> QED BY <1>4, <1>6

\* A step that tells nothing outside a batch.
LEMMA QuietPlaced ==
    ASSUME Placed, transcript' = transcript, pc' # "tools"
    PROVE  Placed'
BY DEF Placed, Asks, ResultsInPlace

\* A step that tells nothing, nor reports a result.
LEMMA StillPlaced ==
    ASSUME Placed, transcript' = transcript, pc' = pc,
           In("reported")' = In("reported"), Len(batch'.calls) = Len(batch.calls)
    PROVE  Placed'
BY DEF Placed, Asks, ResultsInPlace

\* A message of the user or of the assistant is told.
LEMMA MessagePlaced ==
    ASSUME IInv, Placed, NEW x, x.role # "toolResult",
           transcript' = Append(transcript, x)
    PROVE  ResultsInPlace(transcript')
<1>1. transcript \in Seq(Conversation) /\ Talk(Conversation)
  BY ConversationIsTalk DEF IInv, Shapes
<1> DEFINE T == Conversation \cup {x}
<1>2. x \in T /\ Conversation \subseteq T
  OBVIOUS
<1> HIDE DEF T
<1> QED BY <1>1, <1>2, InPlaceAppended DEF Placed

LEMMA UserPlaced ==
    ASSUME IInv, Placed, EmitPrompt \/ Inject PROVE Placed'
<1>1. /\ \E i : transcript' = Append(transcript, UserMessage(i))
      /\ pc' # "tools"
  BY DEF EmitPrompt, Inject
<1>2. \A i : UserMessage(i).role # "toolResult"
  BY DEF UserMessage
<1> QED BY <1>1, <1>2, MessagePlaced DEF Placed, Asks

LEMMA AnswerPlaced ==
    ASSUME IInv, Placed, Response PROVE Placed'
<1>1. PICK stop \in StopReasons, n \in 0..MaxCalls : Respond(stop, n)
  BY DEF Response
<1> DEFINE x == AssistantMessage(ResponseId, stop, n)
<1>2. /\ transcript' = Append(transcript, x) /\ responses' = responses + 1
      /\ pc' = "tools" => /\ stop \notin BrokenStops
                         /\ \E mode \in BatchModesFor(stop) : batch' = NewBatch(mode, n)
  BY <1>1 DEF Respond
<1>3. x.role = "assistant" /\ x.stop = stop /\ x.calls = n
  BY DEF AssistantMessage
<1> HIDE DEF x
<1>4. ResultsInPlace(transcript')
  BY <1>2, <1>3, MessagePlaced
<1>5. ASSUME pc' = "tools", NEW m \in Nat, In("reported")' = 1..m
      PROVE  /\ Whole(transcript'[Len(transcript') - m])
             /\ transcript'[Len(transcript') - m].calls = Len(batch'.calls)
  <2>1. PICK mode : batch' = NewBatch(mode, n)
    BY <1>2, <1>5
  <2>2. Len(batch'.calls) = n /\ In("reported")' = {}
    <3>1. n \in Nat
      BY AgentAssumption DEF IInv, Shapes, MaxCalls
    <3> QED BY <1>2, <2>1, <3>1, BatchBegins DEF IInv
  <2>3. m = 0
    BY <1>5, <2>2
  <2>4. Len(transcript') \in Nat /\ transcript'[Len(transcript')] = x
    <3> DEFINE T == Conversation \cup {x}
    <3>1. transcript \in Seq(T) /\ x \in T
      BY Widened DEF IInv, Shapes
    <3> QED BY <1>2, <3>1, AppendProperties, LenProperties
  <2>5. transcript'[Len(transcript') - m] = x
    BY <2>3, <2>4
  <2> QED BY <1>2, <1>3, <1>5, <2>2, <2>5 DEF Whole
<1> QED BY <1>4, <1>5 DEF Placed, Asks

LEMMA FailurePlaced ==
    ASSUME IInv, Placed, ReportFailure PROVE Placed'
<1>1. /\ \E i, stop : transcript' = Append(transcript, AssistantMessage(i, stop, 0))
      /\ pc' # "tools"
  BY DEF ReportFailure
<1>2. \A i, stop : AssistantMessage(i, stop, 0).role # "toolResult"
  BY DEF AssistantMessage
<1> QED BY <1>1, <1>2, MessagePlaced DEF Placed, Asks

\* A result is told: it stands behind its response and the results before it.
LEMMA ResultPlaced ==
    ASSUME IInv, IInv', Placed, NEW k \in 1..MaxCalls, FailTruncated(k) \/ EmitResult(k)
    PROVE  Placed'
<1> DEFINE x == ToolResultMessage(batch.id, k)
<1>1. /\ pc = "tools" /\ pc' = "tools" /\ transcript' = Append(transcript, x)
      /\ batch' = [batch EXCEPT !.calls[k] = "reported"]
      /\ k \in Calls /\ k \notin In("reported")
  BY DEF FailTruncated, EmitResult, Reportable, In
<1>2. Moves(k, "reported")
  BY <1>1, CallMoves DEF IInv, CallStates
<1>3. /\ In("reported")' = In("reported") \cup {k} /\ batch'.id = batch.id
      /\ Len(batch'.calls) = Len(batch.calls) /\ Len(batch.calls) \in Nat
      /\ Calls = 1..Len(batch.calls)
  BY <1>2, CallsAre DEF Moves, IInv
<1>4. PICK n \in 0..Len(batch.calls) : In("reported") = 1..n /\ EndsWith(n)
  BY <1>1 DEF IInv, Copies
<1>5. PICK p \in 0..Len(batch'.calls) : In("reported")' = 1..p /\ EndsWith(p)'
  BY <1>1 DEF IInv, Copies
<1>6. n \in Nat /\ p \in Nat /\ p = n + 1 /\ k = n + 1
  <2>1. n \in Nat /\ p \in Nat
    BY <1>3, <1>4, <1>5
  <2>2. k \notin 1..n /\ 1..p = (1..n) \cup {k}
    BY <1>1, <1>3, <1>4, <1>5
  <2> QED BY <2>1, <2>2, NextNumber
<1>7. Talk(Conversation) /\ transcript \in Seq(Conversation) /\ Len(transcript) \in Nat
  BY ConversationIsTalk, LenProperties DEF IInv, Shapes
<1>8. x.role = "toolResult" /\ x.call = k
  BY DEF ToolResultMessage
<1> DEFINE T == Conversation \cup {x}
           u == transcript'
           j == Len(u) - k
<1>9. /\ x \in T /\ Conversation \subseteq T /\ transcript \in Seq(T)
  BY <1>7, Widened
<1> HIDE DEF x, T
<1>10. /\ u = Append(transcript, x) /\ Len(u) = Len(transcript) + 1
       /\ \A i \in 1..Len(transcript) : u[i] = transcript[i]
  BY <1>1, <1>9, AppendProperties
<1>11. j = Len(transcript) - n /\ j \in 1..Len(transcript) /\ k <= Len(batch.calls)
  BY <1>1, <1>3, <1>4, <1>6, <1>7, <1>10 DEF EndsWith
<1>12. /\ Whole(transcript[j]) /\ transcript[j].calls = Len(batch.calls)
       /\ transcript[j].id = batch.id
  BY <1>1, <1>4, <1>6, <1>11 DEF Placed, Asks, EndsWith
<1>13. /\ \A h \in 1..k : u[j + h] = ToolResultMessage(batch.id, h)
  BY <1>3, <1>5, <1>6 DEF EndsWith
<1>14. j \in 1..Len(u) /\ u[j] = transcript[j] /\ j + k = Len(u) /\ k \in Nat /\ Len(u) \in Nat
  BY <1>6, <1>7, <1>10, <1>11
<1>15. Answers(u, j, k)
  <2>1. \A h \in 1..k : j + h \in 1..Len(u)
    BY <1>14
  <2> QED BY <1>11, <1>12, <1>13, <1>14, <2>1 DEF Answers
<1>16. ResultsInPlace(u)
  <2>1. Answers(u, Len(u) - x.call, x.call)
    BY <1>8, <1>15
  <2> QED BY <1>7, <1>9, <1>10, <2>1, InPlaceAppended DEF Placed
<1>17. ASSUME NEW m \in Nat, In("reported")' = 1..m
       PROVE  Whole(u[Len(u) - m]) /\ u[Len(u) - m].calls = Len(batch'.calls)
  <2>1. m = k
    <3>1. 1..m = 1..k
      BY <1>5, <1>6, <1>17
    <3>2. k \in 1..m /\ k \in Nat
      BY <1>6, <3>1
    <3>3. m \in 1..k
      BY <3>1, <3>2
    <3> QED BY <3>2, <3>3
  <2> QED BY <1>3, <1>12, <1>14, <2>1
<1> QED BY <1>16, <1>17 DEF Placed, Asks

LEMMA CallersPlaced ==
    ASSUME IInv, Placed, Callers PROVE Placed'
<1> USE DEF conversation, tools
<1>1. CASE Prompt \/ ContinueWithSteering \/ ContinueWithFollowUp \/ ContinueTranscript
  BY <1>1, QuietPlaced
     DEF Prompt, ContinueWithSteering, ContinueWithFollowUp, ContinueTranscript, BeginRun
<1>2. CASE Steer \/ FollowUp \/ ClearAllQueues \/ Abort
  BY <1>2, SameBatch, StillPlaced DEF Steer, FollowUp, ClearAllQueues, Abort
<1>3. CASE Reset
  BY <1>3 DEF Reset, Active, Placed, Asks, ResultsInPlace
<1>4. CASE DropError
  <2>1. transcript # <<>> /\ transcript' = Front(transcript) /\ pc' # "tools"
    BY <1>4 DEF DropError, Active
  <2>2. Talk(Conversation) /\ transcript \in Seq(Conversation)
    BY ConversationIsTalk DEF IInv, Shapes
  <2> QED BY <2>1, <2>2, InPlaceBefore DEF Placed, Asks
<1> QED BY <1>1, <1>2, <1>3, <1>4 DEF Callers

LEMMA ToolsPlaced ==
    ASSUME IInv, IInv', Placed, NEW k \in 1..MaxCalls, ToolStep(k) PROVE Placed'
<1>1. CASE FailTruncated(k) \/ EmitResult(k)
  BY <1>1, ResultPlaced
<1>2. ASSUME NEW s \in CallStates \ {"reported"}, k \in Calls, k \notin In("reported"),
             batch' = [batch EXCEPT !.calls[k] = s], transcript' = transcript, pc' = pc
      PROVE  Placed'
  <2>1. Moves(k, s)
    BY <1>2, CallMoves DEF IInv
  <2> QED BY <1>2, <2>1, StillPlaced DEF Moves
<1>3. CASE ToolStart(k)
  BY <1>2, <1>3 DEF ToolStart, conversation, In, CallStates
<1>4. CASE PrepareImmediate(k)
  BY <1>2, <1>4 DEF PrepareImmediate, conversation, In, CallStates
<1>5. CASE Prepared(k)
  <2>1. /\ k \in Calls /\ k \notin In("reported") /\ transcript' = transcript /\ pc' = pc
        /\ \E s \in {"executing", "prepared"} : batch' = [batch EXCEPT !.calls[k] = s]
    BY <1>5 DEF Prepared, conversation, In
  <2> QED BY <1>2, <2>1 DEF CallStates
<1>6. CASE \E terminate \in BOOLEAN : ToolEnds(k, terminate)
  BY <1>2, <1>6 DEF ToolEnds, conversation, In, CallStates
<1> QED BY <1>1, <1>3, <1>4, <1>5, <1>6 DEF ToolStep

LEMMA LoopPlaced ==
    ASSUME IInv, IInv', Placed, Loop PROVE Placed'
<1> USE DEF conversation
<1>1. CASE PollInitial \/ CallModel \/ BatchDone \/ PollSteering \/ PollFollowUp \/ FinishRun
  BY <1>1, QuietPlaced
     DEF PollInitial, CallModel, BatchDone, PollSteering, PollFollowUp, FinishRun
<1>2. CASE LaunchAll
  <2>1. Launches
    BY <1>2, CallsLaunched DEF LaunchAll, IInv
  <2> QED BY <1>2, <2>1, StillPlaced DEF LaunchAll, Launches
<1>3. CASE \E k \in 1..MaxCalls : ToolStep(k)
  BY <1>3, ToolsPlaced
<1> QED BY <1>1, <1>2, <1>3, UserPlaced, AnswerPlaced, FailurePlaced DEF Loop

LEMMA FailuresPlaced ==
    ASSUME IInv, Placed, Failure \/ (\E c \in stray : StrayEnds(c)) PROVE Placed'
<1>1. CASE Failure
  BY <1>1, QuietPlaced
     DEF Failure, Fail, FailExecuting, ReportFails, Abandon, conversation
<1>2. CASE \E c \in stray : StrayEnds(c)
  BY <1>2, SameBatch, StillPlaced DEF StrayEnds, conversation
<1> QED BY <1>1, <1>2

\* What transformMessages() sends to a provider is well formed whatever the
\* loop of agent-loop.ts has been through: in every transcript a result stands
\* behind its response, and the second pass answers the calls without one.
THEOREM RequestsAlwaysWellFormed == Spec => []RequestsWellFormed
<1>1. Init => Placed
  BY DEF Init, Placed, Asks, ResultsInPlace
<1>2. IInv /\ IInv' /\ Placed /\ [Next]_vars => Placed'
  <2> SUFFICES ASSUME IInv, IInv', Placed, [Next]_vars PROVE Placed'
    OBVIOUS
  <2>1. CASE UNCHANGED vars
    BY <2>1, SameBatch, StillPlaced DEF vars, conversation, tools
  <2> QED BY <2>1, CallersPlaced, LoopPlaced, FailuresPlaced DEF Next
<1>3. IInv /\ Placed => RequestsWellFormed
  <2> SUFFICES ASSUME IInv, Placed, pc = "stream"
               PROVE  WellFormedRequest(TransformMessages(context))
    BY DEF RequestsWellFormed
  <2>1. context = transcript /\ transcript \in Seq(Conversation) /\ Talk(Conversation)
    BY ConversationIsTalk DEF IInv, Copies, Shapes
  <2> QED BY <2>1, TransformedIsWellFormed DEF Placed
<1> QED BY <1>1, <1>2, <1>3, AgentInvariant, PTL DEF Spec
=============================================================================
