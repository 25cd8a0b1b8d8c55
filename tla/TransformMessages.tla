------------------------- MODULE TransformMessages --------------------------
(***************************************************************************)
(* What packages/ai/src/api/transform-messages.ts makes of a conversation  *)
(* before it is sent to a model: the second pass of transformMessages(),   *)
(* which skips broken assistant messages and answers orphaned tool calls.  *)
(* The first pass rewrites the content of single messages and is left out. *)
(*                                                                         *)
(* A message is a record with the fields                                   *)
(*   role  "user", "assistant" or "toolResult"                             *)
(*   id    what tells it from others of its role; a tool result carries    *)
(*         the id of the assistant message whose call it answers           *)
(*   stop  stopReason of an assistant message, "none" otherwise            *)
(*   calls number of tool calls of an assistant message, 0 otherwise       *)
(*   call  which of them a tool result answers, 0 otherwise                *)
(***************************************************************************)
EXTENDS Naturals, Sequences, SequencesExt

UserMessage(m) ==
    [role |-> "user", id |-> m, stop |-> "none", calls |-> 0, call |-> 0]

AssistantMessage(i, stop, n) ==
    [role |-> "assistant", id |-> i, stop |-> stop, calls |-> n, call |-> 0]

ToolResultMessage(i, k) ==
    [role |-> "toolResult", id |-> i, stop |-> "none", calls |-> 0,
     call |-> k]

BrokenStops == {"error", "aborted"}

\* The results still owed to the calls of acc.owner, which are made up.
SyntheticToolResults(acc) ==
    LET owed[k \in 0..acc.owner.calls] ==
            IF k = 0 THEN <<>>
            ELSE IF <<acc.owner.id, k>> \in acc.answered THEN owed[k - 1]
            ELSE Append(owed[k - 1], ToolResultMessage(acc.owner.id, k))
    IN  owed[acc.owner.calls]

\* insertSyntheticToolResults(): acc.owner has no calls when none are pending.
InsertSyntheticToolResults(acc) ==
    IF acc.owner.calls = 0 THEN acc
    ELSE [result   |-> acc.result \o SyntheticToolResults(acc),
          owner    |-> [acc.owner EXCEPT !.calls = 0],
          answered |-> {}]

\* Slip: a user message does not interrupt the tool calls before it.
TransformStepPastUser(acc, msg) ==
    LET flushed == InsertSyntheticToolResults(acc)
        sent == Append(flushed.result, msg)
    IN  CASE msg.role = "assistant" /\ msg.stop \in BrokenStops -> flushed
          [] msg.role = "assistant" /\ msg.stop \notin BrokenStops ->
                IF msg.calls > 0
                  THEN [result |-> sent, owner |-> msg, answered |-> {}]
                  ELSE [flushed EXCEPT !.result = sent]
          [] OTHER -> [acc EXCEPT !.result = Append(acc.result, msg)]

\* One iteration of the loop of the second pass.
TransformStep(acc, msg) ==
    LET flushed == InsertSyntheticToolResults(acc)
        sent == Append(flushed.result, msg)
    IN  CASE msg.role = "assistant" /\ msg.stop \in BrokenStops -> flushed
          [] msg.role = "assistant" /\ msg.stop \notin BrokenStops ->
                IF msg.calls > 0
                  THEN [result |-> sent, owner |-> msg, answered |-> {}]
                  ELSE [flushed EXCEPT !.result = sent]
          [] msg.role = "toolResult" ->
                [acc EXCEPT !.result = Append(acc.result, msg),
                            !.answered = @ \cup {<<msg.id, msg.call>>}]
          [] OTHER -> [flushed EXCEPT !.result = sent]

NothingSent ==
    [result |-> <<>>, owner |-> AssistantMessage(<<>>, "stop", 0), answered |-> {}]

\* The second pass: its loop over the messages, and a last insertion.
TransformMessages(messages) ==
    LET after[n \in 0..Len(messages)] ==
            IF n = 0 THEN NothingSent ELSE TransformStep(after[n - 1], messages[n])
    IN  InsertSyntheticToolResults(after[Len(messages)]).result

(***************************************************************************)
(* What a provider accepts: every assistant message is whole and directly  *)
(* followed by one result for each of its calls, in their order, and there *)
(* is no other tool result.                                                *)
(***************************************************************************)
WellFormedRequest(req) ==
    /\ \A i \in DOMAIN req : req[i].role = "assistant" =>
          /\ req[i].stop \notin BrokenStops
          /\ i + req[i].calls <= Len(req)
          /\ \A k \in 1..req[i].calls :
                req[i + k] = ToolResultMessage(req[i].id, k)
    /\ \A i \in DOMAIN req : req[i].role = "toolResult" =>
          /\ req[i].call < i
          /\ req[i - req[i].call].role = "assistant"
          /\ req[i - req[i].call].id = req[i].id
          /\ req[i].call \in 1..req[i - req[i].call].calls
=============================================================================
