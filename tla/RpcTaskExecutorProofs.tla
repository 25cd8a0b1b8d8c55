----------------------- MODULE RpcTaskExecutorProofs ------------------------
(***************************************************************************)
(* Proofs about one run of RpcTaskExecutor: its invariants, and that it    *)
(* keeps the contract of TaskExecution.  The module has no constants, but  *)
(* its pipes are unbounded, so TLC checks what happens to be finite here   *)
(* and the proof does not rely on it.                                      *)
(***************************************************************************)
EXTENDS RpcTaskExecutor, SequenceTheorems, TLAPS

Lines == {Settled} \cup [kind : {"success", "error"}, command : Commands]

Left == {"disposing", "done"}

Working == {"preflight", "running", "aborting"}

-----------------------------------------------------------------------------
(* The inductive invariant.                                                *)

\* What run() awaits is pending, until it has left with an outcome.
Waiting ==
    /\ pc \in Commands => pc \in requests /\ pc # "abort"
    /\ listening <=> pc \notin Left
    /\ outcome = "none" <=> pc \notin Left
    /\ pc \in Left => requests = {}
    /\ outcome = "abort_reason" => aborted

\* The exit event comes after the death and leaves nothing pending.
Exits ==
    /\ exited => child = "dead" /\ requests = {} /\ pc # "disposing"
    /\ pc = "done" => exited

\* The result is asked for after agent_settled.
Asked ==
    pc \in {"get_last_assistant_text", "get_state"} \/ outcome = "result" => settled

SettledSent == \E i \in DOMAIN stdout : stdout[i] = Settled

\* There is one prompt, and it is the first command; no work after
\* agent_settled.
OnePrompt ==
    /\ \A i \in DOMAIN stdin : stdin[i] = "prompt" =>
          i = 1 /\ agent = "idle" /\ ~settled /\ ~SettledSent
    /\ settled \/ SettledSent => agent \notin Working

IInv ==
    /\ TypeOK
    /\ stdout \in Seq(Lines)
    /\ Waiting
    /\ Exits
    /\ Asked
    /\ OnePrompt

-----------------------------------------------------------------------------
(* The pipes.                                                              *)

\* What is left of a pipe when its first line has been read.
LEMMA TailFacts ==
    ASSUME NEW S, NEW s \in Seq(S), s # <<>>
    PROVE  /\ Tail(s) \in Seq(S) /\ Head(s) \in S
           /\ 1 \in DOMAIN s /\ Head(s) = s[1]
           /\ \A i \in DOMAIN Tail(s) :
                 i \in Nat \ {0} /\ i + 1 \in DOMAIN s /\ Tail(s)[i] = s[i + 1]
OBVIOUS

\* A line more in a pipe.
LEMMA AppendFacts ==
    ASSUME NEW S, NEW s \in Seq(S), NEW e \in S
    PROVE  /\ Append(s, e) \in Seq(S)
           /\ \A i \in DOMAIN Append(s, e) :
                 (i \in DOMAIN s /\ Append(s, e)[i] = s[i])
                 \/ (Append(s, e)[i] = e /\ i = Len(s) + 1)
           /\ \E i \in DOMAIN Append(s, e) : Append(s, e)[i] = e
           /\ \A i \in DOMAIN s : i \in DOMAIN Append(s, e) /\ Append(s, e)[i] = s[i]
<1>1. Append(s, e) \in Seq(S) /\ Len(Append(s, e)) = Len(s) + 1
  OBVIOUS
<1>2. Len(s) + 1 \in DOMAIN Append(s, e) /\ Append(s, e)[Len(s) + 1] = e
  OBVIOUS
<1> QED BY <1>1, <1>2

\* The answers of the child are lines of the pipe.
LEMMA LineFacts ==
    /\ Settled \in Lines
    /\ \A c \in Commands : Line("success", c) \in Lines /\ Line("error", c) \in Lines
    /\ \A c : Line("success", c) # Settled /\ Line("error", c) # Settled
    /\ \A l \in Lines : l = Settled \/ (l.command \in Commands /\ l.kind # "event")
    /\ Settled.kind = "event"
BY DEF Lines, Line, Settled

\* TypeOK follows for the lines that the child has written.
LEMMA LinesTyped ==
    ASSUME NEW s \in Seq(Lines)
    PROVE  \A i \in DOMAIN s : s[i] = Settled \/ s[i].command \in Commands
<1> TAKE i \in DOMAIN s
<1>1. s[i] \in Lines
  OBVIOUS
<1> QED BY <1>1, LineFacts

-----------------------------------------------------------------------------
(* The steps of the child.                                                 *)

\* Reading the prompt uses up the only one; reading an abort starts nothing.
LEMMA ReadCommandStep ==
    ASSUME IInv, ReadCommand
    PROVE  IInv'
<1> USE DEF ReadCommand, caller, instance
<1>1. stdin \in Seq(Commands) /\ stdin # <<>>
  BY DEF IInv, TypeOK
<1>2. /\ Tail(stdin) \in Seq(Commands) /\ Head(stdin) \in Commands
      /\ 1 \in DOMAIN stdin /\ Head(stdin) = stdin[1]
      /\ \A i \in DOMAIN Tail(stdin) :
            i \in Nat \ {0} /\ i + 1 \in DOMAIN stdin /\ Tail(stdin)[i] = stdin[i + 1]
  BY <1>1, TailFacts
<1>3. \A i \in DOMAIN stdin' : stdin'[i] # "prompt"
  BY <1>2 DEF IInv, OnePrompt
<1>4. stdin' \in Seq(Commands)
  BY <1>2
<1>5. \/ stdout' = stdout
      \/ stdout' = Append(stdout, Line("success", Head(stdin)))
  BY DEF Reply
<1>6. stdout' \in Seq(Lines) /\ (SettledSent' => SettledSent)
  <2>1. CASE stdout' = stdout
    BY <2>1 DEF IInv, SettledSent
  <2>2. CASE stdout' = Append(stdout, Line("success", Head(stdin)))
    BY <2>2, <1>2, AppendFacts, LineFacts DEF IInv, SettledSent
  <2> QED BY <1>5, <2>1, <2>2
<1>7. agent' \in Working => agent \in Working \/ Head(stdin) = "prompt"
  BY DEF Working
<1>8. (settled' \/ SettledSent') => agent' \notin Working
  BY <1>2, <1>6, <1>7 DEF IInv, OnePrompt
<1>9. TypeOK'
  BY <1>4, <1>6, LinesTyped DEF IInv, TypeOK
<1> QED BY <1>3, <1>6, <1>8, <1>9 DEF IInv, Waiting, Exits, Asked, OnePrompt

\* The preflight is over: the prompt is answered, whatever becomes of it.
LEMMA PreflightStep ==
    ASSUME IInv, Preflight
    PROVE  IInv'
<1> USE DEF Preflight, caller, instance
<1>1. \/ stdout' = Append(stdout, Line("success", "prompt"))
      \/ stdout' = Append(stdout, Line("error", "prompt"))
  BY DEF Reply
<1>2. stdout' \in Seq(Lines) /\ (SettledSent' => SettledSent)
  <2>1. PICK l \in {Line("success", "prompt"), Line("error", "prompt")} :
            stdout' = Append(stdout, l)
    BY <1>1
  <2>2. stdout \in Seq(Lines) /\ l \in Lines /\ l # Settled
    BY LineFacts DEF IInv, Commands
  <2> QED BY <2>1, <2>2, AppendFacts DEF SettledSent
<1>3. agent \in Working
  BY DEF Working
<1>4. /\ \A i \in DOMAIN stdin : stdin[i] # "prompt"
      /\ ~settled' /\ ~SettledSent'
  BY <1>2, <1>3 DEF IInv, OnePrompt, Working
<1>5. TypeOK'
  BY <1>2, LinesTyped DEF IInv, TypeOK
<1> QED BY <1>2, <1>4, <1>5 DEF IInv, Waiting, Exits, Asked, OnePrompt

\* The session settles, once, and is idle from then on.
LEMMA AgentSettlesStep ==
    ASSUME IInv, AgentSettles
    PROVE  IInv'
<1> USE DEF AgentSettles, caller, instance
<1>1. stdout \in Seq(Lines) /\ Line("success", "abort") \in Lines /\ Settled \in Lines
  BY LineFacts DEF IInv, Commands
<1>2. stdout' \in Seq(Lines)
  BY <1>1
<1>3. agent \in Working /\ agent' = "idle"
  BY DEF Working
<1>4. \A i \in DOMAIN stdin : stdin[i] # "prompt"
  BY <1>3 DEF IInv, OnePrompt, Working
<1>5. TypeOK'
  BY <1>2, LinesTyped DEF IInv, TypeOK
<1> QED BY <1>2, <1>3, <1>4, <1>5 DEF IInv, Waiting, Exits, Asked, OnePrompt, Working

\* The death of the child changes nothing that the run has seen.
LEMMA ChildDiesStep ==
    ASSUME IInv, ChildDies
    PROVE  IInv'
BY DEF ChildDies, caller, instance, IInv, TypeOK, Waiting, Exits, Asked, OnePrompt,
       SettledSent

-----------------------------------------------------------------------------
(* The steps of run().                                                     *)

\* A command of run() that is no prompt keeps the prompt the first command.
LEMMA SendKeepsPrompt ==
    ASSUME IInv, NEW c \in Commands \ {"prompt"}
    PROVE  /\ Append(stdin, c) \in Seq(Commands)
           /\ \A i \in DOMAIN Append(stdin, c) : Append(stdin, c)[i] = "prompt" =>
                 i = 1 /\ agent = "idle" /\ ~settled /\ ~SettledSent
<1>1. stdin \in Seq(Commands)
  BY DEF IInv, TypeOK
<1> QED BY <1>1, AppendFacts DEF IInv, OnePrompt

\* Going on to a query, or leaving because the child has exited.
LEMMA AskStep ==
    ASSUME IInv, NEW c \in {"get_last_assistant_text", "get_state"},
           SendAndAwait(c), pc \notin Left, settled,
           UNCHANGED <<aborted, settled, exited, agent, uncaught>>,
           stdout' \in Seq(Lines), SettledSent' => SettledSent
    PROVE  IInv'
<1>1. CASE exited
  <2>1. /\ pc' = "done" /\ outcome' = "error" /\ listening' = FALSE
        /\ requests' = {} /\ child' = child /\ stdin' = stdin
    BY <1>1 DEF SendAndAwait, Leave, Dispose
  <2>2. TypeOK'
    BY <2>1, LinesTyped DEF IInv, TypeOK
  <2> QED BY <2>1, <2>2, <1>1
          DEF IInv, Waiting, Exits, Asked, OnePrompt, Left, Commands
<1>2. CASE ~exited
  <2>1. /\ requests' = requests \cup {c} /\ stdin' = Append(stdin, c) /\ pc' = c
        /\ UNCHANGED <<outcome, listening, child>>
    BY <1>2 DEF SendAndAwait
  <2>2. c \in Commands \ {"prompt"} /\ c # "abort" /\ c \notin Left
    BY DEF Commands, Left
  <2>3. TypeOK'
    BY <2>1, <2>2, SendKeepsPrompt, LinesTyped DEF IInv, TypeOK
  <2>4. Waiting' /\ Exits' /\ Asked'
    BY <1>2, <2>1, <2>2 DEF IInv, Waiting, Exits, Asked, Commands, Left
  <2>5. OnePrompt'
    BY <2>1, <2>2, SendKeepsPrompt DEF IInv, OnePrompt
  <2> QED BY <2>3, <2>4, <2>5 DEF IInv
<1> QED BY <1>1, <1>2

\* Leaving with an error, with the reason of an abort, or with a result.
LEMMA LeaveStep ==
    ASSUME IInv, NEW o \in {"error", "abort_reason", "result"},
           Leave(o), stdin' = stdin, pc \notin Left,
           o = "abort_reason" => aborted, o = "result" => settled,
           UNCHANGED <<aborted, settled, exited, agent>>, uncaught' \in {uncaught, TRUE},
           stdout' \in Seq(Lines), SettledSent' => SettledSent
    PROVE  IInv'
<1>1. /\ outcome' = o /\ listening' = FALSE /\ requests' = {}
      /\ pc' = IF exited THEN "done" ELSE "disposing"
      /\ child' \in {child, "terminating"} /\ (child' # child => ~exited)
  BY DEF Leave, Dispose
<1>2. TypeOK'
  BY <1>1, LinesTyped DEF IInv, TypeOK
<1>3. Waiting' /\ Exits' /\ Asked'
  BY <1>1 DEF IInv, Waiting, Exits, Asked, Commands, Left
<1> QED BY <1>1, <1>2, <1>3 DEF IInv, OnePrompt

\* A line is read: a response lets run() go on, an event is noted, and
\* anything else is dropped.
LEMMA ReadLineStep ==
    ASSUME IInv, ReadLine
    PROVE  IInv'
<1> USE DEF ReadLine
<1> DEFINE line == Head(stdout)
<1>1. stdout \in Seq(Lines) /\ stdout # <<>>
  BY DEF IInv
<1>2. /\ stdout' \in Seq(Lines) /\ line \in Lines
      /\ 1 \in DOMAIN stdout /\ line = stdout[1]
      /\ \A i \in DOMAIN Tail(stdout) :
            i \in Nat \ {0} /\ i + 1 \in DOMAIN stdout /\ Tail(stdout)[i] = stdout[i + 1]
  BY <1>1, TailFacts
<1>3. SettledSent' => SettledSent
  BY <1>2 DEF SettledSent
<1> HIDE DEF line
<1>4. CASE line.kind # "event" /\ line.command \in requests
  <2>1. ResumeWith(line) /\ settled' = settled
    BY <1>4 DEF line
  <2>2. ~exited
    BY <1>4 DEF IInv, Exits
  <2>3. pc \notin Left
    BY <1>4 DEF IInv, Waiting
  <2>4. CASE line.command # pc
    <3>1. /\ requests' = requests \ {line.command}
          /\ UNCHANGED <<pc, outcome, listening, child, stdin>>
      BY <2>1, <2>4 DEF ResumeWith
    <3>2. TypeOK'
      BY <1>2, <2>1, <3>1, LinesTyped DEF IInv, TypeOK
    <3>3. Waiting' /\ Exits' /\ Asked'
      BY <2>1, <2>2, <2>3, <2>4, <3>1 DEF IInv, Waiting, Exits, Asked
    <3> QED BY <1>2, <1>3, <2>1, <3>1, <3>2, <3>3 DEF IInv, OnePrompt
  <2>5. CASE line.command = pc /\ line.kind = "error"
    <3>1. Leave("error") /\ stdin' = stdin
      BY <2>1, <2>5 DEF ResumeWith
    <3> QED BY <1>2, <1>3, <2>1, <2>3, <3>1, LeaveStep
  <2>6. CASE line.command = pc /\ line.kind # "error"
    <3>1. pc \in {"prompt", "get_last_assistant_text", "get_state"}
      BY <1>4, <2>6 DEF IInv, TypeOK, Waiting, Commands
    <3>2. CASE pc = "prompt"
      <4>1. /\ pc' = "settling" /\ requests' = requests \ {"prompt"}
            /\ UNCHANGED <<outcome, listening, child, stdin>>
        BY <2>1, <2>6, <3>2 DEF ResumeWith
      <4>2. TypeOK'
        BY <1>2, <2>1, <4>1, LinesTyped DEF IInv, TypeOK
      <4>3. Waiting' /\ Exits' /\ Asked'
        BY <2>1, <2>2, <3>2, <4>1 DEF IInv, Waiting, Exits, Asked, Commands, Left
      <4> QED BY <1>2, <1>3, <2>1, <4>1, <4>2, <4>3 DEF IInv, OnePrompt
    <3>3. CASE pc = "get_last_assistant_text"
      <4>1. SendAndAwait("get_state") /\ settled
        BY <2>1, <2>6, <3>3 DEF ResumeWith, IInv, Asked
      <4> QED BY <1>2, <1>3, <2>1, <2>3, <4>1, AskStep
    <3>4. CASE pc = "get_state"
      <4>1. Leave("result") /\ stdin' = stdin /\ settled
        BY <2>1, <2>6, <3>4 DEF ResumeWith, IInv, Asked
      <4> QED BY <1>2, <1>3, <2>1, <2>3, <4>1, LeaveStep
    <3> QED BY <3>1, <3>2, <3>3, <3>4
  <2> QED BY <2>4, <2>5, <2>6
<1>5. CASE ~(line.kind # "event" /\ line.command \in requests)
  <2>1. /\ settled' = (settled \/ (line = Settled /\ listening))
        /\ UNCHANGED <<pc, outcome, listening, requests, child, stdin>>
    BY <1>5 DEF line
  <2>2. settled' => settled \/ SettledSent
    BY <1>2, <2>1 DEF SettledSent
  <2>3. TypeOK'
    BY <1>2, <2>1, LinesTyped DEF IInv, TypeOK
  <2>4. Waiting' /\ Exits' /\ Asked'
    BY <2>1 DEF IInv, Waiting, Exits, Asked
  <2>5. OnePrompt'
    BY <1>3, <2>1, <2>2 DEF IInv, OnePrompt
  <2> QED BY <1>2, <2>3, <2>4, <2>5 DEF IInv
<1> QED BY <1>4, <1>5

\* agent_settled has come: the result is asked for, or the abort is thrown.
LEMMA AfterSettledStep ==
    ASSUME IInv, AfterSettled
    PROVE  IInv'
<1> USE DEF AfterSettled
<1>1. /\ stdout' \in Seq(Lines) /\ (SettledSent' => SettledSent)
      /\ pc \notin Left
  BY DEF IInv, SettledSent, Left
<1>2. CASE aborted
  BY <1>1, <1>2, LeaveStep
<1>3. CASE ~aborted
  BY <1>1, <1>3, AskStep
<1> QED BY <1>2, <1>3

\* The exit event rejects what is pending; run() throws if it awaits that.
LEMMA ExitEventStep ==
    ASSUME IInv, ExitEvent
    PROVE  IInv'
<1> USE DEF ExitEvent, RejectAllPending
<1>1. TypeOK'
  BY DEF IInv, TypeOK
<1>2. Waiting'
  BY DEF IInv, Waiting, Commands, Left
<1>3. Exits' /\ Asked'
  BY DEF IInv, Waiting, Exits, Asked, Commands, Left
<1> QED BY <1>1, <1>2, <1>3 DEF IInv, OnePrompt, SettledSent

\* A write that fails makes run() throw if it awaits that request.
LEMMA WriteFailsStep ==
    ASSUME IInv, WriteFails
    PROVE  IInv'
<1> USE DEF WriteFails
<1>1. /\ stdout' \in Seq(Lines) /\ (SettledSent' => SettledSent)
      /\ uncaught' \in {uncaught, TRUE} /\ stdin' = stdin
  BY DEF IInv, SettledSent
<1>2. PICK command \in requests :
        \/ command = pc /\ Leave("error")
        \/ /\ command # pc /\ requests' = requests \ {command}
           /\ UNCHANGED <<pc, outcome, listening, child>>
  OBVIOUS
<1>3. CASE command = pc /\ Leave("error")
  <2>1. pc \notin Left
    BY <1>2, <1>3 DEF IInv, TypeOK, Commands, Left
  <2> QED BY <1>1, <1>3, <2>1, LeaveStep
<1>4. CASE /\ command # pc /\ requests' = requests \ {command}
           /\ UNCHANGED <<pc, outcome, listening, child>>
  <2>1. TypeOK'
    BY <1>1, <1>4, LinesTyped DEF IInv, TypeOK
  <2>2. Waiting' /\ Exits' /\ Asked'
    BY <1>4 DEF IInv, Waiting, Exits, Asked, Commands, Left
  <2> QED BY <1>1, <1>4, <2>1, <2>2 DEF IInv, OnePrompt, SettledSent
<1> QED BY <1>2, <1>3, <1>4

\* An abort is one more command of the run, or nothing.
LEMMA AbortRunStep ==
    ASSUME IInv, AbortRun
    PROVE  IInv'
<1> USE DEF AbortRun
<1>1. CASE listening /\ ~exited
  <2>1. "abort" \in Commands \ {"prompt"}
    BY DEF Commands
  <2>2. TypeOK'
    BY <1>1, <2>1, SendKeepsPrompt DEF IInv, TypeOK
  <2>3. Waiting' /\ Exits' /\ Asked'
    BY <1>1 DEF IInv, Waiting, Exits, Asked
  <2>4. OnePrompt'
    BY <1>1, <2>1, SendKeepsPrompt DEF IInv, OnePrompt, SettledSent
  <2> QED BY <2>2, <2>3, <2>4 DEF IInv
<1>2. CASE ~(listening /\ ~exited)
  BY <1>2 DEF IInv, TypeOK, Waiting, Exits, Asked, OnePrompt, SettledSent
<1> QED BY <1>1, <1>2

-----------------------------------------------------------------------------
(* The theorems.                                                           *)

\* run() begins in the invariant.
LEMMA InitInvariant == Init => IInv
<1> SUFFICES ASSUME Init PROVE IInv
  OBVIOUS
<1> USE DEF Init
<1>1. /\ stdin \in Seq(Commands) /\ stdout \in Seq(Lines)
      /\ DOMAIN stdin = {1} /\ DOMAIN stdout = {}
  BY DEF Commands
<1>2. ~SettledSent
  BY <1>1 DEF SettledSent
<1>3. TypeOK
  BY <1>1 DEF TypeOK, Commands
<1>4. Waiting /\ Exits /\ Asked
  BY DEF Waiting, Exits, Asked, Left, Commands
<1> QED BY <1>1, <1>2, <1>3, <1>4 DEF IInv, OnePrompt, Working

\* Every step keeps the invariant.
LEMMA NextInvariant == IInv /\ [Next]_vars => IInv'
<1> SUFFICES ASSUME IInv, [Next]_vars PROVE IInv'
  OBVIOUS
<1>1. CASE UNCHANGED vars
  BY <1>1 DEF vars, caller, instance, process, IInv, TypeOK, Waiting, Exits, Asked,
              OnePrompt, SettledSent
<1>2. CASE Child
  BY <1>2, ReadCommandStep, PreflightStep, AgentSettlesStep DEF Child
<1>3. CASE Parent
  BY <1>3, ReadLineStep, AfterSettledStep, ExitEventStep, WriteFailsStep DEF Parent
<1> QED BY <1>1, <1>2, <1>3, ChildDiesStep, AbortRunStep DEF Next

THEOREM RunInvariant == Spec => []IInv
BY InitInvariant, NextInvariant, PTL DEF Spec

\* The pipes and the state of run() keep their shapes.
THEOREM TypeInvariant == Spec => []TypeOK
<1>1. IInv => TypeOK
  BY DEF IInv
<1> QED BY <1>1, RunInvariant, PTL

\* run() never returns before its child is dead (dispose()).
THEOREM NoChildLeft == Spec => []ChildReaped
<1>1. IInv => ChildReaped
  BY DEF IInv, Exits, ChildReaped
<1> QED BY <1>1, RunInvariant, PTL

-----------------------------------------------------------------------------
(* The contract.                                                           *)

\* The steps of the child are work, rest, or nothing to the supervisor.
LEMMA ChildRefines ==
    ASSUME IInv, Child
    PROVE  [Contract!Next]_(Contract!vars)
<1> USE DEF Contract!Next, Contract!vars, Contract!Work, Contract!Rest, caller, instance
<1>1. CASE ReadCommand
  <2>1. 1 \in DOMAIN stdin /\ Head(stdin) = stdin[1]
    BY <1>1, TailFacts DEF ReadCommand, IInv, TypeOK
  <2>2. Head(stdin) = "prompt" => agent = "idle" /\ ~settled
    BY <2>1 DEF IInv, OnePrompt
  <2> QED BY <1>1, <2>2 DEF ReadCommand
<1>2. CASE Preflight
  BY <1>2 DEF Preflight
<1>3. CASE AgentSettles
  BY <1>3 DEF AgentSettles
<1> QED BY <1>1, <1>2, <1>3 DEF Child

\* What run() reads is the report, or nothing to the supervisor.
LEMMA ReadLineRefines ==
    ASSUME IInv, ReadLine
    PROVE  [Contract!Next]_(Contract!vars)
<1> USE DEF Contract!Next, Contract!vars, Contract!Finish
<1> DEFINE line == Head(stdout)
<1>1. stdout # <<>> /\ 1 \in DOMAIN stdout /\ line = stdout[1]
  BY TailFacts DEF ReadLine, IInv
<1> HIDE DEF line
<1>2. CASE line.kind # "event" /\ line.command \in requests
  <2>1. ResumeWith(line) /\ UNCHANGED <<settled, aborted, agent>>
    BY <1>2 DEF ReadLine, line
  <2>2. ~exited /\ pc # "done"
    BY <1>2 DEF IInv, Exits, Waiting, Left
  <2>3. pc' # "done" /\ (child' = child \/ (child = "alive" /\ child' = "terminating"))
    BY <2>1, <2>2 DEF ResumeWith, SendAndAwait, Leave, Dispose, IInv, TypeOK, Commands
  <2> QED BY <2>1, <2>2, <2>3
<1>3. CASE ~(line.kind # "event" /\ line.command \in requests)
  <2>1. /\ settled' = (settled \/ (line = Settled /\ listening))
        /\ UNCHANGED <<pc, outcome, child, aborted, agent>>
    BY <1>3 DEF ReadLine, line
  <2>2. line = Settled => agent \notin Working
    BY <1>1 DEF IInv, OnePrompt, SettledSent
  <2>3. listening => pc # "done"
    BY DEF IInv, Waiting, Left
  <2>4. settled \in BOOLEAN
    BY DEF IInv, TypeOK
  <2>5. CASE line = Settled /\ listening
    BY <2>1, <2>2, <2>3, <2>5 DEF Working
  <2>6. CASE ~(line = Settled /\ listening)
    BY <2>1, <2>4, <2>6
  <2> QED BY <2>5, <2>6
<1> QED BY <1>2, <1>3

\* Whatever else run() does is its end, or nothing to the supervisor.
LEMMA RunRefines ==
    ASSUME IInv, AfterSettled \/ ExitEvent \/ WriteFails \/ AbortRun \/ ChildDies
    PROVE  [Contract!Next]_(Contract!vars)
<1> USE DEF Contract!Next, Contract!vars
<1>1. CASE AfterSettled
  BY <1>1 DEF AfterSettled, SendAndAwait, Leave, Dispose, Contract!End, IInv, Exits, TypeOK
<1>2. CASE ExitEvent
  BY <1>2 DEF ExitEvent, RejectAllPending, Contract!End, IInv, Exits, Asked, Waiting, TypeOK,
              Left
<1>3. CASE AbortRun
  BY <1>3 DEF AbortRun, Contract!Abort
<1>4. CASE ChildDies
  BY <1>4 DEF ChildDies, Contract!Go, caller, instance
<1>5. CASE WriteFails
  BY <1>5 DEF WriteFails, Leave, Dispose, IInv, TypeOK, Left, Commands
<1> QED BY <1>1, <1>2, <1>3, <1>4, <1>5

\* run() implements what TaskSupervisor relies on (TaskExecution).
THEOREM ContractKept == Spec => KeepsContract
<1>1. Init => Contract!Init
  BY DEF Init, Contract!Init
<1>2. IInv /\ [Next]_vars => [Contract!Next]_(Contract!vars)
  <2> SUFFICES ASSUME IInv, [Next]_vars PROVE [Contract!Next]_(Contract!vars)
    OBVIOUS
  <2>1. CASE UNCHANGED vars
    BY <2>1 DEF vars, caller, instance, process, Contract!vars
  <2>2. CASE Next
    BY <2>2, ChildRefines, ReadLineRefines, RunRefines DEF Next, Parent
  <2> QED BY <2>1, <2>2
<1> QED BY <1>1, <1>2, RunInvariant, PTL DEF Spec, KeepsContract, Contract!Spec
=============================================================================
