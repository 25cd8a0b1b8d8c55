---------------------------- MODULE SessionTree ----------------------------
(***************************************************************************)
(* The sessions of the coding agent: core/session-manager.ts keeps a       *)
(* conversation as an append-only tree with a leaf, in memory and in a     *)
(* JSONL file per session; core/compaction/compaction.ts chooses what a    *)
(* compaction keeps; navigateTree() moves the leaf; fork() and clone copy  *)
(* one branch into a new session.  A message is its kind and weighs one    *)
(* token; an id is a number (the code draws a fresh one at random).        *)
(***************************************************************************)
EXTENDS Integers, Sequences, FiniteSets

CONSTANTS
    KeepRecent,   \* CompactionSettings.keepRecentTokens, in messages
    Budgets       \* bounds: what each behaviour may still do, by kind of step

ASSUME SessionTreeAssumption ==
    /\ KeepRecent \in Nat \ {0}
    /\ Budgets \subseteq
         [made : {0}, entries : Nat, metas : Nat, labels : Nat, compactions : Nat,
          navigations : Nat, sessions : Nat]

VARIABLES
    session,   \* the session of the running SessionManager (sessionFile)
    entries,   \* fileEntries without the header
    leaf,      \* leafId, Root for null
    flushed,   \* is the file of this session written?
    files,     \* the session files, by session: the entries in each
    run,       \* what the agent does: "idle", or which message comes next
    pending,   \* the compaction being summarised, or NoCompaction
    left       \* what is left of the chosen budget

vars == <<session, entries, leaf, flushed, files, run, pending, left>>
store == <<session, entries, leaf, flushed, files>>

Root == 0
NoCompaction == [keep |-> Root, told |-> {}, base |-> Root]

Users == {"user", "bash", "summary"}
Assistants == {"assistant", "call", "error"}
Messages == Users \cup Assistants \cup {"result"}
Kinds == Messages \cup {"meta", "label", "compaction"}

-----------------------------------------------------------------------------
(* Reading the tree                                                        *)

IdsOf(seq) == {seq[k].id : k \in 1..Len(seq)}

\* The position of an id in a tree or on a path, 0 if it is not there.
IndexOf(path, i) ==
    LET at == {k \in 1..Len(path) : path[k].id = i}
    IN  IF at = {} THEN 0 ELSE CHOOSE k \in at : TRUE

\* getBranch(): the entries from the root to the entry `from`.
Branch(t, from) ==
    LET path[k \in 0..Len(t)] ==
            IF k = 0 THEN <<>> ELSE Append(path[IndexOf(t, t[k].parent)], t[k])
    IN  path[IndexOf(t, from)]

\* filter(): the entries at some positions of a sequence, in their order.
Picked(seq, at) ==
    LET upTo[n \in 0..Len(seq)] ==
            IF n = 0 THEN <<>>
            ELSE IF n \in at THEN Append(upTo[n - 1], seq[n]) ELSE upTo[n - 1]
    IN  upTo[Len(seq)]

Largest(S) == CHOOSE k \in S : \A j \in S : j <= k
Smallest(S) == CHOOSE k \in S : \A j \in S : k <= j

\* The latest compaction of a path, 0 if there is none.
LatestCompaction(path) ==
    Largest({0} \cup {k \in 1..Len(path) : path[k].kind = "compaction"})

\* sessionEntryToContextMessages(): does the entry give the model a message?
InContext(e) == e.kind \in Messages \cup {"compaction"}

\* buildContextEntries() and buildSessionContext(): the summary of the latest
\* compaction, what it kept, and what came after it.
Context(path) ==
    LET c == LatestCompaction(path)
        first == IF c = 0 THEN 0 ELSE IndexOf(SubSeq(path, 1, c - 1), path[c].ref)
        kept == IF first = 0 THEN <<>> ELSE SubSeq(path, first, c - 1)
        chosen == IF c = 0 THEN path
                  ELSE <<path[c]>> \o kept \o SubSeq(path, c + 1, Len(path))
    IN  Picked(chosen, {k \in 1..Len(chosen) : InContext(chosen[k])})

\* labelsById: the label entries that hold, each the last one of its target.
LabelsOf(t) ==
    LET last(k) == /\ t[k].kind = "label"
                   /\ \A j \in k + 1..Len(t) :
                        ~(t[j].kind = "label" /\ t[j].ref = t[k].ref)
    IN  {t[k] : k \in {j \in 1..Len(t) : last(j) /\ t[j].set}}

-----------------------------------------------------------------------------
(* Choosing what a compaction keeps                                        *)

\* estimateTokens() of the messages of an entry.
Tokens(e) == IF InContext(e) THEN 1 ELSE 0

\* A slip: any message will do.
AnyMessage(path, start) ==
    {k \in start..Len(path) : path[k].kind \in Messages}

\* findValidCutPoints(): never a tool result.
CutPoints(path, start) ==
    {k \in start..Len(path) : path[k].kind \in Users \cup Assistants}

\* isTurnStartEntry()
StartsTurn(e) == e.kind \in Users

TokensFrom(path, i) == Cardinality({k \in i..Len(path) : Tokens(path[k]) = 1})

\* findCutPoint(): where the recent messages fill KeepRecent, moved on to a
\* valid cut point and then back over adjacent entries without messages.
CutIndex(path, start) ==
    LET cuts == CutPoints(path, start)
        full == {i \in start..Len(path) : TokensFrom(path, i) >= KeepRecent}
        after == {c \in cuts : full # {} /\ c >= Largest(full)}
        cut == IF after = {} THEN Smallest(cuts) ELSE Smallest(after)
    IN  IF cuts = {} THEN start
        ELSE Smallest({k \in start..cut : \A j \in k..cut - 1 : ~InContext(path[j])})

\* The start of the turn that the cut splits, 0 if it splits none.
SplitTurn(path, start, cut) ==
    LET turns == {k \in start..cut : StartsTurn(path[k])}
    IN  IF CutPoints(path, start) = {} \/ cut \in turns \/ turns = {} THEN 0
        ELSE Largest(turns)

\* A slip: the entry before the cut is neither told of nor kept.
MessagesBefore(path, i, j) ==
    {path[k].id : k \in {n \in i..j - 2 : path[n].kind \in Messages}}

\* The messages of the entries from i up to j - 1
\* (getMessageFromEntryForCompaction() skips compactions).
MessagesBetween(path, i, j) ==
    {path[k].id : k \in {n \in i..j - 1 : path[n].kind \in Messages}}

\* Where the messages to compact begin: at what the last compaction kept, or
\* after that compaction if this entry is not on the path.
BoundaryStart(path) ==
    LET c == LatestCompaction(path)
        first == IF c = 0 THEN 1 ELSE IndexOf(path, path[c].ref)
    IN  IF first = 0 THEN c + 1 ELSE first

\* prepareCompaction() and what the summary of compact() will tell of: the
\* messages handed to the model, and what the previous summary told of when
\* that summary is handed on.  The base, a history, is the last of the messages
\* that the compaction is made for.
Prepared(path) ==
    LET c == LatestCompaction(path)
        start == BoundaryStart(path)
        cut == CutIndex(path, start)
        turn == SplitTurn(path, start, cut)
        history == MessagesBetween(path, start, IF turn = 0 THEN cut ELSE turn)
        prefix == IF turn = 0 THEN {} ELSE MessagesBetween(path, turn, cut)
        previous == IF c = 0 \/ (prefix # {} /\ history = {}) THEN {} ELSE path[c].told
    IN  IF \/ path = <<>> \/ path[Len(path)].kind = "compaction"
           \/ history \cup prefix = {}
        THEN NoCompaction
        ELSE [keep |-> path[cut].id, told |-> history \cup prefix \cup previous,
              base |-> path[Largest({k \in 1..Len(path) : InContext(path[k])})].id]

-----------------------------------------------------------------------------
(* Appending                                                               *)

\* generateId(): an id no entry has had.
FreshId == left.made + 1

Entry(kind, parent, ref) ==
    [id |-> FreshId, parent |-> parent, kind |-> kind, ref |-> ref, set |-> TRUE,
     told |-> {}, base |-> Root]

HasAssistant(t) == \E k \in 1..Len(t) : t[k].kind \in Assistants

\* The files when the entries t have been written to the file of session n.
Written(n, t) == [s \in DOMAIN files \cup {n} |-> IF s = n THEN t ELSE files[s]]

\* A slip: the first answer makes the file, without what came before it.
AppendOnly(new) ==
    LET all == entries \o new
    IN  /\ entries' = all
        /\ leaf' = new[Len(new)].id
        /\ flushed' = (flushed \/ HasAssistant(all))
        /\ files' = IF flushed THEN Written(session, files[session] \o new)
                    ELSE IF HasAssistant(all) THEN Written(session, new)
                    ELSE files
        /\ UNCHANGED session

\* _appendEntry() and _persist(), for the entries of one operation: the file
\* comes into being, whole, with the first message of an assistant.
AppendAll(new) ==
    LET all == entries \o new
    IN  /\ entries' = all
        /\ leaf' = new[Len(new)].id
        /\ flushed' = (flushed \/ HasAssistant(all))
        /\ files' = IF flushed THEN Written(session, files[session] \o new)
                    ELSE IF HasAssistant(all) THEN Written(session, all)
                    ELSE files
        /\ UNCHANGED session

\* One step of the budget: n entries made, and one step of each named kind.
Spend(n, kinds) ==
    /\ left.made + n <= left.entries
    /\ \A k \in kinds : left[k] > 0
    /\ left' = [k \in DOMAIN left |->
                  IF k = "made" THEN left.made + n
                  ELSE IF k \in kinds THEN left[k] - 1 ELSE left[k]]

AppendOne(e) == AppendAll(<<e>>) /\ Spend(1, {})

-----------------------------------------------------------------------------
(* The run of the agent                                                    *)

Here == Branch(entries, leaf)

\* A prompt when no run and no compaction is under way, or a message that is
\* steered into a run before the model is asked.
Prompt ==
    /\ run \in {"idle", "answer"} /\ pending = NoCompaction
    /\ AppendOne(Entry("user", leaf, Root))
    /\ run' = "answer"
    /\ UNCHANGED pending

\* The model answers: the last message of the run, a tool call, or an error
\* that ends the run or is retried (the message stays in the session).
Answer ==
    /\ run = "answer" /\ pending = NoCompaction
    /\ \E kind \in Assistants :
        /\ AppendOne(Entry(kind, leaf, Root))
        /\ run' \in CASE kind = "assistant" -> {"idle"}
                      [] kind = "call" -> {"result"}
                      [] kind = "error" -> {"idle", "answer"}
    /\ UNCHANGED pending

\* The result of a tool call: the batch has more of them, or the run goes on,
\* or the batch has ended it.
ToolResult ==
    /\ run = "result"
    /\ AppendOne(Entry("result", leaf, Root))
    /\ run' \in {"result", "answer", "idle"}
    /\ UNCHANGED pending

\* recordBashResult() outside a run, also while a compaction is summarised.
Bash ==
    /\ run = "idle"
    /\ AppendAll(<<Entry("bash", leaf, Root)>>) /\ Spend(1, {"metas"})
    /\ UNCHANGED <<run, pending>>

\* appendModelChange() and the other appends that give the model no message;
\* they may happen at any time.
AppendMeta ==
    /\ AppendAll(<<Entry("meta", leaf, Root)>>) /\ Spend(1, {"metas"})
    /\ UNCHANGED <<run, pending>>

\* appendLabelChange(): sets or clears the label of an entry, at any time.
AppendLabel ==
    /\ \E target \in IdsOf(entries), set \in BOOLEAN :
        AppendAll(<<[Entry("label", leaf, target) EXCEPT !.set = set]>>)
    /\ Spend(1, {"labels"})
    /\ UNCHANGED <<run, pending>>

-----------------------------------------------------------------------------
(* Compaction                                                              *)

EndsInError(context) == context # <<>> /\ context[Len(context)].kind = "error"

\* compact() and _runAutoCompaction() up to the summary: between runs, or
\* before the retry of an error (context overflow).
StartCompaction ==
    /\ pending = NoCompaction
    /\ run = "idle" \/ (run = "answer" /\ EndsInError(Context(Here)))
    /\ pending' = Prepared(Here)
    /\ pending' # NoCompaction
    /\ Spend(0, {"compactions"})
    /\ UNCHANGED <<store, run>>

\* The summary arrives and is appended at the leaf of that moment; a run that
\* was to be retried goes on.
FinishCompaction ==
    /\ pending # NoCompaction
    /\ AppendOne([Entry("compaction", leaf, pending.keep) EXCEPT
                    !.told = pending.told, !.base = pending.base])
    /\ pending' = NoCompaction
    /\ UNCHANGED run

\* The summary fails or is aborted; a run that waited for it is given up.
FailCompaction ==
    /\ pending # NoCompaction
    /\ pending' = NoCompaction
    /\ run' = "idle"
    /\ UNCHANGED <<store, left>>

-----------------------------------------------------------------------------
(* Moving the leaf                                                         *)

\* collectEntriesForBranchSummary(): the entries the move leaves behind.
LeftBehind(target) == IdsOf(Here) \ IdsOf(Branch(entries, target))

\* The entries a move to `to` makes: the summary of what is left behind, and
\* the label of that summary or, without one, of the entry moved to.
Landing(to, target, summarise, labelled) ==
    LET summary == Entry("summary", to, Root)
        label == IF summarise
                 THEN [Entry("label", FreshId, FreshId) EXCEPT !.id = FreshId + 1]
                 ELSE Entry("label", to, target)
    IN  (IF summarise THEN <<summary>> ELSE <<>>) \o (IF labelled THEN <<label>> ELSE <<>>)

\* navigateTree(): to the parent of a user message, whose text goes back to
\* the editor, else to the entry itself.
Navigate ==
    /\ run = "idle"
    /\ \E e \in {entries[k] : k \in 1..Len(entries)}, summarise, labelled \in BOOLEAN :
        LET to == IF e.kind = "user" THEN e.parent ELSE e.id
            new == Landing(to, e.id, summarise, labelled)
        IN  /\ e.id # leaf
            /\ summarise => LeftBehind(e.id) # {}
            /\ IF new = <<>>
               THEN leaf' = to /\ UNCHANGED <<session, entries, flushed, files>>
               ELSE AppendAll(new)
            /\ Spend(Len(new), {"navigations"} \cup IF labelled THEN {"labels"} ELSE {})
    /\ UNCHANGED <<run, pending>>

-----------------------------------------------------------------------------
(* Sessions and their files                                                *)

\* A new file name.  Sessions are numbered downwards: the numbers above
\* left.sessions may have been used.
FreshSession == left.sessions

LastId(t) == IF t = <<>> THEN Root ELSE t[Len(t)].id

\* teardownCurrent() and a new runtime: the run and a compaction are aborted.
StopRun == run' = "idle" /\ pending' = NoCompaction

\* newSession(): nothing is written yet.
Empty ==
    /\ session' = FreshSession
    /\ entries' = <<>> /\ leaf' = Root /\ flushed' = FALSE
    /\ UNCHANGED files
    /\ Spend(0, {"sessions"})

\* The entries that are not labels.
Unlabelled(path) == Picked(path, {k \in 1..Len(path) : path[k].kind # "label"})

\* A slip: the entries keep their parents when the labels are taken out.
BranchedUnchained(t, from) ==
    Unlabelled(Branch(t, from))

\* createBranchedSession(): the branch without its label entries, chained
\* anew, and after it new label entries for the labels that hold on it.
Branched(t, from) ==
    LET path == Unlabelled(Branch(t, from))
        labels == Picked(t, {k \in 1..Len(t) :
                                t[k] \in LabelsOf(t) /\ t[k].ref \in IdsOf(path)})
        chained == [k \in 1..Len(path) |->
                      [path[k] EXCEPT !.parent = LastId(SubSeq(path, 1, k - 1))]]
        again == [k \in 1..Len(labels) |->
                    [labels[k] EXCEPT !.id = left.made + k,
                                      !.parent = IF k = 1 THEN LastId(path)
                                                 ELSE left.made + k - 1]]
    IN  chained \o again

\* The file of the new session is written at once if there is an answer in it.
CopyBranch(from) ==
    LET saved == files[session]
        all == Branched(saved, from)
    IN  /\ session \in DOMAIN files
        /\ session' = FreshSession
        /\ entries' = all
        /\ leaf' = LastId(all)
        /\ flushed' = HasAssistant(all)
        /\ files' = IF HasAssistant(all) THEN Written(FreshSession, all) ELSE files
        /\ Spend(Cardinality({k \in 1..Len(all) : all[k].id > left.made}), {"sessions"})

\* /new, or a start without a session to continue.
NewSession == Empty /\ StopRun

\* /resume, switchSession(), and a start after a crash: setSessionFile() reads
\* the file, and its last entry becomes the leaf.
Open ==
    /\ \E s \in DOMAIN files :
        /\ session' = s
        /\ entries' = files[s]
        /\ leaf' = LastId(files[s])
    /\ flushed' = TRUE
    /\ Spend(0, {"sessions"})
    /\ StopRun
    /\ UNCHANGED files

\* fork(): a new session with what precedes a user message of the tree.
Fork ==
    /\ run = "idle"
    /\ \E e \in {entries[k] : k \in 1..Len(entries)} :
        /\ e.kind = "user"
        /\ IF e.parent = Root THEN Empty ELSE CopyBranch(e.parent)
    /\ StopRun

\* The clone command: a new session with the branch of the leaf.
Clone ==
    /\ run = "idle"
    /\ leaf # Root
    /\ CopyBranch(leaf)
    /\ StopRun

\* ensureSessionFile(), which the web server calls for a session it has just
\* created: the file exists before any answer.
EnsureSessionFile ==
    /\ ~flushed /\ entries = <<>>
    /\ files' = Written(session, entries)
    /\ flushed' = TRUE
    /\ Spend(0, {"sessions"})
    /\ UNCHANGED <<session, entries, leaf, run, pending>>

Init ==
    /\ left \in Budgets
    /\ session = left.sessions + 1
    /\ entries = <<>> /\ leaf = Root /\ flushed = FALSE
    /\ files = [s \in {} |-> <<>>]
    /\ run = "idle" /\ pending = NoCompaction

Next ==
    \/ Prompt \/ Answer \/ ToolResult \/ Bash \/ AppendMeta \/ AppendLabel
    \/ StartCompaction \/ FinishCompaction \/ FailCompaction
    \/ Navigate \/ NewSession \/ Open \/ Fork \/ Clone \/ EnsureSessionFile

Spec == Init /\ [][Next]_vars

-----------------------------------------------------------------------------
(* Properties                                                              *)

Tree(t) ==
    /\ \A k \in 1..Len(t) :
        /\ t[k].kind \in Kinds
        /\ t[k].parent \in {Root} \cup IdsOf(SubSeq(t, 1, k - 1))
        /\ t[k].id \notin IdsOf(SubSeq(t, 1, k - 1))
        /\ t[k].told \subseteq 1..left.made

\* The state of the session manager: in memory and in every file the entries
\* form a tree, each after its parent and with an id of its own, and the leaf
\* is one of them; so a branch always ends at a root.
TypeOK ==
    /\ Tree(entries) /\ \A s \in DOMAIN files : Tree(files[s])
    /\ leaf \in {Root} \cup IdsOf(entries)
    /\ flushed \in BOOLEAN /\ session \in Nat \ {0}
    /\ run \in {"idle", "answer", "result"}
    /\ pending.keep \in 0..left.made

\* The file is the tree: what a restart reads is what the process had in
\* memory, for every session that holds an answer of the model; an answer is
\* never in memory only (_persist(), createBranchedSession()).
DiskIsTree ==
    /\ flushed <=> session \in DOMAIN files
    /\ flushed => files[session] = entries
    /\ HasAssistant(entries) => flushed

Compactions(path) == {k \in 1..Len(path) : path[k].kind = "compaction"}

\* The compaction at c comes after all that it was made for: the leaf was not
\* moved to another branch while it was summarised.
Lands(path, c) == path[c].base \in IdsOf(SubSeq(path, 1, c - 1))

\* The compaction at c finds the entry that it keeps from.
Finds(path, c) == path[c].ref \in IdsOf(SubSeq(path, 1, c - 1))

\* Nothing of a branch is lost unseen: each of its messages is still given to
\* the model or was handed to a summary, whatever was appended while that
\* summary was made and wherever the leaf was moved since
\* (findCutPoint(), prepareCompaction(), buildContextEntries()).  It holds
\* where each compaction came to the branch that it was made for and finds
\* there the entry it kept from.
NothingDropped ==
    LET path == Here
        told == UNION {path[c].told : c \in Compactions(path)}
    IN  (\A c \in Compactions(path) : Lands(path, c) /\ Finds(path, c)) =>
            \A k \in 1..Len(path) :
                path[k].kind \in Messages =>
                    path[k].id \in told \cup IdsOf(Context(path))

\* What the model is given never begins in the middle of a tool call: a
\* result comes after the call it answers, also behind a summary and in a
\* clone ("Never cut at tool results"), if that summary came to the branch
\* that it was made for.
NoOrphanResults ==
    LET path == Here
        context == Context(path)
        c == LatestCompaction(path)
    IN  c = 0 \/ Lands(path, c) =>
            \A k \in 1..Len(context) : context[k].kind = "result" =>
                \E j \in 1..k - 1 :
                    /\ context[j].kind = "call"
                    /\ \A i \in j + 1..k - 1 : context[i].kind \notin Assistants

\* A summary passes on what the summary before it told of: each message of the
\* branch is given to the model, or told of in a summary that is given to it
\* ("passing the previous summary as iterative context when present").
NothingForgotten ==
    LET path == Here
        context == Context(path)
        told == UNION {context[k].told : k \in 1..Len(context)}
    IN  \A k \in 1..Len(path) :
            path[k].kind \in Messages => path[k].id \in told \cup IdsOf(context)
=============================================================================
