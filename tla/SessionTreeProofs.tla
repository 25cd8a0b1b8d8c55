------------------------- MODULE SessionTreeProofs --------------------------
(***************************************************************************)
(* Proofs about SessionTree, for every budget and every KeepRecent.        *)
(*                                                                         *)
(* The file of a session is the tree its process has in memory; the types; *)
(* no branch gives the model a result without its call; nothing said on a  *)
(* branch is lost, where each compaction came to the branch it was made    *)
(* for.  The last two rest on what every branch keeps to, position by      *)
(* position (Sane): a result stands behind its call, and a compaction that *)
(* came to its own branch cuts it where the model could be asked again.    *)
(***************************************************************************)
EXTENDS SessionTree, SequenceLemmas

\* The numbers that new sessions will get are still free.
NamesFree ==
    /\ "sessions" \in DOMAIN left /\ left.sessions \in Nat
    /\ session \in Nat /\ session > left.sessions
    /\ \A s \in DOMAIN files : s \in Nat /\ s > left.sessions

IInv ==
    /\ flushed \in BOOLEAN
    /\ NamesFree
    /\ DiskIsTree

-----------------------------------------------------------------------------
\* A step of the budget never gives a session number back, and one that makes
\* a session uses one up.
LEMMA SpendFacts ==
    ASSUME NamesFree, NEW n, NEW kinds, Spend(n, kinds)
    PROVE  /\ "sessions" \in DOMAIN left' /\ left'.sessions \in Nat
           /\ left'.sessions <= left.sessions
           /\ "sessions" \in kinds => left.sessions > 0 /\ left'.sessions < left.sessions
<1>1. /\ "sessions" \in DOMAIN left' /\ "sessions" # "made"
      /\ left'.sessions = IF "sessions" \in kinds THEN left.sessions - 1 ELSE left.sessions
  BY DEF Spend, NamesFree
<1>2. "sessions" \in kinds => left.sessions > 0
  BY DEF Spend
<1> QED BY <1>1, <1>2 DEF NamesFree

\* What is written can be read back, and no other file changes.
LEMMA WrittenFacts ==
    ASSUME NEW n, NEW t
    PROVE  /\ DOMAIN Written(n, t) = DOMAIN files \cup {n}
           /\ Written(n, t)[n] = t
BY DEF Written

\* What a step has to show, part by part.
LEMMA Parts ==
    ASSUME flushed' \in BOOLEAN, NamesFree',
           flushed' <=> session' \in DOMAIN files',
           flushed' => files'[session'] = entries',
           HasAssistant(entries') => flushed'
    PROVE  IInv'
<1>1. DiskIsTree'
  BY DEF DiskIsTree, HasAssistant
<1> QED BY <1>1 DEF IInv

\* What the steps start from.
LEMMA Before ==
    ASSUME IInv
    PROVE  /\ flushed \in BOOLEAN
           /\ flushed <=> session \in DOMAIN files
           /\ flushed => files[session] = entries
           /\ HasAssistant(entries) => flushed
BY DEF IInv, DiskIsTree

LEMMA AssistantBoolean == ASSUME NEW t PROVE HasAssistant(t) \in BOOLEAN
BY DEF HasAssistant

\* Session numbers stay free when no session is made.
LEMMA NamesKept ==
    ASSUME NamesFree, session' = session,
           DOMAIN files' \subseteq DOMAIN files \cup {session},
           NEW n, NEW kinds, Spend(n, kinds)
    PROVE  NamesFree'
<1>1. /\ "sessions" \in DOMAIN left' /\ left'.sessions \in Nat
      /\ left'.sessions <= left.sessions
  BY SpendFacts
<1> QED BY <1>1 DEF NamesFree

\* _persist() leaves the whole tree in the file, or no file (_appendEntry()).
LEMMA AppendStep ==
    ASSUME IInv, NEW new, AppendAll(new), NEW n, NEW kinds, Spend(n, kinds)
    PROVE  IInv'
<1> DEFINE all == entries \o new
<1>1. /\ entries' = all /\ session' = session
      /\ flushed' = (flushed \/ HasAssistant(all))
      /\ files' = IF flushed THEN Written(session, files[session] \o new)
                  ELSE IF HasAssistant(all) THEN Written(session, all)
                  ELSE files
  BY DEF AppendAll
<1>2. flushed => files[session] \o new = all
  BY Before
<1> HIDE DEF all
<1>3. CASE flushed
  <2>1. flushed' /\ flushed' \in BOOLEAN
    BY <1>1, <1>3, Zenon
  <2>2. files' = Written(session, all)
    BY <1>1, <1>2, <1>3
  <2>3. NamesFree'
    BY <1>1, <2>2, WrittenFacts, NamesKept DEF IInv
  <2> QED BY <1>1, <2>1, <2>2, <2>3, WrittenFacts, Parts
<1>4. CASE ~flushed /\ HasAssistant(all)
  <2>1. flushed' /\ flushed' \in BOOLEAN
    BY <1>1, <1>4, Zenon
  <2>2. files' = Written(session, all)
    BY <1>1, <1>4
  <2>3. NamesFree'
    BY <1>1, <2>2, WrittenFacts, NamesKept DEF IInv
  <2> QED BY <1>1, <2>1, <2>2, <2>3, WrittenFacts, Parts
<1>5. CASE ~flushed /\ ~HasAssistant(all)
  <2>1. ~flushed' /\ flushed' \in BOOLEAN
    BY <1>1, <1>5, Zenon
  <2>2. files' = files
    BY <1>1, <1>5
  <2>3. NamesFree'
    BY <1>1, <2>2, NamesKept DEF IInv
  <2> QED BY <1>1, <1>5, <2>1, <2>2, <2>3, Before, Parts
<1> QED BY <1>3, <1>4, <1>5

\* Steps that leave the tree and the files alone.
LEMMA StoreKeptStep ==
    ASSUME IInv, UNCHANGED <<session, entries, flushed, files>>,
           left' = left \/ \E n, kinds : Spend(n, kinds)
    PROVE  IInv'
BY SpendFacts DEF IInv, NamesFree, DiskIsTree

\* A new session has no file (newSession()).
LEMMA EmptyStep ==
    ASSUME IInv, Empty
    PROVE  IInv'
<1>1. /\ session' = left.sessions /\ entries' = <<>> /\ files' = files
      /\ flushed' = FALSE /\ Spend(0, {"sessions"})
  BY DEF Empty, FreshSession
<1>2. /\ "sessions" \in DOMAIN left' /\ left'.sessions \in Nat
      /\ left'.sessions < left.sessions /\ left.sessions \in Nat
      /\ \A s \in DOMAIN files : s \in Nat /\ s > left.sessions
  BY <1>1, SpendFacts DEF IInv, NamesFree
<1>3. ~HasAssistant(<<>>)
  BY DEF HasAssistant
<1>4. NamesFree'
  BY <1>1, <1>2 DEF NamesFree
<1>5. session' \notin DOMAIN files'
  BY <1>1, <1>2
<1> QED BY <1>1, <1>3, <1>4, <1>5, Parts

\* A copied branch is written at once, or not at all (createBranchedSession()).
LEMMA CopyBranchStep ==
    ASSUME IInv, NEW from, CopyBranch(from)
    PROVE  IInv'
<1> DEFINE all == Branched(files[session], from)
<1>1. PICK n : Spend(n, {"sessions"})
  BY DEF CopyBranch
<1>2. /\ "sessions" \in DOMAIN left' /\ left'.sessions \in Nat
      /\ left'.sessions < left.sessions /\ left.sessions \in Nat
      /\ \A s \in DOMAIN files : s \in Nat /\ s > left.sessions
  BY <1>1, SpendFacts DEF IInv, NamesFree
<1>3. /\ session' = left.sessions /\ entries' = all
      /\ flushed' = HasAssistant(all)
      /\ files' = IF HasAssistant(all) THEN Written(left.sessions, all) ELSE files
  BY DEF CopyBranch, FreshSession
<1> HIDE DEF all
<1>4. flushed' \in BOOLEAN /\ (HasAssistant(all) <=> flushed')
  BY <1>3, AssistantBoolean, Zenon
<1>5. CASE HasAssistant(all)
  <2>1. files' = Written(left.sessions, all)
    BY <1>3, <1>5
  <2>2. DOMAIN files' = DOMAIN files \cup {left.sessions} /\ files'[session'] = all
    BY <1>3, <2>1, WrittenFacts
  <2>3. NamesFree'
    BY <1>2, <1>3, <2>2 DEF NamesFree
  <2> QED BY <1>3, <1>4, <1>5, <2>2, <2>3, Parts
<1>6. CASE ~HasAssistant(all)
  <2>1. files' = files
    BY <1>3, <1>6
  <2>2. NamesFree'
    BY <1>2, <1>3, <2>1 DEF NamesFree
  <2>3. session' \notin DOMAIN files'
    BY <1>2, <1>3, <2>1
  <2> QED BY <1>3, <1>4, <1>6, <2>2, <2>3, Parts
<1> QED BY <1>5, <1>6

\* Every step keeps the files true to the trees.
LEMMA NextInvariant == IInv /\ [Next]_vars => IInv'
<1> SUFFICES ASSUME IInv, [Next]_vars PROVE IInv'
  OBVIOUS
<1>1. CASE UNCHANGED vars
  BY <1>1 DEF vars, IInv, NamesFree, DiskIsTree
<1>2. CASE Prompt \/ Answer \/ ToolResult \/ Bash \/ AppendMeta \/ AppendLabel \/ FinishCompaction
  BY <1>2, AppendStep
     DEF Prompt, Answer, ToolResult, Bash, AppendMeta, AppendLabel, FinishCompaction, AppendOne
<1>3. CASE StartCompaction \/ FailCompaction
  BY <1>3, StoreKeptStep DEF StartCompaction, FailCompaction, store
<1>4. CASE Navigate
  <2>1. PICK n, kinds, new :
          /\ Spend(n, kinds)
          /\ AppendAll(new) \/ UNCHANGED <<session, entries, flushed, files>>
    BY <1>4 DEF Navigate
  <2> QED BY <2>1, AppendStep, StoreKeptStep
<1>5. CASE NewSession
  BY <1>5, EmptyStep DEF NewSession
<1>6. CASE Open
  <2>1. Spend(0, {"sessions"})
    BY <1>6 DEF Open
  <2> QED BY <1>6, <2>1, SpendFacts DEF Open, IInv, NamesFree, DiskIsTree
<1>7. CASE Fork \/ Clone
  BY <1>7, EmptyStep, CopyBranchStep DEF Fork, Clone
<1>8. CASE EnsureSessionFile
  <2>1. Spend(0, {"sessions"})
    BY <1>8 DEF EnsureSessionFile
  <2>2. /\ files' = Written(session, entries) /\ session' = session
        /\ entries' = entries /\ flushed' = TRUE
    BY <1>8 DEF EnsureSessionFile
  <2>3. NamesFree'
    BY <2>1, <2>2, WrittenFacts, NamesKept DEF IInv
  <2> QED BY <2>2, <2>3, WrittenFacts, Parts
<1> QED BY <1>1, <1>2, <1>3, <1>4, <1>5, <1>6, <1>7, <1>8 DEF Next

LEMMA InitHolds == Init => IInv
<1> SUFFICES ASSUME Init PROVE IInv
  OBVIOUS
<1>1. "sessions" \in DOMAIN left /\ left.sessions \in Nat
  BY SessionTreeAssumption DEF Init, SessionTreeAssumption
<1>2. ~HasAssistant(<<>>) /\ DOMAIN files = {}
  BY DEF HasAssistant, Init
<1>3. NamesFree
  BY <1>1, <1>2 DEF Init, NamesFree
<1>4. flushed \in BOOLEAN /\ ~flushed
  BY DEF Init
<1>5. DiskIsTree
  BY <1>2, <1>4 DEF Init, DiskIsTree
<1> QED BY <1>3, <1>4, <1>5 DEF IInv

\* A restart reads what the process had in memory: every answer of the model
\* is in the file of its session, with everything before it.
THEOREM DiskIsAlwaysTheTree == Spec => []DiskIsTree
<1>1. IInv => DiskIsTree
  BY DEF IInv
<1> QED BY <1>1, InitHolds, NextInvariant, PTL DEF Spec

-----------------------------------------------------------------------------
(* Sequences that are built one element after the other.                    *)

\* For each position the sequence of another position before it, with the
\* element of this one or without it.
Builds(f, m, S, t, at, p) ==
    /\ f \in [0..m -> Seq(S)] /\ f[0] = <<>>
    /\ \A k \in 1..m : f[k] = IF k \in at THEN Append(f[p[k]], t[k]) ELSE f[p[k]]

LEMMA CanBuild ==
    ASSUME NEW S, NEW t \in Seq(S), NEW at, NEW p,
           \A k \in 1..Len(t) : p[k] \in 0..k - 1
    PROVE  \E f : Builds(f, Len(t), S, t, at, p)
<1> DEFINE T == {m \in Nat : m <= Len(t) => \E f : Builds(f, m, S, t, at, p)}
<1>1. Len(t) \in Nat /\ \A k \in 1..Len(t) : t[k] \in S
  BY LenProperties, ElementOfSeq
<1>2. 0 \in T
  <2>1. Builds([k \in 0..0 |-> <<>>], 0, S, t, at, p)
    BY DEF Builds
  <2> QED BY <2>1
<1>3. ASSUME NEW m \in Nat, m \in T PROVE m + 1 \in T
  <2> SUFFICES ASSUME m + 1 <= Len(t) PROVE \E f : Builds(f, m + 1, S, t, at, p)
    OBVIOUS
  <2>1. PICK f : Builds(f, m, S, t, at, p)
    BY <1>1, <1>3
  <2> DEFINE last == IF m + 1 \in at THEN Append(f[p[m + 1]], t[m + 1]) ELSE f[p[m + 1]]
             g == [k \in 0..m + 1 |-> IF k = m + 1 THEN last ELSE f[k]]
  <2>2. m + 1 \in 1..Len(t) /\ p[m + 1] \in 0..m /\ f[p[m + 1]] \in Seq(S)
    BY <1>1, <2>1 DEF Builds
  <2>3. last \in Seq(S)
    BY <1>1, <2>2, AppendProperties
  <2> HIDE DEF last
  <2>4. g \in [0..m + 1 -> Seq(S)]
    BY <2>1, <2>3 DEF Builds
  <2>5. g[0] = <<>> /\ g[m + 1] = last /\ \A k \in 0..m : g[k] = f[k]
    BY <2>1 DEF Builds
  <2> HIDE DEF g
  <2>6. ASSUME NEW k \in 1..m + 1
        PROVE  g[k] = IF k \in at THEN Append(g[p[k]], t[k]) ELSE g[p[k]]
    <3>1. CASE k = m + 1
      BY <2>2, <2>5, <3>1 DEF last
    <3>2. CASE k # m + 1
      <4>1. k \in 1..m /\ p[k] \in 0..m /\ k \in 0..m
        BY <1>1, <2>2, <3>2
      <4> QED BY <2>1, <2>5, <4>1 DEF Builds
    <3> QED BY <3>1, <3>2
  <2>7. Builds(g, m + 1, S, t, at, p)
    BY <2>4, <2>5, <2>6 DEF Builds
  <2> QED BY <2>7
<1>4. Nat \subseteq T
  <2> HIDE DEF T
  <2> QED BY <1>2, <1>3, Induction
<1>5. Len(t) \in T
  BY <1>1, <1>4
<1> QED BY <1>1, <1>5

-----------------------------------------------------------------------------
(* The entries of a session and the trees they form.                        *)

EntriesTo(n) ==
    [id : 1..n, parent : 0..n, kind : Kinds, ref : 0..n, set : BOOLEAN,
     told : SUBSET (1..n), base : 0..n]

\* Ids grow along the file, and a parent comes before its children.
Grows(t, n) ==
    /\ t \in Seq(EntriesTo(n))
    /\ \A j, k \in 1..Len(t) : j < k => t[j].id < t[k].id
    /\ \A k \in 1..Len(t) :
          t[k].parent # Root => \E j \in 1..k - 1 : t[j].id = t[k].parent

LEMMA IndexFacts ==
    ASSUME NEW n \in Nat, NEW t, Grows(t, n)
    PROVE  /\ Len(t) \in Nat /\ \A k \in 1..Len(t) : t[k] \in EntriesTo(n)
           /\ \A k \in 1..Len(t) : IndexOf(t, t[k].id) = k
           /\ \A i : i \notin IdsOf(t) => IndexOf(t, i) = 0
           /\ Root \notin IdsOf(t)
           /\ \A k \in 1..Len(t) : IndexOf(t, t[k].parent) \in 0..k - 1
<1>1. Len(t) \in Nat /\ \A k \in 1..Len(t) : t[k] \in EntriesTo(n)
  BY LenProperties, ElementOfSeq DEF Grows
<1>2. ASSUME NEW k \in 1..Len(t) PROVE IndexOf(t, t[k].id) = k
  <2> DEFINE I == {j \in 1..Len(t) : t[j].id = t[k].id}
  <2>1. I = {k}
    <3>1. ASSUME NEW j \in 1..Len(t), t[j].id = t[k].id PROVE j = k
      <4>1. ~(j < k) /\ ~(k < j)
        <5>1. t[j].id \in Int /\ t[k].id \in Int
          BY <1>1 DEF EntriesTo
        <5> QED BY <3>1, <5>1 DEF Grows
      <4> QED BY <1>1, <4>1
    <3> QED BY <3>1
  <2> QED BY <2>1 DEF IndexOf
<1>3. \A i : i \notin IdsOf(t) => IndexOf(t, i) = 0
  BY DEF IndexOf, IdsOf
<1>4. Root \notin IdsOf(t)
  BY <1>1 DEF IdsOf, EntriesTo, Root
<1>5. ASSUME NEW k \in 1..Len(t) PROVE IndexOf(t, t[k].parent) \in 0..k - 1
  <2>1. CASE t[k].parent = Root
    BY <1>1, <1>3, <1>4, <2>1
  <2>2. CASE t[k].parent # Root
    <3>1. PICK j \in 1..k - 1 : t[j].id = t[k].parent
      BY <2>2 DEF Grows
    <3> QED BY <1>1, <1>2, <3>1
  <2> QED BY <2>1, <2>2
<1> QED BY <1>1, <1>2, <1>3, <1>4, <1>5

\* The branches of a tree, by the position of their last entry.
Paths(t) ==
    CHOOSE path : path =
        [k \in 0..Len(t) |->
            IF k = 0 THEN <<>> ELSE Append(path[IndexOf(t, t[k].parent)], t[k])]

LEMMA PathsAre ==
    ASSUME NEW n \in Nat, NEW t, Grows(t, n)
    PROVE  /\ Paths(t)[0] = <<>>
           /\ \A k \in 1..Len(t) :
                 Paths(t)[k] = Append(Paths(t)[IndexOf(t, t[k].parent)], t[k])
           /\ \A i : Branch(t, i) = Paths(t)[IndexOf(t, i)]
<1>1. t \in Seq(EntriesTo(n)) /\ Len(t) \in Nat
      /\ \A k \in 1..Len(t) : IndexOf(t, t[k].parent) \in 0..k - 1
  BY IndexFacts DEF Grows
<1> DEFINE p == [k \in 1..Len(t) |-> IndexOf(t, t[k].parent)]
<1>2. \A k \in 1..Len(t) : p[k] \in 0..k - 1 /\ p[k] = IndexOf(t, t[k].parent)
  BY <1>1
<1> HIDE DEF p
<1>a. \A k \in 1..Len(t) : p[k] \in 0..k - 1
  BY <1>2
<1>3. PICK f : Builds(f, Len(t), EntriesTo(n), t, Nat, p)
  BY <1>1, <1>a, CanBuild
<1>4. f = [k \in 0..Len(t) |->
              IF k = 0 THEN <<>> ELSE Append(f[IndexOf(t, t[k].parent)], t[k])]
  <2>1. \A k \in 0..Len(t) :
           f[k] = IF k = 0 THEN <<>> ELSE Append(f[IndexOf(t, t[k].parent)], t[k])
    <3>1. \A k \in 1..Len(t) : k \in Nat /\ k # 0
      OBVIOUS
    <3>2. \A k \in 1..Len(t) : f[k] = Append(f[IndexOf(t, t[k].parent)], t[k])
      BY <1>2, <1>3, <3>1 DEF Builds
    <3>3. \A k \in 0..Len(t) : k = 0 \/ k \in 1..Len(t)
      BY <1>1
    <3> QED BY <1>3, <3>1, <3>2, <3>3 DEF Builds
  <2>2. f = [k \in 0..Len(t) |-> f[k]]
    BY <1>3 DEF Builds
  <2> QED BY <2>1, <2>2
<1>5. Paths(t) = [k \in 0..Len(t) |->
              IF k = 0 THEN <<>> ELSE Append(Paths(t)[IndexOf(t, t[k].parent)], t[k])]
  BY <1>4, Zenon DEF Paths
<1>6. Paths(t)[0] = <<>>
      /\ \A k \in 1..Len(t) :
            Paths(t)[k] = Append(Paths(t)[IndexOf(t, t[k].parent)], t[k])
  <2>1. 0 \in 0..Len(t) /\ \A k \in 1..Len(t) : k \in 0..Len(t) /\ k # 0
    BY <1>1
  <2>2. \A k \in 0..Len(t) : Paths(t)[k] =
              IF k = 0 THEN <<>> ELSE Append(Paths(t)[IndexOf(t, t[k].parent)], t[k])
    BY <1>5, Zenon
  <2> QED BY <2>1, <2>2
<1>7. \A i : Branch(t, i) = Paths(t)[IndexOf(t, i)]
  BY Zenon DEF Branch, Paths
<1> QED BY <1>6, <1>7

\* A path ends with its entry, and each beginning of it is the path of the
\* entry that it ends with.
EndsAt(p, k, t, n) ==
    /\ p[k] \in Seq(EntriesTo(n)) /\ Len(p[k]) \in Nat \ {0}
    /\ p[k][Len(p[k])] = t[k]
    /\ \A m \in 1..Len(p[k]) : \E j \in 1..k :
          /\ p[k][m] = t[j] /\ Len(p[j]) = m
          /\ \A i \in 1..m : p[j][i] = p[k][i]

LEMMA Appended ==
    ASSUME NEW S, NEW s \in Seq(S), NEW e \in S
    PROVE  /\ Append(s, e) \in Seq(S) /\ Len(s) \in Nat /\ Len(Append(s, e)) = Len(s) + 1
           /\ \A i \in 1..Len(s) : Append(s, e)[i] = s[i]
           /\ Append(s, e)[Len(s) + 1] = e
BY AppendProperties, LenProperties

LEMMA PathEnds ==
    ASSUME NEW n \in Nat, NEW t, Grows(t, n)
    PROVE  \A k \in 1..Len(t) : EndsAt(Paths(t), k, t, n)
<1> DEFINE p == Paths(t)
           T == {m \in Nat : \A k \in 1..m : k <= Len(t) => EndsAt(p, k, t, n)}
<1>1. /\ Len(t) \in Nat /\ \A k \in 1..Len(t) : t[k] \in EntriesTo(n)
      /\ \A k \in 1..Len(t) : IndexOf(t, t[k].parent) \in 0..k - 1
  BY IndexFacts
<1>2. /\ p[0] = <<>>
      /\ \A k \in 1..Len(t) : p[k] = Append(p[IndexOf(t, t[k].parent)], t[k])
  BY PathsAre
<1> HIDE DEF p
<1>3. 0 \in T
  OBVIOUS
<1>4. ASSUME NEW m \in Nat, m \in T PROVE m + 1 \in T
  <2> SUFFICES ASSUME m + 1 <= Len(t) PROVE EndsAt(p, m + 1, t, n)
    <3>1. \A k \in 1..m + 1 : k \in 1..m \/ k = m + 1
      OBVIOUS
    <3> QED BY <1>4, <3>1
  <2> DEFINE k == m + 1
             q == IndexOf(t, t[k].parent)
             e == t[k]
  <2>1. k \in 1..Len(t) /\ q \in 0..m /\ e \in EntriesTo(n) /\ p[k] = Append(p[q], e)
    BY <1>1, <1>2
  <2>2. p[q] \in Seq(EntriesTo(n)) /\ (q # 0 => q <= Len(t) /\ q \in 1..m /\ EndsAt(p, q, t, n))
    <3>1. CASE q = 0
      BY <1>2, <3>1, EmptySeq
    <3>2. CASE q # 0
      <4>1. q \in 1..m /\ q <= Len(t)
        BY <1>1, <2>1, <3>2
      <4>2. EndsAt(p, q, t, n)
        BY <1>4, <4>1
      <4> QED BY <4>1, <4>2 DEF EndsAt
    <3> QED BY <3>1, <3>2
  <2>3. /\ p[k] \in Seq(EntriesTo(n)) /\ Len(p[q]) \in Nat /\ Len(p[k]) = Len(p[q]) + 1
        /\ \A i \in 1..Len(p[q]) : p[k][i] = p[q][i]
        /\ p[k][Len(p[q]) + 1] = e
    BY <2>1, <2>2, Appended
  <2> HIDE DEF q
  <2>4. ASSUME NEW x \in 1..Len(p[k])
        PROVE  \E j \in 1..k : /\ p[k][x] = t[j] /\ Len(p[j]) = x
                               /\ \A i \in 1..x : p[j][i] = p[k][i]
    <3>1. CASE x = Len(p[k])
      <4>1. k \in 1..k /\ p[k][x] = t[k]
        BY <2>3, <3>1
      <4> QED BY <3>1, <4>1
    <3>2. CASE x # Len(p[k])
      <4>1. x \in 1..Len(p[q])
        BY <2>3, <3>2
      <4>2. q # 0
        BY <1>2, <4>1, EmptySeq
      <4>3. PICK j \in 1..q : /\ p[q][x] = t[j] /\ Len(p[j]) = x
                              /\ \A i \in 1..x : p[j][i] = p[q][i]
        BY <2>2, <4>1, <4>2 DEF EndsAt
      <4>4. j \in 1..k /\ \A i \in 1..x : i \in 1..Len(p[q])
        BY <2>2, <2>3, <4>1, <4>2
      <4>5. p[k][x] = t[j] /\ \A i \in 1..x : p[j][i] = p[k][i]
        BY <2>3, <4>1, <4>3, <4>4
      <4> QED BY <4>3, <4>4, <4>5
    <3> QED BY <3>1, <3>2
  <2>5. Len(p[k]) \in Nat \ {0} /\ p[k][Len(p[k])] = t[k]
    BY <2>3
  <2> QED BY <2>3, <2>4, <2>5 DEF EndsAt
<1>5. Nat \subseteq T
  <2> HIDE DEF T
  <2> QED BY <1>3, <1>4, Induction
<1>6. Len(t) \in T
  <2> HIDE DEF T
  <2> QED BY <1>1, <1>5
<1>7. \A k \in 1..Len(t) : k <= Len(t)
  BY <1>1
<1> QED BY <1>6, <1>7 DEF p

\* A branch: its entries are of the tree and in its order, and it begins with
\* the branch of each of them.
IsBranch(b, t, n) ==
    /\ b \in Seq(EntriesTo(n)) /\ Len(b) \in Nat
    /\ \A m \in 1..Len(b) :
          /\ b[m] \in EntriesTo(n) /\ \E j \in 1..Len(t) : b[m] = t[j]
          /\ Len(Branch(t, b[m].id)) = m
          /\ \A i \in 1..m : Branch(t, b[m].id)[i] = b[i]
    /\ \A i, j \in 1..Len(b) : i < j => b[i].id < b[j].id

LEMMA BranchIs ==
    ASSUME NEW n \in Nat, NEW t, Grows(t, n)
    PROVE  /\ Branch(t, Root) = <<>>
           /\ \A k \in 1..Len(t) :
                 Branch(t, t[k].id) = Append(Branch(t, t[k].parent), t[k])
           /\ \A i \in IdsOf(t) \cup {Root} : IsBranch(Branch(t, i), t, n)
           /\ \A i \in IdsOf(t) :
                 /\ Len(Branch(t, i)) # 0
                 /\ Branch(t, i)[Len(Branch(t, i))].id = i
<1> DEFINE p == Paths(t)
<1>1. /\ Len(t) \in Nat /\ \A k \in 1..Len(t) : t[k] \in EntriesTo(n)
      /\ \A k \in 1..Len(t) : IndexOf(t, t[k].parent) \in 0..k - 1
      /\ \A k \in 1..Len(t) : IndexOf(t, t[k].id) = k
      /\ Root \notin IdsOf(t)
      /\ \A i : i \notin IdsOf(t) => IndexOf(t, i) = 0
  BY IndexFacts
<1>2. /\ p[0] = <<>> /\ \A i : Branch(t, i) = p[IndexOf(t, i)]
      /\ \A k \in 1..Len(t) : p[k] = Append(p[IndexOf(t, t[k].parent)], t[k])
  BY PathsAre
<1>3. \A k \in 1..Len(t) : EndsAt(p, k, t, n)
  BY PathEnds
<1> HIDE DEF p
<1>4. \A k \in 1..Len(t) : Branch(t, t[k].id) = p[k]
  BY <1>1, <1>2
<1>5. \A k \in 1..Len(t) : Branch(t, t[k].id) = Append(Branch(t, t[k].parent), t[k])
  BY <1>2, <1>4
<1>6. Branch(t, Root) = <<>>
  BY <1>1, <1>2
<1>7. IsBranch(<<>>, t, n)
  BY EmptySeq DEF IsBranch
<1>8. ASSUME NEW k \in 1..Len(t) PROVE IsBranch(p[k], t, n)
  <2> DEFINE b == p[k]
  <2>1. /\ b \in Seq(EntriesTo(n)) /\ Len(b) \in Nat
        /\ \A m \in 1..Len(b) : b[m] \in EntriesTo(n)
        /\ \A m \in 1..Len(b) : \E j \in 1..k :
              /\ b[m] = t[j] /\ Len(p[j]) = m
              /\ \A i \in 1..m : p[j][i] = b[i]
    BY <1>3, ElementOfSeq DEF EndsAt
  <2>2. ASSUME NEW m \in 1..Len(b)
        PROVE  /\ \E j \in 1..Len(t) : b[m] = t[j]
               /\ Len(Branch(t, b[m].id)) = m
               /\ \A i \in 1..m : Branch(t, b[m].id)[i] = b[i]
    <3>1. PICK j \in 1..k : /\ b[m] = t[j] /\ Len(p[j]) = m
                            /\ \A i \in 1..m : p[j][i] = b[i]
      BY <2>1
    <3>2. j \in 1..Len(t)
      BY <1>1
    <3> QED BY <1>4, <3>1, <3>2
  <2>3. ASSUME NEW i \in 1..Len(b), NEW j \in 1..Len(b), i < j PROVE b[i].id < b[j].id
    <3>1. PICK y \in 1..k : /\ b[j] = t[y] /\ Len(p[y]) = j
                            /\ \A x \in 1..j : p[y][x] = b[x]
      BY <2>1
    <3>2. y \in 1..Len(t) /\ i \in 1..Len(p[y]) /\ p[y][i] = b[i]
      BY <1>1, <2>1, <2>3, <3>1
    <3>3. PICK z \in 1..y : p[y][i] = t[z] /\ Len(p[z]) = i
      BY <1>3, <3>2 DEF EndsAt
    <3>4. z # y
      BY <2>3, <3>1, <3>3
    <3>5. z < y /\ z \in 1..Len(t)
      BY <1>1, <3>2, <3>4, SMTT(40)
    <3> QED BY <3>1, <3>2, <3>3, <3>5 DEF Grows
  <2> HIDE DEF b
  <2>4. IsBranch(b, t, n)
    BY <2>1, <2>2, <2>3 DEF IsBranch
  <2> QED BY <2>4 DEF b
<1>9. ASSUME NEW i \in IdsOf(t)
      PROVE  /\ IsBranch(Branch(t, i), t, n)
             /\ Len(Branch(t, i)) # 0
             /\ Branch(t, i)[Len(Branch(t, i))].id = i
  <2>1. PICK k \in 1..Len(t) : t[k].id = i
    BY DEF IdsOf
  <2>2. Branch(t, i) = p[k]
    BY <1>4, <2>1
  <2> QED BY <1>3, <1>8, <2>1, <2>2 DEF EndsAt
<1> QED BY <1>5, <1>6, <1>7, <1>9

\* What is added to a tree leaves the branches there were, and makes one.
LEMMA BranchGrows ==
    ASSUME NEW n \in Nat, NEW t, Grows(t, n), NEW e, Grows(Append(t, e), n)
    PROVE  /\ \A i \in IdsOf(t) \cup {Root} : Branch(Append(t, e), i) = Branch(t, i)
           /\ e.parent \in IdsOf(t) \cup {Root}
           /\ Branch(Append(t, e), e.id) = Append(Branch(t, e.parent), e)
           /\ IdsOf(Append(t, e)) = IdsOf(t) \cup {e.id}
<1> DEFINE u == Append(t, e)
           p == Paths(t)
           q == Paths(u)
<1>1. /\ Len(t) \in Nat /\ Len(u) = Len(t) + 1 /\ u[Len(t) + 1] = e
      /\ \A k \in 1..Len(t) : u[k] = t[k]
  <2>1. t \in Seq(EntriesTo(n))
    BY DEF Grows
  <2> QED BY <2>1, AppendProperties, LenProperties
<1>2. /\ \A k \in 1..Len(t) : IndexOf(t, t[k].parent) \in 0..k - 1
      /\ \A k \in 1..Len(t) : IndexOf(t, t[k].id) = k
      /\ Root \notin IdsOf(t)
      /\ \A i : i \notin IdsOf(t) => IndexOf(t, i) = 0
  BY IndexFacts
<1>3. /\ \A k \in 1..Len(u) : IndexOf(u, u[k].id) = k
      /\ Root \notin IdsOf(u)
      /\ \A i : i \notin IdsOf(u) => IndexOf(u, i) = 0
  BY IndexFacts
<1>4. /\ p[0] = <<>> /\ \A i : Branch(t, i) = p[IndexOf(t, i)]
      /\ \A k \in 1..Len(t) : p[k] = Append(p[IndexOf(t, t[k].parent)], t[k])
  BY PathsAre
<1>5. /\ q[0] = <<>> /\ \A i : Branch(u, i) = q[IndexOf(u, i)]
      /\ \A k \in 1..Len(u) : q[k] = Append(q[IndexOf(u, u[k].parent)], u[k])
  BY PathsAre
<1>6. \A k \in 1..Len(u) :
         u[k].parent # Root => \E j \in 1..k - 1 : u[j].id = u[k].parent
  BY DEF Grows
<1> HIDE DEF u, p, q
<1>7. IdsOf(u) = IdsOf(t) \cup {e.id}
  <2>1. \A k \in 1..Len(u) : k \in 1..Len(t) \/ k = Len(t) + 1
    BY <1>1
  <2>2. \A k \in 1..Len(t) : k \in 1..Len(u)
    BY <1>1
  <2>3. Len(t) + 1 \in 1..Len(u)
    BY <1>1
  <2> QED BY <1>1, <2>1, <2>2, <2>3 DEF IdsOf
<1>8. \A i \in IdsOf(t) \cup {Root} : IndexOf(u, i) = IndexOf(t, i)
  <2>1. ASSUME NEW i \in IdsOf(t) PROVE IndexOf(u, i) = IndexOf(t, i)
    <3>1. PICK k \in 1..Len(t) : t[k].id = i
      BY DEF IdsOf
    <3>2. k \in 1..Len(u) /\ u[k].id = i
      BY <1>1, <3>1
    <3> QED BY <1>2, <1>3, <3>1, <3>2
  <2> QED BY <1>2, <1>3, <2>1
<1>9. \A k \in 1..Len(t) : t[k].parent \in IdsOf(t) \cup {Root}
  BY DEF Grows, IdsOf
<1>10. e.parent \in IdsOf(t) \cup {Root}
  <2>1. Len(t) + 1 \in 1..Len(u) /\ (Len(t) + 1) - 1 = Len(t)
    BY <1>1
  <2>2. e.parent # Root => \E j \in 1..Len(t) : u[j].id = e.parent
    BY <1>1, <1>6, <2>1
  <2> QED BY <1>1, <2>2 DEF IdsOf
<1>11. \A k \in 0..Len(t) : q[k] = p[k]
  <2> DEFINE T == {m \in Nat : \A k \in 0..m : k <= Len(t) => q[k] = p[k]}
  <2>1. 0 \in T
    BY <1>4, <1>5
  <2>2. ASSUME NEW m \in Nat, m \in T PROVE m + 1 \in T
    <3> SUFFICES ASSUME m + 1 <= Len(t) PROVE q[m + 1] = p[m + 1]
      <4>1. \A k \in 0..m + 1 : k \in 0..m \/ k = m + 1
        OBVIOUS
      <4> QED BY <2>2, <4>1
    <3>1. m + 1 \in 1..Len(t) /\ m + 1 \in 1..Len(u)
      BY <1>1
    <3>2. u[m + 1] = t[m + 1] /\ t[m + 1].parent \in IdsOf(t) \cup {Root}
      BY <1>1, <1>9, <3>1
    <3> DEFINE i == IndexOf(t, t[m + 1].parent)
    <3>3. i \in 0..m /\ i <= Len(t) /\ IndexOf(u, u[m + 1].parent) = i
      BY <1>1, <1>2, <1>8, <3>1, <3>2
    <3>4. q[m + 1] = Append(q[i], t[m + 1]) /\ p[m + 1] = Append(p[i], t[m + 1])
      BY <1>4, <1>5, <3>1, <3>2, <3>3
    <3> HIDE DEF i
    <3>5. q[i] = p[i]
      BY <2>2, <3>3
    <3> QED BY <3>4, <3>5
  <2>3. Nat \subseteq T
    <3> HIDE DEF T
    <3> QED BY <2>1, <2>2, Induction
  <2>4. Len(t) \in T /\ \A k \in 0..Len(t) : k <= Len(t)
    BY <1>1, <2>3
  <2> QED BY <2>4
<1>12. \A i \in IdsOf(t) \cup {Root} : Branch(u, i) = Branch(t, i)
  <2>1. \A i \in IdsOf(t) \cup {Root} : IndexOf(t, i) \in 0..Len(t)
    BY <1>1, <1>2 DEF IdsOf
  <2> QED BY <1>4, <1>5, <1>8, <1>11, <2>1
<1>13. Branch(u, e.id) = Append(Branch(t, e.parent), e)
  <2>1. Len(t) + 1 \in 1..Len(u)
    BY <1>1
  <2>2. Branch(u, e.id) = q[Len(t) + 1]
    BY <1>1, <1>3, <1>5, <2>1
  <2>3. q[Len(t) + 1] = Append(Branch(u, e.parent), e)
    BY <1>1, <1>5, <2>1
  <2> QED BY <1>10, <1>12, <2>2, <2>3
<1> QED BY <1>7, <1>10, <1>12, <1>13 DEF u

-----------------------------------------------------------------------------
(* What every branch of a session keeps to, at each of its positions.       *)

Attached == {"meta", "label", "result"}

Comes(p, c) == \E j \in 1..c - 1 : p[j].id = p[c].base
Keeps(p, c) == \E j \in 1..c - 1 : p[j].id = p[c].ref

\* A compaction of the first n entries keeps those from r on: they begin at m,
\* with a message of the user or of an assistant, and if each compaction before
\* it found its branch, the messages before r have been told of.
KeepsFrom(p, n, keep, told, r, m) ==
    /\ p[r].id = keep
    /\ p[m].kind \in Users \cup Assistants
    /\ \A j \in r..m - 1 : ~InContext(p[j])
    /\ (\A d \in 1..n : p[d].kind = "compaction" => Comes(p, d) /\ Keeps(p, d)) =>
         \A j \in 1..r - 1 : p[j].kind \in Messages =>
            \/ p[j].id \in told
            \/ \E d \in 1..n : p[d].kind = "compaction" /\ p[j].id \in p[d].told

CutsWell(p, n, keep, told) ==
    \E r \in 1..n : \E m \in r..n : KeepsFrom(p, n, keep, told, r, m)

\* Behind the call that the next result answers there are other results of its
\* batch and entries that are no messages, and nothing else.
Called(p, n) ==
    \E j \in 1..n : /\ p[j].kind = "call"
                    /\ \A i \in j + 1..n : p[i].kind \in Attached

SaneAt(p, k) ==
    /\ p[k].kind = "result" => Called(p, k - 1)
    /\ p[k].kind = "compaction" /\ Comes(p, k) /\ Keeps(p, k) =>
          CutsWell(p, k - 1, p[k].ref, p[k].told)

Sane(p) == \A k \in 1..Len(p) : SaneAt(p, k)

Sound(t, n) == Grows(t, n) /\ \A i \in IdsOf(t) : Sane(Branch(t, i))

Prepares(t, c) ==
    LET b == Branch(t, c.base)
    IN  c.base \in IdsOf(t) /\ CutsWell(b, Len(b), c.keep, c.told)

Budget == [made : Nat, entries : Nat, metas : Nat, labels : Nat, compactions : Nat,
           navigations : Nat, sessions : Nat]

Compaction(n) == [keep : 0..n, told : SUBSET (1..n), base : 0..n]

Trees ==
    /\ left \in Budget
    /\ Sound(entries, left.made)
    /\ \A s \in DOMAIN files : Sound(files[s], left.made)
    /\ leaf \in {Root} \cup IdsOf(entries)

Working ==
    /\ run \in {"idle", "answer", "result"}
    /\ pending \in Compaction(left.made)
    /\ pending # NoCompaction => run # "result" /\ Prepares(entries, pending)
    /\ run = "result" => Called(Here, Len(Here))

LEMMA FrontFacts ==
    ASSUME NEW S, NEW p \in Seq(S), NEW c \in 1..Len(p) + 1
    PROVE  /\ SubSeq(p, 1, c - 1) \in Seq(S) /\ Len(SubSeq(p, 1, c - 1)) = c - 1
           /\ \A i \in 1..c - 1 : SubSeq(p, 1, c - 1)[i] = p[i]
           /\ IdsOf(SubSeq(p, 1, c - 1)) = {p[i].id : i \in 1..c - 1}
<1>1. Len(p) \in Nat /\ 1 \in 1..Len(p) + 1 /\ c - 1 \in 0..Len(p)
  BY LenProperties
<1>2. /\ SubSeq(p, 1, c - 1) \in Seq(S) /\ Len(SubSeq(p, 1, c - 1)) = c - 1
      /\ \A i \in 1..c - 1 : SubSeq(p, 1, c - 1)[i] = p[i]
  BY <1>1, SubSeqProperties
<1> DEFINE q == SubSeq(p, 1, c - 1)
<1>3. IdsOf(q) = {p[i].id : i \in 1..c - 1}
  <2> HIDE DEF q
  <2> QED BY <1>2 DEF IdsOf, q
<1> QED BY <1>2, <1>3

LEMMA LandsIs ==
    ASSUME NEW S, NEW p \in Seq(S), NEW c \in 1..Len(p)
    PROVE  (Lands(p, c) <=> Comes(p, c)) /\ (Finds(p, c) <=> Keeps(p, c))
<1>1. c \in 1..Len(p) + 1
  BY LenProperties
<1>2. IdsOf(SubSeq(p, 1, c - 1)) = {p[i].id : i \in 1..c - 1}
  BY <1>1, FrontFacts
<1> QED BY <1>2 DEF Lands, Finds, Comes, Keeps

\* What is said of the first entries is said of them in a longer branch.
LEMMA CutsMore ==
    ASSUME NEW p, NEW q, NEW n \in Nat, NEW n2 \in Nat, n <= n2,
           \A i \in 1..n : q[i] = p[i],
           NEW keep, NEW told, CutsWell(p, n, keep, told)
    PROVE  CutsWell(q, n2, keep, told)
<1>1. PICK r \in 1..n : \E m \in r..n : KeepsFrom(p, n, keep, told, r, m)
  BY DEF CutsWell
<1>2. PICK m \in r..n : KeepsFrom(p, n, keep, told, r, m)
  BY <1>1
<1>3. /\ r \in 1..n2 /\ m \in r..n2 /\ m \in 1..n
      /\ \A j \in r..m - 1 : j \in 1..n
      /\ \A j \in 1..r - 1 : j \in 1..n
      /\ \A d \in 1..n : d \in 1..n2
  OBVIOUS
<1>4. \A d \in 1..n : (Comes(q, d) <=> Comes(p, d)) /\ (Keeps(q, d) <=> Keeps(p, d))
  <2>1. \A d \in 1..n : \A j \in 1..d - 1 : j \in 1..n
    OBVIOUS
  <2> QED BY <2>1 DEF Comes, Keeps
<1>5. /\ q[r].id = keep
      /\ q[m].kind \in Users \cup Assistants
      /\ \A j \in r..m - 1 : ~InContext(q[j])
  BY <1>2, <1>3 DEF KeepsFrom
<1>6. ASSUME \A d \in 1..n2 : q[d].kind = "compaction" => Comes(q, d) /\ Keeps(q, d),
             NEW j \in 1..r - 1, q[j].kind \in Messages
      PROVE  \/ q[j].id \in told
             \/ \E d \in 1..n2 : q[d].kind = "compaction" /\ q[j].id \in q[d].told
  <2>1. \A d \in 1..n : p[d].kind = "compaction" => Comes(p, d) /\ Keeps(p, d)
    BY <1>3, <1>4, <1>6
  <2>2. q[j] = p[j] /\ p[j].kind \in Messages
    BY <1>3, <1>6
  <2>3. \/ p[j].id \in told
        \/ \E d \in 1..n : p[d].kind = "compaction" /\ p[j].id \in p[d].told
    BY <1>2, <2>1, <2>2 DEF KeepsFrom
  <2> QED BY <1>3, <2>2, <2>3
<1>7. KeepsFrom(q, n2, keep, told, r, m)
  BY <1>5, <1>6, Zenon DEF KeepsFrom
<1> QED BY <1>3, <1>7 DEF CutsWell

LEMMA SaneSame ==
    ASSUME NEW p, NEW q, NEW k \in Nat \ {0}, \A i \in 1..k : q[i] = p[i], SaneAt(p, k)
    PROVE  SaneAt(q, k)
<1>1. q[k] = p[k] /\ k - 1 \in Nat /\ \A i \in 1..k - 1 : q[i] = p[i]
  OBVIOUS
<1>2. Called(p, k - 1) => Called(q, k - 1)
  <2>1. \A j \in 1..k - 1 : \A i \in j + 1..k - 1 : i \in 1..k - 1
    OBVIOUS
  <2> QED BY <1>1, <2>1 DEF Called
<1>3. (Comes(q, k) <=> Comes(p, k)) /\ (Keeps(q, k) <=> Keeps(p, k))
  BY <1>1 DEF Comes, Keeps
<1>4. \A keep, told : CutsWell(p, k - 1, keep, told) => CutsWell(q, k - 1, keep, told)
  BY <1>1, CutsMore
<1> QED BY <1>1, <1>2, <1>3, <1>4 DEF SaneAt

\* An entry at the end of a sane branch.
LEMMA SaneAppended ==
    ASSUME NEW S, NEW p \in Seq(S), NEW e \in S, Sane(p),
           e.kind = "result" => Called(p, Len(p)),
           e.kind = "compaction" /\ (\E j \in 1..Len(p) : p[j].id = e.base)
                => CutsWell(p, Len(p), e.ref, e.told)
    PROVE  Sane(Append(p, e))
<1> DEFINE q == Append(p, e)
           k == Len(p) + 1
<1>1. /\ Len(p) \in Nat /\ Len(q) = k /\ k \in Nat \ {0} /\ k - 1 = Len(p)
      /\ q[k] = e /\ \A i \in 1..Len(p) : q[i] = p[i]
  BY Appended
<1> HIDE DEF q, k
<1>2. ASSUME NEW i \in 1..Len(p) PROVE SaneAt(q, i)
  <2>1. i \in Nat \ {0} /\ \A j \in 1..i : j \in 1..Len(p)
    BY <1>1
  <2>2. \A j \in 1..i : q[j] = p[j]
    BY <1>1, <2>1
  <2>3. SaneAt(p, i)
    BY DEF Sane
  <2> QED BY <2>1, <2>2, <2>3, SaneSame
<1>3. SaneAt(q, k)
  <2>1. Called(p, k - 1) => Called(q, k - 1)
    <3>1. \A j \in 1..k - 1 : \A i \in j + 1..k - 1 : i \in 1..k - 1
      BY <1>1
    <3> QED BY <1>1, <3>1 DEF Called
  <2>2. Comes(q, k) => \E j \in 1..Len(p) : p[j].id = e.base
    BY <1>1 DEF Comes
  <2>3. CutsWell(p, k - 1, e.ref, e.told) => CutsWell(q, k - 1, e.ref, e.told)
    BY <1>1, CutsMore
  <2> QED BY <1>1, <2>1, <2>2, <2>3 DEF SaneAt
<1>4. \A i \in 1..Len(q) : i \in 1..Len(p) \/ i = k
  BY <1>1
<1>5. Sane(q)
  BY <1>2, <1>3, <1>4 DEF Sane
<1> QED BY <1>5 DEF q

\* The bound on ids may grow.
LEMMA GrowsMore ==
    ASSUME NEW n \in Nat, NEW n2 \in Nat, n <= n2, NEW t
    PROVE  /\ EntriesTo(n) \subseteq EntriesTo(n2)
           /\ Grows(t, n) => Grows(t, n2)
           /\ Sound(t, n) => Sound(t, n2)
<1>1. 1..n \subseteq 1..n2 /\ 0..n \subseteq 0..n2
  OBVIOUS
<1>2. SUBSET (1..n) \subseteq SUBSET (1..n2)
  BY <1>1
<1>3. EntriesTo(n) \subseteq EntriesTo(n2)
  BY <1>1, <1>2 DEF EntriesTo
<1>4. Grows(t, n) => Grows(t, n2)
  <2> SUFFICES ASSUME Grows(t, n) PROVE t \in Seq(EntriesTo(n2))
    BY DEF Grows
  <2>1. t \in Seq(EntriesTo(n))
    BY DEF Grows
  <2>2. Len(t) \in Nat /\ \A k \in 1..Len(t) : t[k] \in EntriesTo(n)
    BY <2>1, LenProperties, ElementOfSeq
  <2>3. t = [k \in 1..Len(t) |-> t[k]]
    BY <2>1, LenProperties
  <2> QED BY <1>3, <2>2, <2>3, SeqDef
<1> QED BY <1>3, <1>4 DEF Sound

\* An entry is put at the end of the file, behind an entry of the tree.
LEMMA SoundAppended ==
    ASSUME NEW n \in Nat, NEW t, Sound(t, n), NEW e \in EntriesTo(n),
           e.parent \in {Root} \cup IdsOf(t),
           \A k \in 1..Len(t) : t[k].id < e.id,
           e.kind = "result" => Called(Branch(t, e.parent), Len(Branch(t, e.parent))),
           e.kind = "compaction" /\ e.base \in IdsOf(Branch(t, e.parent)) =>
              CutsWell(Branch(t, e.parent), Len(Branch(t, e.parent)), e.ref, e.told)
    PROVE  Sound(Append(t, e), n)
<1> DEFINE u == Append(t, e)
           b == Branch(t, e.parent)
<1>1. Grows(t, n) /\ t \in Seq(EntriesTo(n))
  BY DEF Sound, Grows
<1>2. /\ u \in Seq(EntriesTo(n)) /\ Len(t) \in Nat /\ Len(u) = Len(t) + 1
      /\ \A i \in 1..Len(t) : u[i] = t[i]
      /\ u[Len(t) + 1] = e
  BY <1>1, Appended
<1>3. Grows(u, n)
  <2> HIDE DEF u
  <2>1. \A k \in 1..Len(u) : k \in 1..Len(t) \/ k = Len(t) + 1
    BY <1>2
  <2>2. ASSUME NEW j \in 1..Len(u), NEW k \in 1..Len(u), j < k PROVE u[j].id < u[k].id
    <3>1. j \in 1..Len(t)
      BY <1>2, <2>2
    <3>2. CASE k \in 1..Len(t)
      BY <1>1, <1>2, <2>2, <3>1, <3>2 DEF Grows
    <3>3. CASE k = Len(t) + 1
      BY <1>2, <3>1, <3>3
    <3> QED BY <2>1, <3>2, <3>3
  <2>3. ASSUME NEW k \in 1..Len(u), u[k].parent # Root
        PROVE  \E j \in 1..k - 1 : u[j].id = u[k].parent
    <3>1. CASE k \in 1..Len(t)
      <4>1. u[k] = t[k] /\ \A j \in 1..k - 1 : j \in 1..Len(t)
        BY <1>2, <3>1
      <4>2. \E j \in 1..k - 1 : t[j].id = t[k].parent
        BY <1>1, <2>3, <3>1, <4>1 DEF Grows
      <4> QED BY <1>2, <4>1, <4>2
    <3>2. CASE k = Len(t) + 1
      <4>1. e.parent \in IdsOf(t) /\ u[k] = e /\ k - 1 = Len(t)
        BY <1>2, <2>3, <3>2
      <4> QED BY <1>2, <4>1 DEF IdsOf
    <3> QED BY <2>1, <3>1, <3>2
  <2> QED BY <1>2, <2>2, <2>3 DEF Grows
<1>4. /\ \A i \in IdsOf(t) \cup {Root} : Branch(u, i) = Branch(t, i)
      /\ Branch(u, e.id) = Append(b, e)
      /\ IdsOf(u) = IdsOf(t) \cup {e.id}
  BY <1>1, <1>3, BranchGrows
<1>5. b \in Seq(EntriesTo(n)) /\ Sane(b)
  <2>1. CASE e.parent = Root
    <3>1. b = <<>>
      BY <1>1, <2>1, BranchIs
    <3> QED BY <3>1, EmptySeq DEF Sane
  <2>2. CASE e.parent # Root
    <3>1. e.parent \in IdsOf(t)
      BY <2>2
    <3>2. IsBranch(b, t, n)
      BY <1>1, <3>1, BranchIs
    <3> QED BY <3>1, <3>2 DEF Sound, IsBranch
  <2> QED BY <2>1, <2>2
<1>6. Sane(Append(b, e))
  <2>1. (\E j \in 1..Len(b) : b[j].id = e.base) => e.base \in IdsOf(b)
    BY DEF IdsOf
  <2> HIDE DEF b
  <2>2. e.kind = "result" => Called(b, Len(b))
    BY DEF b
  <2>3. e.kind = "compaction" /\ (\E j \in 1..Len(b) : b[j].id = e.base)
           => CutsWell(b, Len(b), e.ref, e.told)
    BY <2>1 DEF b
  <2> QED BY <1>5, <2>2, <2>3, SaneAppended
<1>7. \A i \in IdsOf(u) : Sane(Branch(u, i))
  <2> HIDE DEF u, b
  <2> QED BY <1>4, <1>6 DEF Sound
<1> QED BY <1>3, <1>7 DEF Sound

-----------------------------------------------------------------------------
(* What a compaction is prepared to keep.                                   *)

LEMMA LargestIs ==
    ASSUME NEW n \in Nat, NEW T, T \subseteq 0..n, T # {}
    PROVE  Largest(T) \in T /\ \A y \in T : y <= Largest(T)
BY GreatestElement DEF Largest

LEMMA SmallestIs ==
    ASSUME NEW T, T \subseteq Nat, T # {}
    PROVE  Smallest(T) \in T /\ \A y \in T : Smallest(T) <= y
BY LeastElement DEF Smallest

LEMMA LatestIs ==
    ASSUME NEW p, Len(p) \in Nat
    PROVE  /\ LatestCompaction(p) \in 0..Len(p)
           /\ LatestCompaction(p) # 0 => p[LatestCompaction(p)].kind = "compaction"
           /\ \A d \in 1..Len(p) : p[d].kind = "compaction" => d <= LatestCompaction(p)
<1> DEFINE T == {0} \cup {k \in 1..Len(p) : p[k].kind = "compaction"}
<1>1. T \subseteq 0..Len(p) /\ T # {}
  OBVIOUS
<1>2. LatestCompaction(p) = Largest(T)
  BY DEF LatestCompaction
<1>3. Largest(T) \in T /\ \A y \in T : y <= Largest(T)
  <2> HIDE DEF T
  <2> QED BY <1>1, LargestIs
<1> QED BY <1>2, <1>3

\* findCutPoint() ends at a message of the user or of an assistant, or before
\* it with nothing in between.
LEMMA CutIs ==
    ASSUME NEW p, Len(p) \in Nat, NEW start \in Nat, CutPoints(p, start) # {}
    PROVE  \E m \in start..Len(p) :
              /\ p[m].kind \in Users \cup Assistants
              /\ CutIndex(p, start) \in start..m
              /\ \A j \in CutIndex(p, start)..m - 1 : ~InContext(p[j])
<1> DEFINE cuts == CutPoints(p, start)
           full == {i \in start..Len(p) : TokensFrom(p, i) >= KeepRecent}
           after == {c \in cuts : full # {} /\ c >= Largest(full)}
           cut == IF after = {} THEN Smallest(cuts) ELSE Smallest(after)
           back == {k \in start..cut : \A j \in k..cut - 1 : ~InContext(p[j])}
<1>1. CutIndex(p, start) = Smallest(back)
  BY DEF CutIndex
<1>2. cuts \subseteq start..Len(p) /\ \A k \in cuts : p[k].kind \in Users \cup Assistants
  BY DEF CutPoints
<1>3. after \subseteq cuts /\ cuts # {}
  OBVIOUS
<1> HIDE DEF after, cuts
<1>4. cut \in cuts
  <2>1. cuts \subseteq Nat /\ after \subseteq Nat
    BY <1>2, <1>3
  <2>2. Smallest(cuts) \in cuts
    BY <1>3, <2>1, SmallestIs
  <2>3. after # {} => Smallest(after) \in after
    BY <2>1, SmallestIs
  <2> QED BY <1>3, <2>2, <2>3
<1> HIDE DEF cut
<1>5. cut \in start..Len(p) /\ p[cut].kind \in Users \cup Assistants
  BY <1>2, <1>4
<1>6. cut \in back /\ back \subseteq Nat
  BY <1>5
<1>7. Smallest(back) \in back
  <2> HIDE DEF back
  <2> QED BY <1>6, SmallestIs
<1> QED BY <1>1, <1>5, <1>7

\* The messages handed to the model are those from the start to the cut.
LEMMA PreparedTells ==
    ASSUME NEW p, Len(p) \in Nat, NEW start \in Nat \ {0},
           NEW cut, cut = CutIndex(p, start),
           NEW turn, turn = SplitTurn(p, start, cut),
           NEW told,
           told = MessagesBetween(p, start, IF turn = 0 THEN cut ELSE turn)
                  \cup (IF turn = 0 THEN {} ELSE MessagesBetween(p, turn, cut)),
           told # {}
    PROVE  /\ CutPoints(p, start) # {}
           /\ told = MessagesBetween(p, start, cut)
<1>1. CutPoints(p, start) # {}
  <2> SUFFICES ASSUME CutPoints(p, start) = {} PROVE told = {}
    OBVIOUS
  <2>1. cut = start /\ turn = 0
    BY Zenon DEF CutIndex, SplitTurn
  <2>2. MessagesBetween(p, start, start) = {}
    BY DEF MessagesBetween
  <2> QED BY <2>1, <2>2
<1>2. PICK m \in start..Len(p) : cut \in start..m
  BY <1>1, CutIs
<1>3. turn = 0 \/ turn \in start..cut
  <2> DEFINE turns == {k \in start..cut : StartsTurn(p[k])}
  <2>1. turn = 0 \/ (turns # {} /\ turn = Largest(turns))
    BY Zenon DEF SplitTurn
  <2>2. turns \subseteq 0..Len(p) /\ turns \subseteq start..cut
    BY <1>2
  <2> HIDE DEF turns
  <2>3. turns # {} => Largest(turns) \in turns
    BY <2>2, LargestIs
  <2> QED BY <2>1, <2>2, <2>3
<1>4. CASE turn = 0
  BY <1>1, <1>4
<1>5. CASE turn # 0
  <2>1. told = MessagesBetween(p, start, turn) \cup MessagesBetween(p, turn, cut)
    BY <1>5
  <2>2. turn \in start..cut
    BY <1>3, <1>5
  <2>3. {n \in start..turn - 1 : p[n].kind \in Messages}
           \cup {n \in turn..cut - 1 : p[n].kind \in Messages}
        = {n \in start..cut - 1 : p[n].kind \in Messages}
    BY <1>2, <2>2
  <2> QED BY <1>1, <2>1, <2>3 DEF MessagesBetween
<1> QED BY <1>1, <1>4, <1>5

LEMMA DistinctIndex ==
    ASSUME NEW n, NEW p, Len(p) \in Nat, \A k \in 1..Len(p) : p[k] \in EntriesTo(n),
           \A i, j \in 1..Len(p) : i < j => p[i].id < p[j].id
    PROVE  /\ \A k \in 1..Len(p) : IndexOf(p, p[k].id) = k
           /\ \A i : IndexOf(p, i) = 0 \/ (IndexOf(p, i) \in 1..Len(p) /\ p[IndexOf(p, i)].id = i)
<1>1. ASSUME NEW k \in 1..Len(p) PROVE IndexOf(p, p[k].id) = k
  <2> DEFINE I == {j \in 1..Len(p) : p[j].id = p[k].id}
  <2>1. ASSUME NEW j \in 1..Len(p), p[j].id = p[k].id PROVE j = k
    <3>1. p[j].id \in Int /\ p[k].id \in Int
      BY DEF EntriesTo
    <3>2. ~(j < k) /\ ~(k < j)
      BY <2>1, <3>1
    <3> QED BY <3>2
  <2>2. I = {k}
    BY <2>1
  <2> QED BY <2>2 DEF IndexOf
<1>2. \A i : IndexOf(p, i) = 0 \/ (IndexOf(p, i) \in 1..Len(p) /\ p[IndexOf(p, i)].id = i)
  BY DEF IndexOf
<1> QED BY <1>1, <1>2

LEMMA PreparedIs ==
    ASSUME NEW n \in Nat, NEW t, Sound(t, n), NEW i \in IdsOf(t),
           NEW P, P = Branch(t, i), Prepared(P) # NoCompaction
    PROVE  Prepared(P) \in Compaction(n) /\ Prepares(t, Prepared(P))
<1> DEFINE c == LatestCompaction(P)
           start == BoundaryStart(P)
           cut == CutIndex(P, start)
           turn == SplitTurn(P, start, cut)
           history == MessagesBetween(P, start, IF turn = 0 THEN cut ELSE turn)
           prefix == IF turn = 0 THEN {} ELSE MessagesBetween(P, turn, cut)
           previous == IF c = 0 \/ (prefix # {} /\ history = {}) THEN {} ELSE P[c].told
           given == {k \in 1..Len(P) : InContext(P[k])}
           b == Largest(given)
           told == history \cup prefix \cup previous
           B == Branch(t, P[b].id)
<1>1. Grows(t, n) /\ Sane(P) /\ IsBranch(P, t, n)
  BY BranchIs DEF Sound
<1>2. /\ Len(P) \in Nat /\ \A k \in 1..Len(P) : P[k] \in EntriesTo(n)
      /\ \A k \in 1..Len(P) : \E j \in 1..Len(t) : P[k] = t[j]
      /\ \A x, j \in 1..Len(P) : x < j => P[x].id < P[j].id
  BY <1>1 DEF IsBranch
<1>3. /\ history \cup prefix # {}
      /\ Prepared(P) = [keep |-> P[cut].id, told |-> told, base |-> P[b].id]
  BY Zenon DEF Prepared
<1>4. /\ c \in 0..Len(P) /\ (c # 0 => P[c].kind = "compaction")
      /\ \A d \in 1..Len(P) : P[d].kind = "compaction" => d <= c
  BY <1>2, LatestIs
<1>5. /\ \A k \in 1..Len(P) : IndexOf(P, P[k].id) = k
      /\ \A x : IndexOf(P, x) = 0 \/ (IndexOf(P, x) \in 1..Len(P) /\ P[IndexOf(P, x)].id = x)
  BY <1>2, DistinctIndex
<1>6. start \in Nat \ {0} /\ (c = 0 => start = 1)
  <2>1. c = 0 => start = 1
    BY DEF BoundaryStart
  <2>2. c # 0 => start = c + 1 \/ (start # 0 /\ start = IndexOf(P, P[c].ref))
    BY DEF BoundaryStart
  <2> HIDE DEF start, c
  <2>3. c # 0 => start \in Nat \ {0}
    BY <1>2, <1>4, <1>5, <2>2
  <2> QED BY <2>1, <2>3
<1>7. CutPoints(P, start) # {} /\ history \cup prefix = MessagesBetween(P, start, cut)
  <2> DEFINE both == history \cup prefix
  <2>1. /\ cut = CutIndex(P, start) /\ turn = SplitTurn(P, start, cut)
        /\ both = MessagesBetween(P, start, IF turn = 0 THEN cut ELSE turn)
                  \cup (IF turn = 0 THEN {} ELSE MessagesBetween(P, turn, cut))
        /\ both # {}
    BY <1>3
  <2> HIDE DEF start, cut, turn, both
  <2>2. CutPoints(P, start) # {} /\ both = MessagesBetween(P, start, cut)
    BY <1>2, <1>6, <2>1, PreparedTells
  <2> QED BY <2>2 DEF both
<1>8. PICK m \in start..Len(P) :
         /\ P[m].kind \in Users \cup Assistants
         /\ cut \in start..m
         /\ \A j \in cut..m - 1 : ~InContext(P[j])
  <2> HIDE DEF start
  <2> QED BY <1>2, <1>6, <1>7, CutIs
<1>9. told = MessagesBetween(P, start, cut) \cup previous
  BY <1>7
<1> HIDE DEF start, cut
<1>10. m \in given /\ \A d \in 1..Len(P) : P[d].kind = "compaction" => d \in given
  BY <1>6, <1>8 DEF InContext, Messages
<1>11. b \in given /\ \A k \in given : k <= b
  <2>1. given \subseteq 0..Len(P)
    BY <1>2
  <2> HIDE DEF given
  <2> QED BY <1>2, <1>10, <2>1, LargestIs
<1>12. b \in 1..Len(P) /\ m <= b /\ \A d \in 1..Len(P) : P[d].kind = "compaction" => d <= b
  BY <1>10, <1>11
<1>13. P[b].id \in IdsOf(t) /\ Len(B) = b /\ \A k \in 1..b : B[k] = P[k]
  <2> HIDE DEF b
  <2>1. Len(B) = b /\ \A k \in 1..b : B[k] = P[k]
    BY <1>1, <1>12 DEF IsBranch
  <2> QED BY <1>2, <1>12, <2>1 DEF IdsOf
<1>14. previous \subseteq 1..n /\ MessagesBetween(P, start, cut) \subseteq 1..n
  <2>1. c # 0 => P[c].told \subseteq 1..n
    BY <1>2, <1>4 DEF EntriesTo
  <2>2. \A k \in start..cut - 1 : k \in 1..Len(P)
    BY <1>2, <1>6, <1>8
  <2>3. MessagesBetween(P, start, cut) \subseteq 1..n
    BY <1>2, <2>2 DEF MessagesBetween, EntriesTo
  <2> HIDE DEF c, history, prefix
  <2> QED BY <2>1, <2>3
<1>15. ASSUME \A d \in 1..b : P[d].kind = "compaction" => Comes(P, d) /\ Keeps(P, d),
              NEW j \in 1..cut - 1, P[j].kind \in Messages
       PROVE  \/ P[j].id \in told
              \/ \E d \in 1..b : P[d].kind = "compaction" /\ P[j].id \in P[d].told
  <2>1. j \in 1..Len(P) /\ cut \in Nat /\ start \in Nat
    BY <1>2, <1>6, <1>8
  <2>2. CASE j >= start
    <3>1. j \in start..cut - 1
      BY <2>1, <2>2
    <3>2. P[j].id \in MessagesBetween(P, start, cut)
      BY <1>15, <3>1 DEF MessagesBetween
    <3> QED BY <1>9, <3>2
  <2>3. CASE j < start
    <3> HIDE DEF c, b, told
    <3>1. c # 0
      BY <1>6, <2>1, <2>3
    <3>2. c \in 1..Len(P) /\ c \in 1..b /\ P[c].kind = "compaction"
      BY <1>4, <1>12, <3>1
    <3>3. SaneAt(P, c) /\ Comes(P, c) /\ Keeps(P, c)
      BY <1>1, <1>15, <3>2 DEF Sane
    <3>4. CutsWell(P, c - 1, P[c].ref, P[c].told)
      BY <3>2, <3>3 DEF SaneAt
    <3>5. PICK r \in 1..c - 1 : \E m1 \in r..c - 1 :
             KeepsFrom(P, c - 1, P[c].ref, P[c].told, r, m1)
      BY <3>4 DEF CutsWell
    <3>6. PICK m1 \in r..c - 1 : KeepsFrom(P, c - 1, P[c].ref, P[c].told, r, m1)
      BY <3>5
    <3>7. r \in 1..Len(P) /\ P[r].id = P[c].ref
      BY <1>2, <3>2, <3>6 DEF KeepsFrom
    <3>8. IndexOf(P, P[c].ref) = r
      BY <1>5, <3>7
    <3>9. start = r
      BY <3>1, <3>7, <3>8 DEF BoundaryStart, c, start
    <3>10. \A d \in 1..c - 1 : d \in 1..b
      BY <1>12, <3>2
    <3>11. j \in 1..r - 1
      BY <2>1, <2>3, <3>9
    <3>12. \/ P[j].id \in P[c].told
           \/ \E d \in 1..c - 1 : P[d].kind = "compaction" /\ P[j].id \in P[d].told
      BY <1>15, <3>6, <3>10, <3>11 DEF KeepsFrom
    <3> QED BY <3>2, <3>10, <3>12
  <2> QED BY <2>1, <2>2, <2>3
<1>16. KeepsFrom(P, b, P[cut].id, told, cut, m)
  <2> HIDE DEF b, told
  <2> QED BY <1>8, <1>15, Zenon DEF KeepsFrom
<1>17. b \in Nat /\ cut \in 1..b /\ m \in cut..b /\ P[cut].id \in 0..n /\ P[b].id \in 0..n
  <2> HIDE DEF b
  <2>1. cut \in 1..Len(P)
    BY <1>2, <1>6, <1>8
  <2>2. P[cut].id \in 1..n /\ P[b].id \in 1..n
    BY <1>2, <1>12, <2>1 DEF EntriesTo
  <2>3. b \in Nat /\ cut \in 1..b /\ m \in cut..b
    BY <1>2, <1>6, <1>8, <1>12
  <2> QED BY <2>2, <2>3
<1>18. CutsWell(B, Len(B), P[cut].id, told)
  <2> HIDE DEF b, told, B
  <2>1. CutsWell(P, b, P[cut].id, told)
    BY <1>16, <1>17 DEF CutsWell
  <2> QED BY <1>13, <1>17, <2>1, CutsMore
<1> HIDE DEF b, told, B, previous
<1>19. told \in SUBSET (1..n)
  BY <1>9, <1>14
<1>20. Prepared(P) \in Compaction(n)
  BY <1>3, <1>17, <1>19 DEF Compaction
<1>21. Prepares(t, Prepared(P))
  BY <1>3, <1>13, <1>18 DEF Prepares, B
<1> QED BY <1>20, <1>21

-----------------------------------------------------------------------------
(* Appending keeps what is known of the trees and of the work under way.    *)

LEMMA SpendData ==
    ASSUME left \in Budget, NEW n \in Nat, NEW kinds, "made" \notin kinds, Spend(n, kinds)
    PROVE  left' \in Budget /\ left'.made = left.made + n /\ left.made \in Nat
<1>1. left' = [k \in DOMAIN left |->
                  IF k = "made" THEN left.made + n
                  ELSE IF k \in kinds THEN left[k] - 1 ELSE left[k]]
      /\ \A k \in kinds : left[k] > 0
  BY DEF Spend
<1>2. DOMAIN left = {"made", "entries", "metas", "labels", "compactions", "navigations",
                     "sessions"}
      /\ \A k \in DOMAIN left : left[k] \in Nat
  BY DEF Budget
<1>3. \A k \in DOMAIN left : left'[k] \in Nat
  BY <1>1, <1>2
<1>4. DOMAIN left' = DOMAIN left /\ left' = [k \in DOMAIN left |-> left'[k]]
  BY <1>1
<1>5. left'["made"] = left.made + n
  BY <1>1, <1>2
<1>6. left' \in Budget
  BY <1>2, <1>3, <1>4 DEF Budget
<1> QED BY <1>2, <1>5, <1>6

\* Entries are appended in memory and in the file (_appendEntry(), _persist()).
LEMMA AppendAllTrees ==
    ASSUME IInv, Trees, NEW new, AppendAll(new),
           left' \in Budget, left.made <= left'.made,
           Sound(entries \o new, left'.made),
           new[Len(new)].id \in IdsOf(entries \o new)
    PROVE  Trees'
<1> DEFINE all == entries \o new
<1>1. /\ entries' = all /\ leaf' = new[Len(new)].id
      /\ files' = IF flushed THEN Written(session, files[session] \o new)
                  ELSE IF HasAssistant(all) THEN Written(session, all)
                  ELSE files
  BY DEF AppendAll
<1>2. flushed => files[session] \o new = all
  BY Before
<1> HIDE DEF all
<1>3. files' = files \/ files' = Written(session, all)
  BY <1>1, <1>2
<1>4. left.made \in Nat /\ left'.made \in Nat
  BY DEF Trees, Budget
<1>5. \A s \in DOMAIN files : Sound(files[s], left'.made)
  BY <1>4, GrowsMore DEF Trees
<1>6. Sound(all, left'.made) /\ leaf' \in IdsOf(all)
  BY <1>1 DEF all
<1>7. \A s \in DOMAIN files' : Sound(files'[s], left'.made)
  <2>1. CASE files' = files
    BY <1>5, <2>1
  <2>2. CASE files' = Written(session, all)
    <3>1. \A s \in DOMAIN files' : files'[s] = all \/ (s \in DOMAIN files /\ files'[s] = files[s])
      BY <2>2 DEF Written
    <3> QED BY <1>5, <1>6, <3>1
  <2> QED BY <1>3, <2>1, <2>2
<1>8. /\ Sound(entries', left'.made) /\ leaf' \in {Root} \cup IdsOf(entries')
  BY <1>1, <1>6
<1> QED BY <1>7, <1>8 DEF Trees, Sound, Grows, IdsOf, Sane, SaneAt, Branch

LEMMA JoinedOne ==
    ASSUME NEW S, NEW s \in Seq(S), NEW e \in S
    PROVE  s \o <<e>> = Append(s, e)
<1> DEFINE one == <<e>>
           u == s \o one
           v == Append(s, e)
<1>1. one \in Seq(S) /\ Len(one) = 1 /\ one[1] = e /\ Len(s) \in Nat
  BY LenProperties
<1> HIDE DEF one
<1>2. /\ u \in Seq(S) /\ Len(u) = Len(s) + Len(one)
      /\ \A i \in 1..Len(s) + Len(one) :
            u[i] = IF i <= Len(s) THEN s[i] ELSE one[i - Len(s)]
  BY <1>1, ConcatProperties
<1>3. /\ v \in Seq(S) /\ Len(v) = Len(s) + 1
      /\ \A i \in 1..Len(s) : v[i] = s[i]
      /\ v[Len(s) + 1] = e
  BY Appended
<1> HIDE DEF u, v
<1>4. \A i \in 1..Len(u) : u[i] = v[i]
  <2> SUFFICES ASSUME NEW i \in 1..Len(u) PROVE u[i] = v[i]
    OBVIOUS
  <2>1. i \in 1..Len(s) \/ (i = Len(s) + 1 /\ i - Len(s) = 1)
    BY <1>1, <1>2
  <2> QED BY <1>1, <1>2, <1>3, <2>1
<1>5. u = v
  BY <1>1, <1>2, <1>3, <1>4, SeqEqual
<1> QED BY <1>5 DEF u, v, one

\* What an entry made now is, and that no entry of a session has its id yet.
LEMMA EntryFacts ==
    ASSUME Trees, NEW kind \in Kinds, NEW parent \in 0..left.made, NEW ref \in 0..left.made
    PROVE  /\ Entry(kind, parent, ref) \in EntriesTo(left.made + 1)
           /\ Entry(kind, parent, ref).id = left.made + 1
           /\ Entry(kind, parent, ref).kind = kind
           /\ Entry(kind, parent, ref).parent = parent
           /\ left.made \in Nat
BY DEF Trees, Budget, Entry, EntriesTo, FreshId, Root

LEMMA IdsBounded ==
    ASSUME NEW n \in Nat, NEW t, Grows(t, n)
    PROVE  /\ Len(t) \in Nat /\ \A k \in 1..Len(t) : t[k].id < n + 1
           /\ IdsOf(t) \subseteq 1..n
BY IndexFacts DEF EntriesTo, IdsOf

\* One entry is appended at the leaf.
LEMMA OneTree ==
    ASSUME IInv, Trees, NEW e \in EntriesTo(left.made + 1), AppendAll(<<e>>),
           e.id = left.made + 1, e.parent = leaf,
           left' \in Budget, left'.made = left.made + 1,
           e.kind = "result" => Called(Here, Len(Here)),
           e.kind = "compaction" /\ e.base \in IdsOf(Here) =>
              CutsWell(Here, Len(Here), e.ref, e.told)
    PROVE  /\ Trees'
           /\ \A c : Prepares(entries, c) => Prepares(entries', c)
           /\ Here' = Append(Here, e) /\ Here \in Seq(EntriesTo(left.made + 1))
<1> DEFINE n == left.made + 1
<1>1. left.made \in Nat /\ n \in Nat /\ left.made <= n /\ left'.made = n
  BY DEF Trees, Budget
<1>2. Sound(entries, left.made) /\ Sound(entries, n) /\ leaf \in {Root} \cup IdsOf(entries)
  BY <1>1, GrowsMore DEF Trees
<1>3. Grows(entries, n) /\ entries \in Seq(EntriesTo(n))
  BY <1>2 DEF Sound, Grows
<1>4. entries \o <<e>> = Append(entries, e)
  BY <1>3, JoinedOne
<1>5. \A k \in 1..Len(entries) : entries[k].id < e.id
  BY <1>1, <1>2, IdsBounded DEF Sound
<1> HIDE DEF n
<1>6. Sound(Append(entries, e), n)
  <2>1. /\ e.kind = "result" => Called(Branch(entries, e.parent), Len(Branch(entries, e.parent)))
        /\ e.kind = "compaction" /\ e.base \in IdsOf(Branch(entries, e.parent)) =>
              CutsWell(Branch(entries, e.parent), Len(Branch(entries, e.parent)), e.ref, e.told)
    BY DEF Here
  <2>2. e \in EntriesTo(n)
    BY DEF n
  <2> QED BY <1>1, <1>2, <1>5, <2>1, <2>2, SoundAppended
<1>7. /\ \A i \in IdsOf(entries) \cup {Root} :
            Branch(Append(entries, e), i) = Branch(entries, i)
      /\ Branch(Append(entries, e), e.id) = Append(Branch(entries, e.parent), e)
      /\ IdsOf(Append(entries, e)) = IdsOf(entries) \cup {e.id}
  <2>1. Grows(Append(entries, e), n)
    BY <1>6 DEF Sound
  <2> QED BY <1>1, <1>3, <2>1, BranchGrows
<1>8. entries' = Append(entries, e) /\ leaf' = e.id
  <2> DEFINE new == <<e>>
  <2>1. Len(new) = 1 /\ new[1] = e
    OBVIOUS
  <2>2. entries' = entries \o new /\ leaf' = new[Len(new)].id
    BY DEF AppendAll
  <2> QED BY <1>4, <2>1, <2>2
<1>9. Trees'
  <2> DEFINE new == <<e>>
  <2>1. Len(new) = 1 /\ new[1] = e
    OBVIOUS
  <2>2. entries \o new = Append(entries, e) /\ AppendAll(new)
    BY <1>4
  <2> HIDE DEF new
  <2>3. Sound(entries \o new, left'.made) /\ new[Len(new)].id \in IdsOf(entries \o new)
    BY <1>1, <1>6, <1>7, <2>1, <2>2
  <2> QED BY <1>1, <2>2, <2>3, AppendAllTrees
<1>10. Here' = Append(Here, e)
  BY <1>7, <1>8 DEF Here
<1>11. ASSUME NEW c, Prepares(entries, c) PROVE Prepares(entries', c)
  <2>1. c.base \in IdsOf(entries) /\ CutsWell(Branch(entries, c.base), Len(Branch(entries, c.base)), c.keep, c.told)
    BY <1>11 DEF Prepares
  <2>2. Branch(entries', c.base) = Branch(entries, c.base) /\ c.base \in IdsOf(entries')
    BY <1>7, <1>8, <2>1
  <2> QED BY <2>1, <2>2 DEF Prepares
<1>12. Here \in Seq(EntriesTo(n))
  <2>1. IsBranch(Branch(entries, leaf), entries, n)
    BY <1>1, <1>2, <1>3, BranchIs
  <2> QED BY <2>1 DEF IsBranch, Here
<1> QED BY <1>9, <1>10, <1>11, <1>12 DEF n

\* A call, with such entries behind it, is one that a result may answer.
LEMMA CalledAppended ==
    ASSUME NEW S, NEW p \in Seq(S), NEW e \in S
    PROVE  /\ e.kind = "call" => Called(Append(p, e), Len(Append(p, e)))
           /\ e.kind \in Attached /\ Called(p, Len(p)) => Called(Append(p, e), Len(Append(p, e)))
<1> DEFINE q == Append(p, e)
           k == Len(p) + 1
<1>1. /\ Len(p) \in Nat /\ Len(q) = k /\ q[k] = e /\ k \in 1..k
      /\ \A i \in 1..Len(p) : q[i] = p[i]
  BY Appended
<1> HIDE DEF q, k
<1>2. ASSUME e.kind = "call" PROVE Called(q, k)
  <2>1. k + 1..k = {}
    BY <1>1 DEF k
  <2> QED BY <1>1, <1>2, <2>1 DEF Called
<1>3. ASSUME e.kind \in Attached, Called(p, Len(p)) PROVE Called(q, k)
  <2>1. PICK j \in 1..Len(p) : /\ p[j].kind = "call"
                               /\ \A i \in j + 1..Len(p) : p[i].kind \in Attached
    BY <1>3 DEF Called
  <2>2. j \in 1..k /\ q[j].kind = "call"
    BY <1>1, <2>1 DEF k
  <2>3. ASSUME NEW i \in j + 1..k PROVE q[i].kind \in Attached
    <3>1. i = k \/ (i \in j + 1..Len(p) /\ i \in 1..Len(p))
      BY <1>1 DEF k
    <3> QED BY <1>1, <1>3, <2>1, <3>1
  <2> QED BY <2>2, <2>3 DEF Called
<1> QED BY <1>1, <1>2, <1>3 DEF q

LEMMA LeafBounded ==
    ASSUME Trees
    PROVE  /\ left.made \in Nat /\ leaf \in 0..left.made /\ IdsOf(entries) \subseteq 1..left.made
           /\ Grows(entries, left.made)
<1>1. left.made \in Nat /\ Grows(entries, left.made)
  BY DEF Trees, Budget, Sound
<1>2. IdsOf(entries) \subseteq 1..left.made
  BY <1>1, IdsBounded
<1> QED BY <1>1, <1>2 DEF Trees, Root

\* The steps that append an entry at the leaf.
LEMMA OneStep ==
    ASSUME IInv, Trees, NEW e \in EntriesTo(left.made + 1), NEW kinds, "made" \notin kinds,
           AppendAll(<<e>>), Spend(1, kinds), e.id = left.made + 1, e.parent = leaf,
           e.kind = "result" => Called(Here, Len(Here)),
           e.kind = "compaction" /\ e.base \in IdsOf(Here) =>
              CutsWell(Here, Len(Here), e.ref, e.told)
    PROVE  /\ Trees'
           /\ left.made \in Nat /\ left'.made = left.made + 1
           /\ \A c : Prepares(entries, c) => Prepares(entries', c)
           /\ e.kind = "call" => Called(Here', Len(Here'))
           /\ e.kind \in Attached /\ Called(Here, Len(Here)) => Called(Here', Len(Here'))
<1>1. left' \in Budget /\ left'.made = left.made + 1 /\ left.made \in Nat
  BY SpendData DEF Trees
<1>2. /\ Trees'
      /\ \A c : Prepares(entries, c) => Prepares(entries', c)
      /\ Here' = Append(Here, e) /\ Here \in Seq(EntriesTo(left.made + 1))
  BY <1>1, OneTree
<1>3. /\ e.kind = "call" => Called(Append(Here, e), Len(Append(Here, e)))
      /\ e.kind \in Attached /\ Called(Here, Len(Here)) =>
            Called(Append(Here, e), Len(Append(Here, e)))
  BY <1>2, CalledAppended
<1> QED BY <1>1, <1>2, <1>3

\* The work under way is left as it is.
LEMMA WorkingKept ==
    ASSUME Working, left.made \in Nat, left'.made \in Nat, left.made <= left'.made,
           run' = run, pending' = pending,
           Prepares(entries, pending) => Prepares(entries', pending),
           run = "result" => Called(Here', Len(Here'))
    PROVE  Working'
<1>1. 0..left.made \subseteq 0..left'.made /\ 1..left.made \subseteq 1..left'.made
  OBVIOUS
<1>2. Compaction(left.made) \subseteq Compaction(left'.made)
  BY <1>1 DEF Compaction
<1>3. pending' \in Compaction(left'.made)
  BY <1>2 DEF Working
<1>4. pending' # NoCompaction => run' # "result" /\ Prepares(entries', pending')
  BY DEF Working
<1>5. run' \in {"idle", "answer", "result"}
  BY DEF Working
<1> QED BY <1>3, <1>4, <1>5 DEF Working, Compaction, Prepares, Called, CutsWell, KeepsFrom,
     Comes, Keeps, InContext, IdsOf, Branch, NoCompaction, Here, IndexOf

\* No compaction is under way.
LEMMA WorkingPlain ==
    ASSUME left'.made \in Nat, run' \in {"idle", "answer", "result"},
           pending' = NoCompaction, run' = "result" => Called(Here', Len(Here'))
    PROVE  Working'
<1>1. NoCompaction \in Compaction(left'.made)
  BY DEF NoCompaction, Compaction, Root
<1> QED BY <1>1 DEF Working, Compaction, NoCompaction, Called, Here, Branch, IndexOf

LEMMA PromptWorks ==
    ASSUME IInv, Trees, Working, Prompt
    PROVE  Trees' /\ Working'
<1> DEFINE e == Entry("user", leaf, Root)
<1>1. /\ AppendAll(<<e>>) /\ Spend(1, {}) /\ run' = "answer" /\ pending' = NoCompaction
  BY DEF Prompt, AppendOne
<1>2. e \in EntriesTo(left.made + 1) /\ e.id = left.made + 1 /\ e.kind = "user" /\ e.parent = leaf
  BY LeafBounded, EntryFacts DEF Kinds, Messages, Users, Root
<1> HIDE DEF e
<1>3. Trees' /\ left.made \in Nat /\ left'.made = left.made + 1
  BY <1>1, <1>2, OneStep
<1> QED BY <1>1, <1>3, WorkingPlain

LEMMA AnswerWorks ==
    ASSUME IInv, Trees, Working, Answer
    PROVE  Trees' /\ Working'
<1>1. PICK kind \in Assistants :
         /\ AppendAll(<<Entry(kind, leaf, Root)>>) /\ Spend(1, {}) /\ pending' = NoCompaction
         /\ run' \in CASE kind = "assistant" -> {"idle"}
                       [] kind = "call" -> {"result"}
                       [] kind = "error" -> {"idle", "answer"}
  BY DEF Answer, AppendOne
<1> DEFINE e == Entry(kind, leaf, Root)
<1>2. /\ e \in EntriesTo(left.made + 1) /\ e.id = left.made + 1 /\ e.kind = kind
      /\ e.parent = leaf /\ kind \notin {"result", "compaction"}
  <2>1. kind \in Kinds /\ kind \notin {"result", "compaction"}
    BY DEF Kinds, Messages, Assistants
  <2>2. leaf \in 0..left.made /\ Root \in 0..left.made
    BY LeafBounded DEF Root
  <2> QED BY <2>1, <2>2, EntryFacts
<1>3. run' \in {"idle", "answer", "result"} /\ (run' = "result" => kind = "call")
  BY <1>1 DEF Assistants
<1>4. AppendAll(<<e>>)
  BY <1>1
<1> HIDE DEF e
<1>5. /\ Trees' /\ left.made \in Nat /\ left'.made = left.made + 1
      /\ kind = "call" => Called(Here', Len(Here'))
  BY <1>1, <1>2, <1>4, OneStep
<1> QED BY <1>1, <1>3, <1>5, WorkingPlain

LEMMA ToolResultWorks ==
    ASSUME IInv, Trees, Working, ToolResult
    PROVE  Trees' /\ Working'
<1> DEFINE e == Entry("result", leaf, Root)
<1>1. /\ AppendAll(<<e>>) /\ Spend(1, {}) /\ pending' = pending
      /\ run = "result" /\ run' \in {"result", "answer", "idle"}
  BY DEF ToolResult, AppendOne
<1>2. e \in EntriesTo(left.made + 1) /\ e.id = left.made + 1 /\ e.kind = "result" /\ e.parent = leaf
  BY LeafBounded, EntryFacts DEF Kinds, Messages, Root
<1> HIDE DEF e
<1>3. Called(Here, Len(Here)) /\ pending = NoCompaction
  BY <1>1 DEF Working
<1>4. /\ Trees' /\ left.made \in Nat /\ left'.made = left.made + 1
      /\ Called(Here', Len(Here'))
  BY <1>1, <1>2, <1>3, OneStep DEF Attached
<1> QED BY <1>1, <1>3, <1>4, WorkingPlain

LEMMA BashWorks ==
    ASSUME IInv, Trees, Working, Bash
    PROVE  Trees' /\ Working'
<1> DEFINE e == Entry("bash", leaf, Root)
<1>1. /\ AppendAll(<<e>>) /\ Spend(1, {"metas"}) /\ run' = run /\ pending' = pending
      /\ run = "idle"
  BY DEF Bash
<1>2. e \in EntriesTo(left.made + 1) /\ e.id = left.made + 1 /\ e.kind = "bash" /\ e.parent = leaf
  BY LeafBounded, EntryFacts DEF Kinds, Messages, Users, Root
<1> HIDE DEF e
<1>3. /\ Trees' /\ left.made \in Nat /\ left'.made = left.made + 1
      /\ \A c : Prepares(entries, c) => Prepares(entries', c)
  BY <1>1, <1>2, OneStep
<1> QED BY <1>1, <1>3, WorkingKept

LEMMA AppendMetaWorks ==
    ASSUME IInv, Trees, Working, AppendMeta
    PROVE  Trees' /\ Working'
<1> DEFINE e == Entry("meta", leaf, Root)
<1>1. AppendAll(<<e>>) /\ Spend(1, {"metas"}) /\ run' = run /\ pending' = pending
  BY DEF AppendMeta
<1>2. e \in EntriesTo(left.made + 1) /\ e.id = left.made + 1 /\ e.kind = "meta" /\ e.parent = leaf
  BY LeafBounded, EntryFacts DEF Kinds, Root
<1> HIDE DEF e
<1>3. /\ Trees' /\ left.made \in Nat /\ left'.made = left.made + 1
      /\ \A c : Prepares(entries, c) => Prepares(entries', c)
      /\ Called(Here, Len(Here)) => Called(Here', Len(Here'))
  BY <1>1, <1>2, OneStep DEF Attached
<1>4. run = "result" => Called(Here', Len(Here'))
  BY <1>3 DEF Working
<1> QED BY <1>1, <1>3, <1>4, WorkingKept

LEMMA AppendLabelWorks ==
    ASSUME IInv, Trees, Working, AppendLabel
    PROVE  Trees' /\ Working'
<1>1. PICK target \in IdsOf(entries), set \in BOOLEAN :
         AppendAll(<<[Entry("label", leaf, target) EXCEPT !.set = set]>>)
  BY DEF AppendLabel
<1>2. Spend(1, {"labels"}) /\ run' = run /\ pending' = pending
  BY DEF AppendLabel
<1> DEFINE a == Entry("label", leaf, target)
           e == [a EXCEPT !.set = set]
<1>3. /\ a \in EntriesTo(left.made + 1) /\ a.id = left.made + 1 /\ a.kind = "label"
      /\ a.parent = leaf
  <2>1. "label" \in Kinds /\ leaf \in 0..left.made /\ target \in 0..left.made
    BY LeafBounded DEF Kinds
  <2> QED BY <2>1, EntryFacts
<1>4. AppendAll(<<e>>)
  BY <1>1
<1> HIDE DEF a
<1>5. e \in EntriesTo(left.made + 1) /\ e.id = left.made + 1 /\ e.kind = "label" /\ e.parent = leaf
  BY <1>3 DEF EntriesTo
<1> HIDE DEF e
<1>6. /\ Trees' /\ left.made \in Nat /\ left'.made = left.made + 1
      /\ \A c : Prepares(entries, c) => Prepares(entries', c)
      /\ Called(Here, Len(Here)) => Called(Here', Len(Here'))
  BY <1>2, <1>4, <1>5, OneStep DEF Attached
<1>7. run = "result" => Called(Here', Len(Here'))
  BY <1>6 DEF Working
<1> QED BY <1>2, <1>6, <1>7, WorkingKept

\* Steps that leave the trees alone.
LEMMA TreesKept ==
    ASSUME Trees, left' = left \/ (\E kinds : "made" \notin kinds /\ Spend(0, kinds)),
           entries' = entries, files' = files, leaf' \in {Root} \cup IdsOf(entries)
    PROVE  Trees' /\ left.made \in Nat /\ left'.made = left.made
<1>1. left' \in Budget /\ left'.made = left.made /\ left.made \in Nat
  <2>1. CASE left' = left
    BY <2>1 DEF Trees, Budget
  <2>2. CASE \E kinds : "made" \notin kinds /\ Spend(0, kinds)
    <3>1. PICK kinds : "made" \notin kinds /\ Spend(0, kinds)
      BY <2>2
    <3>2. left' \in Budget /\ left'.made = left.made + 0 /\ left.made \in Nat
      BY <3>1, SpendData DEF Trees
    <3> QED BY <3>2
  <2> QED BY <2>1, <2>2
<1>2. Sound(entries', left'.made) /\ \A s \in DOMAIN files' : Sound(files'[s], left'.made)
  BY <1>1 DEF Trees
<1>3. leaf' \in {Root} \cup IdsOf(entries')
  OBVIOUS
<1> QED BY <1>1, <1>2, <1>3 DEF Trees, Sound, Grows, IdsOf, Sane, SaneAt, Branch

LEMMA StartCompactionWorks ==
    ASSUME IInv, Trees, Working, StartCompaction
    PROVE  Trees' /\ Working'
<1>1. /\ pending' = Prepared(Here) /\ pending' # NoCompaction /\ Spend(0, {"compactions"})
      /\ entries' = entries /\ files' = files /\ leaf' = leaf /\ run' = run
      /\ run \in {"idle", "answer"}
  BY DEF StartCompaction, store
<1>2. Trees' /\ left.made \in Nat /\ left'.made = left.made
  <2>1. leaf' \in {Root} \cup IdsOf(entries)
    BY <1>1 DEF Trees
  <2> QED BY <1>1, <2>1, TreesKept
<1>3. leaf \in IdsOf(entries)
  <2> SUFFICES ASSUME leaf = Root PROVE FALSE
    BY DEF Trees
  <2>1. Here = <<>>
    BY LeafBounded, BranchIs DEF Here
  <2>2. Prepared(Here) = NoCompaction
    BY <2>1, Zenon DEF Prepared
  <2> QED BY <1>1, <2>2
<1>4. pending' \in Compaction(left.made) /\ Prepares(entries, pending')
  BY <1>1, <1>2, <1>3, PreparedIs DEF Here, Trees
<1> HIDE DEF Prepares
<1>5. Prepares(entries', pending') /\ pending' \in Compaction(left'.made)
  BY <1>1, <1>2, <1>4
<1>6. run' \in {"idle", "answer", "result"} /\ run' # "result"
  BY <1>1
<1>7. Working'
  BY <1>5, <1>6 DEF Working, Compaction, Prepares, Called, CutsWell, KeepsFrom,
     Comes, Keeps, InContext, IdsOf, Branch, NoCompaction, Here, IndexOf
<1> QED BY <1>2, <1>7

LEMMA FinishCompactionWorks ==
    ASSUME IInv, Trees, Working, FinishCompaction
    PROVE  Trees' /\ Working'
<1> DEFINE a == Entry("compaction", leaf, pending.keep)
           e == [a EXCEPT !.told = pending.told, !.base = pending.base]
<1>1. /\ AppendAll(<<e>>) /\ Spend(1, {}) /\ run' = run /\ pending' = NoCompaction
      /\ pending # NoCompaction
  BY DEF FinishCompaction, AppendOne
<1>2. pending \in Compaction(left.made) /\ Prepares(entries, pending) /\ run # "result"
      /\ run \in {"idle", "answer", "result"}
  BY <1>1 DEF Working
<1>3. /\ pending.keep \in 0..left.made /\ pending.told \subseteq 1..left.made
      /\ pending.base \in 0..left.made
  BY <1>2 DEF Compaction
<1>4. /\ a \in EntriesTo(left.made + 1) /\ a.id = left.made + 1 /\ a.kind = "compaction"
      /\ a.parent = leaf /\ a.ref = pending.keep /\ left.made \in Nat
  BY <1>3, LeafBounded, EntryFacts DEF Kinds, Entry
<1>5. /\ e \in EntriesTo(left.made + 1) /\ e.id = left.made + 1 /\ e.kind = "compaction"
      /\ e.parent = leaf /\ e.ref = pending.keep /\ e.told = pending.told
      /\ e.base = pending.base
  <2> HIDE DEF a
  <2>1. pending.told \subseteq 1..left.made + 1 /\ pending.base \in 0..left.made + 1
    BY <1>3, <1>4
  <2> QED BY <1>4, <2>1 DEF EntriesTo
<1>6. ASSUME e.base \in IdsOf(Here) PROVE CutsWell(Here, Len(Here), e.ref, e.told)
  <2> HIDE DEF e
  <2>1. leaf \in {Root} \cup IdsOf(entries) /\ Grows(entries, left.made)
    BY DEF Trees, Sound
  <2>2. IsBranch(Here, entries, left.made)
    BY <1>4, <2>1, BranchIs DEF Here
  <2>3. PICK k \in 1..Len(Here) : Here[k].id = e.base
    BY <1>6 DEF IdsOf
  <2> DEFINE b == Branch(entries, e.base)
  <2>4. Len(b) = k /\ \A i \in 1..k : b[i] = Here[i]
    BY <2>2, <2>3 DEF IsBranch
  <2>5. CutsWell(b, Len(b), e.ref, e.told)
    BY <1>2, <1>5 DEF Prepares
  <2> HIDE DEF b
  <2>6. Len(Here) \in Nat /\ Len(b) \in Nat /\ Len(b) <= Len(Here)
    BY <2>2, <2>4 DEF IsBranch
  <2> QED BY <2>4, <2>5, <2>6, CutsMore
<1> HIDE DEF e
<1>7. Trees' /\ left.made \in Nat /\ left'.made = left.made + 1
  BY <1>1, <1>5, <1>6, OneStep
<1> QED BY <1>1, <1>2, <1>7, WorkingPlain

LEMMA FailCompactionWorks ==
    ASSUME IInv, Trees, Working, FailCompaction
    PROVE  Trees' /\ Working'
<1>1. /\ entries' = entries /\ files' = files /\ leaf' = leaf /\ left' = left
      /\ run' = "idle" /\ pending' = NoCompaction
  BY DEF FailCompaction, store
<1>2. leaf' \in {Root} \cup IdsOf(entries)
  BY <1>1 DEF Trees
<1>3. Trees' /\ left.made \in Nat /\ left'.made = left.made
  BY <1>1, <1>2, TreesKept
<1> QED BY <1>1, <1>3, WorkingPlain

-----------------------------------------------------------------------------
(* Moving the leaf, and the steps that take up another session.             *)

LEMMA JoinedTwo ==
    ASSUME NEW S, NEW s \in Seq(S), NEW a \in S, NEW b \in S
    PROVE  s \o <<a, b>> = Append(Append(s, a), b)
<1> DEFINE two == <<a, b>>
           u == s \o two
           v == Append(s, a)
           w == Append(v, b)
<1>1. two \in Seq(S) /\ Len(two) = 2 /\ two[1] = a /\ two[2] = b /\ Len(s) \in Nat
  BY LenProperties
<1> HIDE DEF two
<1>2. /\ u \in Seq(S) /\ Len(u) = Len(s) + Len(two)
      /\ \A i \in 1..Len(s) + Len(two) :
            u[i] = IF i <= Len(s) THEN s[i] ELSE two[i - Len(s)]
  BY <1>1, ConcatProperties
<1>3. /\ v \in Seq(S) /\ Len(v) = Len(s) + 1
      /\ \A i \in 1..Len(s) : v[i] = s[i]
      /\ v[Len(s) + 1] = a
  BY Appended
<1> HIDE DEF u, v
<1>4. /\ w \in Seq(S) /\ Len(w) = Len(v) + 1
      /\ \A i \in 1..Len(v) : w[i] = v[i]
      /\ w[Len(v) + 1] = b
  BY <1>3, Appended
<1> HIDE DEF w
<1>5. \A i \in 1..Len(u) : u[i] = w[i]
  <2> SUFFICES ASSUME NEW i \in 1..Len(u) PROVE u[i] = w[i]
    OBVIOUS
  <2>1. i \in 1..Len(s) \/ (i = Len(s) + 1 /\ i - Len(s) = 1)
        \/ (i = Len(s) + 2 /\ i - Len(s) = 2)
    BY <1>1, <1>2
  <2>2. CASE i \in 1..Len(s)
    BY <1>1, <1>2, <1>3, <1>4, <2>2, SMTT(40)
  <2>3. CASE i = Len(s) + 1 /\ i - Len(s) = 1
    BY <1>1, <1>2, <1>3, <1>4, <2>3
  <2>4. CASE i = Len(s) + 2 /\ i - Len(s) = 2
    BY <1>1, <1>2, <1>3, <1>4, <2>4
  <2> QED BY <2>1, <2>2, <2>3, <2>4
<1>6. Len(u) = Len(w)
  BY <1>1, <1>2, <1>3, <1>4
<1>7. u = w
  BY <1>2, <1>4, <1>5, <1>6, SeqEqual
<1> QED BY <1>7 DEF u, v, w, two

LEMMA ShortJoins ==
    ASSUME NEW x, NEW y
    PROVE  /\ <<>> \o <<>> = <<>> /\ <<>> \o <<x>> = <<x>> /\ <<x>> \o <<>> = <<x>>
           /\ <<x>> \o <<y>> = <<x, y>>
<1> DEFINE S == {x, y}
<1>1. <<>> \in Seq(S) /\ <<x>> \in Seq(S) /\ <<y>> \in Seq(S) /\ <<x, y>> \in Seq(S)
  OBVIOUS
<1>2. <<>> \o <<>> = <<>> /\ <<>> \o <<x>> = <<x>> /\ <<x>> \o <<>> = <<x>>
  BY <1>1, ConcatEmptySeq
<1>3. <<x>> \o <<y>> = Append(<<x>>, y)
  <2>1. y \in S
    OBVIOUS
  <2> QED BY <1>1, <2>1, JoinedOne
<1>4. Append(<<x>>, y) = <<x, y>>
  <2> DEFINE one == <<x>>
             v == Append(one, y)
             w == <<x, y>>
  <2>1. one \in Seq(S) /\ y \in S /\ Len(one) = 1 /\ one[1] = x
    OBVIOUS
  <2>2. w \in Seq(S) /\ Len(w) = 2 /\ w[1] = x /\ w[2] = y
    OBVIOUS
  <2> HIDE DEF one, w
  <2>3. v \in Seq(S) /\ Len(v) = 2 /\ v[1] = x /\ v[2] = y
    <3>1. v \in Seq(S) /\ Len(v) = Len(one) + 1 /\ (\A i \in 1..Len(one) : v[i] = one[i])
          /\ v[Len(one) + 1] = y
      BY <2>1, Appended, ZenonT(60)
    <3> QED BY <2>1, <3>1
  <2> HIDE DEF v
  <2>4. \A i \in 1..Len(v) : v[i] = w[i]
    <3>1. \A i \in 1..Len(v) : i = 1 \/ i = 2
      BY <2>3
    <3> QED BY <2>2, <2>3, <3>1
  <2>5. v = w
    BY <2>2, <2>3, <2>4, SeqEqual
  <2> QED BY <2>5 DEF v, w, one
<1> QED BY <1>2, <1>3, <1>4

\* An entry that holds no result and no compaction, anywhere in the tree.
LEMMA PlainAppended ==
    ASSUME NEW n \in Nat, NEW t, Sound(t, n), NEW e \in EntriesTo(n),
           e.parent \in {Root} \cup IdsOf(t),
           \A k \in 1..Len(t) : t[k].id < e.id,
           e.kind \notin {"result", "compaction"}
    PROVE  /\ Sound(Append(t, e), n)
           /\ IdsOf(Append(t, e)) = IdsOf(t) \cup {e.id}
           /\ \A c : Prepares(t, c) => Prepares(Append(t, e), c)
<1>1. Sound(Append(t, e), n)
  BY SoundAppended
<1>2. /\ \A i \in IdsOf(t) \cup {Root} : Branch(Append(t, e), i) = Branch(t, i)
      /\ IdsOf(Append(t, e)) = IdsOf(t) \cup {e.id}
  <2>1. Grows(t, n) /\ Grows(Append(t, e), n)
    BY <1>1 DEF Sound
  <2> QED BY <2>1, BranchGrows
<1>3. ASSUME NEW c, Prepares(t, c) PROVE Prepares(Append(t, e), c)
  <2>1. c.base \in IdsOf(t) /\ CutsWell(Branch(t, c.base), Len(Branch(t, c.base)), c.keep, c.told)
    BY <1>3 DEF Prepares
  <2>2. Branch(Append(t, e), c.base) = Branch(t, c.base) /\ c.base \in IdsOf(Append(t, e))
    BY <1>2, <2>1
  <2> QED BY <2>1, <2>2 DEF Prepares
<1> QED BY <1>1, <1>2, <1>3

LEMMA NavigateWorks ==
    ASSUME IInv, Trees, Working, Navigate
    PROVE  Trees' /\ Working'
<1>1. PICK o \in {entries[k] : k \in 1..Len(entries)}, summarise \in BOOLEAN, labelled \in BOOLEAN :
         LET to == IF o.kind = "user" THEN o.parent ELSE o.id
             new == Landing(to, o.id, summarise, labelled)
         IN  /\ o.id # leaf
             /\ summarise => LeftBehind(o.id) # {}
             /\ IF new = <<>>
                THEN leaf' = to /\ UNCHANGED <<session, entries, flushed, files>>
                ELSE AppendAll(new)
             /\ Spend(Len(new), {"navigations"} \cup IF labelled THEN {"labels"} ELSE {})
  BY DEF Navigate
<1> DEFINE to == IF o.kind = "user" THEN o.parent ELSE o.id
           new == Landing(to, o.id, summarise, labelled)
           kinds == {"navigations"} \cup IF labelled THEN {"labels"} ELSE {}
           m == left.made
<1>2. /\ IF new = <<>> THEN leaf' = to /\ UNCHANGED <<session, entries, flushed, files>>
         ELSE AppendAll(new)
      /\ Spend(Len(new), kinds)
  BY <1>1
<1>3. run = "idle" /\ run' = run /\ pending' = pending
  BY DEF Navigate
<1>4. m \in Nat /\ IdsOf(entries) \subseteq 1..m /\ Grows(entries, m) /\ Sound(entries, m)
  BY LeafBounded DEF Trees
<1>5. to \in {Root} \cup IdsOf(entries) /\ o.id \in IdsOf(entries)
  <2>1. PICK k \in 1..Len(entries) : o = entries[k]
    BY <1>1
  <2>2. o.id \in IdsOf(entries)
    BY <2>1 DEF IdsOf
  <2>3. o.parent \in {Root} \cup IdsOf(entries)
    <3>1. k \in 1..Len(entries) /\ (\A j \in 1..k - 1 : j \in 1..Len(entries))
      BY <1>4, IndexFacts
    <3> QED BY <1>4, <2>1, <3>1 DEF Grows, IdsOf
  <2> QED BY <2>2, <2>3
<1>6. to \in 0..m /\ o.id \in 0..m
  BY <1>4, <1>5 DEF Root
<1>7. "made" \notin kinds
  OBVIOUS
<1> DEFINE s == Entry("summary", to, Root)
           a == [Entry("label", FreshId, FreshId) EXCEPT !.id = FreshId + 1]
           l == Entry("label", to, o.id)
<1>8. /\ ~summarise /\ ~labelled => new = <<>>
      /\ summarise /\ ~labelled => new = <<s>>
      /\ ~summarise /\ labelled => new = <<l>>
      /\ summarise /\ labelled => new = <<s, a>>
  <2>1. \A x, y : /\ <<>> \o <<>> = <<>> /\ <<>> \o <<x>> = <<x>> /\ <<x>> \o <<>> = <<x>>
                 /\ <<x>> \o <<y>> = <<x, y>>
    BY ShortJoins
  <2>2. new = (IF summarise THEN <<s>> ELSE <<>>)
              \o (IF labelled THEN <<IF summarise THEN a ELSE l>> ELSE <<>>)
    BY DEF Landing
  <2> HIDE DEF new, s, a, l
  <2>3. summarise /\ labelled => new = <<s>> \o <<a>>
    BY <2>2
  <2>4. ~summarise /\ labelled => new = <<>> \o <<l>>
    BY <2>2
  <2>5. summarise /\ ~labelled => new = <<s>> \o <<>>
    BY <2>2
  <2>6. ~summarise /\ ~labelled => new = <<>> \o <<>>
    BY <2>2
  <2> QED BY <2>1, <2>3, <2>4, <2>5, <2>6
<1>9. /\ s \in EntriesTo(m + 1) /\ s.id = m + 1 /\ s.kind = "summary" /\ s.parent = to
      /\ l \in EntriesTo(m + 1) /\ l.id = m + 1 /\ l.kind = "label" /\ l.parent = to
  <2>1. "summary" \in Kinds /\ "label" \in Kinds /\ Root \in 0..m
    BY <1>4 DEF Kinds, Messages, Users, Root
  <2> QED BY <1>6, <2>1, EntryFacts
<1>10. a \in EntriesTo(m + 2) /\ a.id = m + 2 /\ a.kind = "label" /\ a.parent = m + 1
  <2>1. a = [id |-> m + 2, parent |-> m + 1, kind |-> "label", ref |-> m + 1, set |-> TRUE,
             told |-> {}, base |-> 0]
    <3>1. FreshId = m + 1 /\ FreshId + 1 = m + 2
      BY <1>4 DEF FreshId
    <3> DEFINE f == FreshId
               g == FreshId + 1
               lab == Entry("label", f, f)
    <3>2. lab = [id |-> f, parent |-> f, kind |-> "label", ref |-> f, set |-> TRUE,
                 told |-> {}, base |-> 0]
      BY DEF Entry, Root
    <3>3. a = [lab EXCEPT !.id = g]
      OBVIOUS
    <3> HIDE DEF lab, f, g, a
    <3>4. a = [id |-> g, parent |-> f, kind |-> "label", ref |-> f, set |-> TRUE,
               told |-> {}, base |-> 0]
      BY <3>2, <3>3
    <3> QED BY <3>1, <3>4 DEF f, g
  <2>2. m + 2 \in 1..m + 2 /\ m + 1 \in 0..m + 2 /\ 0 \in 0..m + 2 /\ {} \in SUBSET (1..m + 2)
    BY <1>4
  <2>3. "label" \in Kinds
    BY DEF Kinds
  <2> QED BY <2>1, <2>2, <2>3 DEF EntriesTo
<1> HIDE DEF to, new, kinds, s, a, l
<1>11. \A n \in Nat : Len(new) = n =>
          left' \in Budget /\ left'.made = m + n
  BY <1>2, <1>7, SpendData DEF Trees
<1>12. \A k \in 1..Len(entries) : entries[k].id < m + 1
  BY <1>4, IdsBounded
<1>13. CASE ~summarise /\ ~labelled
  <2>1. /\ leaf' = to /\ entries' = entries /\ files' = files /\ Spend(0, kinds)
    BY <1>2, <1>8, <1>13
  <2>2. Trees' /\ left'.made = left.made
    BY <1>5, <1>7, <2>1, TreesKept
  <2> QED BY <1>3, <1>4, <2>1, <2>2, WorkingKept
<1>14. ASSUME NEW e, new = <<e>>, e \in EntriesTo(m + 1), e.id = m + 1,
              e.kind \notin {"result", "compaction"}, e.parent = to
       PROVE  Trees' /\ Working'
  <2>1. Len(new) = 1 /\ new[1] = e /\ new # <<>> /\ AppendAll(new)
    BY <1>2, <1>14
  <2>2. left' \in Budget /\ left'.made = m + 1
    BY <1>11, <2>1
  <2>3. Sound(entries, m + 1) /\ m + 1 \in Nat /\ m <= m + 1
    BY <1>4, GrowsMore
  <2>4. entries \o new = Append(entries, e)
    <3>1. entries \in Seq(EntriesTo(m + 1))
      BY <2>3 DEF Sound, Grows
    <3> QED BY <1>14, <3>1, JoinedOne
  <2>5. /\ Sound(Append(entries, e), m + 1)
        /\ IdsOf(Append(entries, e)) = IdsOf(entries) \cup {e.id}
        /\ \A c : Prepares(entries, c) => Prepares(Append(entries, e), c)
    BY <1>5, <1>12, <1>14, <2>3, PlainAppended
  <2>6. Trees'
    <3>1. Sound(entries \o new, left'.made) /\ left.made <= left'.made
          /\ new[Len(new)].id \in IdsOf(entries \o new)
      BY <2>1, <2>2, <2>3, <2>4, <2>5
    <3> QED BY <2>1, <2>2, <3>1, AppendAllTrees
  <2>7. entries' = Append(entries, e)
    BY <2>1, <2>4 DEF AppendAll
  <2> QED BY <1>3, <1>4, <2>2, <2>3, <2>5, <2>6, <2>7, WorkingKept
<1>15. CASE summarise /\ ~labelled
  BY <1>8, <1>9, <1>14, <1>15
<1>16. CASE ~summarise /\ labelled
  BY <1>8, <1>9, <1>14, <1>16
<1>17. CASE summarise /\ labelled
  <2> DEFINE t == Append(entries, s)
             u == Append(t, a)
  <2>1. new = <<s, a>> /\ Len(new) = 2 /\ new[2] = a /\ new # <<>> /\ AppendAll(new)
    BY <1>2, <1>8, <1>17
  <2>2. left' \in Budget /\ left'.made = m + 2
    BY <1>11, <2>1
  <2>3. Sound(entries, m + 1) /\ m + 1 \in Nat /\ m <= m + 2 /\ m + 2 \in Nat /\ m + 1 <= m + 2
    BY <1>4, GrowsMore
  <2>4. /\ Sound(t, m + 1)
        /\ IdsOf(t) = IdsOf(entries) \cup {s.id}
        /\ \A c : Prepares(entries, c) => Prepares(t, c)
    BY <1>5, <1>9, <1>12, <2>3, PlainAppended
  <2> HIDE DEF t
  <2>5. Sound(t, m + 2) /\ \A k \in 1..Len(t) : t[k].id < a.id
    <3>1. \A k \in 1..Len(t) : t[k].id < (m + 1) + 1
      BY <2>3, <2>4, IdsBounded DEF Sound
    <3>2. \A k \in 1..Len(t) : t[k].id < a.id
      BY <1>4, <1>10, <3>1
    <3> QED BY <2>3, <2>4, <3>2, GrowsMore
  <2>6. /\ Sound(u, m + 2)
        /\ IdsOf(u) = IdsOf(t) \cup {a.id}
        /\ \A c : Prepares(t, c) => Prepares(u, c)
    <3>1. a.parent \in {Root} \cup IdsOf(t) /\ a.kind \notin {"result", "compaction"}
      BY <1>9, <1>10, <2>4
    <3> QED BY <1>10, <2>3, <2>5, <3>1, PlainAppended
  <2>7. entries \o new = u
    <3>1. entries \in Seq(EntriesTo(m + 2)) /\ s \in EntriesTo(m + 2)
      BY <1>9, <2>3, GrowsMore DEF Sound, Grows
    <3> QED BY <1>10, <2>1, <3>1, JoinedTwo DEF t
  <2> HIDE DEF u
  <2>8. Trees'
    <3>1. Sound(entries \o new, left'.made) /\ left.made <= left'.made
          /\ new[Len(new)].id \in IdsOf(entries \o new)
      BY <2>1, <2>2, <2>3, <2>6, <2>7
    <3> QED BY <2>1, <2>2, <3>1, AppendAllTrees
  <2>9. entries' = u
    BY <2>1, <2>7 DEF AppendAll
  <2> QED BY <1>3, <1>4, <2>2, <2>3, <2>4, <2>6, <2>8, <2>9, WorkingKept
<1> QED BY <1>13, <1>15, <1>16, <1>17

-----------------------------------------------------------------------------
(* Entries picked from a sequence.                                          *)

\* The elements of q are those of seq at the positions of a set, in order.
Selects(q, ix, S, seq, at) ==
    /\ q \in Seq(S) /\ Len(q) \in Nat
    /\ ix \in [1..Len(q) -> at]
    /\ \A k \in 1..Len(q) : q[k] = seq[ix[k]]
    /\ \A j, k \in 1..Len(q) : j < k => ix[j] < ix[k]
    /\ \A i \in at : \E k \in 1..Len(q) : ix[k] = i

Selected(q, S, seq, at) == \E ix : Selects(q, ix, S, seq, at)

LEMMA SelectsOne ==
    ASSUME NEW S, NEW seq \in Seq(S), NEW m \in Nat, m + 1 \in 1..Len(seq), NEW at,
           NEW q, NEW ix, Selects(q, ix, S, seq, at \cap (1..m)),
           NEW u, u = IF m + 1 \in at THEN Append(q, seq[m + 1]) ELSE q
    PROVE  Selected(u, S, seq, at \cap (1..m + 1))
<1> DEFINE A == at \cap (1..m)
           B == at \cap (1..m + 1)
<1>1. /\ q \in Seq(S) /\ Len(q) \in Nat
      /\ ix \in [1..Len(q) -> A]
      /\ \A k \in 1..Len(q) : q[k] = seq[ix[k]]
      /\ \A j, k \in 1..Len(q) : j < k => ix[j] < ix[k]
      /\ \A i \in A : \E k \in 1..Len(q) : ix[k] = i
  BY DEF Selects
<1>2. CASE m + 1 \notin at
  <2>1. B = A /\ u = q
    BY <1>2
  <2>2. Selects(u, ix, S, seq, B)
    BY <2>1
  <2> QED BY <2>2 DEF Selected
<1>3. CASE m + 1 \in at
  <2> DEFINE l == Len(q) + 1
             jx == [k \in 1..l |-> IF k = l THEN m + 1 ELSE ix[k]]
  <2>1. B = A \cup {m + 1} /\ \A i \in A : i \in 1..m
    BY <1>3
  <2>2. seq[m + 1] \in S
    BY ElementOfSeq
  <2>3. /\ u \in Seq(S) /\ Len(u) = l /\ u[l] = seq[m + 1]
        /\ \A k \in 1..Len(q) : u[k] = q[k]
    BY <1>1, <1>3, <2>2, Appended
  <2>4. /\ l \in 1..l /\ jx[l] = m + 1 /\ \A k \in 1..Len(q) : k \in 1..l /\ jx[k] = ix[k]
        /\ \A k \in 1..l : k = l \/ k \in 1..Len(q)
    BY <1>1
  <2>5. \A k \in 1..Len(q) : ix[k] \in A
    BY <1>1
  <2> HIDE DEF A, B
  <2>6. jx \in [1..l -> B]
    <3>1. \A k \in 1..l : jx[k] \in B
      BY <2>1, <2>4, <2>5
    <3> QED BY <3>1
  <2> HIDE DEF jx
  <2>7. \A k \in 1..l : u[k] = seq[jx[k]]
    BY <1>1, <2>3, <2>4
  <2>8. ASSUME NEW j \in 1..l, NEW k \in 1..l, j < k PROVE jx[j] < jx[k]
    <3>1. j \in 1..Len(q) /\ jx[j] = ix[j] /\ ix[j] \in 1..m
      BY <1>1, <2>1, <2>4, <2>5, <2>8
    <3>2. CASE k = l
      BY <2>4, <3>1, <3>2
    <3>3. CASE k \in 1..Len(q)
      BY <1>1, <2>4, <2>8, <3>1, <3>3
    <3> QED BY <2>4, <3>2, <3>3
  <2>9. \A i \in B : \E k \in 1..l : jx[k] = i
    <3> SUFFICES ASSUME NEW i \in B PROVE \E k \in 1..l : jx[k] = i
      OBVIOUS
    <3>1. CASE i = m + 1
      BY <2>4, <3>1
    <3>2. CASE i \in A
      <4>1. PICK k \in 1..Len(q) : ix[k] = i
        BY <1>1, <3>2
      <4> QED BY <2>4, <4>1
    <3> QED BY <2>1, <3>1, <3>2
  <2>10. l \in Nat
    BY <1>1
  <2> HIDE DEF l
  <2>11. Selects(u, jx, S, seq, B)
    BY <2>3, <2>6, <2>7, <2>8, <2>9, <2>10 DEF Selects
  <2> QED BY <2>11 DEF B, Selected
<1> QED BY <1>2, <1>3

LEMMA PickedIs ==
    ASSUME NEW S, NEW seq \in Seq(S), NEW at, at \subseteq 1..Len(seq)
    PROVE  Selected(Picked(seq, at), S, seq, at)
<1> DEFINE p == [k \in 1..Len(seq) |-> k - 1]
<1>1. Len(seq) \in Nat /\ \A k \in 1..Len(seq) : p[k] \in 0..k - 1 /\ p[k] = k - 1
  BY LenProperties
<1> HIDE DEF p
<1>2. \A k \in 1..Len(seq) : p[k] \in 0..k - 1
  BY <1>1
<1>3. PICK f0 : Builds(f0, Len(seq), S, seq, at, p)
  BY <1>2, CanBuild
<1> DEFINE f == CHOOSE g : g = [n \in 0..Len(seq) |->
                  IF n = 0 THEN <<>>
                  ELSE IF n \in at THEN Append(g[n - 1], seq[n]) ELSE g[n - 1]]
<1>4. f0 = [n \in 0..Len(seq) |->
                  IF n = 0 THEN <<>>
                  ELSE IF n \in at THEN Append(f0[n - 1], seq[n]) ELSE f0[n - 1]]
  <2>1. \A k \in 0..Len(seq) : k = 0 \/ (k \in 1..Len(seq) /\ k # 0)
    BY <1>1
  <2>2. \A k \in 1..Len(seq) : k # 0
               /\ f0[k] = IF k \in at THEN Append(f0[k - 1], seq[k]) ELSE f0[k - 1]
    BY <1>1, <1>3 DEF Builds
  <2>3. f0[0] = <<>> /\ f0 = [k \in 0..Len(seq) |-> f0[k]]
    BY <1>3 DEF Builds
  <2>4. \A n \in 0..Len(seq) : f0[n] = IF n = 0 THEN <<>>
                  ELSE IF n \in at THEN Append(f0[n - 1], seq[n]) ELSE f0[n - 1]
    BY <2>1, <2>2, <2>3
  <2> QED BY <2>3, <2>4
<1>5. f = [n \in 0..Len(seq) |->
                  IF n = 0 THEN <<>>
                  ELSE IF n \in at THEN Append(f[n - 1], seq[n]) ELSE f[n - 1]]
  BY <1>4, Zenon
<1>6. Picked(seq, at) = f[Len(seq)]
  BY Zenon DEF Picked
<1> HIDE DEF f
<1>7. \A n \in 0..Len(seq) : f[n] =
                  IF n = 0 THEN <<>>
                  ELSE IF n \in at THEN Append(f[n - 1], seq[n]) ELSE f[n - 1]
  BY <1>5, Zenon
<1> DEFINE T == {m \in Nat : m <= Len(seq) => Selected(f[m], S, seq, at \cap (1..m))}
<1>8. 0 \in T
  <2>1. f[0] = <<>> /\ at \cap (1..0) = {}
    BY <1>1, <1>7
  <2>2. Selects(<<>>, [k \in {} |-> 0], S, seq, {})
    BY EmptySeq DEF Selects
  <2> QED BY <2>1, <2>2 DEF Selected
<1>9. ASSUME NEW m \in Nat, m \in T PROVE m + 1 \in T
  <2> SUFFICES ASSUME m + 1 <= Len(seq)
               PROVE  Selected(f[m + 1], S, seq, at \cap (1..m + 1))
    OBVIOUS
  <2>1. Selected(f[m], S, seq, at \cap (1..m))
    BY <1>1, <1>9
  <2>4. PICK ix : Selects(f[m], ix, S, seq, at \cap (1..m))
    BY <2>1 DEF Selected
  <2>2. m + 1 \in 1..Len(seq) /\ m + 1 \in 0..Len(seq) /\ m + 1 # 0 /\ (m + 1) - 1 = m
    BY <1>1
  <2>3. f[m + 1] = IF m + 1 \in at THEN Append(f[m], seq[m + 1]) ELSE f[m]
    BY <1>7, <2>2
  <2> QED BY <2>2, <2>3, <2>4, SelectsOne
<1>10. Nat \subseteq T
  <2> HIDE DEF T
  <2> QED BY <1>8, <1>9, Induction
<1>11. Len(seq) \in T
  <2> HIDE DEF T
  <2> QED BY <1>1, <1>10
<1>12. at \cap (1..Len(seq)) = at
  OBVIOUS
<1>13. Selected(f[Len(seq)], S, seq, at)
  BY <1>1, <1>11, <1>12
<1> QED BY <1>6, <1>13

-----------------------------------------------------------------------------
(* A branch without its labels.                                             *)

SameEntry(a, b) ==
    a.kind = b.kind /\ a.id = b.id /\ a.ref = b.ref /\ a.told = b.told /\ a.base = b.base

\* The first l entries of q are those of p that are no labels.
Mirrors(q, l, ix, p) ==
    /\ l \in Nat /\ Len(p) \in Nat
    /\ \A k \in 1..l : ix[k] \in 1..Len(p) /\ SameEntry(q[k], p[ix[k]])
    /\ \A j, k \in 1..l : j < k => ix[j] < ix[k]
    /\ \A i \in 1..Len(p) : p[i].kind # "label" => \E k \in 1..l : ix[k] = i
    /\ \A i, j \in 1..Len(p) : p[i].id = p[j].id => i = j

LEMMA MirrorOrder ==
    ASSUME NEW q, NEW l, NEW ix, NEW p, Mirrors(q, l, ix, p),
           NEW j \in 1..l, NEW k \in 1..l
    PROVE  (ix[j] < ix[k] <=> j < k) /\ (ix[j] <= ix[k] <=> j <= k)
<1>1. /\ l \in Nat /\ ix[j] \in 1..Len(p) /\ ix[k] \in 1..Len(p) /\ Len(p) \in Nat
      /\ (j < k => ix[j] < ix[k]) /\ (k < j => ix[k] < ix[j])
  BY DEF Mirrors
<1>2. j < k \/ k < j \/ j = k
  BY <1>1
<1> QED BY <1>1, <1>2

\* Where a compaction of q lands and what it finds, it landed on and found in p.
LEMMA MirrorFinds ==
    ASSUME NEW q, NEW l, NEW ix, NEW p, Mirrors(q, l, ix, p), NEW k \in 1..l
    PROVE  (Comes(q, k) => Comes(p, ix[k])) /\ (Keeps(q, k) => Keeps(p, ix[k]))
<1>1. l \in Nat /\ SameEntry(q[k], p[ix[k]]) /\ ix[k] \in 1..Len(p) /\ Len(p) \in Nat
  BY DEF Mirrors
<1>2. ASSUME NEW j \in 1..k - 1
      PROVE  ix[j] \in 1..ix[k] - 1 /\ p[ix[j]].id = q[j].id
  <2>1. j \in 1..l /\ j < k
    BY <1>1
  <2>2. ix[j] \in 1..Len(p) /\ SameEntry(q[j], p[ix[j]]) /\ ix[j] < ix[k]
    BY <2>1 DEF Mirrors
  <2> QED BY <1>1, <2>2 DEF SameEntry
<1>3. q[k].base = p[ix[k]].base /\ q[k].ref = p[ix[k]].ref
  BY <1>1 DEF SameEntry
<1> QED BY <1>2, <1>3 DEF Comes, Keeps

LEMMA MirrorCalled ==
    ASSUME NEW q, NEW l, NEW ix, NEW p, Mirrors(q, l, ix, p), NEW k \in 1..l,
           Called(p, ix[k] - 1)
    PROVE  Called(q, k - 1)
<1>1. l \in Nat /\ ix[k] \in 1..Len(p) /\ Len(p) \in Nat
  BY DEF Mirrors
<1>2. PICK i \in 1..ix[k] - 1 : /\ p[i].kind = "call"
                                /\ \A x \in i + 1..ix[k] - 1 : p[x].kind \in Attached
  BY DEF Called
<1>3. i \in 1..Len(p) /\ p[i].kind # "label"
  BY <1>1, <1>2
<1>4. PICK j \in 1..l : ix[j] = i
  BY <1>3 DEF Mirrors
<1>5. j \in 1..k - 1
  <2>1. ix[j] < ix[k]
    BY <1>1, <1>2, <1>4
  <2> QED BY <1>1, <2>1, MirrorOrder
<1>6. q[j].kind = "call"
  BY <1>2, <1>4 DEF Mirrors, SameEntry
<1>7. ASSUME NEW x \in j + 1..k - 1 PROVE q[x].kind \in Attached
  <2>1. x \in 1..l /\ j < x /\ x < k
    BY <1>1
  <2>2. ix[x] \in 1..Len(p) /\ ix[j] < ix[x] /\ ix[x] < ix[k] /\ q[x].kind = p[ix[x]].kind
    BY <2>1 DEF Mirrors, SameEntry
  <2>3. ix[x] \in i + 1..ix[k] - 1
    BY <1>1, <1>3, <1>4, <2>2
  <2> QED BY <1>2, <2>2, <2>3
<1> QED BY <1>5, <1>6, <1>7 DEF Called

LEMMA MirrorCuts ==
    ASSUME NEW q, NEW l, NEW ix, NEW p, Mirrors(q, l, ix, p), NEW k \in 1..l,
           Keeps(q, k), NEW told, CutsWell(p, ix[k] - 1, q[k].ref, told)
    PROVE  CutsWell(q, k - 1, q[k].ref, told)
<1> DEFINE n == ix[k] - 1
           keep == q[k].ref
<1>1. l \in Nat /\ ix[k] \in 1..Len(p) /\ Len(p) \in Nat
      /\ \A x \in 1..l : ix[x] \in 1..Len(p) /\ q[x].kind = p[ix[x]].kind
                         /\ q[x].id = p[ix[x]].id /\ q[x].told = p[ix[x]].told
      /\ \A i, j \in 1..Len(p) : p[i].id = p[j].id => i = j
  BY DEF Mirrors, SameEntry
<1>2. PICK r \in 1..n : \E m \in r..n : KeepsFrom(p, n, keep, told, r, m)
  BY DEF CutsWell
<1>3. PICK m \in r..n : KeepsFrom(p, n, keep, told, r, m)
  BY <1>2
<1>4. r \in 1..Len(p) /\ m \in 1..Len(p) /\ r <= m /\ m < ix[k] /\ r < ix[k]
  BY <1>1
<1>5. PICK a \in 1..k - 1 : q[a].id = keep
  BY DEF Keeps
<1>6. a \in 1..l /\ ix[a] = r
  <2>1. a \in 1..l
    BY <1>1
  <2>2. p[ix[a]].id = p[r].id
    BY <1>1, <1>3, <1>5, <2>1 DEF KeepsFrom
  <2> QED BY <1>1, <1>4, <2>1, <2>2
<1>7. PICK z \in 1..l : ix[z] = m
  <2>1. p[m].kind # "label"
    BY <1>3 DEF KeepsFrom, Users, Assistants
  <2> QED BY <1>4, <2>1 DEF Mirrors
<1>8. z \in a..k - 1
  <2>1. ix[a] <= ix[z] /\ ix[z] < ix[k]
    BY <1>4, <1>6, <1>7
  <2>2. a <= z /\ z < k
    BY <1>6, <2>1, MirrorOrder
  <2> QED BY <1>1, <2>2
<1>9. q[a].id = keep /\ q[z].kind \in Users \cup Assistants
  BY <1>1, <1>3, <1>5, <1>7 DEF KeepsFrom
<1>10. ASSUME NEW x \in a..z - 1 PROVE ~InContext(q[x])
  <2>1. x \in 1..l /\ a <= x /\ x < z
    BY <1>1, <1>5, <1>8
  <2>2. ix[a] <= ix[x] /\ ix[x] < ix[z] /\ ix[x] \in 1..Len(p)
    BY <1>1, <1>6, <1>7, <2>1, MirrorOrder
  <2>3. ix[x] \in r..m - 1
    BY <1>1, <1>4, <1>6, <1>7, <2>2
  <2>4. ~InContext(p[ix[x]])
    BY <1>3, <2>3 DEF KeepsFrom
  <2> QED BY <1>1, <2>1, <2>4 DEF InContext
<1>11. ASSUME \A d \in 1..k - 1 : q[d].kind = "compaction" => Comes(q, d) /\ Keeps(q, d),
              NEW j \in 1..a - 1, q[j].kind \in Messages
       PROVE  \/ q[j].id \in told
              \/ \E d \in 1..k - 1 : q[d].kind = "compaction" /\ q[j].id \in q[d].told
  <2>1. ASSUME NEW i \in 1..n, p[i].kind = "compaction"
        PROVE  \E d \in 1..k - 1 : ix[d] = i
    <3>1. i \in 1..Len(p) /\ p[i].kind # "label" /\ i < ix[k]
      BY <1>1, <2>1
    <3>2. PICK d \in 1..l : ix[d] = i
      BY <3>1 DEF Mirrors
    <3>3. d < k
      BY <3>1, <3>2, MirrorOrder
    <3> QED BY <1>1, <3>2, <3>3
  <2>2. \A d \in 1..k - 1 : d \in 1..l
    BY <1>1
  <2>3. ASSUME NEW i \in 1..n, p[i].kind = "compaction" PROVE Comes(p, i) /\ Keeps(p, i)
    <3>1. PICK d \in 1..k - 1 : ix[d] = i
      BY <2>1, <2>3
    <3>2. d \in 1..l /\ q[d].kind = "compaction"
      BY <1>1, <2>2, <2>3, <3>1
    <3>3. Comes(q, d) /\ Keeps(q, d)
      BY <1>11, <3>2
    <3> QED BY <3>1, <3>2, <3>3, MirrorFinds
  <2>4. j \in 1..l /\ j < a
    BY <1>1, <1>5
  <2>5. ix[j] \in 1..r - 1 /\ p[ix[j]].kind \in Messages /\ p[ix[j]].id = q[j].id
    <3>1. ix[j] < ix[a] /\ ix[j] \in 1..Len(p)
      BY <1>1, <1>6, <2>4, MirrorOrder
    <3> QED BY <1>1, <1>4, <1>6, <1>11, <2>4, <3>1
  <2>6. \/ p[ix[j]].id \in told
        \/ \E i \in 1..n : p[i].kind = "compaction" /\ p[ix[j]].id \in p[i].told
    BY <1>3, <2>3, <2>5 DEF KeepsFrom
  <2>7. CASE \E i \in 1..n : p[i].kind = "compaction" /\ p[ix[j]].id \in p[i].told
    <3>1. PICK i \in 1..n : p[i].kind = "compaction" /\ p[ix[j]].id \in p[i].told
      BY <2>7
    <3>2. PICK d \in 1..k - 1 : ix[d] = i
      BY <2>1, <3>1
    <3>3. q[d].kind = "compaction" /\ q[d].told = p[i].told
      BY <1>1, <2>2, <3>1, <3>2
    <3> QED BY <2>5, <3>1, <3>2, <3>3
  <2> QED BY <2>5, <2>6, <2>7
<1>12. KeepsFrom(q, k - 1, keep, told, a, z)
  <2> HIDE DEF keep
  <2> QED BY <1>9, <1>10, <1>11, Zenon DEF KeepsFrom
<1> QED BY <1>5, <1>8, <1>12 DEF CutsWell

LEMMA MirrorSane ==
    ASSUME NEW q, NEW l, NEW ix, NEW p, Mirrors(q, l, ix, p), Sane(p)
    PROVE  \A k \in 1..l : SaneAt(q, k)
<1> SUFFICES ASSUME NEW k \in 1..l PROVE SaneAt(q, k)
  OBVIOUS
<1>1. /\ ix[k] \in 1..Len(p) /\ q[k].kind = p[ix[k]].kind /\ q[k].ref = p[ix[k]].ref
      /\ q[k].told = p[ix[k]].told
  BY DEF Mirrors, SameEntry
<1>2. SaneAt(p, ix[k])
  BY <1>1 DEF Sane
<1>3. q[k].kind = "result" => Called(q, k - 1)
  BY <1>1, <1>2, MirrorCalled DEF SaneAt
<1>4. ASSUME q[k].kind = "compaction", Comes(q, k), Keeps(q, k)
      PROVE  CutsWell(q, k - 1, q[k].ref, q[k].told)
  <2>1. Comes(p, ix[k]) /\ Keeps(p, ix[k])
    BY <1>4, MirrorFinds
  <2>2. CutsWell(p, ix[k] - 1, q[k].ref, q[k].told)
    BY <1>1, <1>2, <1>4, <2>1 DEF SaneAt
  <2> QED BY <1>4, <2>2, MirrorCuts
<1> QED BY <1>3, <1>4 DEF SaneAt

-----------------------------------------------------------------------------
(* A branch is copied into a new session.                                   *)

\* Each entry follows the one before it.
Linear(t) == \A k \in 1..Len(t) : t[k].parent = IF k = 1 THEN Root ELSE t[k - 1].id

\* A sequence whose entries follow each other is the only branch of its tree.
LEMMA LinearSound ==
    ASSUME NEW n \in Nat, NEW t \in Seq(EntriesTo(n)), Linear(t),
           \A j, k \in 1..Len(t) : j < k => t[j].id < t[k].id,
           Sane(t)
    PROVE  Sound(t, n)
<1>1. Len(t) \in Nat /\ \A k \in 1..Len(t) : t[k] \in EntriesTo(n)
  BY LenProperties, ElementOfSeq
<1>2. ASSUME NEW k \in 1..Len(t), t[k].parent # Root
      PROVE  \E j \in 1..k - 1 : t[j].id = t[k].parent
  <2>1. k # 1 /\ k - 1 \in 1..k - 1 /\ t[k].parent = t[k - 1].id
    BY <1>2 DEF Linear
  <2> QED BY <2>1
<1>3. Grows(t, n)
  BY <1>2 DEF Grows
<1>4. /\ Branch(t, Root) = <<>>
      /\ \A k \in 1..Len(t) : Branch(t, t[k].id) = Append(Branch(t, t[k].parent), t[k])
      /\ \A i \in IdsOf(t) \cup {Root} : IsBranch(Branch(t, i), t, n)
  BY <1>3, BranchIs
<1> DEFINE Is(k) == Len(Branch(t, t[k].id)) = k /\ \A i \in 1..k : Branch(t, t[k].id)[i] = t[i]
           T == {m \in Nat : m + 1 <= Len(t) => Is(m + 1)}
<1>5. 0 \in T
  <2> SUFFICES ASSUME 1 <= Len(t) PROVE Is(1)
    OBVIOUS
  <2>1. 1 \in 1..Len(t) /\ t[1].parent = Root /\ t[1] \in EntriesTo(n)
    BY <1>1 DEF Linear
  <2>2. Branch(t, t[1].id) = Append(<<>>, t[1])
    BY <1>4, <2>1
  <2>3. <<>> \in Seq(EntriesTo(n)) /\ Len(<<>>) = 0
    BY EmptySeq
  <2>4. Len(Append(<<>>, t[1])) = 0 + 1 /\ Append(<<>>, t[1])[0 + 1] = t[1]
    BY <2>1, <2>3, Appended
  <2> QED BY <2>2, <2>4
<1>6. ASSUME NEW m \in Nat, m \in T PROVE m + 1 \in T
  <2> SUFFICES ASSUME (m + 1) + 1 <= Len(t) PROVE Is((m + 1) + 1)
    OBVIOUS
  <2> DEFINE k == (m + 1) + 1
             b == Branch(t, t[m + 1].id)
             e == t[k]
  <2>1. k \in 1..Len(t) /\ k # 1 /\ k - 1 = m + 1 /\ m + 1 \in 1..Len(t) /\ m + 1 <= Len(t)
    BY <1>1
  <2>2. Len(b) = m + 1 /\ \A i \in 1..m + 1 : b[i] = t[i]
    BY <1>6, <2>1
  <2>3. e.parent = t[m + 1].id /\ e \in EntriesTo(n)
    BY <1>1, <2>1 DEF Linear
  <2>4. Branch(t, e.id) = Append(b, e)
    BY <1>4, <2>1, <2>3
  <2>5. b \in Seq(EntriesTo(n))
    <3>1. t[m + 1].id \in IdsOf(t)
      BY <2>1 DEF IdsOf
    <3> QED BY <1>4, <3>1 DEF IsBranch
  <2> HIDE DEF b, e
  <2>6. /\ Len(Append(b, e)) = Len(b) + 1 /\ Append(b, e)[Len(b) + 1] = e
        /\ \A i \in 1..Len(b) : Append(b, e)[i] = b[i]
    BY <2>3, <2>5, Appended
  <2>7. Len(Append(b, e)) = k /\ \A i \in 1..k : Append(b, e)[i] = t[i]
    <3>1. \A i \in 1..k : i = k \/ i \in 1..m + 1
      OBVIOUS
    <3> QED BY <2>2, <2>6, <3>1 DEF e
  <2> QED BY <2>4, <2>7 DEF e
<1>7. Nat \subseteq T
  <2> HIDE DEF T
  <2> QED BY <1>5, <1>6, Induction
<1>8. ASSUME NEW k \in 1..Len(t) PROVE Is(k)
  <2>1. k - 1 \in Nat /\ (k - 1) + 1 = k /\ k <= Len(t)
    BY <1>1
  <2>2. k - 1 \in T
    <3> HIDE DEF T
    <3> QED BY <1>7, <2>1
  <2> QED BY <2>1, <2>2
<1>9. ASSUME NEW i \in IdsOf(t) PROVE Sane(Branch(t, i))
  <2>1. PICK k \in 1..Len(t) : t[k].id = i
    BY DEF IdsOf
  <2> DEFINE b == Branch(t, i)
  <2>2. Len(b) = k /\ \A x \in 1..k : b[x] = t[x]
    BY <1>8, <2>1
  <2> HIDE DEF b
  <2>3. ASSUME NEW x \in 1..k PROVE SaneAt(b, x)
    <3>1. x \in Nat \ {0} /\ x \in 1..Len(t) /\ \A y \in 1..x : y \in 1..k
      BY <1>1
    <3>2. SaneAt(t, x) /\ \A y \in 1..x : b[y] = t[y]
      BY <2>2, <3>1 DEF Sane
    <3> QED BY <3>1, <3>2, SaneSame
  <2>4. Sane(b)
    BY <2>2, <2>3 DEF Sane
  <2> QED BY <2>4 DEF b
<1> QED BY <1>3, <1>9 DEF Sound

LEMMA LastIdIs ==
    ASSUME NEW S, NEW p \in Seq(S)
    PROVE  /\ LastId(p) = IF Len(p) = 0 THEN Root ELSE p[Len(p)].id
           /\ \A k \in 1..Len(p) :
                 LastId(SubSeq(p, 1, k - 1)) = IF k = 1 THEN Root ELSE p[k - 1].id
<1>1. Len(p) \in Nat /\ (p = <<>> <=> Len(p) = 0)
  BY LenProperties, EmptySeq
<1>2. LastId(p) = IF Len(p) = 0 THEN Root ELSE p[Len(p)].id
  BY <1>1 DEF LastId
<1>3. ASSUME NEW k \in 1..Len(p)
      PROVE  LastId(SubSeq(p, 1, k - 1)) = IF k = 1 THEN Root ELSE p[k - 1].id
  <2> DEFINE q == SubSeq(p, 1, k - 1)
  <2>1. k \in 1..Len(p) + 1
    BY <1>1
  <2>2. q \in Seq(S) /\ Len(q) = k - 1 /\ \A i \in 1..k - 1 : q[i] = p[i]
    BY <2>1, FrontFacts
  <2> HIDE DEF q
  <2>3. q = <<>> <=> k = 1
    BY <2>2, EmptySeq
  <2>4. LastId(q) = IF k = 1 THEN Root ELSE p[k - 1].id
    BY <2>2, <2>3 DEF LastId
  <2> QED BY <2>4 DEF q
<1> QED BY <1>2, <1>3

\* createBranchedSession(): the copy is a tree of one branch, as sound as the
\* branch it was made from.
LEMMA BranchedSound ==
    ASSUME left.made \in Nat, NEW t, Sound(t, left.made), NEW from \in IdsOf(t),
           NEW all, all = Branched(t, from),
           NEW N, N = left.made + Cardinality({k \in 1..Len(all) : all[k].id > left.made})
    PROVE  N \in Nat /\ left.made <= N /\ Sound(all, N)
           /\ Cardinality({k \in 1..Len(all) : all[k].id > left.made}) \in Nat
           /\ LastId(all) \in {Root} \cup IdsOf(all)
<1> DEFINE n == left.made
           P == Branch(t, from)
           plain == {k \in 1..Len(P) : P[k].kind # "label"}
           path == Unlabelled(P)
           held == {k \in 1..Len(t) : t[k] \in LabelsOf(t) /\ t[k].ref \in IdsOf(path)}
           labels == Picked(t, held)
           chained == [k \in 1..Len(path) |->
                         [path[k] EXCEPT !.parent = LastId(SubSeq(path, 1, k - 1))]]
           again == [k \in 1..Len(labels) |->
                       [labels[k] EXCEPT !.id = n + k,
                                         !.parent = IF k = 1 THEN LastId(path)
                                                    ELSE n + k - 1]]
           L == Len(path)
           M == Len(labels)
           E == EntriesTo(n + M)
<1>1. Grows(t, n) /\ t \in Seq(EntriesTo(n)) /\ Sane(P) /\ IsBranch(P, t, n)
  BY BranchIs DEF Sound, Grows
<1>2. /\ P \in Seq(EntriesTo(n)) /\ Len(P) \in Nat
      /\ \A k \in 1..Len(P) : P[k] \in EntriesTo(n)
      /\ \A i, j \in 1..Len(P) : i < j => P[i].id < P[j].id
  BY <1>1 DEF IsBranch
<1>3. all = chained \o again
  BY Zenon DEF Branched
<1> HIDE DEF P
<1>4. Selected(path, EntriesTo(n), P, plain)
  BY <1>2, PickedIs DEF Unlabelled
<1>5. Selected(labels, EntriesTo(n), t, held)
  BY <1>1, PickedIs
<1> HIDE DEF plain, path, held, labels
<1>6. PICK ix : Selects(path, ix, EntriesTo(n), P, plain)
  BY <1>4 DEF Selected
<1>7. PICK jx : Selects(labels, jx, EntriesTo(n), t, held)
  BY <1>5 DEF Selected
<1>8. /\ path \in Seq(EntriesTo(n)) /\ L \in Nat
      /\ \A k \in 1..L : /\ path[k] \in EntriesTo(n) /\ ix[k] \in 1..Len(P)
                         /\ P[ix[k]].kind # "label" /\ path[k] = P[ix[k]]
      /\ \A j, k \in 1..L : j < k => ix[j] < ix[k]
      /\ \A i \in 1..Len(P) : P[i].kind # "label" => \E k \in 1..L : ix[k] = i
  BY <1>6, ElementOfSeq DEF Selects, plain
<1>9. M \in Nat /\ \A k \in 1..M : labels[k] \in EntriesTo(n) /\ labels[k].kind = "label"
  <2>1. /\ labels \in Seq(EntriesTo(n)) /\ M \in Nat
        /\ \A k \in 1..M : jx[k] \in held /\ labels[k] = t[jx[k]]
    BY <1>7 DEF Selects
  <2>2. \A k \in held : t[k].kind = "label"
    <3>1. \A e \in LabelsOf(t) : e.kind = "label"
      BY DEF LabelsOf
    <3> QED BY <3>1 DEF held
  <2> QED BY <2>1, <2>2, ElementOfSeq
<1>10. n + M \in Nat /\ n <= n + M /\ EntriesTo(n) \subseteq E
  BY <1>9, GrowsMore
<1>11. /\ LastId(path) = IF L = 0 THEN Root ELSE path[L].id
       /\ \A k \in 1..L : LastId(SubSeq(path, 1, k - 1)) = IF k = 1 THEN Root ELSE path[k - 1].id
  BY <1>8, LastIdIs
<1>12. \A k \in 1..L : path[k].id \in 1..n /\ path[k] \in E
  BY <1>8, <1>10 DEF EntriesTo
<1>13. ASSUME NEW k \in 1..L
       PROVE  /\ chained[k] \in E
              /\ chained[k].parent = IF k = 1 THEN Root ELSE path[k - 1].id
              /\ SameEntry(chained[k], path[k])
  <2> DEFINE q == LastId(SubSeq(path, 1, k - 1))
             e == path[k]
  <2>1. q = IF k = 1 THEN Root ELSE path[k - 1].id
    BY <1>11
  <2>2. k # 1 => k - 1 \in 1..L
    BY <1>8
  <2>3. q \in 0..n + M
    <3> HIDE DEF q
    <3> QED BY <1>10, <1>12, <2>1, <2>2 DEF Root
  <2>4. chained[k] = [e EXCEPT !.parent = q]
    OBVIOUS
  <2> HIDE DEF q, chained, e
  <2>5. e \in E
    BY <1>12 DEF e
  <2>6. chained[k] \in E /\ chained[k].parent = q /\ SameEntry(chained[k], e)
    BY <2>3, <2>4, <2>5 DEF EntriesTo, SameEntry
  <2> QED BY <2>1, <2>6 DEF e
<1>14. ASSUME NEW k \in 1..M
       PROVE  /\ again[k] \in E /\ again[k].id = n + k /\ again[k].kind = "label"
              /\ again[k].parent = IF k = 1 THEN LastId(path) ELSE n + k - 1
  <2> DEFINE q == IF k = 1 THEN LastId(path) ELSE n + k - 1
             i == n + k
             e == labels[k]
  <2>1. LastId(path) \in 0..n + M
    <3>1. L # 0 => L \in 1..L
      BY <1>8
    <3> QED BY <1>10, <1>11, <1>12, <3>1 DEF Root
  <2>2. n + k \in 1..n + M /\ (k # 1 => n + k - 1 \in 0..n + M)
    BY <1>9
  <2>3. q \in 0..n + M /\ i \in 1..n + M
    BY <2>1, <2>2
  <2>4. again[k] = [e EXCEPT !.id = i, !.parent = q]
    OBVIOUS
  <2>5. e \in E /\ e.kind = "label"
    BY <1>9, <1>10
  <2> HIDE DEF q, i, e, again
  <2>6. again[k] \in E /\ again[k].id = i /\ again[k].kind = "label" /\ again[k].parent = q
    BY <2>3, <2>4, <2>5 DEF EntriesTo
  <2> QED BY <2>6 DEF q, i
<1>15. chained \in Seq(E) /\ Len(chained) = L /\ again \in Seq(E) /\ Len(again) = M
  <2>1. chained = [k \in 1..L |-> chained[k]] /\ again = [k \in 1..M |-> again[k]]
    OBVIOUS
  <2> HIDE DEF chained, again
  <2> QED BY <1>8, <1>9, <1>13, <1>14, <2>1, SeqDef, LenProperties
<1> HIDE DEF chained, again, E, L, M
<1>16. /\ all \in Seq(E) /\ Len(all) = L + M
       /\ \A i \in 1..L + M : all[i] = IF i <= L THEN chained[i] ELSE again[i - L]
  <2> DEFINE u == chained \o again
  <2>1. /\ u \in Seq(E) /\ Len(u) = Len(chained) + Len(again)
        /\ \A i \in 1..Len(chained) + Len(again) :
              u[i] = IF i <= Len(chained) THEN chained[i] ELSE again[i - Len(chained)]
    BY <1>15, ConcatProperties
  <2> HIDE DEF u
  <2>2. all = u
    BY <1>3 DEF u
  <2> QED BY <1>15, <2>1, <2>2
<1>17. ASSUME NEW k \in 1..L
       PROVE  /\ all[k].id = path[k].id /\ all[k].id \in 1..n
              /\ all[k].parent = IF k = 1 THEN Root ELSE all[k - 1].id
              /\ SameEntry(all[k], P[ix[k]])
  <2>1. \A i \in 1..L : all[i] = chained[i] /\ all[i].id = path[i].id
    <3>1. \A i \in 1..L : i \in 1..L + M /\ i <= L
      BY <1>8, <1>9
    <3> QED BY <1>13, <1>16, <3>1 DEF SameEntry
  <2>2. k # 1 => k - 1 \in 1..L
    BY <1>8
  <2>3. all[k].parent = IF k = 1 THEN Root ELSE all[k - 1].id
    BY <1>13, <2>1, <2>2
  <2> QED BY <1>8, <1>12, <1>13, <2>1, <2>3
<1>18. ASSUME NEW k \in 1..L + M, k > L
       PROVE  /\ all[k].id = n + (k - L) /\ all[k].kind = "label"
              /\ all[k].parent = IF k = 1 THEN Root ELSE all[k - 1].id
  <2>1. \A j \in 1..L + M : j > L => j - L \in 1..M /\ all[j] = again[j - L]
    BY <1>8, <1>9, <1>16
  <2>2. \A j \in 1..L + M : j > L => all[j].id = n + (j - L)
    BY <1>14, <2>1
  <2>3. all[k].kind = "label"
    BY <1>14, <1>18, <2>1
  <2>4. CASE k = L + 1
    <3>1. k - L = 1 /\ all[k].parent = LastId(path) /\ (k = 1 <=> L = 0) /\ k - 1 = L
      BY <1>8, <1>14, <1>18, <2>1, <2>4
    <3>2. L # 0 => all[L].id = path[L].id
      <4>1. L # 0 => L \in 1..L
        BY <1>8
      <4> QED BY <1>17, <4>1
    <3> QED BY <1>11, <1>18, <2>2, <2>3, <3>1, <3>2
  <2>5. CASE k # L + 1
    <3>1. k - 1 \in 1..L + M /\ k - 1 > L /\ k - L # 1 /\ k # 1
          /\ (k - 1) - L = (k - L) - 1
      BY <1>8, <1>9, <1>18, <2>5
    <3>2. all[k].parent = n + (k - L) - 1
      BY <1>14, <1>18, <2>1, <3>1
    <3>3. all[k - 1].id = n + ((k - 1) - L)
      BY <2>2, <3>1
    <3>4. n + (k - L) - 1 = n + ((k - 1) - L)
      BY <1>8, <1>9
    <3> QED BY <1>18, <2>2, <2>3, <3>1, <3>2, <3>3, <3>4
  <2> QED BY <2>4, <2>5
<1>19. \A k \in 1..Len(all) : k \in 1..L \/ (k \in 1..L + M /\ k > L)
  BY <1>8, <1>9, <1>16
<1>20. Linear(all)
  BY <1>17, <1>18, <1>19 DEF Linear
<1>21. ASSUME NEW j \in 1..Len(all), NEW k \in 1..Len(all), j < k
       PROVE  all[j].id < all[k].id
  <2>1. CASE k \in 1..L
    <3>1. j \in 1..L /\ ix[j] < ix[k] /\ ix[j] \in 1..Len(P) /\ ix[k] \in 1..Len(P)
      BY <1>8, <1>21, <2>1
    <3>2. P[ix[j]].id < P[ix[k]].id
      BY <1>2, <3>1
    <3> QED BY <1>17, <2>1, <3>1, <3>2 DEF SameEntry
  <2>2. CASE k > L /\ j \in 1..L
    <3>1. all[k].id = n + (k - L) /\ k - L > 0 /\ k - L \in Nat
      BY <1>8, <1>16, <1>18, <1>19, <2>2
    <3> QED BY <1>17, <2>2, <3>1
  <2>3. CASE k > L /\ j > L
    <3>1. all[k].id = n + (k - L) /\ all[j].id = n + (j - L)
      BY <1>16, <1>18, <2>3
    <3> QED BY <1>8, <1>21, <3>1
  <2> QED BY <1>8, <1>19, <2>1, <2>2, <2>3
<1>22. Sane(all)
  <2>1. Mirrors(all, L, ix, P)
    <3>1. \A i, j \in 1..Len(P) : P[i].id = P[j].id => i = j
      <4> SUFFICES ASSUME NEW i \in 1..Len(P), NEW j \in 1..Len(P), P[i].id = P[j].id
                   PROVE  i = j
        OBVIOUS
      <4>1. P[i].id \in Int /\ P[j].id \in Int
        BY <1>2, SMTT(40) DEF EntriesTo
      <4>2. ~(i < j) /\ ~(j < i)
        BY <1>2, <4>1
      <4> QED BY <4>2
    <3>2. \A k \in 1..L : ix[k] \in 1..Len(P) /\ SameEntry(all[k], P[ix[k]])
      BY <1>8, <1>17
    <3> QED BY <1>2, <1>8, <3>1, <3>2 DEF Mirrors
  <2>2. \A k \in 1..L : SaneAt(all, k)
    BY <1>1, <2>1, MirrorSane
  <2>3. \A k \in 1..L + M : k > L => SaneAt(all, k)
    BY <1>18 DEF SaneAt
  <2> QED BY <1>19, <2>2, <2>3 DEF Sane
<1>23. Sound(all, n + M)
  <2> HIDE DEF n
  <2>1. all \in Seq(EntriesTo(n + M)) /\ n + M \in Nat
    BY <1>10, <1>16 DEF E
  <2> QED BY <1>20, <1>21, <1>22, <2>1, LinearSound
<1>24. Cardinality({k \in 1..Len(all) : all[k].id > n}) = M
  <2>1. {k \in 1..Len(all) : all[k].id > n} = L + 1..L + M
    <3>1. ASSUME NEW k \in 1..Len(all) PROVE all[k].id > n <=> k > L
      <4>1. CASE k \in 1..L
        BY <1>8, <1>17, <4>1
      <4>2. CASE k \in 1..L + M /\ k > L
        BY <1>8, <1>18, <4>2
      <4> QED BY <1>19, <4>1, <4>2
    <3> QED BY <1>8, <1>9, <1>16, <3>1
  <2>2. Cardinality(L + 1..L + M) = M
    <3>1. L + 1 \in Int /\ L + M \in Int
      BY <1>8, <1>9
    <3>2. Cardinality(L + 1..L + M) =
             IF L + 1 <= L + M THEN (L + M) - (L + 1) + 1 ELSE 0
      BY <3>1, FS_Interval
    <3> QED BY <1>8, <1>9, <3>2
  <2> QED BY <2>1, <2>2
<1>25. LastId(all) \in {Root} \cup IdsOf(all)
  <2>1. LastId(all) = IF Len(all) = 0 THEN Root ELSE all[Len(all)].id
    BY <1>16, LastIdIs
  <2>2. Len(all) # 0 => Len(all) \in 1..Len(all)
    BY <1>8, <1>9, <1>16
  <2> QED BY <2>1, <2>2 DEF IdsOf
<1> QED BY <1>9, <1>10, <1>23, <1>24, <1>25

\* The steps that take up another session.
LEMMA SessionTrees ==
    ASSUME Trees, left' \in Budget, left.made \in Nat, left'.made \in Nat,
           left.made <= left'.made,
           Sound(entries', left'.made), leaf' \in {Root} \cup IdsOf(entries'),
           \A s \in DOMAIN files' :
              files'[s] = entries' \/ (s \in DOMAIN files /\ files'[s] = files[s])
    PROVE  Trees'
<1>1. \A s \in DOMAIN files : Sound(files[s], left'.made)
  BY GrowsMore DEF Trees
<1>2. \A s \in DOMAIN files' : Sound(files'[s], left'.made)
  BY <1>1
<1> QED BY <1>2 DEF Trees, Sound, Grows, IdsOf, Sane, SaneAt, Branch

LEMMA EmptySound == ASSUME NEW n \in Nat PROVE Sound(<<>>, n)
BY EmptySeq DEF Sound, Grows, IdsOf

\* A step that only spends a session.
LEMMA SpendSession ==
    ASSUME Trees, Spend(0, {"sessions"})
    PROVE  left' \in Budget /\ left.made \in Nat /\ left'.made = left.made
<1>1. left' \in Budget /\ left'.made = left.made + 0 /\ left.made \in Nat
  BY SpendData DEF Trees
<1> QED BY <1>1

LEMMA EmptyWorks ==
    ASSUME Trees, Empty
    PROVE  Trees' /\ left'.made \in Nat
<1>1. entries' = <<>> /\ leaf' = Root /\ files' = files /\ Spend(0, {"sessions"})
  BY DEF Empty
<1>2. left' \in Budget /\ left.made \in Nat /\ left'.made = left.made
  BY <1>1, SpendSession
<1>3. Sound(entries', left'.made)
  BY <1>1, <1>2, EmptySound
<1>4. Trees'
  BY <1>1, <1>2, <1>3, SessionTrees
<1> QED BY <1>2, <1>4

LEMMA CopyBranchWorks ==
    ASSUME IInv, Trees, NEW from \in IdsOf(entries), CopyBranch(from)
    PROVE  Trees' /\ left'.made \in Nat
<1> DEFINE all == Branched(files[session], from)
           m == Cardinality({k \in 1..Len(all) : all[k].id > left.made})
<1>1. /\ session \in DOMAIN files /\ entries' = all /\ leaf' = LastId(all)
      /\ files' = IF HasAssistant(all) THEN Written(FreshSession, all) ELSE files
      /\ Spend(m, {"sessions"})
  BY Zenon DEF CopyBranch
<1>2. files[session] = entries
  BY <1>1, Before
<1>3. left.made \in Nat /\ Sound(entries, left.made)
  BY DEF Trees, Budget
<1>4. all = Branched(entries, from)
  BY <1>2
<1> HIDE DEF all
<1>5. /\ left.made + m \in Nat /\ left.made <= left.made + m /\ Sound(all, left.made + m)
      /\ m \in Nat /\ LastId(all) \in {Root} \cup IdsOf(all)
  BY <1>3, <1>4, BranchedSound
<1> HIDE DEF m
<1>6. left' \in Budget /\ left'.made = left.made + m
  BY <1>1, <1>5, SpendData DEF Trees
<1>7. \A s \in DOMAIN files' :
         files'[s] = entries' \/ (s \in DOMAIN files /\ files'[s] = files[s])
  BY <1>1 DEF Written
<1>8. Sound(entries', left'.made) /\ leaf' \in {Root} \cup IdsOf(entries')
  BY <1>1, <1>5, <1>6
<1>9. Trees'
  BY <1>3, <1>5, <1>6, <1>7, <1>8, SessionTrees
<1> QED BY <1>5, <1>6, <1>9

LEMMA NewSessionWorks ==
    ASSUME IInv, Trees, Working, NewSession
    PROVE  Trees' /\ Working'
<1>1. Trees' /\ left'.made \in Nat /\ run' = "idle" /\ pending' = NoCompaction
  BY EmptyWorks DEF NewSession, StopRun
<1> QED BY <1>1, WorkingPlain

LEMMA OpenWorks ==
    ASSUME IInv, Trees, Working, Open
    PROVE  Trees' /\ Working'
<1>1. PICK s \in DOMAIN files : entries' = files[s] /\ leaf' = LastId(files[s])
  BY DEF Open
<1>2. /\ Spend(0, {"sessions"}) /\ files' = files /\ run' = "idle" /\ pending' = NoCompaction
  BY DEF Open, StopRun
<1>3. left' \in Budget /\ left.made \in Nat /\ left'.made = left.made
  BY <1>2, SpendSession
<1>4. Sound(files[s], left.made)
  BY DEF Trees
<1>5. leaf' \in {Root} \cup IdsOf(entries')
  <2> DEFINE t == files[s]
  <2>1. t \in Seq(EntriesTo(left.made)) /\ Len(t) \in Nat
    BY <1>4, LenProperties DEF Sound, Grows
  <2> HIDE DEF t
  <2>2. LastId(t) = IF Len(t) = 0 THEN Root ELSE t[Len(t)].id
    BY <2>1, LastIdIs
  <2>3. Len(t) # 0 => Len(t) \in 1..Len(t)
    BY <2>1
  <2>4. LastId(t) \in {Root} \cup IdsOf(t)
    BY <2>2, <2>3 DEF IdsOf
  <2> QED BY <1>1, <2>4 DEF t
<1>6. Sound(entries', left'.made)
  BY <1>1, <1>3, <1>4
<1>7. Trees'
  BY <1>2, <1>3, <1>5, <1>6, SessionTrees
<1> QED BY <1>2, <1>3, <1>7, WorkingPlain

LEMMA ForkWorks ==
    ASSUME IInv, Trees, Working, Fork
    PROVE  Trees' /\ Working'
<1>1. PICK e \in {entries[k] : k \in 1..Len(entries)} :
         IF e.parent = Root THEN Empty ELSE CopyBranch(e.parent)
  BY DEF Fork
<1>2. run' = "idle" /\ pending' = NoCompaction
  BY DEF Fork, StopRun
<1>3. CASE e.parent = Root
  BY <1>1, <1>2, <1>3, EmptyWorks, WorkingPlain
<1>4. CASE e.parent # Root
  <2>1. PICK k \in 1..Len(entries) : e = entries[k]
    BY <1>1
  <2>2. Grows(entries, left.made) /\ Len(entries) \in Nat
    BY LeafBounded, IndexFacts
  <2>3. \A j \in 1..k - 1 : j \in 1..Len(entries)
    BY <2>2
  <2>4. e.parent \in IdsOf(entries)
    BY <1>4, <2>1, <2>2, <2>3 DEF Grows, IdsOf
  <2>5. Trees' /\ left'.made \in Nat
    BY <1>1, <1>4, <2>4, CopyBranchWorks
  <2> QED BY <1>2, <2>5, WorkingPlain
<1> QED BY <1>3, <1>4

LEMMA CloneWorks ==
    ASSUME IInv, Trees, Working, Clone
    PROVE  Trees' /\ Working'
<1>1. CopyBranch(leaf) /\ leaf # Root /\ run' = "idle" /\ pending' = NoCompaction
  BY DEF Clone, StopRun
<1>2. leaf \in IdsOf(entries)
  BY <1>1 DEF Trees
<1>3. Trees' /\ left'.made \in Nat
  BY <1>1, <1>2, CopyBranchWorks
<1> QED BY <1>1, <1>3, WorkingPlain

LEMMA EnsureSessionFileWorks ==
    ASSUME IInv, Trees, Working, EnsureSessionFile
    PROVE  Trees' /\ Working'
<1>1. /\ entries = <<>> /\ files' = Written(session, entries) /\ Spend(0, {"sessions"})
      /\ entries' = entries /\ leaf' = leaf /\ run' = run /\ pending' = pending
  BY DEF EnsureSessionFile
<1>2. left' \in Budget /\ left.made \in Nat /\ left'.made = left.made
  BY <1>1, SpendSession
<1>3. \A s \in DOMAIN files' :
         files'[s] = entries' \/ (s \in DOMAIN files /\ files'[s] = files[s])
  BY <1>1 DEF Written
<1>4. Sound(entries', left'.made) /\ leaf' \in {Root} \cup IdsOf(entries')
  BY <1>1, <1>2 DEF Trees
<1>5. Trees'
  BY <1>2, <1>3, <1>4, SessionTrees
<1>6. Here' = Here
  BY <1>1 DEF Here
<1>7. (Prepares(entries, pending) => Prepares(entries', pending))
      /\ (run = "result" => Called(Here', Len(Here')))
  BY <1>1, <1>6 DEF Working
<1> QED BY <1>1, <1>2, <1>5, <1>7, WorkingKept

-----------------------------------------------------------------------------
(* The invariant, and what follows from it.                                 *)

Holds == IInv /\ Trees /\ Working

LEMMA HoldsInitially == Init => Holds
<1> SUFFICES ASSUME Init PROVE Holds
  OBVIOUS
<1>1. left \in Budget /\ left.made \in Nat
  BY SessionTreeAssumption DEF Init, Budget
<1>2. IInv
  BY InitHolds
<1>3. Trees
  BY <1>1, EmptySound DEF Init, Trees
<1>4. NoCompaction \in Compaction(left.made)
  BY <1>1 DEF NoCompaction, Compaction, Root
<1>5. Working
  BY <1>4 DEF Init, Working
<1> QED BY <1>2, <1>3, <1>5 DEF Holds

LEMMA HoldsNext == Holds /\ [Next]_vars => Holds'
<1> SUFFICES ASSUME IInv, Trees, Working, [Next]_vars PROVE Holds'
  BY DEF Holds
<1>1. IInv'
  BY NextInvariant
<1>2. Trees' /\ Working'
  <2>1. CASE UNCHANGED vars
    <3>1. /\ left' = left /\ entries' = entries /\ files' = files /\ leaf' = leaf
          /\ run' = run /\ pending' = pending
      BY <2>1 DEF vars
    <3>2. leaf' \in {Root} \cup IdsOf(entries)
      BY <3>1 DEF Trees
    <3>3. Trees' /\ left.made \in Nat /\ left'.made = left.made
      BY <3>1, <3>2, TreesKept
    <3>4. Here' = Here
      BY <3>1 DEF Here
    <3>5. (Prepares(entries, pending) => Prepares(entries', pending))
          /\ (run = "result" => Called(Here', Len(Here')))
      BY <3>1, <3>4 DEF Working
    <3> QED BY <3>1, <3>3, <3>5, WorkingKept
  <2>2. CASE Prompt
    BY <2>2, PromptWorks
  <2>3. CASE Answer
    BY <2>3, AnswerWorks
  <2>4. CASE ToolResult
    BY <2>4, ToolResultWorks
  <2>5. CASE Bash
    BY <2>5, BashWorks
  <2>6. CASE AppendMeta
    BY <2>6, AppendMetaWorks
  <2>7. CASE AppendLabel
    BY <2>7, AppendLabelWorks
  <2>8. CASE StartCompaction
    BY <2>8, StartCompactionWorks
  <2>9. CASE FinishCompaction
    BY <2>9, FinishCompactionWorks
  <2>10. CASE FailCompaction
    BY <2>10, FailCompactionWorks
  <2>11. CASE Navigate
    BY <2>11, NavigateWorks
  <2>12. CASE NewSession
    BY <2>12, NewSessionWorks
  <2>13. CASE Open
    BY <2>13, OpenWorks
  <2>14. CASE Fork
    BY <2>14, ForkWorks
  <2>15. CASE Clone
    BY <2>15, CloneWorks
  <2>16. CASE EnsureSessionFile
    BY <2>16, EnsureSessionFileWorks
  <2> QED BY <2>1, <2>2, <2>3, <2>4, <2>5, <2>6, <2>7, <2>8, <2>9, <2>10, <2>11, <2>12,
             <2>13, <2>14, <2>15, <2>16 DEF Next
<1> QED BY <1>1, <1>2, Zenon DEF Holds

\* Whatever happens, the invariant of the trees holds: ids grow along each file,
\* each branch answers its calls, and each compaction of it keeps from a place
\* where nothing was cut apart.
THEOREM TreesInvariant == Spec => []Holds
BY HoldsInitially, HoldsNext, PTL DEF Spec

\* Entries of one session, in memory or in a file, form a tree with an id each.
LEMMA GrowsTree ==
    ASSUME left.made \in Nat, NEW t, Grows(t, left.made)
    PROVE  Tree(t)
<1>1. t \in Seq(EntriesTo(left.made)) /\ Len(t) \in Nat
      /\ \A k \in 1..Len(t) : t[k] \in EntriesTo(left.made)
  BY LenProperties, ElementOfSeq DEF Grows
<1> SUFFICES ASSUME NEW k \in 1..Len(t)
             PROVE  /\ t[k].kind \in Kinds
                    /\ t[k].parent \in {Root} \cup IdsOf(SubSeq(t, 1, k - 1))
                    /\ t[k].id \notin IdsOf(SubSeq(t, 1, k - 1))
                    /\ t[k].told \subseteq 1..left.made
  BY DEF Tree
<1>2. IdsOf(SubSeq(t, 1, k - 1)) = {t[i].id : i \in 1..k - 1}
  <2>1. k \in 1..Len(t) + 1
    BY <1>1
  <2> QED BY <1>1, <2>1, FrontFacts
<1>3. t[k].kind \in Kinds /\ t[k].told \subseteq 1..left.made
  BY <1>1 DEF EntriesTo
<1>4. t[k].parent \in {Root} \cup {t[i].id : i \in 1..k - 1}
  BY DEF Grows
<1>5. ASSUME NEW i \in 1..k - 1 PROVE t[k].id # t[i].id
  <2>1. i \in 1..Len(t) /\ i < k
    BY <1>1
  <2>2. t[i].id < t[k].id
    BY <2>1 DEF Grows
  <2>3. t[i] \in EntriesTo(left.made) /\ t[k] \in EntriesTo(left.made)
    BY <1>1, <2>1
  <2>4. t[i].id \in 1..left.made /\ t[k].id \in 1..left.made
    BY <2>3 DEF EntriesTo
  <2> QED BY <2>2, <2>4
<1> QED BY <1>2, <1>3, <1>4, <1>5

\* The state of the session manager is well formed, in memory and in every
\* file: the entries form a tree and the leaf is one of them.
THEOREM TypesAlwaysOK == Spec => []TypeOK
<1>1. Holds => TypeOK
  <2> SUFFICES ASSUME IInv, Trees, Working PROVE TypeOK
    BY DEF Holds
  <2>1. left.made \in Nat /\ Grows(entries, left.made)
        /\ \A s \in DOMAIN files : Grows(files[s], left.made)
    BY DEF Trees, Budget, Sound
  <2>2. Tree(entries) /\ \A s \in DOMAIN files : Tree(files[s])
    BY <2>1, GrowsTree
  <2>3. leaf \in {Root} \cup IdsOf(entries)
    BY DEF Trees
  <2>4. flushed \in BOOLEAN
    BY DEF IInv
  <2>5. session \in Nat \ {0}
    BY DEF IInv, NamesFree
  <2>6. run \in {"idle", "answer", "result"} /\ pending.keep \in 0..left.made
    BY DEF Working, Compaction
  <2> QED BY <2>2, <2>3, <2>4, <2>5, <2>6 DEF TypeOK
<1> QED BY <1>1, TreesInvariant, PTL

-----------------------------------------------------------------------------
(* What the model is given of a branch.                                     *)

KeptFrom(path, c) == IndexOf(SubSeq(path, 1, c - 1), path[c].ref)

Kept(path, c) ==
    IF KeptFrom(path, c) = 0 THEN <<>> ELSE SubSeq(path, KeptFrom(path, c), c - 1)

Behind(path, c) == (<<path[c]>> \o Kept(path, c)) \o SubSeq(path, c + 1, Len(path))

LEMMA ContextIs ==
    ASSUME NEW S, NEW path \in Seq(S)
    PROVE  LET c == LatestCompaction(path)
               chosen == IF c = 0 THEN path ELSE Behind(path, c)
           IN  Context(path) = Picked(chosen, {k \in 1..Len(chosen) : InContext(chosen[k])})
BY Zenon DEF Context, Behind, Kept, KeptFrom

\* The entry that a compaction keeps from, if it is there.
LEMMA KeptFromIs ==
    ASSUME NEW n \in Nat, NEW path \in Seq(EntriesTo(n)), NEW c \in 1..Len(path),
           \A i, j \in 1..Len(path) : i < j => path[i].id < path[j].id
    PROVE  /\ KeptFrom(path, c) \in 0..c - 1
           /\ KeptFrom(path, c) # 0 => Keeps(path, c)
           /\ \A r \in 1..c - 1 : path[r].id = path[c].ref => KeptFrom(path, c) = r
<1> DEFINE q == SubSeq(path, 1, c - 1)
<1>1. Len(path) \in Nat /\ c \in 1..Len(path) + 1
  BY LenProperties
<1>2. q \in Seq(EntriesTo(n)) /\ Len(q) = c - 1 /\ \A i \in 1..c - 1 : q[i] = path[i]
  BY <1>1, FrontFacts
<1> HIDE DEF q
<1>3. Len(q) \in Nat /\ \A k \in 1..Len(q) : q[k] \in EntriesTo(n)
  BY <1>2, LenProperties, ElementOfSeq
<1>4. \A i, j \in 1..Len(q) : i < j => q[i].id < q[j].id
  BY <1>1, <1>2, SMTT(40)
<1>5. /\ \A k \in 1..Len(q) : IndexOf(q, q[k].id) = k
      /\ \A i : IndexOf(q, i) = 0 \/ (IndexOf(q, i) \in 1..Len(q) /\ q[IndexOf(q, i)].id = i)
  BY <1>3, <1>4, DistinctIndex
<1>6. KeptFrom(path, c) = IndexOf(q, path[c].ref)
  BY DEF KeptFrom, q
<1> QED BY <1>1, <1>2, <1>5, <1>6, SMTT(40) DEF Keeps

LEMMA Shifted ==
    ASSUME NEW l \in Nat, NEW b \in Nat, NEW y \in 1..b
    PROVE  /\ 1 + l + y \in 1..(1 + l) + b /\ ~(1 + l + y <= 1 + l)
           /\ (1 + l + y) - (1 + l) = y
OBVIOUS

\* Where the entries of the context are on the branch: the compaction, l entries
\* from the first one kept, and what is behind the compaction.
Arranged(u, S, path, c, first, l) ==
    /\ u \in Seq(S) /\ Len(u) = 1 + l + (Len(path) - c) /\ l \in Nat /\ Len(path) \in Nat
    /\ u[1] = path[c]
    /\ \A y \in 1..l : u[1 + y] = path[first + y - 1]
    /\ \A y \in 1..Len(path) - c : u[1 + l + y] = path[c + y]

LEMMA BehindIs ==
    ASSUME NEW S, NEW path \in Seq(S), NEW c \in 1..Len(path),
           NEW first, first = KeptFrom(path, c), first \in 0..c - 1,
           NEW l, l = IF first = 0 THEN 0 ELSE c - first,
           NEW u, u = Behind(path, c)
    PROVE  Arranged(u, S, path, c, first, l)
<1> DEFINE one == <<path[c]>>
           k == Kept(path, c)
           v == one \o k
           w == SubSeq(path, c + 1, Len(path))
<1>1. Len(path) \in Nat /\ path[c] \in S /\ l \in Nat /\ \A i \in 1..Len(path) : path[i] \in S
  BY LenProperties, ElementOfSeq
<1>2. one \in Seq(S) /\ Len(one) = 1 /\ one[1] = path[c]
  BY <1>1
<1>3. k \in Seq(S) /\ Len(k) = l /\ \A y \in 1..l : k[y] = path[first + y - 1]
  <2>1. CASE first = 0
    BY <2>1, EmptySeq DEF Kept
  <2>2. CASE first # 0
    <3>1. k = SubSeq(path, first, c - 1)
      BY <2>2 DEF Kept
    <3>2. first \in 1..Len(path) + 1 /\ c - 1 \in first - 1..Len(path)
          /\ (c - 1) - first + 1 = l
      BY <1>1, <2>2
    <3>3. LET z == SubSeq(path, first, c - 1)
          IN  /\ z \in Seq(S) /\ Len(z) = (c - 1) - first + 1
              /\ \A y \in 1..(c - 1) - first + 1 : z[y] = path[(first - 1) + y]
      BY <3>2, Part
    <3>4. \A y \in 1..l : (first - 1) + y = first + y - 1
      BY <1>1
    <3> QED BY <3>1, <3>2, <3>3, <3>4
  <2> QED BY <2>1, <2>2
<1>4. w \in Seq(S) /\ Len(w) = Len(path) - c /\ \A y \in 1..Len(path) - c : w[y] = path[c + y]
  <2>1. c + 1 \in 1..Len(path) + 1 /\ Len(path) \in (c + 1) - 1..Len(path)
        /\ Len(path) - (c + 1) + 1 = Len(path) - c
    BY <1>1
  <2>2. w \in Seq(S) /\ Len(w) = Len(path) - c
        /\ \A y \in 1..Len(path) - c : w[y] = path[((c + 1) - 1) + y]
    <3> DEFINE f == c + 1
               z == Len(path)
    <3>1. f \in 1..Len(path) + 1 /\ z \in f - 1..Len(path)
      BY <2>1
    <3> HIDE DEF f, z
    <3>2. LET x == SubSeq(path, f, z)
          IN  /\ x \in Seq(S) /\ Len(x) = z - f + 1
              /\ \A y \in 1..z - f + 1 : x[y] = path[(f - 1) + y]
      BY <3>1, Part
    <3> QED BY <2>1, <3>2 DEF f, z
  <2>3. \A y \in 1..Len(path) - c : ((c + 1) - 1) + y = c + y
    BY <1>1
  <2> QED BY <2>2, <2>3
<1>5. u = v \o w
  BY DEF Behind
<1> HIDE DEF one, k, w
<1>6. /\ v \in Seq(S) /\ Len(v) = Len(one) + Len(k)
      /\ \A i \in 1..Len(one) + Len(k) :
            v[i] = IF i <= Len(one) THEN one[i] ELSE k[i - Len(one)]
  BY <1>2, <1>3, ConcatProperties
<1> HIDE DEF v
<1>7. Len(v) = 1 + l /\ v[1] = path[c] /\ \A y \in 1..l : v[1 + y] = path[first + y - 1]
  <2>1. Len(v) = 1 + l /\ v[1] = path[c]
    BY <1>1, <1>2, <1>3, <1>6
  <2>2. ASSUME NEW y \in 1..l PROVE v[1 + y] = path[first + y - 1]
    <3>1. 1 + y \in 1..Len(one) + Len(k) /\ ~(1 + y <= Len(one)) /\ (1 + y) - Len(one) = y
      BY <1>1, <1>2, <1>3
    <3> QED BY <1>3, <1>6, <3>1
  <2> QED BY <2>1, <2>2
<1> DEFINE x == v \o w
<1>8. /\ x \in Seq(S) /\ Len(x) = Len(v) + Len(w)
      /\ \A i \in 1..Len(v) + Len(w) :
            x[i] = IF i <= Len(v) THEN v[i] ELSE w[i - Len(v)]
  <2>1. v \in Seq(S) /\ w \in Seq(S)
    BY <1>4, <1>6
  <2> QED BY <2>1, ConcatProperties
<1>9. x = u
  BY <1>5
<1> HIDE DEF x
<1>10. u[1] = path[c] /\ \A y \in 1..l : u[1 + y] = path[first + y - 1]
  <2>1. \A y \in 0..l : 1 + y \in 1..Len(v) + Len(w) /\ 1 + y <= Len(v)
    BY <1>1, <1>4, <1>7
  <2>2. \A y \in 0..l : u[1 + y] = v[1 + y]
    BY <1>8, <1>9, <2>1
  <2>3. 0 \in 0..l /\ 1 + 0 = 1 /\ \A y \in 1..l : y \in 0..l
    BY <1>1
  <2>4. u[1] = v[1]
    BY <2>2, <2>3
  <2> QED BY <1>7, <2>2, <2>3, <2>4
<1>11. ASSUME NEW y \in 1..Len(path) - c PROVE u[1 + l + y] = path[c + y]
  <2>1. 1 + l + y \in 1..Len(v) + Len(w) /\ ~(1 + l + y <= Len(v)) /\ (1 + l + y) - Len(v) = y
    <3>1. Len(v) = 1 + l /\ Len(w) = Len(path) - c /\ l \in Nat /\ Len(path) \in Nat
      BY <1>1, <1>4, <1>7
    <3>2. Len(w) \in Nat /\ y \in 1..Len(w)
      BY <3>1
    <3>3. /\ 1 + l + y \in 1..(1 + l) + Len(w) /\ ~(1 + l + y <= 1 + l)
          /\ (1 + l + y) - (1 + l) = y
      BY <3>1, <3>2, Shifted
    <3> QED BY <3>1, <3>3
  <2> QED BY <1>4, <1>8, <1>9, <2>1
<1>12. u \in Seq(S) /\ Len(u) = 1 + l + (Len(path) - c)
  BY <1>4, <1>7, <1>8, <1>9
<1> QED BY <1>1, <1>10, <1>11, <1>12 DEF Arranged

\* What is picked for the model: every message, and each result behind its call.
LEMMA GivenIs ==
    ASSUME NEW S, NEW chosen \in Seq(S),
           NEW ctx, ctx = Picked(chosen, {k \in 1..Len(chosen) : InContext(chosen[k])})
    PROVE  /\ \A y \in 1..Len(chosen) : InContext(chosen[y]) => chosen[y].id \in IdsOf(ctx)
           /\ (\A y \in 1..Len(chosen) : chosen[y].kind = "result" => Called(chosen, y - 1)) =>
                \A k \in 1..Len(ctx) : ctx[k].kind = "result" =>
                   \E j \in 1..k - 1 :
                      /\ ctx[j].kind = "call"
                      /\ \A i \in j + 1..k - 1 : ctx[i].kind \notin Assistants
<1> DEFINE at == {k \in 1..Len(chosen) : InContext(chosen[k])}
<1>1. Selected(ctx, S, chosen, at)
  BY PickedIs
<1>2. PICK ix : Selects(ctx, ix, S, chosen, at)
  BY <1>1 DEF Selected
<1>3. /\ Len(ctx) \in Nat /\ \A k \in 1..Len(ctx) : ix[k] \in at /\ ctx[k] = chosen[ix[k]]
      /\ \A j, k \in 1..Len(ctx) : j < k => ix[j] < ix[k]
      /\ \A i \in at : \E k \in 1..Len(ctx) : ix[k] = i
  BY <1>2 DEF Selects
<1>4. Len(chosen) \in Nat
  BY LenProperties
<1>5. ASSUME NEW y \in 1..Len(chosen), InContext(chosen[y]) PROVE chosen[y].id \in IdsOf(ctx)
  <2>1. PICK k \in 1..Len(ctx) : ix[k] = y
    BY <1>3, <1>5
  <2> QED BY <1>3, <2>1 DEF IdsOf
<1>6. ASSUME \A y \in 1..Len(chosen) : chosen[y].kind = "result" => Called(chosen, y - 1),
             NEW k \in 1..Len(ctx), ctx[k].kind = "result"
      PROVE  \E j \in 1..k - 1 :
                /\ ctx[j].kind = "call"
                /\ \A i \in j + 1..k - 1 : ctx[i].kind \notin Assistants
  <2>1. ix[k] \in 1..Len(chosen) /\ Called(chosen, ix[k] - 1)
    BY <1>3, <1>6
  <2>2. PICK y \in 1..ix[k] - 1 : /\ chosen[y].kind = "call"
                                  /\ \A x \in y + 1..ix[k] - 1 : chosen[x].kind \in Attached
    BY <2>1 DEF Called
  <2>3. y \in 1..Len(chosen) /\ y < ix[k] /\ y \in at
    BY <1>4, <2>1, <2>2 DEF InContext, Messages, Assistants
  <2>4. PICK j \in 1..Len(ctx) : ix[j] = y
    BY <1>3, <2>3
  <2>5. j \in 1..k - 1
    <3>1. ~(k < j) /\ k # j
      <4>1. k < j => ix[k] < ix[j]
        BY <1>3
      <4>2. ix[k] \in Int /\ ix[j] \in Int /\ ix[j] < ix[k]
        BY <2>1, <2>3, <2>4
      <4> QED BY <4>1, <4>2
    <3> QED BY <1>3, <3>1
  <2>6. ASSUME NEW i \in j + 1..k - 1 PROVE ctx[i].kind \notin Assistants
    <3>1. i \in 1..Len(ctx) /\ j < i /\ i < k
      BY <1>3
    <3>2. ix[j] < ix[i] /\ ix[i] < ix[k] /\ ix[i] \in at
      BY <1>3, <3>1
    <3>3. ix[i] \in y + 1..ix[k] - 1
      BY <2>1, <2>3, <2>4, <3>2
    <3>4. ctx[i].kind \in Attached
      BY <1>3, <2>2, <3>1, <3>3
    <3> QED BY <3>4 DEF Attached, Assistants
  <2>7. ctx[j].kind = "call"
    BY <1>3, <2>2, <2>4
  <2> QED BY <2>5, <2>6, <2>7
<1> QED BY <1>5, <1>6

LEMMA Thirds ==
    ASSUME NEW l \in Nat, NEW b \in Nat, NEW y \in 1..1 + l + b
    PROVE  y = 1 \/ (\E z \in 1..l : y = 1 + z) \/ (\E z \in 1..b : y = 1 + l + z)
<1>1. y = 1 \/ (y - 1 \in 1..l /\ y = 1 + (y - 1))
      \/ (y - (1 + l) \in 1..b /\ y = 1 + l + (y - (1 + l)))
  OBVIOUS
<1> QED BY <1>1

\* The z-th entry kept is at i, an entry j before it is the w-th.
Places(first, l, z, i, j, w) ==
    /\ first \in Nat /\ l \in Nat /\ z \in 1..l /\ i = first + z - 1
    /\ j \in 1..i - 1 /\ j >= first /\ w = j - first + 1

LEMMA PlacesAre ==
    ASSUME NEW first, NEW l, NEW z, NEW i, NEW j, NEW w, Places(first, l, z, i, j, w)
    PROVE  w \in 1..l /\ first + w - 1 = j /\ 1 + w \in 1..z
BY DEF Places

LEMMA PlacesBetween ==
    ASSUME NEW first, NEW l, NEW z, NEW i, NEW j, NEW w, Places(first, l, z, i, j, w),
           NEW x \in (1 + w) + 1..z
    PROVE  x - 1 \in 1..l /\ 1 + (x - 1) = x /\ first + (x - 1) - 1 \in j + 1..i - 1
BY DEF Places

\* What is kept from `first` to c begins with the message at m.
BeginsAt(path, first, c, m) ==
    /\ m \in first..c - 1 /\ path[m].kind \in Users \cup Assistants
    /\ \A j \in first..m - 1 : ~InContext(path[j])

\* A result behind a compaction is behind its call: the cut is never between
\* the two.
LEMMA CalledBehind ==
    ASSUME NEW S, NEW path \in Seq(S), NEW c \in 1..Len(path), path[c].kind = "compaction",
           Sane(path),
           NEW first, first = KeptFrom(path, c), first \in 0..c - 1,
           NEW m, first # 0 => BeginsAt(path, first, c, m),
           NEW u, u = Behind(path, c)
    PROVE  \A y \in 1..Len(u) : u[y].kind = "result" => Called(u, y - 1)
<1> DEFINE l == IF first = 0 THEN 0 ELSE c - first
           b == Len(path) - c
<1>8. l = IF first = 0 THEN 0 ELSE c - first
  OBVIOUS
<1> HIDE DEF l, b
<1>1. /\ u \in Seq(S) /\ Len(u) = 1 + l + b /\ l \in Nat /\ Len(path) \in Nat
      /\ u[1] = path[c]
      /\ \A y \in 1..l : u[1 + y] = path[first + y - 1]
      /\ \A y \in 1..b : u[1 + l + y] = path[c + y]
  <2>1. Arranged(u, S, path, c, first, l)
    BY <1>8, BehindIs
  <2> QED BY <2>1 DEF b, Arranged
<1>2. b \in Nat /\ c \in Nat /\ first \in Nat /\ (first # 0 => l = c - first) /\ (first = 0 => l = 0)
  BY <1>1, <1>8 DEF b
<1>3. ASSUME NEW y \in 1..Len(u)
      PROVE  y = 1 \/ (\E z \in 1..l : y = 1 + z) \/ (\E z \in 1..b : y = 1 + l + z)
  <2>1. y \in 1..1 + l + b
    BY <1>1
  <2> QED BY <1>1, <1>2, <2>1, Thirds
<1>4. ASSUME NEW i \in 1..Len(path), path[i].kind = "result"
      PROVE  \E j \in 1..i - 1 : /\ path[j].kind = "call"
                                 /\ \A x \in j + 1..i - 1 : path[x].kind \in Attached
  BY <1>4 DEF Sane, SaneAt, Called
<1>5. ASSUME NEW z \in 1..l, u[1 + z].kind = "result" PROVE Called(u, z)
  <2> DEFINE i == first + z - 1
  <2>1. first # 0 /\ i \in first..c - 1 /\ i \in 1..Len(path) /\ path[i].kind = "result"
    BY <1>1, <1>2, <1>5, SMTT(40)
  <2>2. PICK j \in 1..i - 1 : /\ path[j].kind = "call"
                              /\ \A x \in j + 1..i - 1 : path[x].kind \in Attached
    BY <1>4, <2>1
  <2>3. j >= first
    <3> SUFFICES ASSUME j < first PROVE FALSE
      BY <1>2
    <3>1. m \in first..c - 1 /\ path[m].kind \in Users \cup Assistants
          /\ \A x \in first..m - 1 : ~InContext(path[x])
      BY <2>1 DEF BeginsAt
    <3> HIDE DEF i
    <3>2. CASE m < i
      <4>1. m \in j + 1..i - 1
        BY <1>2, <2>1, <3>1, <3>2
      <4>2. path[m].kind \in Attached
        BY <2>2, <4>1
      <4> QED BY <3>1, <4>2 DEF Attached, Users, Assistants
    <3>3. CASE m = i
      BY <2>1, <3>1, <3>3 DEF Users, Assistants
    <3>4. CASE m > i
      <4>1. i \in first..m - 1
        BY <1>2, <2>1, <3>1, <3>4
      <4>2. ~InContext(path[i])
        BY <3>1, <4>1
      <4> QED BY <2>1, <4>2 DEF InContext, Messages
    <3> QED BY <2>1, <3>1, <3>2, <3>3, <3>4
  <2> DEFINE w == j - first + 1
  <2>4. Places(first, l, z, i, j, w)
    BY <1>1, <1>2, <2>2, <2>3 DEF Places
  <2> HIDE DEF i, w
  <2>7. w \in 1..l /\ first + w - 1 = j /\ 1 + w \in 1..z
    BY <2>4, PlacesAre
  <2>5. u[1 + w].kind = "call"
    BY <1>1, <2>2, <2>7
  <2>6. ASSUME NEW x \in (1 + w) + 1..z PROVE u[x].kind \in Attached
    <3>1. x - 1 \in 1..l /\ 1 + (x - 1) = x /\ first + (x - 1) - 1 \in j + 1..i - 1
      BY <2>4, PlacesBetween
    <3>2. u[x] = path[first + (x - 1) - 1]
      BY <1>1, <3>1
    <3> QED BY <2>2, <3>1, <3>2
  <2> QED BY <2>5, <2>6, <2>7 DEF Called
<1>6. ASSUME NEW z \in 1..b, u[1 + l + z].kind = "result" PROVE Called(u, l + z)
  <2> DEFINE i == c + z
  <2>1. i \in 1..Len(path) /\ path[i].kind = "result"
    <3>1. i \in 1..Len(path)
      BY <1>1 DEF b
    <3>2. u[1 + l + z] = path[i]
      BY <1>1
    <3> QED BY <1>6, <3>1, <3>2
  <2>2. PICK j \in 1..i - 1 : /\ path[j].kind = "call"
                              /\ \A x \in j + 1..i - 1 : path[x].kind \in Attached
    BY <1>4, <2>1
  <2>3. j > c
    <3>1. j # c
      BY <2>2
    <3>2. ASSUME j < c PROVE FALSE
      <4>1. c \in j + 1..i - 1
        BY <1>2, <3>2
      <4> QED BY <2>2, <4>1 DEF Attached
    <3> QED BY <1>2, <3>1, <3>2
  <2> DEFINE w == j - c
  <2>4. w \in 1..b /\ c + w = j /\ 1 + l + w \in 1..l + z
    BY <1>1, <1>2, <2>2, <2>3
  <2>5. u[1 + l + w].kind = "call"
    BY <1>1, <2>2, <2>4
  <2>6. ASSUME NEW x \in (1 + l + w) + 1..l + z PROVE u[x].kind \in Attached
    <3>1. x - (1 + l) \in 1..b /\ 1 + l + (x - (1 + l)) = x /\ c + (x - (1 + l)) \in j + 1..i - 1
      BY <1>1, <1>2, <2>3, <2>4
    <3>2. u[x] = path[c + (x - (1 + l))]
      BY <1>1, <3>1
    <3> QED BY <2>2, <3>1, <3>2
  <2> QED BY <2>4, <2>5, <2>6 DEF Called
<1>7. ASSUME NEW y \in 1..Len(u), u[y].kind = "result" PROVE Called(u, y - 1)
  <2>1. CASE y = 1
    BY <1>1, <1>7, <2>1
  <2>2. CASE \E z \in 1..l : y = 1 + z
    <3>1. PICK z \in 1..l : y = 1 + z
      BY <2>2
    <3>2. y - 1 = z
      BY <1>1, <3>1
    <3> QED BY <1>5, <1>7, <3>1, <3>2
  <2>3. CASE \E z \in 1..b : y = 1 + l + z
    <3>1. PICK z \in 1..b : y = 1 + l + z
      BY <2>3
    <3>2. y - 1 = l + z
      BY <1>1, <1>2, <3>1
    <3> QED BY <1>6, <1>7, <3>1, <3>2
  <2> QED BY <1>3, <2>1, <2>2, <2>3
<1> QED BY <1>7

LEMMA HereIs ==
    ASSUME Holds
    PROVE  /\ left.made \in Nat /\ Here \in Seq(EntriesTo(left.made)) /\ Len(Here) \in Nat
           /\ \A i, j \in 1..Len(Here) : i < j => Here[i].id < Here[j].id
           /\ Sane(Here)
<1>1. left.made \in Nat /\ Sound(entries, left.made) /\ leaf \in {Root} \cup IdsOf(entries)
  BY DEF Holds, Trees, Budget
<1>2. Grows(entries, left.made)
  BY <1>1 DEF Sound
<1>3. IsBranch(Here, entries, left.made)
  BY <1>1, <1>2, BranchIs DEF Here
<1>4. Sane(Here)
  <2>1. CASE leaf = Root
    <3>1. Here = <<>>
      BY <1>1, <1>2, <2>1, BranchIs DEF Here
    <3> QED BY <3>1 DEF Sane
  <2>2. CASE leaf \in IdsOf(entries)
    BY <1>1, <2>2 DEF Sound, Here
  <2> QED BY <1>1, <2>1, <2>2
<1> QED BY <1>1, <1>3, <1>4 DEF IsBranch

\* A compaction that came to its branch and finds there what it keeps from has
\* cut where nothing comes apart.
LEMMA CutOf ==
    ASSUME NEW n \in Nat, NEW path \in Seq(EntriesTo(n)), Sane(path),
           \A i, j \in 1..Len(path) : i < j => path[i].id < path[j].id,
           NEW c \in 1..Len(path), path[c].kind = "compaction", Lands(path, c),
           KeptFrom(path, c) # 0
    PROVE  \E m : /\ BeginsAt(path, KeptFrom(path, c), c, m)
                  /\ KeepsFrom(path, c - 1, path[c].ref, path[c].told, KeptFrom(path, c), m)
<1>1. Comes(path, c) /\ Keeps(path, c)
  BY LandsIs, KeptFromIs
<1>2. CutsWell(path, c - 1, path[c].ref, path[c].told)
  BY <1>1 DEF Sane, SaneAt
<1>3. PICK r \in 1..c - 1 : \E m \in r..c - 1 :
         KeepsFrom(path, c - 1, path[c].ref, path[c].told, r, m)
  BY <1>2 DEF CutsWell
<1>4. PICK m \in r..c - 1 : KeepsFrom(path, c - 1, path[c].ref, path[c].told, r, m)
  BY <1>3
<1>5. KeptFrom(path, c) = r
  <2>1. path[r].id = path[c].ref
    BY <1>4 DEF KeepsFrom
  <2> QED BY <2>1, KeptFromIs
<1>6. BeginsAt(path, r, c, m)
  BY <1>4 DEF KeepsFrom, BeginsAt
<1> QED BY <1>4, <1>5, <1>6

\* The model is never given a result without the call that it answers, unless
\* the leaf was moved while the latest compaction was summarised.
THEOREM NeverOrphanResults == Spec => []NoOrphanResults
<1>1. Holds => NoOrphanResults
  <2> SUFFICES ASSUME Holds PROVE NoOrphanResults
    OBVIOUS
  <2> DEFINE path == Here
             c == LatestCompaction(path)
             n == left.made
             chosen == IF c = 0 THEN path ELSE Behind(path, c)
  <2>1. /\ n \in Nat /\ path \in Seq(EntriesTo(n)) /\ Len(path) \in Nat
        /\ \A i, j \in 1..Len(path) : i < j => path[i].id < path[j].id
        /\ Sane(path)
    BY HereIs
  <2>2. Context(path) = Picked(chosen, {k \in 1..Len(chosen) : InContext(chosen[k])})
    BY <2>1, ContextIs
  <2>3. c \in 0..Len(path) /\ (c # 0 => path[c].kind = "compaction")
    BY <2>1, LatestIs
  <2> SUFFICES ASSUME c = 0 \/ Lands(path, c)
               PROVE  \A k \in 1..Len(Context(path)) : Context(path)[k].kind = "result" =>
                        \E j \in 1..k - 1 :
                            /\ Context(path)[j].kind = "call"
                            /\ \A i \in j + 1..k - 1 : Context(path)[i].kind \notin Assistants
    BY DEF NoOrphanResults
  <2> HIDE DEF path, c, n
  <2>4. chosen \in Seq(EntriesTo(n))
        /\ \A y \in 1..Len(chosen) : chosen[y].kind = "result" => Called(chosen, y - 1)
    <3>1. CASE c = 0
      BY <2>1, <3>1 DEF Sane, SaneAt
    <3>2. CASE c # 0
      <4> DEFINE first == KeptFrom(path, c)
                 u == Behind(path, c)
      <4>1. c \in 1..Len(path) /\ path[c].kind = "compaction" /\ Lands(path, c) /\ chosen = u
        BY <2>1, <2>3, <3>2
      <4>2. first \in 0..c - 1
        BY <2>1, <4>1, KeptFromIs
      <4>3. PICK m : first # 0 => BeginsAt(path, first, c, m)
        BY <2>1, <4>1, CutOf
      <4> HIDE DEF first
      <4>4. first = KeptFrom(path, c)
        BY DEF first
      <4>5. \A y \in 1..Len(u) : u[y].kind = "result" => Called(u, y - 1)
        <5> HIDE DEF u
        <5>1. u = Behind(path, c)
          BY DEF u
        <5> QED BY <2>1, <4>1, <4>2, <4>3, <4>4, <5>1, CalledBehind
      <4>6. u \in Seq(EntriesTo(n))
        <5> DEFINE l == IF first = 0 THEN 0 ELSE c - first
        <5>1. l = IF first = 0 THEN 0 ELSE c - first
          OBVIOUS
        <5> HIDE DEF l
        <5>2. Arranged(u, EntriesTo(n), path, c, first, l)
          BY <2>1, <4>1, <4>2, <4>4, <5>1, BehindIs
        <5> QED BY <5>2 DEF Arranged
      <4> QED BY <4>1, <4>5, <4>6
    <3> QED BY <3>1, <3>2
  <2> HIDE DEF chosen
  <2> QED BY <2>2, <2>4, GivenIs
<1> QED BY <1>1, TreesInvariant, PTL

\* The place among what is kept, or behind the compaction at c, of position k of
\* a branch of b entries; l entries from the first are kept.
KeptPlace(first, l, k, c, b) ==
    /\ {first, k, c, b} \subseteq Nat /\ first >= 1 /\ l = c - first
    /\ first <= k /\ k < c /\ c <= b

BehindPlace(l, k, c, b) ==
    {l, k, c, b} \subseteq Nat /\ c < k /\ k <= b

LEMMA KeptPlaceIs ==
    ASSUME NEW first, NEW l, NEW k, NEW c, NEW b, KeptPlace(first, l, k, c, b)
    PROVE  /\ k - first + 1 \in 1..l /\ first + (k - first + 1) - 1 = k
           /\ 1 + (k - first + 1) \in 1..1 + l + (b - c)
BY DEF KeptPlace

LEMMA BehindPlaceIs ==
    ASSUME NEW l, NEW k, NEW c, NEW b, BehindPlace(l, k, c, b)
    PROVE  /\ k - c \in 1..b - c /\ c + (k - c) = k
           /\ 1 + l + (k - c) \in 1..1 + l + (b - c)
BY DEF BehindPlace

\* What is kept of a branch, and what is behind its compaction, is given to the
\* model.
LEMMA Given ==
    ASSUME NEW S, NEW path \in Seq(S), NEW c, c = LatestCompaction(path),
           NEW k \in 1..Len(path), path[k].kind \in Messages,
           c # 0 => /\ c \in 1..Len(path) /\ KeptFrom(path, c) \in 1..c - 1
                    /\ k >= KeptFrom(path, c) /\ k # c
    PROVE  path[k].id \in IdsOf(Context(path))
<1> DEFINE chosen == IF c = 0 THEN path ELSE Behind(path, c)
<1>1. Context(path) = Picked(chosen, {i \in 1..Len(chosen) : InContext(chosen[i])})
  BY ContextIs
<1>2. InContext(path[k]) /\ Len(path) \in Nat
  BY LenProperties DEF InContext
<1>3. chosen \in Seq(S) /\ \E y \in 1..Len(chosen) : chosen[y] = path[k]
  <2>1. CASE c = 0
    BY <2>1
  <2>2. CASE c # 0
    <3> DEFINE first == KeptFrom(path, c)
               l == c - first
               u == Behind(path, c)
    <3>1. /\ c \in 1..Len(path) /\ first \in 1..c - 1 /\ k >= first /\ k # c /\ chosen = u
          /\ first = KeptFrom(path, c) /\ u = Behind(path, c)
      BY <2>2
    <3> HIDE DEF first, u, chosen
    <3>2. l = (IF first = 0 THEN 0 ELSE c - first) /\ first \in 0..c - 1
      BY <3>1
    <3> HIDE DEF l
    <3>3. Arranged(u, S, path, c, first, l)
      BY <3>1, <3>2, BehindIs
    <3>4. /\ u \in Seq(S) /\ Len(u) = 1 + l + (Len(path) - c) /\ l \in Nat
          /\ \A y \in 1..l : u[1 + y] = path[first + y - 1]
          /\ \A y \in 1..Len(path) - c : u[1 + l + y] = path[c + y]
      BY <3>3 DEF Arranged
    <3>5. l = c - first
      BY DEF l
    <3>6. CASE k < c
      <4> DEFINE y == k - first + 1
      <4>1. y \in 1..l /\ first + y - 1 = k /\ 1 + y \in 1..1 + l + (Len(path) - c)
        <5>1. KeptPlace(first, l, k, c, Len(path))
          <6>1. Len(path) \in Nat /\ c \in 1..Len(path) /\ first \in 1..c - 1 /\ k \in 1..Len(path)
                /\ k >= first /\ k < c
            BY <1>2, <3>1, <3>6
          <6> QED BY <6>1, <3>5 DEF KeptPlace
        <5> QED BY <5>1, KeptPlaceIs
      <4>2. u[1 + y] = path[k] /\ 1 + y \in 1..Len(u)
        BY <3>4, <4>1
      <4> QED BY <3>1, <3>4, <4>2
    <3>7. CASE k > c
      <4> DEFINE y == k - c
      <4>1. y \in 1..Len(path) - c /\ c + y = k /\ 1 + l + y \in 1..1 + l + (Len(path) - c)
        <5>1. BehindPlace(l, k, c, Len(path))
          <6>1. Len(path) \in Nat /\ c \in 1..Len(path) /\ k \in 1..Len(path) /\ l \in Nat
            BY <1>2, <3>1, <3>4
          <6> QED BY <6>1, <3>7 DEF BehindPlace
        <5> QED BY <5>1, BehindPlaceIs
      <4>2. u[1 + l + y] = path[k] /\ 1 + l + y \in 1..Len(u)
        BY <3>4, <4>1
      <4> QED BY <3>1, <3>4, <4>2
    <3> QED BY <3>1, <3>6, <3>7
  <2> QED BY <2>1, <2>2
<1> HIDE DEF chosen
<1>4. \A y \in 1..Len(chosen) : InContext(chosen[y]) => chosen[y].id \in IdsOf(Context(path))
  BY <1>1, <1>3, GivenIs
<1> QED BY <1>2, <1>3, <1>4

\* Nothing of a branch is lost unseen: where each compaction came to the branch
\* it was made for, every message is given to the model or was told of.
THEOREM NeverDropped == Spec => []NothingDropped
<1>1. Holds => NothingDropped
  <2> SUFFICES ASSUME Holds PROVE NothingDropped
    OBVIOUS
  <2> DEFINE path == Here
             c == LatestCompaction(path)
             n == left.made
             told == UNION {path[d].told : d \in Compactions(path)}
  <2>1. /\ n \in Nat /\ path \in Seq(EntriesTo(n)) /\ Len(path) \in Nat
        /\ \A i, j \in 1..Len(path) : i < j => path[i].id < path[j].id
        /\ Sane(path)
    BY HereIs
  <2> SUFFICES ASSUME \A d \in Compactions(path) : Lands(path, d) /\ Finds(path, d),
                      NEW k \in 1..Len(path), path[k].kind \in Messages
               PROVE  path[k].id \in told \cup IdsOf(Context(path))
    BY DEF NothingDropped
  <2> HIDE DEF path, n
  <2>2. /\ c \in 0..Len(path) /\ (c # 0 => path[c].kind = "compaction")
        /\ \A d \in 1..Len(path) : path[d].kind = "compaction" => d <= c
    BY <2>1, LatestIs
  <2>3. \A d \in 1..Len(path) : path[d].kind = "compaction" =>
           Comes(path, d) /\ Keeps(path, d) /\ path[d].told \subseteq told
    <3>1. \A d \in 1..Len(path) : path[d].kind = "compaction" => Lands(path, d) /\ Finds(path, d)
      BY DEF Compactions
    <3>2. \A d \in 1..Len(path) : path[d].kind = "compaction" => path[d].told \subseteq told
      BY DEF Compactions
    <3> HIDE DEF told
    <3> QED BY <2>1, <3>1, <3>2, LandsIs
  <2> HIDE DEF c, told
  <2>4. c = LatestCompaction(path)
    BY DEF c
  <2>5. CASE c = 0
    <3>1. path[k].id \in IdsOf(Context(path))
      BY <2>1, <2>4, <2>5, Given
    <3> QED BY <3>1
  <2>6. CASE c # 0
    <3> DEFINE first == KeptFrom(path, c)
    <3>1. c \in 1..Len(path) /\ path[c].kind = "compaction" /\ Comes(path, c) /\ Keeps(path, c)
      BY <2>1, <2>2, <2>3, <2>6
    <3>2. first \in 1..c - 1
      <4>1. PICK r \in 1..c - 1 : path[r].id = path[c].ref
        BY <3>1 DEF Keeps
      <4> QED BY <2>1, <3>1, <4>1, KeptFromIs
    <3>3. PICK m : KeepsFrom(path, c - 1, path[c].ref, path[c].told, first, m)
      <4>1. Lands(path, c) /\ KeptFrom(path, c) # 0
        BY <2>1, <3>1, <3>2, LandsIs
      <4> QED BY <2>1, <3>1, <4>1, CutOf
    <3> HIDE DEF first
    <3>4. CASE k < first
      <4>1. k \in 1..first - 1
        BY <2>1, <3>1, <3>2, <3>4
      <4>2. \A d \in 1..c - 1 : d \in 1..Len(path)
        BY <2>1, <3>1
      <4>3. \A d \in 1..c - 1 : path[d].kind = "compaction" => Comes(path, d) /\ Keeps(path, d)
        BY <2>3, <4>2
      <4>4. \/ path[k].id \in path[c].told
            \/ \E d \in 1..c - 1 : path[d].kind = "compaction" /\ path[k].id \in path[d].told
        BY <3>3, <4>1, <4>3 DEF KeepsFrom
      <4> QED BY <2>3, <3>1, <4>2, <4>4
    <3>5. CASE k >= first
      <4>1. k # c
        BY <3>1 DEF Messages, Users, Assistants
      <4>2. KeptFrom(path, c) \in 1..c - 1 /\ k >= KeptFrom(path, c)
        BY <3>2, <3>5 DEF first
      <4>3. path[k].id \in IdsOf(Context(path))
        BY <2>1, <2>4, <3>1, <4>1, <4>2, Given
      <4> QED BY <4>3
    <3> QED BY <2>1, <3>1, <3>2, <3>4, <3>5
  <2> QED BY <2>5, <2>6
<1> QED BY <1>1, TreesInvariant, PTL

=============================================================================
