----------------------- MODULE AgentSessionDataProofs -----------------------
(***************************************************************************)
(* Proofs about AgentSession, for any texts, budgets and number of         *)
(* retries: what its data is, the messages it shows as queued, the         *)
(* messages that a run must not leave behind, the errors that it puts up   *)
(* with, and what the transcript has of the session.                       *)
(***************************************************************************)
EXTENDS AgentSessionProofs, SequenceLemmas

-----------------------------------------------------------------------------
(* Messages, entries and what a context is made of.                        *)

MessagesTo(n) == [kind : Kinds, time : 1 .. n]
EntriesTo(n) == [kind : Kinds, time : 1 .. n, keep : 0 .. n]

\* A compaction keeps from an entry that comes before it.
Linked(entries) ==
    \A k \in 1 .. Len(entries) : entries[k].kind = "compaction" =>
        \E j \in 1 .. k - 1 : entries[j].time = entries[k].keep

Has(entries, time) == \E j \in 1 .. Len(entries) : entries[j].time = time

LEMMA Wider ==
    ASSUME NEW m \in Nat, NEW n \in Nat, m <= n
    PROVE  /\ MessagesTo(m) \subseteq MessagesTo(n) /\ EntriesTo(m) \subseteq EntriesTo(n)
           /\ \A s \in Seq(MessagesTo(m)) : s \in Seq(MessagesTo(n))
           /\ \A s \in Seq(EntriesTo(m)) : s \in Seq(EntriesTo(n))
<1>1. MessagesTo(m) \subseteq MessagesTo(n) /\ EntriesTo(m) \subseteq EntriesTo(n)
  BY DEF MessagesTo, EntriesTo
<1> QED BY <1>1, SeqMonotonic

LEMMA MessageTyped ==
    ASSUME NEW n \in Nat, NEW kind \in Kinds, NEW time \in 1 .. n, NEW keep \in 0 .. n
    PROVE  Message(kind, time) \in MessagesTo(n) /\ Entry(kind, time, keep) \in EntriesTo(n)
BY DEF Message, Entry, MessagesTo, EntriesTo

\* What an entry that is added does to what there was.
LEMMA EntryAdded ==
    ASSUME NEW n \in Nat, NEW entries \in Seq(EntriesTo(n)), Linked(entries),
           NEW e \in EntriesTo(n), e.kind # "compaction" \/ Has(entries, e.keep)
    PROVE  /\ Append(entries, e) \in Seq(EntriesTo(n)) /\ Linked(Append(entries, e))
           /\ \A t : Has(entries, t) => Has(Append(entries, e), t)
<1> DEFINE all == Append(entries, e)
<1>1. /\ all \in Seq(EntriesTo(n)) /\ Len(all) = Len(entries) + 1 /\ Len(entries) \in Nat
      /\ \A i \in 1 .. Len(entries) : all[i] = entries[i]
      /\ all[Len(entries) + 1] = e
  BY AppendProperties, LenProperties
<1> HIDE DEF all
<1>2. Linked(all)
  <2> SUFFICES ASSUME NEW k \in 1 .. Len(all), all[k].kind = "compaction"
               PROVE  \E j \in 1 .. k - 1 : all[j].time = all[k].keep
    BY DEF Linked
  <2>1. CASE k \in 1 .. Len(entries)
    <3>1. PICK j \in 1 .. k - 1 : entries[j].time = entries[k].keep
      BY <1>1, <2>1 DEF Linked
    <3>2. j \in 1 .. Len(entries)
      BY <1>1, <2>1
    <3> QED BY <1>1, <2>1, <3>1, <3>2
  <2>2. CASE k = Len(entries) + 1
    <3>1. PICK j \in 1 .. Len(entries) : entries[j].time = e.keep
      BY <1>1, <2>2 DEF Has
    <3> QED BY <1>1, <2>2, <3>1
  <2> QED BY <1>1, <2>1, <2>2
<1>3. \A t : Has(entries, t) => Has(all, t)
  BY <1>1 DEF Has
<1> QED BY <1>1, <1>2, <1>3 DEF all

\* The results that were put off, as messages and as entries.
LEMMA BashTyped ==
    ASSUME NEW n \in Nat, pendingBash \in Nat
    PROVE  LET B == BashMessages(n)
               E == BashEntries(n)
           IN  /\ B \in Seq(MessagesTo(n + pendingBash)) /\ Len(B) = pendingBash
               /\ E \in Seq(EntriesTo(n + pendingBash)) /\ Len(E) = pendingBash
               /\ \A i \in 1 .. pendingBash :
                     /\ E[i].kind = "bash" /\ E[i].time = n + i
                     /\ B[i].kind = "bash" /\ B[i] = Message("bash", n + i)
<1> DEFINE last == n + pendingBash
           B == BashMessages(n)
           E == BashEntries(n)
<1>1. last \in Nat /\ \A i \in 1 .. pendingBash : n + i \in 1 .. last
  OBVIOUS
<1>2. "bash" \in Kinds /\ 0 \in 0 .. last
  BY <1>1 DEF Kinds
<1> HIDE DEF last
<1>3. B \in Seq(MessagesTo(last)) /\ Len(B) = pendingBash
  <2>1. \A i \in 1 .. pendingBash : Message("bash", n + i) \in MessagesTo(last)
    BY <1>1, <1>2, MessageTyped
  <2> QED BY <2>1, IsASeq, LenProperties DEF BashMessages
<1>4. E \in Seq(EntriesTo(last)) /\ Len(E) = pendingBash
  <2>1. \A i \in 1 .. pendingBash : Entry("bash", n + i, 0) \in EntriesTo(last)
    BY <1>1, <1>2, MessageTyped
  <2> QED BY <2>1, IsASeq, LenProperties DEF BashEntries
<1>5. ASSUME NEW i \in 1 .. pendingBash
      PROVE  /\ E[i].kind = "bash" /\ E[i].time = n + i
             /\ B[i].kind = "bash" /\ B[i] = Message("bash", n + i)
  BY DEF BashEntries, BashMessages, Entry, Message
<1> QED BY <1>3, <1>4, <1>5 DEF last

LEMMA BashAdded ==
    ASSUME NEW n \in Nat, pendingBash \in Nat,
           NEW messages \in Seq(MessagesTo(n)), NEW entries \in Seq(EntriesTo(n)),
           Linked(entries)
    PROVE  /\ messages \o BashMessages(n) \in Seq(MessagesTo(n + pendingBash))
           /\ entries \o BashEntries(n) \in Seq(EntriesTo(n + pendingBash))
           /\ Linked(entries \o BashEntries(n))
           /\ \A t : Has(entries, t) => Has(entries \o BashEntries(n), t)
           /\ Len(messages \o BashMessages(n)) = Len(messages) + pendingBash
           /\ \A i \in 1 .. Len(messages) : (messages \o BashMessages(n))[i] = messages[i]
           /\ pendingBash > 0 => (messages \o BashMessages(n))[Len(messages) + 1].kind = "bash"
<1> DEFINE last == n + pendingBash
           B == BashMessages(n)
           E == BashEntries(n)
<1>1. last \in Nat /\ n <= last
  OBVIOUS
<1>2. /\ B \in Seq(MessagesTo(last)) /\ Len(B) = pendingBash
      /\ E \in Seq(EntriesTo(last)) /\ Len(E) = pendingBash
      /\ \A i \in 1 .. pendingBash : E[i].kind = "bash" /\ B[i].kind = "bash"
  BY BashTyped
<1>3. messages \in Seq(MessagesTo(last)) /\ entries \in Seq(EntriesTo(last))
  BY <1>1, Wider
<1> HIDE DEF last, B, E
<1>4. /\ messages \o B \in Seq(MessagesTo(last))
      /\ Len(messages \o B) = Len(messages) + pendingBash
      /\ \A i \in 1 .. Len(messages) : (messages \o B)[i] = messages[i]
      /\ pendingBash > 0 => (messages \o B)[Len(messages) + 1].kind = "bash"
  <2>1. Len(messages) \in Nat
    BY LenProperties
  <2>2. /\ messages \o B \in Seq(MessagesTo(last))
        /\ Len(messages \o B) = Len(messages) + pendingBash
        /\ \A i \in 1 .. Len(messages) + pendingBash :
              (messages \o B)[i] = IF i <= Len(messages) THEN messages[i]
                                  ELSE B[i - Len(messages)]
    BY <1>2, <1>3, ConcatProperties, ZenonT(40)
  <2>3. pendingBash > 0 => (messages \o B)[Len(messages) + 1] = B[1] /\ 1 \in 1 .. pendingBash
    BY <2>1, <2>2
  <2>4. \A i \in 1 .. Len(messages) : (messages \o B)[i] = messages[i]
    BY <2>1, <2>2
  <2> QED BY <1>2, <2>2, <2>3, <2>4
<1> DEFINE all == entries \o E
<1>5. /\ all \in Seq(EntriesTo(last)) /\ Len(all) = Len(entries) + pendingBash
      /\ Len(entries) \in Nat
      /\ \A i \in 1 .. Len(entries) : all[i] = entries[i]
      /\ \A i \in 1 .. Len(all) : i \in 1 .. Len(entries) \/ all[i].kind = "bash"
  <2>1. Len(entries) \in Nat
    BY LenProperties
  <2>2. /\ all \in Seq(EntriesTo(last)) /\ Len(all) = Len(entries) + pendingBash
        /\ \A i \in 1 .. Len(entries) + pendingBash :
              all[i] = IF i <= Len(entries) THEN entries[i] ELSE E[i - Len(entries)]
    BY <1>2, <1>3, ConcatProperties, ZenonT(40)
  <2> QED BY <1>2, <2>1, <2>2
<1> HIDE DEF all
<1>6. Linked(all) /\ \A t : Has(entries, t) => Has(all, t)
  <2>1. \A t : Has(entries, t) => Has(all, t)
    BY <1>5 DEF Has
  <2>2. ASSUME NEW k \in 1 .. Len(all), all[k].kind = "compaction"
        PROVE  \E j \in 1 .. k - 1 : all[j].time = all[k].keep
    <3>1. k \in 1 .. Len(entries)
      BY <1>5, <2>2
    <3>2. PICK j \in 1 .. k - 1 : entries[j].time = entries[k].keep
      BY <1>5, <2>2, <3>1 DEF Linked
    <3>3. j \in 1 .. Len(entries)
      BY <1>5, <3>1
    <3> QED BY <1>5, <3>1, <3>2, <3>3
  <2> QED BY <2>1, <2>2 DEF Linked
<1> QED BY <1>4, <1>5, <1>6 DEF all, last, B, E

\* The last message is dropped, or nothing is.
LEMMA LastDropped ==
    ASSUME NEW S, NEW messages \in Seq(S), NEW kinds
    PROVE  /\ WithoutLast(messages, kinds) \in Seq(S)
           /\ \/ WithoutLast(messages, kinds) = messages
              \/ /\ messages # <<>> /\ messages[Len(messages)].kind \in kinds
                 /\ Len(WithoutLast(messages, kinds)) = Len(messages) - 1
                 /\ \A i \in 1 .. Len(messages) - 1 :
                       WithoutLast(messages, kinds)[i] = messages[i]
<1>1. CASE ~EndsWith(messages, kinds)
  BY <1>1 DEF WithoutLast
<1>2. CASE EndsWith(messages, kinds)
  <2> DEFINE n == Len(messages) - 1
             f == SubSeq(messages, 1, n)
  <2>1. WithoutLast(messages, kinds) = f /\ messages # <<>>
        /\ messages[Len(messages)].kind \in kinds
    BY <1>2 DEF WithoutLast, EndsWith, Front, Last
  <2>2. n \in Nat /\ n = Len(messages) - 1 /\ \A i \in 1 .. n : messages[i] \in S
    BY <2>1, EmptySeq, LenProperties, ElementOfSeq
  <2> HIDE DEF n
  <2>3. f \in Seq(S) /\ Len(f) = n /\ \A i \in 1 .. n : f[i] = messages[i]
    BY <2>2, SubSeqProperties
  <2> QED BY <2>1, <2>2, <2>3
<1> QED BY <1>1, <1>2

\* _flushPendingBashMessages() and the context after a compaction look for
\* entries by position.
LEMMA IndexIs ==
    ASSUME NEW entries, Len(entries) \in Nat, NEW time, Has(entries, time)
    PROVE  /\ Index(entries, time) \in 1 .. Len(entries)
           /\ entries[Index(entries, time)].time = time
           /\ \A j \in 1 .. Len(entries) :
                 entries[j].time = time => Index(entries, time) <= j
<1> DEFINE I == {i \in 1 .. Len(entries) : entries[i].time = time}
<1>1. Index(entries, time) = IF I # {} THEN Min(I) ELSE 0
  BY DEF Index, SelectInSeq
<1>2. I \subseteq Nat /\ I # {}
  BY DEF Has
<1> HIDE DEF I
<1>3. Min(I) \in I /\ \A j \in I : Min(I) <= j
  BY <1>2, MinIsLeast
<1> QED BY <1>1, <1>2, <1>3 DEF I

LEMMA LastCompactionIs ==
    ASSUME NEW entries, Len(entries) \in Nat
    PROVE  LET k == LastCompaction(entries)
           IN  /\ k \in 0 .. Len(entries)
               /\ k # 0 => entries[k].kind = "compaction"
               /\ \A j \in 1 .. Len(entries) : entries[j].kind = "compaction" => j <= k
<1> DEFINE I == {i \in 1 .. Len(entries) : entries[i].kind = "compaction"}
<1>1. LastCompaction(entries) = IF I # {} THEN Max(I) ELSE 0
  BY DEF LastCompaction, SelectLastInSeq
<1>2. I \subseteq 0 .. Len(entries)
  OBVIOUS
<1> HIDE DEF I
<1>3. I # {} => Max(I) \in I /\ \A j \in I : j <= Max(I)
  BY <1>2, MaxIsGreatest
<1>4. CASE I # {}
  BY <1>1, <1>3, <1>4 DEF I
<1>5. CASE I = {}
  <2>1. LastCompaction(entries) = 0
    BY <1>1, <1>5
  <2>2. \A j \in 1 .. Len(entries) : entries[j].kind # "compaction"
    BY <1>5 DEF I
  <2> QED BY <2>1, <2>2
<1> QED BY <1>4, <1>5

\* The context of a session whose last compaction, at k, keeps the a entries
\* before it: the compaction, these, and the entries after it.
ContextAt(entries, n, k, a) ==
    /\ k \in 1 .. Len(entries)
    /\ entries[k - a].time = entries[k].keep
    /\ \A j \in 1 .. k - 1 : entries[j].time = entries[k].keep => j >= k - a
    /\ Context(entries) \in Seq(MessagesTo(n))
    /\ Len(Context(entries)) = 1 + a + (Len(entries) - k)
    /\ Context(entries)[1] = Message("compaction", entries[k].time)
    /\ \A i \in 1 .. a :
          /\ k - a + i - 1 \in 1 .. k - 1
          /\ Context(entries)[1 + i] =
               Message(entries[k - a + i - 1].kind, entries[k - a + i - 1].time)
    /\ \A i \in 1 .. Len(entries) - k :
          Context(entries)[(1 + a) + i] = Message(entries[k + i].kind, entries[k + i].time)

LEMMA ContextIs ==
    ASSUME NEW n \in Nat, NEW entries \in Seq(EntriesTo(n)), Linked(entries),
           NEW k, k = LastCompaction(entries), k # 0
    PROVE  \E a \in 1 .. k - 1 : ContextAt(entries, n, k, a)
<1>1. /\ k \in 1 .. Len(entries) /\ entries[k].kind = "compaction"
      /\ Len(entries) \in Nat
      /\ \A i \in 1 .. Len(entries) : entries[i] \in EntriesTo(n)
  BY LastCompactionIs, LenProperties, ElementOfSeq
<1> DEFINE first == Index(entries, entries[k].keep)
<1>2. /\ first \in 1 .. k - 1 /\ entries[first].time = entries[k].keep
      /\ \A j \in 1 .. k - 1 : entries[j].time = entries[k].keep => j >= first
  <2>1. PICK j \in 1 .. k - 1 : entries[j].time = entries[k].keep
    BY <1>1 DEF Linked
  <2>2. j \in 1 .. Len(entries) /\ Has(entries, entries[k].keep)
    BY <1>1, <2>1 DEF Has
  <2>3. /\ first <= j /\ first \in 1 .. Len(entries) /\ entries[first].time = entries[k].keep
        /\ \A i \in 1 .. Len(entries) : entries[i].time = entries[k].keep => first <= i
    BY <1>1, <2>1, <2>2, IndexIs
  <2>4. \A i \in 1 .. k - 1 : i \in 1 .. Len(entries)
    BY <1>1
  <2> QED BY <1>1, <2>3, <2>4
<1> DEFINE a == k - first
           b == Len(entries) - k
           head == <<entries[k]>>
           kept == SubSeq(entries, first, k - 1)
           after == SubSeq(entries, k + 1, Len(entries))
           visible == head \o kept \o after
<1>3. ContextEntries(entries) = visible
  BY <1>1 DEF ContextEntries
<1> HIDE DEF first
<1>a. a \in 1 .. k - 1 /\ b \in Nat /\ first = k - a /\ b = Len(entries) - k
  BY <1>1, <1>2, SMTT(40)
<1>4. kept \in Seq(EntriesTo(n)) /\ Len(kept) = a
      /\ \A i \in 1 .. a : kept[i] = entries[k - a + i - 1] /\ k - a + i - 1 \in 1 .. k - 1
  <2>1. first \in 1 .. Len(entries) + 1 /\ k - 1 \in first - 1 .. Len(entries)
    BY <1>1, <1>2
  <2>2. kept \in Seq(EntriesTo(n)) /\ Len(kept) = (k - 1) - first + 1
        /\ \A i \in 1 .. (k - 1) - first + 1 : kept[i] = entries[(first - 1) + i]
    BY <2>1, Part
  <2>3. (k - 1) - first + 1 = a
    BY <1>1, <1>2
  <2>4. \A i \in 1 .. a : (first - 1) + i = k - a + i - 1 /\ k - a + i - 1 \in 1 .. k - 1
    BY <1>1, <1>2
  <2> HIDE DEF kept, a
  <2> QED BY <2>2, <2>3, <2>4
<1>5. after \in Seq(EntriesTo(n)) /\ Len(after) = b
      /\ \A i \in 1 .. b : after[i] = entries[k + i]
  <2>1. k + 1 \in 1 .. Len(entries) + 1 /\ Len(entries) \in (k + 1) - 1 .. Len(entries)
    BY <1>1
  <2>2. after \in Seq(EntriesTo(n)) /\ Len(after) = Len(entries) - (k + 1) + 1
        /\ \A i \in 1 .. Len(entries) - (k + 1) + 1 : after[i] = entries[((k + 1) - 1) + i]
    BY <2>1, Part
  <2>3. Len(entries) - (k + 1) + 1 = b /\ (k + 1) - 1 = k
    BY <1>1
  <2> HIDE DEF after, b
  <2> QED BY <2>2, <2>3
<1>6. head \in Seq(EntriesTo(n)) /\ Len(head) = 1 /\ head[1] = entries[k]
  BY <1>1
<1> HIDE DEF head, kept, after, a, b
<1>7. /\ visible \in Seq(EntriesTo(n)) /\ Len(visible) = 1 + a + b
      /\ visible[1] = entries[k]
      /\ \A i \in 1 .. a : visible[1 + i] = kept[i]
      /\ \A i \in 1 .. b : visible[(1 + a) + i] = after[i]
  <2> DEFINE front == head \o kept
  <2>1. /\ front \in Seq(EntriesTo(n)) /\ Len(front) = 1 + a
        /\ front[1] = head[1]
        /\ \A i \in 1 .. a : front[1 + i] = kept[i]
    <3>1. /\ front \in Seq(EntriesTo(n)) /\ Len(front) = Len(head) + Len(kept)
          /\ \A i \in 1 .. Len(head) : front[i] = head[i]
          /\ \A i \in 1 .. Len(kept) : front[Len(head) + i] = kept[i]
      <4>1. head \in Seq(EntriesTo(n)) /\ kept \in Seq(EntriesTo(n))
        BY <1>4, <1>6
      <4> QED BY <4>1, Joined
    <3>2. 1 \in 1 .. Len(head)
      BY <1>6
    <3> HIDE DEF front
    <3> QED BY <1>4, <1>6, <3>1, <3>2
  <2>2. /\ visible \in Seq(EntriesTo(n)) /\ Len(visible) = (1 + a) + b
        /\ \A i \in 1 .. 1 + a : visible[i] = front[i]
        /\ \A i \in 1 .. b : visible[(1 + a) + i] = after[i]
    <3>1. visible = front \o after
      OBVIOUS
    <3> HIDE DEF front, visible
    <3>2. /\ front \o after \in Seq(EntriesTo(n))
          /\ Len(front \o after) = Len(front) + Len(after)
          /\ \A i \in 1 .. Len(front) : (front \o after)[i] = front[i]
          /\ \A i \in 1 .. Len(after) : (front \o after)[Len(front) + i] = after[i]
      <4>1. front \in Seq(EntriesTo(n)) /\ after \in Seq(EntriesTo(n))
        BY <1>5, <2>1
      <4> QED BY <4>1, Joined
    <3> QED BY <1>5, <2>1, <3>1, <3>2
  <2> HIDE DEF front, visible
  <2>3. 1 \in 1 .. 1 + a /\ \A i \in 1 .. a : 1 + i \in 1 .. 1 + a
    BY <1>1, <1>a
  <2> QED BY <1>6, <2>1, <2>2, <2>3
<1> HIDE DEF visible
<1>8. /\ Context(entries) \in Seq(MessagesTo(n)) /\ Len(Context(entries)) = Len(visible)
      /\ \A i \in 1 .. Len(visible) :
            Context(entries)[i] = Message(visible[i].kind, visible[i].time)
  <2>1. Context(entries) = [i \in 1 .. Len(visible) |-> Message(visible[i].kind, visible[i].time)]
    BY <1>3, <1>7, LenProperties DEF Context
  <2>2. \A i \in 1 .. Len(visible) : Message(visible[i].kind, visible[i].time) \in MessagesTo(n)
    <3>1. \A i \in 1 .. Len(visible) : visible[i] \in EntriesTo(n)
      BY <1>7, ElementOfSeq
    <3> QED BY <3>1 DEF EntriesTo, MessagesTo, Message
  <2>3. Len(visible) \in Nat
    BY <1>7, LenProperties
  <2> HIDE DEF Context
  <2> QED BY <2>1, <2>2, <2>3, IsASeq, LenProperties
<1>9. Context(entries)[1] = Message("compaction", entries[k].time)
  <2>1. 1 \in 1 .. Len(visible)
    BY <1>a, <1>7, <1>1
  <2> QED BY <1>1, <1>7, <1>8, <2>1
<1>10. ASSUME NEW i \in 1 .. a
       PROVE  Context(entries)[1 + i] =
                Message(entries[k - a + i - 1].kind, entries[k - a + i - 1].time)
  <2>1. 1 + i \in 1 .. Len(visible)
    BY <1>a, <1>7, <1>1, SMTT(40)
  <2> QED BY <1>4, <1>7, <1>8, <2>1
<1>11. ASSUME NEW i \in 1 .. b
       PROVE  Context(entries)[(1 + a) + i] = Message(entries[k + i].kind, entries[k + i].time)
  <2>1. (1 + a) + i \in 1 .. Len(visible)
    <3>1. a \in Nat /\ b \in Nat /\ i \in 1 .. b /\ Len(visible) = 1 + a + b
      BY <1>a, <1>7, <1>1
    <3> QED BY <3>1
  <2> QED BY <1>5, <1>7, <1>8, <2>1
<1>12. /\ entries[k - a].time = entries[k].keep
       /\ \A j \in 1 .. k - 1 : entries[j].time = entries[k].keep => j >= k - a
  BY <1>2, <1>a
<1>13. Len(Context(entries)) = 1 + a + (Len(entries) - k)
  BY <1>7, <1>8, <1>a
<1> QED BY <1>1, <1>4, <1>8, <1>9, <1>10, <1>11, <1>12, <1>13, <1>a DEF ContextAt

\* The context right after a compaction: its summary and what it keeps.
LEMMA CompactedIs ==
    ASSUME NEW n \in Nat, clock \in Nat, n >= clock + 1, session \in Seq(EntriesTo(clock)),
           Linked(session), NEW keep \in 0 .. clock, Has(session, keep)
    PROVE  LET entries == Append(session, CompactionEntry(keep))
               messages == Context(entries)
           IN  /\ entries \in Seq(EntriesTo(n)) /\ Linked(entries)
               /\ \A t : Has(session, t) => Has(entries, t)
               /\ messages \in Seq(MessagesTo(n)) /\ Len(messages) > 1
               /\ messages[1].kind = "compaction"
               /\ messages[Len(messages)].kind = session[Len(session)].kind
<1> DEFINE e == CompactionEntry(keep)
           entries == Append(session, e)
<1>1. e \in EntriesTo(n) /\ e.kind = "compaction" /\ e.keep = keep
  BY DEF CompactionEntry, Entry, EntriesTo, Kinds
<1>2. session \in Seq(EntriesTo(n))
  BY Wider
<1> HIDE DEF e
<1>3. /\ entries \in Seq(EntriesTo(n)) /\ Linked(entries)
      /\ \A t : Has(session, t) => Has(entries, t)
  BY <1>1, <1>2, EntryAdded
<1>4. /\ Len(entries) = Len(session) + 1 /\ Len(session) \in Nat
      /\ entries[Len(session) + 1] = e
      /\ \A i \in 1 .. Len(session) : entries[i] = session[i]
  BY <1>1, <1>2, AppendProperties, LenProperties
<1> HIDE DEF entries
<1> DEFINE k == LastCompaction(entries)
<1>5. k = Len(session) + 1 /\ k # 0
  <2>1. k \in 0 .. Len(entries) /\ Len(entries) <= k
    BY <1>1, <1>4, LastCompactionIs
  <2> QED BY <1>4, <2>1
<1>6. PICK a \in 1 .. k - 1 : ContextAt(entries, n, k, a)
  <2> HIDE DEF k
  <2>1. k = LastCompaction(entries)
    BY DEF k
  <2> QED BY <1>3, <1>5, <2>1, ContextIs
<1> HIDE DEF k
<1>7. Len(Context(entries)) = 1 + a /\ 1 + a > 1 /\ a \in 1 .. a /\ k - a + a - 1 = Len(session)
      /\ Len(session) \in 1 .. Len(session)
  BY <1>4, <1>5, <1>6 DEF ContextAt
<1>8. Context(entries)[Len(Context(entries))].kind = session[Len(session)].kind
  <2>1. Context(entries)[1 + a] =
          Message(entries[k - a + a - 1].kind, entries[k - a + a - 1].time)
    BY <1>6, <1>7 DEF ContextAt
  <2> QED BY <1>4, <1>7, <2>1 DEF Message
<1>9. Context(entries)[1].kind = "compaction"
  BY <1>6 DEF Message, ContextAt
<1> QED BY <1>3, <1>6, <1>7, <1>8, <1>9 DEF entries, e, ContextAt

-----------------------------------------------------------------------------
(* The queues.                                                              *)

LEMMA QueueTyped ==
    ASSUME NEW S, NEW q \in Seq(S)
    PROVE  /\ Drained(q) \in Seq(S) /\ Left(q) \in Seq(S)
           /\ \A x : RemoveFirst(q, x) \in Seq(S)
           /\ \A x \in S : Append(q, x) \in Seq(S) /\ <<x>> \in Seq(S)
           /\ <<>> \in Seq(S)
           /\ q # <<>> => Tail(q) \in Seq(S)
<1>1. Drained(q) \in Seq(S) /\ Left(q) \in Seq(S)
  BY HeadTailProperties DEF Drained, Left
<1>2. ASSUME NEW x PROVE RemoveFirst(q, x) \in Seq(S)
  <2>1. CASE RemoveFirst(q, x) = q
    BY <2>1
  <2>2. CASE RemoveFirst(q, x) # q
    <3>1. PICK i \in 1 .. Len(q) :
             /\ SubSeq(q, 1, i - 1) \in Seq(S) /\ SubSeq(q, i + 1, Len(q)) \in Seq(S)
             /\ RemoveFirst(q, x) = SubSeq(q, 1, i - 1) \o SubSeq(q, i + 1, Len(q))
      BY <2>2, RemovedTyped
    <3> QED BY <3>1, ConcatProperties
  <2> QED BY <2>1, <2>2
<1> QED BY <1>1, <1>2, HeadTailProperties

-----------------------------------------------------------------------------
(* The data of a session, in groups.                                        *)

Jobs(n) == [keep : 0 .. n, retry : BOOLEAN, message : MessagesTo(n) \cup {None}]

ConversationOK ==
    /\ clock \in Nat /\ transcript \in Seq(MessagesTo(clock))
    /\ session \in Seq(EntriesTo(clock)) /\ Linked(session)

\* What a compaction is going to keep is in the session all along.
JobsOK ==
    /\ job \in [Callers -> Jobs(clock)]
    /\ \A c \in Callers :
          pc[c] \in {"compact", "precompact"} => Has(session, job[c].keep)

SavingOK ==
    /\ loop \in LoopStates /\ polled \in BOOLEAN /\ aborted \in BOOLEAN
    /\ saving \in [message : MessagesTo(clock) \cup {None}, heard : BOOLEAN]
    /\ loop = "saving" => saving.message \in MessagesTo(clock)

QueuesOK == {deliver, steering, followUp} \subseteq Seq(Texts)

MirrorsOK == {steeringMirror, followUpMirror} \subseteq Seq(Texts)

RecoveryOK ==
    /\ lastAssistant \in MessagesTo(clock) \cup {None}
    /\ retryAttempt \in 0 .. MaxRetries /\ overflowTried \in BOOLEAN
    /\ retryController \subseteq Callers /\ cancelled \subseteq Callers

ManualOK ==
    /\ manual \in {"none", "waiting", "working"} /\ connected = (manual = "none")
    /\ manualKeep \in 0 .. clock
    /\ manual = "working" => Has(session, manualKeep)
    /\ idleWaiters \subseteq {"abort", "compact"}

FlagsOK == {refused, unheard, strayed} \subseteq BOOLEAN

Data ==
    /\ IInv
    /\ ConversationOK /\ JobsOK /\ SavingOK /\ QueuesOK /\ MirrorsOK
    /\ RecoveryOK /\ ManualOK /\ FlagsOK

\* A step leaves a conversation that goes on from the one there was.
Follows(messages, entries, now) ==
    /\ now \in Nat /\ clock <= now
    /\ messages \in Seq(MessagesTo(now)) /\ entries \in Seq(EntriesTo(now))
    /\ Linked(entries) /\ \A t : Has(session, t) => Has(entries, t)

Grown == Follows(transcript', session', clock')

LEMMA Following ==
    ASSUME ConversationOK
    PROVE  Follows(transcript, session, clock)
BY DEF ConversationOK, Follows

LEMMA GrownConversation ==
    ASSUME Grown PROVE ConversationOK'
BY DEF Grown, Follows, ConversationOK, MessagesTo, EntriesTo

\* What is bounded by the clock stays so.
LEMMA GrownTypes ==
    ASSUME ConversationOK, Grown
    PROVE  /\ Jobs(clock) \subseteq Jobs(clock') /\ 0 .. clock \subseteq 0 .. clock'
           /\ MessagesTo(clock) \subseteq MessagesTo(clock') /\ clock' \in Nat
           /\ \A t : Has(session, t) => Has(session', t)
<1>1. clock \in Nat /\ clock' \in Nat /\ clock <= clock'
  BY DEF ConversationOK, Grown, Follows
<1>2. MessagesTo(clock) \subseteq MessagesTo(clock')
  BY <1>1, Wider
<1>3. 0 .. clock \subseteq 0 .. clock'
  BY <1>1
<1>4. Jobs(clock) \subseteq Jobs(clock')
  BY <1>2, <1>3 DEF Jobs
<1> QED BY <1>1, <1>2, <1>3, <1>4 DEF Grown, Follows

LEMMA NoJobTyped ==
    ASSUME NEW n \in Nat PROVE NoJob \in Jobs(n)
BY DEF NoJob, Jobs

LEMMA JobsMove ==
    ASSUME IInv, ConversationOK, JobsOK, Grown,
           NEW c \in Callers, NEW at, NEW j \in Jobs(clock'),
           pc' = [pc EXCEPT ![c] = at], job' = [job EXCEPT ![c] = j],
           at \in {"compact", "precompact"} => Has(session', j.keep)
    PROVE  JobsOK'
<1>1. job' \in [Callers -> Jobs(clock')]
  BY GrownTypes DEF JobsOK
<1>2. ASSUME NEW d \in Callers, pc'[d] \in {"compact", "precompact"}
      PROVE  Has(session', job'[d].keep)
  <2>1. CASE d = c
    BY <1>2, <2>1 DEF JobsOK, IInv, Types
  <2>2. CASE d # c
    <3>1. pc'[d] = pc[d] /\ job'[d] = job[d]
      BY <2>2 DEF JobsOK, IInv, Types
    <3> QED BY <1>2, <3>1, GrownTypes DEF JobsOK
  <2> QED BY <2>1, <2>2
<1> QED BY <1>1, <1>2 DEF JobsOK, Jobs, MessagesTo, Has

LEMMA JobsStay ==
    ASSUME IInv, ConversationOK, JobsOK, Grown, job' = job,
           \/ pc' = pc
           \/ \E c \in Callers : \E at :
                 at \notin {"compact", "precompact"} /\ pc' = [pc EXCEPT ![c] = at]
    PROVE  JobsOK'
<1>1. job' \in [Callers -> Jobs(clock')]
  BY GrownTypes DEF JobsOK
<1>2. \A d \in Callers :
         pc'[d] \in {"compact", "precompact"} => pc[d] \in {"compact", "precompact"}
  BY DEF IInv, Types
<1> QED BY <1>1, <1>2, GrownTypes DEF JobsOK, Jobs, MessagesTo, Has

LEMMA SavingStays ==
    ASSUME ConversationOK, SavingOK, Grown, saving' = saving,
           loop' \in LoopStates, polled' \in BOOLEAN, aborted' \in BOOLEAN,
           loop' = "saving" => loop = "saving"
    PROVE  SavingOK'
BY GrownTypes DEF SavingOK, MessagesTo

LEMMA RecoveryStays ==
    ASSUME ConversationOK, RecoveryOK, Grown,
           lastAssistant' \in {lastAssistant, None},
           retryAttempt' \in 0 .. MaxRetries, overflowTried' \in BOOLEAN,
           retryController' \subseteq Callers, cancelled' \subseteq Callers
    PROVE  RecoveryOK'
BY GrownTypes DEF RecoveryOK, MessagesTo

LEMMA ManualStays ==
    ASSUME ConversationOK, ManualOK, Grown, UNCHANGED compaction,
           idleWaiters' \subseteq {"abort", "compact"}
    PROVE  ManualOK'
<1>1. /\ UNCHANGED <<connected, manual, manualKeep>>
      /\ 0 .. clock \subseteq 0 .. clock' /\ \A t : Has(session, t) => Has(session', t)
  BY GrownTypes DEF compaction
<1>2. manualKeep \in 0 .. clock /\ (manual = "working" => Has(session, manualKeep))
  BY DEF ManualOK
<1>3. manualKeep' \in 0 .. clock' /\ (manual' = "working" => Has(session', manualKeep'))
  BY <1>1, <1>2
<1> QED BY <1>1, <1>3 DEF ManualOK, Has

-----------------------------------------------------------------------------
(* What a step makes of the conversation.                                   *)

LEMMA KeepsAreEntries ==
    ASSUME ConversationOK, NEW keep \in Keeps(session)
    PROVE  Has(session, keep) /\ keep \in 0 .. clock
<1> DEFINE k == LastCompaction(session)
           first == IF k = 0 THEN 1 ELSE Index(session, session[k].keep)
<1>1. PICK i \in first + 1 .. Len(session) : keep = session[i].time
  BY DEF Keeps
<1>2. /\ session \in Seq(EntriesTo(clock)) /\ Len(session) \in Nat
      /\ \A j \in 1 .. Len(session) : session[j] \in EntriesTo(clock)
  BY LenProperties, ElementOfSeq DEF ConversationOK
<1>3. first \in Nat
  <2>1. CASE k = 0
    BY <2>1
  <2>2. CASE k # 0
    <3>1. k \in 1 .. Len(session) /\ session[k].kind = "compaction"
      BY <1>2, <2>2, LastCompactionIs
    <3> HIDE DEF k
    <3>2. PICK j \in 1 .. k - 1 : session[j].time = session[k].keep
      BY <3>1 DEF ConversationOK, Linked
    <3>3. j \in 1 .. Len(session)
      BY <1>2, <3>1, <3>2
    <3>4. Has(session, session[k].keep)
      BY <3>2, <3>3 DEF Has
    <3>5. Index(session, session[k].keep) \in 1 .. Len(session)
      BY <1>2, <3>4, IndexIs
    <3> QED BY <2>2, <3>5, <1>2
  <2> QED BY <2>1, <2>2
<1> HIDE DEF first
<1>4. i \in 1 .. Len(session)
  BY <1>1, <1>2, <1>3
<1> QED BY <1>1, <1>2, <1>4 DEF Has, EntriesTo

LEMMA FlushFollows ==
    ASSUME ConversationOK, pendingBash \in Nat, NEW messages, NEW entries, NEW now,
           Follows(messages, entries, now), FlushBash(messages, entries, now)
    PROVE  Grown
<1>1. /\ now \in Nat /\ clock \in Nat /\ clock <= now
      /\ messages \in Seq(MessagesTo(now)) /\ entries \in Seq(EntriesTo(now))
      /\ Linked(entries)
  BY DEF Follows, ConversationOK
<1>2. /\ messages \o BashMessages(now) \in Seq(MessagesTo(now + pendingBash))
      /\ entries \o BashEntries(now) \in Seq(EntriesTo(now + pendingBash))
      /\ Linked(entries \o BashEntries(now))
      /\ \A t : Has(entries, t) => Has(entries \o BashEntries(now), t)
  BY <1>1, BashAdded
<1>3. now + pendingBash \in Nat /\ clock <= now + pendingBash
  BY <1>1
<1> QED BY <1>2, <1>3 DEF Follows, Grown, FlushBash

LEMMA DroppedFollows ==
    ASSUME NEW messages, NEW entries, NEW now, NEW kinds, Follows(messages, entries, now)
    PROVE  Follows(WithoutLast(messages, kinds), entries, now)
BY LastDropped DEF Follows

LEMMA CompactionFollows ==
    ASSUME ConversationOK, NEW keep \in 0 .. clock, Has(session, keep)
    PROVE  Follows(Context(Append(session, CompactionEntry(keep))),
                   Append(session, CompactionEntry(keep)), clock + 1)
<1> DEFINE entries == Append(session, CompactionEntry(keep))
<1>1. /\ clock \in Nat /\ clock + 1 \in Nat /\ clock <= clock + 1
      /\ session \in Seq(EntriesTo(clock)) /\ Linked(session)
  BY DEF ConversationOK
<1>2. /\ entries \in Seq(EntriesTo(clock + 1)) /\ Linked(entries)
      /\ \A t : Has(session, t) => Has(entries, t)
      /\ Context(entries) \in Seq(MessagesTo(clock + 1))
  BY <1>1, CompactedIs
<1> HIDE DEF entries
<1>3. Follows(Context(entries), entries, clock + 1)
  BY <1>1, <1>2 DEF Follows
<1> QED BY <1>3 DEF entries

\* A message is added to the transcript, to the session or to both.
LEMMA AddedFollows ==
    ASSUME ConversationOK, NEW kind \in Kinds \ {"compaction"}
    PROVE  /\ Follows(Append(transcript, Message(kind, clock + 1)), session, clock + 1)
           /\ Follows(Append(transcript, Message(kind, clock + 1)),
                      Append(session, Entry(kind, clock + 1, 0)), clock + 1)
           /\ Message(kind, clock + 1) \in MessagesTo(clock + 1)
<1> DEFINE n == clock + 1
           m == Message(kind, n)
           e == Entry(kind, n, 0)
<1>1. /\ clock \in Nat /\ n \in Nat /\ clock <= n /\ n \in 1 .. n /\ 0 \in 0 .. n
      /\ Linked(session)
  BY DEF ConversationOK
<1>2. e.kind # "compaction"
  BY DEF Entry
<1> HIDE DEF n
<1>3. m \in MessagesTo(n) /\ e \in EntriesTo(n)
  BY <1>1, MessageTyped
<1>4. transcript \in Seq(MessagesTo(n)) /\ session \in Seq(EntriesTo(n))
  BY <1>1, Wider DEF ConversationOK
<1> HIDE DEF m, e
<1>5. Append(transcript, m) \in Seq(MessagesTo(n))
  BY <1>3, <1>4, AppendProperties
<1>6. /\ Append(session, e) \in Seq(EntriesTo(n)) /\ Linked(Append(session, e))
      /\ \A t : Has(session, t) => Has(Append(session, e), t)
  BY <1>1, <1>2, <1>3, <1>4, EntryAdded
<1>7. Follows(Append(transcript, m), session, n) /\ Follows(Append(transcript, m), Append(session, e), n)
  BY <1>1, <1>4, <1>5, <1>6 DEF Follows
<1> QED BY <1>3, <1>7 DEF n, m, e

-----------------------------------------------------------------------------
(* What the end of a step leaves, wherever the call goes from there.        *)

LEMMA SettleData ==
    ASSUME Data, NEW c \in Callers, NEW messages, NEW entries, NEW now,
           Follows(messages, entries, now), Settle(c, messages, entries, now)
    PROVE  Grown /\ JobsOK' /\ SavingOK' /\ QueuesOK'
<1>1. Grown
  BY FlushFollows DEF Settle, Data, IInv, Types
<1>2. JobsOK'
  <2>1. clock' \in Nat
    BY <1>1 DEF Grown, Follows
  <2>2. /\ pc' = [pc EXCEPT ![c] = "settling"] /\ job' = [job EXCEPT ![c] = NoJob]
        /\ IInv /\ ConversationOK /\ JobsOK /\ NoJob \in Jobs(clock')
    BY <2>1, NoJobTyped DEF Settle, Data
  <2> QED BY <1>1, <2>2, JobsMove
<1>3. SavingOK'
  <2>1. /\ saving' = saving /\ polled' = polled /\ loop' \in {loop, "idle"}
        /\ aborted' \in BOOLEAN /\ ConversationOK /\ SavingOK
    BY DEF Settle, LoopLeft, Data, SavingOK
  <2>2. polled' \in BOOLEAN /\ loop' \in LoopStates
    BY <2>1 DEF SavingOK, LoopStates
  <2> QED BY <1>1, <2>1, <2>2, SavingStays
<1>4. QueuesOK'
  BY DEF Settle, queues, Data, QueuesOK
<1> QED BY <1>1, <1>2, <1>3, <1>4

LEMMA BeginData ==
    ASSUME Data, NEW c \in Callers, NEW messages \in Seq(Texts),
           NEW skipPoll \in BOOLEAN, BeginRun(c, messages, skipPoll), Grown
    PROVE  JobsOK' /\ SavingOK' /\ deliver' \in Seq(Texts)
<1>1. clock' \in Nat
  BY DEF Grown, Follows
<1>2. JobsOK'
  <2>1. /\ pc' = [pc EXCEPT ![c] = "run"] /\ job' = [job EXCEPT ![c] = NoJob]
        /\ IInv /\ ConversationOK /\ JobsOK /\ NoJob \in Jobs(clock')
    BY <1>1, NoJobTyped DEF BeginRun, Data
  <2> QED BY <2>1, JobsMove
<1>3. SavingOK'
  <2>1. /\ loop' = "deliver" /\ polled' = skipPoll /\ saving' = NotSaving
        /\ aborted' = FALSE
    BY DEF BeginRun
  <2>2. NotSaving \in [message : MessagesTo(clock') \cup {None}, heard : BOOLEAN]
    BY DEF NotSaving
  <2> QED BY <2>1, <2>2 DEF SavingOK, LoopStates, MessagesTo
<1> QED BY <1>2, <1>3 DEF BeginRun

LEMMA ContinueData ==
    ASSUME Data, NEW c \in Callers, NEW messages, NEW entries, NEW now,
           Follows(messages, entries, now), Continue(c, messages, entries, now)
    PROVE  Grown /\ JobsOK' /\ SavingOK' /\ QueuesOK' /\ refused' \in BOOLEAN
<1>1. CASE Settle(c, messages, entries, now) /\ refused' \in {refused, TRUE}
  BY <1>1, SettleData DEF Data, FlagsOK
<1>2. CASE /\ transcript' = messages /\ session' = entries /\ clock' = now
           /\ refused' = refused
           /\ \/ BeginRun(c, <<>>, FALSE) /\ UNCHANGED queues
              \/ /\ BeginRun(c, Drained(steering), TRUE)
                 /\ steering' = Left(steering) /\ followUp' = followUp
              \/ /\ BeginRun(c, Drained(followUp), FALSE)
                 /\ followUp' = Left(followUp) /\ steering' = steering
  <2>1. Grown
    BY <1>2 DEF Grown
  <2>2. /\ steering \in Seq(Texts) /\ followUp \in Seq(Texts)
        /\ <<>> \in Seq(Texts)
        /\ Drained(steering) \in Seq(Texts) /\ Left(steering) \in Seq(Texts)
        /\ Drained(followUp) \in Seq(Texts) /\ Left(followUp) \in Seq(Texts)
    BY QueueTyped DEF Data, QueuesOK
  <2>3. /\ steering' \in Seq(Texts) /\ followUp' \in Seq(Texts)
        /\ \E q \in Seq(Texts), skip \in BOOLEAN : BeginRun(c, q, skip)
    BY <1>2, <2>2 DEF queues
  <2>4. JobsOK' /\ SavingOK' /\ deliver' \in Seq(Texts)
    BY <2>1, <2>3, BeginData
  <2> QED BY <1>2, <2>1, <2>3, <2>4 DEF QueuesOK, Data, FlagsOK
<1>3. \/ Settle(c, messages, entries, now) /\ refused' \in {refused, TRUE}
      \/ /\ transcript' = messages /\ session' = entries /\ clock' = now
         /\ refused' = refused
         /\ \/ BeginRun(c, <<>>, FALSE) /\ UNCHANGED queues
            \/ /\ BeginRun(c, Drained(steering), TRUE)
               /\ steering' = Left(steering) /\ followUp' = followUp
            \/ /\ BeginRun(c, Drained(followUp), FALSE)
               /\ followUp' = Left(followUp) /\ steering' = steering
  BY Zenon DEF Continue
<1> QED BY <1>1, <1>2, <1>3

LEMMA ContinueIfQueuedData ==
    ASSUME Data, NEW c \in Callers, NEW messages, NEW entries, NEW now,
           Follows(messages, entries, now),
           ContinueIfQueued(c, messages, entries, now)
    PROVE  Grown /\ JobsOK' /\ SavingOK' /\ QueuesOK' /\ refused' \in BOOLEAN
BY SettleData, ContinueData DEF ContinueIfQueued, Data, FlagsOK

LEMMA CheckedFollows ==
    ASSUME ConversationOK, NEW m PROVE Follows(Checked(m), session, clock)
BY Following, DroppedFollows DEF Checked

LEMMA StartCompactionData ==
    ASSUME Data, NEW c \in Callers, NEW m, NEW at,
           StartCompaction(c, m, at), UNCHANGED <<session, clock>>
    PROVE  Grown /\ JobsOK'
<1>1. PICK keep \in Keeps(session) :
         job' = [job EXCEPT ![c] = [keep |-> keep, retry |-> Recovers(m),
                                    message |-> None]]
  BY DEF StartCompaction
<1> DEFINE j == [keep |-> keep, retry |-> Recovers(m), message |-> None]
<1>2. Grown /\ ConversationOK /\ IInv /\ JobsOK
  BY CheckedFollows DEF StartCompaction, Grown, Data
<1>3. Has(session, keep) /\ keep \in 0 .. clock
  BY <1>2, KeepsAreEntries
<1>4. Recovers(m) \in BOOLEAN
  BY DEF Recovers
<1>5. j \in Jobs(clock') /\ j.keep = keep
  BY <1>3, <1>4 DEF Jobs
<1>6. job' = [job EXCEPT ![c] = j] /\ pc' = [pc EXCEPT ![c] = at]
  BY <1>1 DEF StartCompaction
<1>7. Has(session', j.keep)
  BY <1>3
<1> HIDE DEF j
<1> QED BY <1>2, <1>5, <1>6, <1>7, JobsMove

LEMMA LoopLeftData ==
    ASSUME Data, Grown, NEW c, LoopLeft(c), UNCHANGED <<saving, polled>>
    PROVE  SavingOK'
<1>1. /\ loop' \in {loop, "idle"} /\ aborted' \in BOOLEAN
      /\ ConversationOK /\ SavingOK
  BY DEF LoopLeft, Data, SavingOK
<1>2. polled' \in BOOLEAN /\ loop' \in LoopStates
  BY <1>1 DEF SavingOK, LoopStates
<1> QED BY <1>1, <1>2, SavingStays

LEMMA AfterRunData ==
    ASSUME Data, NEW c \in Callers, NEW m, AfterRun(c, m)
    PROVE  /\ Grown /\ JobsOK' /\ SavingOK' /\ QueuesOK' /\ refused' \in BOOLEAN
           /\ overflowTried' \in BOOLEAN
<1>1. overflowTried' \in BOOLEAN
  BY DEF AfterRun
<1>2. CASE ContinueIfQueued(c, Checked(m), session, clock)
  BY <1>1, <1>2, CheckedFollows, ContinueIfQueuedData DEF Data
<1>3. CASE /\ StartCompaction(c, m, "compact") /\ LoopLeft(c)
           /\ UNCHANGED <<deliver, polled, saving, queues, session, clock, refused>>
  <2>1. Grown /\ JobsOK'
    BY <1>3, StartCompactionData
  <2>2. SavingOK'
    BY <1>3, <2>1, LoopLeftData
  <2>3. QueuesOK' /\ refused' \in BOOLEAN
    BY <1>3 DEF Data, QueuesOK, FlagsOK, queues
  <2> QED BY <1>1, <2>1, <2>2, <2>3
<1> QED BY <1>2, <1>3 DEF AfterRun

-----------------------------------------------------------------------------
(* The steps of a session keep its data typed: one lemma for each action    *)
(* that touches the conversation, one for the others.                       *)

\* The data that a step leaves alone.
LEMMA UntouchedData ==
    ASSUME Data
    PROVE  /\ UNCHANGED queues /\ deliver' = deliver => QueuesOK'
           /\ UNCHANGED mirrors => MirrorsOK'
           /\ UNCHANGED <<refused, unheard, strayed>> => FlagsOK'
           /\ Grown /\ UNCHANGED recovery => RecoveryOK'
           /\ Grown /\ UNCHANGED <<compaction, idleWaiters>> => ManualOK'
           /\ Grown /\ UNCHANGED agent => SavingOK'
           /\ Grown /\ UNCHANGED calls => JobsOK'
<1>1. UNCHANGED queues /\ deliver' = deliver => QueuesOK'
  BY DEF queues, Data, QueuesOK
<1>2. UNCHANGED mirrors => MirrorsOK'
  BY DEF mirrors, Data, MirrorsOK
<1>3. UNCHANGED <<refused, unheard, strayed>> => FlagsOK'
  BY DEF Data, FlagsOK
<1>4. Grown /\ UNCHANGED recovery => RecoveryOK'
  <2> SUFFICES ASSUME Grown, UNCHANGED recovery PROVE RecoveryOK'
    OBVIOUS
  <2>1. /\ lastAssistant' = lastAssistant /\ retryAttempt' = retryAttempt
        /\ overflowTried' = overflowTried /\ retryController' = retryController
        /\ cancelled' = cancelled /\ ConversationOK /\ RecoveryOK
    BY DEF recovery, Data
  <2>2. /\ retryAttempt' \in 0 .. MaxRetries /\ overflowTried' \in BOOLEAN
        /\ retryController' \subseteq Callers /\ cancelled' \subseteq Callers
    BY <2>1 DEF RecoveryOK
  <2> QED BY <2>1, <2>2, RecoveryStays
<1>5. Grown /\ UNCHANGED <<compaction, idleWaiters>> => ManualOK'
  <2> SUFFICES ASSUME Grown, UNCHANGED <<compaction, idleWaiters>> PROVE ManualOK'
    OBVIOUS
  <2>1. idleWaiters' \subseteq {"abort", "compact"} /\ ConversationOK /\ ManualOK
        /\ UNCHANGED compaction
    BY DEF Data, ManualOK
  <2> QED BY <2>1, ManualStays
<1>6. Grown /\ UNCHANGED agent => SavingOK'
  <2> SUFFICES ASSUME Grown, UNCHANGED agent PROVE SavingOK'
    OBVIOUS
  <2>1. /\ loop' = loop /\ polled' = polled /\ saving' = saving /\ aborted' = aborted
        /\ ConversationOK /\ SavingOK
    BY DEF agent, Data
  <2>2. loop' \in LoopStates /\ polled' \in BOOLEAN /\ aborted' \in BOOLEAN
    BY <2>1 DEF SavingOK
  <2> QED BY <2>1, <2>2, SavingStays
<1>7. Grown /\ UNCHANGED calls => JobsOK'
  BY JobsStay DEF calls, Data
<1> QED BY <1>1, <1>2, <1>3, <1>4, <1>5, <1>6, <1>7

\* A step that leaves the conversation alone.
LEMMA QuietGrown ==
    ASSUME Data, UNCHANGED <<transcript, session, clock>> PROVE Grown
BY Following DEF Data, Grown

LEMMA CallMovesData ==
    ASSUME Data, IInv', NEW c \in Callers,
           StartPrompt(c) \/ PromptEnds(c) \/ PromptQueued(c) \/ NoAuth(c) \/ Settled(c)
    PROVE  Data'
<1>1. /\ UNCHANGED <<job, agent, conversation, clock, recovery, compaction, refused,
                     unheard, strayed>>
      /\ \E s \in {"idle", "input"} : pc' = [pc EXCEPT ![c] = s]
      /\ \/ UNCHANGED <<queues, mirrors>>
         \/ PromptQueued(c)
      /\ idleWaiters' \in {idleWaiters, {}}
  BY Zenon DEF StartPrompt, PromptEnds, PromptQueued, NoAuth, Settled
<1>2. Grown /\ ConversationOK'
  BY <1>1, QuietGrown, GrownConversation DEF conversation
<1>3. JobsOK'
  BY <1>1, <1>2, JobsStay DEF Data
<1>4. SavingOK' /\ RecoveryOK' /\ FlagsOK'
  BY <1>1, <1>2, UntouchedData
<1>5. ManualOK'
  <2>1. idleWaiters' \subseteq {"abort", "compact"} /\ ConversationOK /\ ManualOK
    BY <1>1 DEF Data, ManualOK
  <2> QED BY <1>1, <1>2, <2>1, ManualStays
<1>6. QueuesOK' /\ MirrorsOK'
  <2>1. CASE UNCHANGED <<queues, mirrors>>
    BY <1>1, <2>1, UntouchedData DEF agent
  <2>2. CASE PromptQueued(c)
    <3>1. PICK x \in Texts : Queue(x)
      BY <2>2 DEF PromptQueued
    <3>2. \A q \in {steering, followUp, steeringMirror, followUpMirror} :
             q \in Seq(Texts) /\ Append(q, x) \in Seq(Texts)
      BY QueueTyped DEF Data, QueuesOK, MirrorsOK
    <3>3. deliver' = deliver /\ deliver \in Seq(Texts)
      BY <1>1 DEF agent, Data, QueuesOK
    <3> QED BY <3>1, <3>2, <3>3 DEF Queue, QueuesOK, MirrorsOK
  <2> QED BY <1>1, <2>1, <2>2
<1> QED BY <1>2, <1>3, <1>4, <1>5, <1>6 DEF Data

LEMMA QueueMessageData ==
    ASSUME Data, IInv', QueueMessage PROVE Data'
<1>1. /\ UNCHANGED <<calls, idleWaiters, agent, conversation, clock, recovery,
                     compaction, refused, unheard>>
      /\ strayed' \in BOOLEAN /\ \E x \in Texts : Queue(x)
  BY DEF QueueMessage
<1>2. Grown /\ ConversationOK'
  BY <1>1, QuietGrown, GrownConversation DEF conversation
<1>3. SavingOK' /\ RecoveryOK' /\ ManualOK' /\ JobsOK'
  BY <1>1, <1>2, UntouchedData
<1>4. FlagsOK'
  BY <1>1 DEF Data, FlagsOK
<1>5. QueuesOK' /\ MirrorsOK'
  <2>1. PICK x \in Texts : Queue(x)
    BY <1>1
  <2>2. \A q \in {steering, followUp, steeringMirror, followUpMirror} :
           q \in Seq(Texts) /\ Append(q, x) \in Seq(Texts)
    BY QueueTyped DEF Data, QueuesOK, MirrorsOK
  <2>3. deliver' = deliver /\ deliver \in Seq(Texts)
    BY <1>1 DEF agent, Data, QueuesOK
  <2> QED BY <2>1, <2>2, <2>3 DEF Queue, QueuesOK, MirrorsOK
<1> QED BY <1>2, <1>3, <1>4, <1>5 DEF Data

\* abort(), compact() up to its summary, clearQueue(), and a poll.
LEMMA RequestData ==
    ASSUME Data, IInv',
           Abort \/ RequestCompact \/ ManualBegins \/ ManualFails \/ ClearQueue
    PROVE  Data'
<1>1. /\ UNCHANGED <<calls, deliver, loop, polled, saving, conversation, clock,
                     lastAssistant, retryAttempt, retryController, overflowTried,
                     refused>>
      /\ aborted' \in {aborted, TRUE, aborted \/ loop # "idle"}
      /\ cancelled' \in {cancelled, cancelled \cup retryController}
      /\ unheard' \in {unheard, FALSE} /\ strayed' \in {strayed, strayed \/ active}
      /\ UNCHANGED <<queues, mirrors>> \/ ClearQueue
  BY Zenon DEF Abort, RequestCompact, AbortAll, ManualBegins, ManualFails, ClearQueue,
               agent, recovery
<1>2. Grown /\ ConversationOK' /\ ConversationOK
  BY <1>1, QuietGrown, GrownConversation DEF conversation, Data
<1>3. JobsOK'
  BY <1>1, <1>2, UntouchedData
<1>4. SavingOK'
  <2>1. loop' \in LoopStates /\ polled' \in BOOLEAN /\ aborted' \in BOOLEAN /\ SavingOK
    BY <1>1 DEF Data, SavingOK
  <2> QED BY <1>1, <1>2, <2>1, SavingStays
<1>5. RecoveryOK'
  <2>1. /\ retryAttempt' \in 0 .. MaxRetries /\ overflowTried' \in BOOLEAN
        /\ retryController' \subseteq Callers /\ cancelled' \subseteq Callers
        /\ RecoveryOK
    BY <1>1 DEF Data, RecoveryOK
  <2> QED BY <1>1, <1>2, <2>1, RecoveryStays
<1>6. FlagsOK'
  BY <1>1 DEF Data, FlagsOK
<1>7. QueuesOK' /\ MirrorsOK'
  <2>1. CASE ClearQueue
    BY <1>1, <2>1 DEF ClearQueue, Data, QueuesOK, MirrorsOK
  <2> QED BY <1>1, <2>1, UntouchedData
<1>8. ManualOK'
  <2>1. ManualOK /\ clock \in Nat
    BY DEF Data, ConversationOK
  <2>2. CASE ClearQueue
    BY <1>2, <2>2, UntouchedData DEF ClearQueue
  <2>3. CASE Abort
    <3>1. idleWaiters' \subseteq {"abort", "compact"} /\ UNCHANGED compaction
      BY <2>1, <2>3 DEF Abort, AbortAll, ManualOK
    <3> QED BY <1>2, <2>1, <3>1, ManualStays
  <2>4. CASE RequestCompact
    BY <1>1, <2>1, <2>4 DEF RequestCompact, AbortAll, ManualOK
  <2>5. CASE ManualFails
    <3>1. /\ manual' = "none" /\ connected' = TRUE /\ manualKeep' = 0
          /\ idleWaiters' = idleWaiters /\ clock' = clock
      BY <1>1, <2>5 DEF ManualFails
    <3>2. 0 \in 0 .. clock' /\ idleWaiters' \subseteq {"abort", "compact"}
      BY <2>1, <3>1 DEF ManualOK
    <3> QED BY <3>1, <3>2 DEF ManualOK
  <2>6. CASE ManualBegins
    <3>1. /\ manualKeep' \in Keeps(session) /\ manual' = "working" /\ manual = "waiting"
          /\ connected' = connected /\ idleWaiters' = idleWaiters
          /\ session' = session /\ clock' = clock
      BY <1>1, <2>6 DEF ManualBegins, conversation
    <3>2. Has(session, manualKeep') /\ manualKeep' \in 0 .. clock
      BY <1>2, <3>1, KeepsAreEntries
    <3>3. idleWaiters' \subseteq {"abort", "compact"} /\ connected' = FALSE
      BY <2>1, <3>1 DEF ManualOK
    <3> QED BY <3>1, <3>2, <3>3 DEF ManualOK
  <2> QED BY <2>2, <2>3, <2>4, <2>5, <2>6
<1> QED BY <1>2, <1>3, <1>4, <1>5, <1>6, <1>7, <1>8 DEF Data

LEMMA CallModelData ==
    ASSUME Data, IInv', CallModel PROVE Data'
<1>1. /\ UNCHANGED <<calls, idleWaiters, saving, aborted, followUp, mirrors,
                     conversation, clock, recovery, compaction, refused, unheard,
                     strayed>>
      /\ polled' = TRUE /\ loop = "deliver" /\ loop' \in {"deliver", "model"}
      /\ \/ deliver' = Drained(steering) /\ steering' = Left(steering)
         \/ deliver' = deliver /\ steering' = steering
  BY DEF CallModel
<1>2. Grown /\ ConversationOK' /\ ConversationOK
  BY <1>1, QuietGrown, GrownConversation DEF conversation, Data
<1>3. JobsOK' /\ MirrorsOK' /\ RecoveryOK' /\ ManualOK' /\ FlagsOK'
  BY <1>1, <1>2, UntouchedData
<1>4. SavingOK'
  <2>1. loop' \in LoopStates /\ polled' \in BOOLEAN /\ aborted' \in BOOLEAN /\ SavingOK
    BY <1>1 DEF Data, SavingOK, LoopStates
  <2> QED BY <1>1, <1>2, <2>1, SavingStays
<1>5. QueuesOK'
  <2>1. deliver \in Seq(Texts) /\ steering \in Seq(Texts) /\ followUp \in Seq(Texts)
    BY DEF Data, QueuesOK
  <2>2. Drained(steering) \in Seq(Texts) /\ Left(steering) \in Seq(Texts)
    BY <2>1, QueueTyped
  <2> QED BY <1>1, <2>1, <2>2 DEF QueuesOK
<1> QED BY <1>2, <1>3, <1>4, <1>5 DEF Data

\* A message that begins to be saved.
LEMMA SavingBegins ==
    ASSUME Data, NEW kind \in Kinds \ {"compaction"}, clock' = clock + 1,
           transcript' = Append(transcript, Message(kind, clock')),
           saving' = [message |-> Message(kind, clock'), heard |-> connected],
           loop' = "saving", UNCHANGED <<polled, aborted, session>>
    PROVE  Grown /\ SavingOK'
<1>1. /\ Follows(Append(transcript, Message(kind, clock + 1)), session, clock + 1)
      /\ Message(kind, clock + 1) \in MessagesTo(clock + 1)
  BY AddedFollows DEF Data
<1>2. Grown
  BY <1>1 DEF Grown
<1>3. connected \in BOOLEAN /\ polled \in BOOLEAN /\ aborted \in BOOLEAN
  BY DEF Data, ManualOK, SavingOK
<1> DEFINE m == Message(kind, clock + 1)
<1>4. m \in MessagesTo(clock') /\ saving' = [message |-> m, heard |-> connected]
  BY <1>1
<1> HIDE DEF m
<1>5. /\ saving' \in [message : MessagesTo(clock') \cup {None}, heard : BOOLEAN]
      /\ saving'.message \in MessagesTo(clock')
  BY <1>3, <1>4
<1>6. SavingOK'
  BY <1>3, <1>5 DEF SavingOK, LoopStates, MessagesTo
<1> QED BY <1>2, <1>6

LEMMA AnnounceData ==
    ASSUME Data, IInv', Announce PROVE Data'
<1>1. /\ UNCHANGED <<calls, idleWaiters, polled, aborted, queues, session,
                     lastAssistant, retryAttempt, retryController, cancelled,
                     compaction, refused>>
      /\ clock' = clock + 1 /\ transcript' = Append(transcript, Message("user", clock'))
      /\ saving' = [message |-> Message("user", clock'), heard |-> connected]
      /\ loop' = "saving" /\ deliver # <<>> /\ deliver' = Tail(deliver)
      /\ overflowTried' \in {overflowTried, FALSE}
      /\ \/ UNCHANGED <<unheard, strayed>>
         \/ unheard' = TRUE /\ strayed' = TRUE
      /\ ForgetMirrored(Head(deliver)) \/ UNCHANGED mirrors
  BY Zenon DEF Announce
<1>2. "user" \in Kinds \ {"compaction"}
  BY DEF Kinds
<1>3. Grown /\ SavingOK'
  BY <1>1, <1>2, SavingBegins
<1>4. ConversationOK' /\ JobsOK' /\ ManualOK'
  BY <1>1, <1>3, GrownConversation, UntouchedData
<1>5. RecoveryOK'
  <2>1. /\ retryAttempt' \in 0 .. MaxRetries /\ overflowTried' \in BOOLEAN
        /\ retryController' \subseteq Callers /\ cancelled' \subseteq Callers
        /\ RecoveryOK /\ ConversationOK
    BY <1>1 DEF Data, RecoveryOK
  <2> QED BY <1>1, <1>3, <2>1, RecoveryStays
<1>6. FlagsOK'
  BY <1>1 DEF Data, FlagsOK
<1>7. QueuesOK'
  <2>1. deliver \in Seq(Texts) /\ steering \in Seq(Texts) /\ followUp \in Seq(Texts)
    BY DEF Data, QueuesOK
  <2>2. Tail(deliver) \in Seq(Texts)
    BY <1>1, <2>1, QueueTyped
  <2> QED BY <1>1, <2>1, <2>2 DEF QueuesOK, queues
<1>8. MirrorsOK'
  <2>1. \A q \in {steeringMirror, followUpMirror} :
           q \in Seq(Texts) /\ \A x : RemoveFirst(q, x) \in Seq(Texts)
    BY QueueTyped DEF Data, MirrorsOK
  <2>2. CASE ForgetMirrored(Head(deliver))
    BY <2>1, <2>2 DEF ForgetMirrored, MirrorsOK
  <2> QED BY <1>1, <2>2, UntouchedData
<1> QED BY <1>3, <1>4, <1>5, <1>6, <1>7, <1>8 DEF Data

LEMMA RespondData ==
    ASSUME Data, IInv', NEW kind \in Finals \cup {"tools"}, Respond(kind) PROVE Data'
<1>1. /\ UNCHANGED <<calls, idleWaiters, deliver, polled, aborted, queues, mirrors,
                     session, recovery, compaction, refused, unheard, strayed>>
      /\ clock' = clock + 1 /\ transcript' = Append(transcript, Message(kind, clock'))
      /\ saving' = [message |-> Message(kind, clock'), heard |-> connected]
      /\ loop' = "saving"
  BY DEF Respond
<1>2. kind \in Kinds \ {"compaction"}
  BY DEF Kinds, Finals, Failures, Errors, Usages
<1>3. Grown /\ SavingOK'
  BY <1>1, <1>2, SavingBegins
<1>4. ConversationOK'
  BY <1>3, GrownConversation
<1> QED BY <1>1, <1>3, <1>4, UntouchedData DEF Data

LEMMA MessageSavedData ==
    ASSUME Data, IInv', MessageSaved PROVE Data'
<1>1. /\ UNCHANGED <<calls, idleWaiters, polled, aborted, mirrors, transcript, clock,
                     retryController, cancelled, compaction, refused, unheard, strayed>>
      /\ saving' = NotSaving /\ loop = "saving" /\ Saved
      /\ NextTurn(saving.message.kind)
  BY DEF MessageSaved
<1> DEFINE m == saving.message
<1>2. m \in MessagesTo(clock) /\ ConversationOK /\ clock \in Nat
  BY <1>1 DEF Data, SavingOK, ConversationOK
<1> HIDE DEF m
<1>3. m.kind \in Kinds /\ m.time \in 1 .. clock
  BY <1>2 DEF MessagesTo
<1>4. /\ session' = Append(session, Entry(m.kind, m.time, 0)) \/ session' = session
      /\ lastAssistant' \in {lastAssistant, m}
      /\ retryAttempt' \in {retryAttempt, 0}
      /\ overflowTried' \in {overflowTried, overflowTried /\ m.kind \in Errors}
  BY <1>1, Zenon DEF Saved, m
<1>5. /\ m.kind # "compaction" /\ loop' \in {"deliver", "ended"}
      /\ deliver' \in {deliver, Drained(steering), Drained(followUp)}
      /\ steering' \in {steering, Left(steering)}
      /\ followUp' \in {followUp, Left(followUp)}
  BY <1>1 DEF NextTurn, m, Failures, Usages, Errors, queues
<1>6. Grown
  <2> DEFINE e == Entry(m.kind, m.time, 0)
  <2>1. e \in EntriesTo(clock) /\ e.kind # "compaction"
    BY <1>2, <1>3, <1>5, MessageTyped DEF Entry, EntriesTo
  <2> HIDE DEF e
  <2>2. /\ session \in Seq(EntriesTo(clock)) /\ Linked(session)
        /\ session' = Append(session, e) \/ session' = session
        /\ Follows(transcript, session, clock)
    BY <1>2, <1>4, Following DEF ConversationOK, e
  <2>3. /\ Append(session, e) \in Seq(EntriesTo(clock)) /\ Linked(Append(session, e))
        /\ \A t : Has(session, t) => Has(Append(session, e), t)
    BY <1>2, <2>1, <2>2, EntryAdded
  <2>4. Follows(transcript, session', clock)
    BY <2>2, <2>3 DEF Follows
  <2> QED BY <1>1, <2>4 DEF Grown
<1>7. ConversationOK' /\ JobsOK' /\ MirrorsOK' /\ ManualOK' /\ FlagsOK'
  BY <1>1, <1>6, GrownConversation, UntouchedData
<1>8. RecoveryOK'
  <2>1. lastAssistant \in MessagesTo(clock) \cup {None} /\ retryAttempt \in 0 .. MaxRetries
        /\ overflowTried \in BOOLEAN
        /\ retryController \subseteq Callers /\ cancelled \subseteq Callers
    BY DEF Data, RecoveryOK
  <2>2. retryAttempt' \in 0 .. MaxRetries
    BY <1>4, <2>1, AgentSessionAssumption
  <2>3. lastAssistant' \in MessagesTo(clock) \cup {None}
    BY <1>2, <1>4, <2>1
  <2>4. overflowTried' \in BOOLEAN
    BY <1>4, <2>1
  <2> QED BY <1>1, <2>1, <2>2, <2>3, <2>4 DEF RecoveryOK, MessagesTo
<1>9. SavingOK'
  <2>1. NotSaving \in [message : MessagesTo(clock') \cup {None}, heard : BOOLEAN]
    BY DEF NotSaving
  <2>2. polled' \in BOOLEAN /\ aborted' \in BOOLEAN
    BY <1>1 DEF Data, SavingOK
  <2> QED BY <1>1, <1>5, <2>1, <2>2 DEF SavingOK, LoopStates, MessagesTo
<1>10. QueuesOK'
  <2>1. \A q \in {steering, followUp} :
           q \in Seq(Texts) /\ Drained(q) \in Seq(Texts) /\ Left(q) \in Seq(Texts)
    BY QueueTyped DEF Data, QueuesOK
  <2>2. deliver \in Seq(Texts)
    BY DEF Data, QueuesOK
  <2> QED BY <1>5, <2>1, <2>2 DEF QueuesOK
<1> QED BY <1>6, <1>7, <1>8, <1>9, <1>10 DEF Data

\* recordBashResult()
LEMMA RecordBashData ==
    ASSUME Data, IInv', RecordBash PROVE Data'
<1>1. /\ UNCHANGED <<calls, idleWaiters, agent, queues, mirrors, recovery, compaction,
                     refused, unheard, strayed>>
      /\ \/ UNCHANGED <<conversation, clock>>
         \/ /\ clock' = clock + 1
            /\ transcript' = Append(transcript, Message("bash", clock'))
            /\ session' = Append(session, Entry("bash", clock', 0))
  BY Zenon DEF RecordBash
<1>2. Grown
  <2>1. CASE UNCHANGED <<conversation, clock>>
    BY <2>1, QuietGrown DEF conversation
  <2>2. CASE /\ clock' = clock + 1
             /\ transcript' = Append(transcript, Message("bash", clock'))
             /\ session' = Append(session, Entry("bash", clock', 0))
    <3>1. "bash" \in Kinds \ {"compaction"}
      BY DEF Kinds
    <3>2. Follows(Append(transcript, Message("bash", clock + 1)),
                  Append(session, Entry("bash", clock + 1, 0)), clock + 1)
      BY <3>1, AddedFollows DEF Data
    <3> QED BY <2>2, <3>2 DEF Grown
  <2> QED BY <1>1, <2>1, <2>2
<1>3. ConversationOK' /\ deliver' = deliver
  BY <1>1, <1>2, GrownConversation DEF agent
<1> QED BY <1>1, <1>2, <1>3, UntouchedData DEF Data

LEMMA ManualSucceedsData ==
    ASSUME Data, IInv', ManualSucceeds PROVE Data'
<1>1. /\ UNCHANGED <<calls, idleWaiters, agent, queues, mirrors, recovery, refused,
                     unheard, strayed>>
      /\ session' = Append(session, CompactionEntry(manualKeep))
      /\ transcript' = Context(session') /\ clock' = clock + 1
      /\ manual = "working" /\ manual' = "none" /\ manualKeep' = 0 /\ connected' = TRUE
  BY DEF ManualSucceeds
<1>2. Has(session, manualKeep) /\ manualKeep \in 0 .. clock /\ ConversationOK
      /\ idleWaiters \subseteq {"abort", "compact"}
  BY <1>1 DEF Data, ManualOK
<1>3. Grown
  BY <1>1, <1>2, CompactionFollows DEF Grown
<1>4. ConversationOK' /\ clock' \in Nat /\ deliver' = deliver
  BY <1>1, <1>3, GrownConversation DEF agent, Grown, Follows
<1>5. ManualOK'
  <2>1. 0 \in 0 .. clock' /\ idleWaiters' \subseteq {"abort", "compact"}
    BY <1>1, <1>2, <1>4
  <2>2. /\ manual' = "none" /\ connected' = TRUE /\ manualKeep' = 0
    BY <1>1
  <2> QED BY <2>1, <2>2 DEF ManualOK
<1> QED BY <1>1, <1>3, <1>4, <1>5, UntouchedData DEF Data

LEMMA PrecompactionEndsData ==
    ASSUME Data, IInv', NEW c \in Callers, PrecompactionEnds(c) PROVE Data'
<1>1. /\ UNCHANGED <<idleWaiters, agent, queues, mirrors, recovery, compaction, refused,
                     unheard, strayed>>
      /\ pc[c] = "precompact" /\ pc' = [pc EXCEPT ![c] = "before"]
      /\ job' = [job EXCEPT ![c] = NoJob]
      /\ \/ /\ session' = Append(session, CompactionEntry(job[c].keep))
            /\ transcript' = Compacted(c) /\ clock' = clock + 1
         \/ UNCHANGED <<session, transcript, clock>>
  BY DEF PrecompactionEnds
<1>2. /\ Has(session, job[c].keep) /\ job[c].keep \in 0 .. clock
      /\ IInv /\ ConversationOK /\ JobsOK
  BY <1>1 DEF Data, JobsOK, Jobs
<1>3. Grown
  <2>1. CASE UNCHANGED <<session, transcript, clock>>
    BY <2>1, QuietGrown
  <2>2. CASE /\ session' = Append(session, CompactionEntry(job[c].keep))
             /\ transcript' = Compacted(c) /\ clock' = clock + 1
    BY <1>2, <2>2, CompactionFollows, DroppedFollows DEF Compacted, Grown
  <2> QED BY <1>1, <2>1, <2>2
<1>4. ConversationOK' /\ clock' \in Nat /\ deliver' = deliver
  BY <1>1, <1>3, GrownConversation DEF agent, Grown, Follows
<1>5. JobsOK'
  <2>1. NoJob \in Jobs(clock')
    BY <1>4, NoJobTyped
  <2> QED BY <1>1, <1>2, <1>3, <2>1, JobsMove
<1> QED BY <1>1, <1>3, <1>4, <1>5, UntouchedData DEF Data

LEMMA PromptAcceptedData ==
    ASSUME Data, IInv', NEW c \in Callers, PromptAccepted(c) PROVE Data'
<1>1. /\ UNCHANGED <<job, idleWaiters, agent, queues, mirrors, recovery, compaction,
                     refused, unheard, strayed>>
      /\ pc' = [pc EXCEPT ![c] = "auth"] /\ FlushBash(transcript, session, clock)
  BY DEF PromptAccepted
<1>2. ConversationOK /\ IInv /\ JobsOK /\ pendingBash \in Nat
      /\ Follows(transcript, session, clock)
  BY Following DEF Data, IInv, Types
<1>3. Grown
  BY <1>1, <1>2, FlushFollows
<1>4. ConversationOK' /\ deliver' = deliver
  BY <1>1, <1>3, GrownConversation DEF agent
<1>5. JobsOK'
  BY <1>1, <1>2, <1>3, JobsStay
<1> QED BY <1>1, <1>3, <1>4, <1>5, UntouchedData DEF Data

LEMMA CheckBeforePromptData ==
    ASSUME Data, IInv', NEW c \in Callers, CheckBeforePrompt(c) PROVE Data'
<1> DEFINE m == LastOfTranscript
<1>1. /\ UNCHANGED <<idleWaiters, agent, queues, mirrors, session, clock, lastAssistant,
                     retryAttempt, retryController, cancelled, compaction, refused,
                     unheard, strayed>>
      /\ overflowTried' = (overflowTried \/ Recovers(m))
      /\ \/ StartCompaction(c, m, "precompact")
         \/ /\ pc' = [pc EXCEPT ![c] = "before"]
            /\ transcript' = Checked(m) /\ job' = job
  BY Zenon DEF CheckBeforePrompt
<1> HIDE DEF m
<1>2. Grown /\ JobsOK'
  <2>1. CASE StartCompaction(c, m, "precompact")
    BY <1>1, <2>1, StartCompactionData
  <2>2. CASE /\ pc' = [pc EXCEPT ![c] = "before"]
             /\ transcript' = Checked(m) /\ job' = job
    <3>1. Grown /\ ConversationOK /\ IInv /\ JobsOK
      BY <1>1, <2>2, CheckedFollows DEF Grown, Data
    <3> QED BY <2>2, <3>1, JobsStay
  <2> QED BY <1>1, <2>1, <2>2
<1>3. ConversationOK' /\ deliver' = deliver
  BY <1>1, <1>2, GrownConversation DEF agent
<1>4. RecoveryOK'
  <2>1. /\ retryAttempt' \in 0 .. MaxRetries /\ overflowTried' \in BOOLEAN
        /\ retryController' \subseteq Callers /\ cancelled' \subseteq Callers
        /\ RecoveryOK /\ ConversationOK
    BY <1>1 DEF Data, RecoveryOK
  <2> QED BY <1>1, <1>2, <2>1, RecoveryStays
<1> QED BY <1>1, <1>2, <1>3, <1>4, UntouchedData DEF Data

LEMMA RunPromptData ==
    ASSUME Data, IInv', NEW c \in Callers, RunPrompt(c) PROVE Data'
<1>1. /\ UNCHANGED <<idleWaiters, mirrors, recovery, compaction, refused, unheard,
                     strayed, queues>>
      /\ \/ /\ \E x \in Texts : BeginRun(c, <<x>>, FALSE)
            /\ UNCHANGED <<conversation, clock>>
         \/ /\ FlushBash(transcript, session, clock)
            /\ pc' = [pc EXCEPT ![c] = "settling"] /\ UNCHANGED <<job, agent>>
  BY Zenon DEF RunPrompt
<1>2. /\ ConversationOK /\ IInv /\ JobsOK /\ pendingBash \in Nat
      /\ Follows(transcript, session, clock) /\ QueuesOK
  BY Following DEF Data, IInv, Types
<1>3. Grown /\ JobsOK' /\ SavingOK' /\ QueuesOK'
  <2>1. CASE /\ \E x \in Texts : BeginRun(c, <<x>>, FALSE)
             /\ UNCHANGED <<conversation, clock>>
    <3>1. Grown
      BY <2>1, QuietGrown DEF conversation
    <3>2. PICK x \in Texts : BeginRun(c, <<x>>, FALSE)
      BY <2>1
    <3>3. <<x>> \in Seq(Texts)
      OBVIOUS
    <3>4. JobsOK' /\ SavingOK' /\ deliver' \in Seq(Texts)
      BY <3>1, <3>2, <3>3, BeginData
    <3> QED BY <1>1, <1>2, <3>1, <3>4 DEF QueuesOK, queues
  <2>2. CASE /\ FlushBash(transcript, session, clock)
             /\ pc' = [pc EXCEPT ![c] = "settling"] /\ UNCHANGED <<job, agent>>
    <3>1. Grown
      BY <1>2, <2>2, FlushFollows
    <3>2. JobsOK'
      BY <1>2, <2>2, <3>1, JobsStay
    <3>3. deliver' = deliver
      BY <2>2 DEF agent
    <3> QED BY <1>1, <2>2, <3>1, <3>2, <3>3, UntouchedData
  <2> QED BY <1>1, <2>1, <2>2
<1>4. ConversationOK'
  BY <1>3, GrownConversation
<1> QED BY <1>1, <1>3, <1>4, UntouchedData DEF Data

LEMMA RunEndsData ==
    ASSUME Data, IInv', NEW c \in Callers, RunEnds(c) PROVE Data'
<1> DEFINE m == lastAssistant
<1>1. /\ UNCHANGED <<idleWaiters, mirrors, cancelled, compaction, unheard, strayed>>
      /\ lastAssistant' = None
      /\ \/ /\ Settle(c, transcript, session, clock)
            /\ UNCHANGED <<retryAttempt, retryController, overflowTried, refused>>
         \/ BeginRetry(c, m)
         \/ /\ AfterRun(c, m)
            /\ retryAttempt' \in {0, retryAttempt} /\ UNCHANGED retryController
  BY Zenon DEF RunEnds
<1>2. /\ ConversationOK /\ IInv /\ JobsOK /\ QueuesOK /\ FlagsOK /\ RecoveryOK
      /\ Follows(transcript, session, clock)
      /\ retryAttempt \in 0 .. MaxRetries /\ overflowTried \in BOOLEAN
      /\ m \in MessagesTo(clock) \cup {None}
      /\ retryController \subseteq Callers /\ cancelled \subseteq Callers
      /\ refused \in BOOLEAN
  BY Following DEF Data, RecoveryOK, FlagsOK
<1> HIDE DEF m
<1>3. /\ Grown /\ JobsOK' /\ SavingOK' /\ QueuesOK' /\ refused' \in BOOLEAN
      /\ retryAttempt' \in 0 .. MaxRetries /\ overflowTried' \in BOOLEAN
      /\ retryController' \subseteq Callers
  <2>0. 0 \in 0 .. MaxRetries
    BY AgentSessionAssumption
  <2>1. CASE /\ Settle(c, transcript, session, clock)
             /\ UNCHANGED <<retryAttempt, retryController, overflowTried, refused>>
    BY <1>2, <2>1, SettleData
  <2>2. CASE BeginRetry(c, m)
    <3> DEFINE j == [job[c] EXCEPT !.message = m]
    <3>1. /\ retryAttempt < MaxRetries /\ retryAttempt' = retryAttempt + 1
          /\ transcript' = WithoutLast(transcript, Finals)
          /\ retryController' = {c} /\ pc' = [pc EXCEPT ![c] = "retry"]
          /\ job' = [job EXCEPT ![c].message = m] /\ LoopLeft(c)
          /\ UNCHANGED <<deliver, polled, saving, queues, session, clock,
                         overflowTried, refused>>
      BY <2>2 DEF BeginRetry, Retryable
    <3>2. Grown
      BY <1>2, <3>1, DroppedFollows DEF Grown
    <3>3. job' = [job EXCEPT ![c] = j] /\ job[c] \in Jobs(clock)
      BY <1>2, <3>1 DEF JobsOK
    <3>4. j \in Jobs(clock')
      BY <1>2, <3>1, <3>3 DEF Jobs
    <3> HIDE DEF j
    <3>5. JobsOK'
      BY <1>2, <3>1, <3>2, <3>3, <3>4, JobsMove
    <3>6. SavingOK' /\ QueuesOK'
      BY <3>1, <3>2, LoopLeftData, UntouchedData
    <3>7. retryAttempt' \in 0 .. MaxRetries
      BY <1>2, <3>1, AgentSessionAssumption
    <3> QED BY <1>2, <3>1, <3>2, <3>5, <3>6, <3>7
  <2>3. CASE /\ AfterRun(c, m)
             /\ retryAttempt' \in {0, retryAttempt} /\ UNCHANGED retryController
    BY <1>2, <2>0, <2>3, AfterRunData
  <2> QED BY <1>1, <2>1, <2>2, <2>3
<1>4. ConversationOK' /\ MirrorsOK' /\ ManualOK'
  BY <1>1, <1>3, GrownConversation, UntouchedData
<1>5. RecoveryOK'
  BY <1>1, <1>2, <1>3, RecoveryStays
<1>6. FlagsOK'
  BY <1>1, <1>2, <1>3 DEF FlagsOK
<1> QED BY <1>3, <1>4, <1>5, <1>6 DEF Data

LEMMA WaitEndsData ==
    ASSUME Data, IInv', NEW c \in Callers, RetryStep(c) \/ CompactionStep(c) PROVE Data'
<1>1. /\ UNCHANGED <<idleWaiters, mirrors, lastAssistant, compaction, unheard, strayed>>
      /\ retryAttempt' \in {0, retryAttempt}
      /\ retryController' \in {{}, retryController}
      /\ cancelled' \in {cancelled, cancelled \ {c}}
  BY Zenon DEF RetryStep, RetryWakes, RetryCancelled, CompactionStep, CompactionSucceeds,
               CompactionFails, recovery
<1>2. /\ ConversationOK /\ Follows(transcript, session, clock) /\ RecoveryOK /\ FlagsOK
      /\ retryAttempt \in 0 .. MaxRetries /\ overflowTried \in BOOLEAN
      /\ retryController \subseteq Callers /\ cancelled \subseteq Callers
      /\ 0 \in 0 .. MaxRetries
  BY Following, AgentSessionAssumption DEF Data, RecoveryOK
<1>3. /\ Grown /\ JobsOK' /\ SavingOK' /\ QueuesOK' /\ refused' \in BOOLEAN
      /\ overflowTried' \in BOOLEAN
  <2>1. CASE RetryWakes(c)
    BY <1>2, <2>1, ContinueData DEF RetryWakes
  <2>2. CASE RetryCancelled(c)
    BY <2>2, AfterRunData DEF RetryCancelled
  <2>3. CASE CompactionFails(c)
    BY <1>2, <2>3, ContinueIfQueuedData DEF CompactionFails, recovery
  <2>4. CASE CompactionSucceeds(c)
    <3>1. Has(session, job[c].keep) /\ job[c].keep \in 0 .. clock
      BY <2>4 DEF CompactionSucceeds, Data, JobsOK, Jobs
    <3> DEFINE entries == Append(session, CompactionEntry(job[c].keep))
    <3>2. Follows(Compacted(c), entries, clock + 1)
      BY <1>2, <3>1, CompactionFollows, DroppedFollows DEF Compacted
    <3>3. /\ \/ Continue(c, Compacted(c), entries, clock + 1)
             \/ ContinueIfQueued(c, Compacted(c), entries, clock + 1)
          /\ overflowTried' = overflowTried
      BY <2>4 DEF CompactionSucceeds, recovery
    <3> HIDE DEF entries
    <3> QED BY <1>2, <3>2, <3>3, ContinueData, ContinueIfQueuedData
  <2> QED BY <2>1, <2>2, <2>3, <2>4 DEF RetryStep, CompactionStep
<1>4. ConversationOK' /\ MirrorsOK' /\ ManualOK'
  BY <1>1, <1>3, GrownConversation, UntouchedData
<1>5. RecoveryOK'
  <2>1. retryAttempt' \in 0 .. MaxRetries /\ retryController' \subseteq Callers
        /\ cancelled' \subseteq Callers
    BY <1>1, <1>2
  <2> QED BY <1>1, <1>2, <1>3, <2>1, RecoveryStays
<1>6. FlagsOK'
  BY <1>1, <1>2, <1>3 DEF FlagsOK
<1> QED BY <1>3, <1>4, <1>5, <1>6 DEF Data

LEMMA DataStep ==
    ASSUME Data, [Next]_vars PROVE Data'
<1>1. IInv /\ IInv'
  BY SessionStep DEF Data
<1>2. CASE UNCHANGED vars
  <2>1. UNCHANGED <<transcript, session, clock>>
    BY <1>2 DEF vars, conversation
  <2>2. Grown /\ ConversationOK' /\ deliver' = deliver
    BY <1>2, <2>1, QuietGrown, GrownConversation DEF vars, agent
  <2> QED BY <1>1, <1>2, <2>2, UntouchedData DEF vars, Data
<1>3. CASE Next
  BY <1>1, <1>3, CallMovesData, QueueMessageData, RequestData, CallModelData,
     AnnounceData, RespondData, MessageSavedData, RecordBashData, ManualSucceedsData,
     PrecompactionEndsData, PromptAcceptedData, CheckBeforePromptData, RunPromptData,
     RunEndsData, WaitEndsData
  DEF Next, CallStep, InputStep, AuthStep, LoopStep, ManualStep
<1> QED BY <1>2, <1>3

LEMMA DataInit == Init => Data
<1> SUFFICES ASSUME Init PROVE Data
  OBVIOUS
<1>1. IInv /\ 1 \in Callers
  BY SessionInit, AgentSessionAssumption
<1>2. ConversationOK
  BY DEF Init, ConversationOK, Linked
<1>3. JobsOK
  <2>1. NoJob \in Jobs(0)
    BY NoJobTyped
  <2> QED BY <2>1 DEF Init, JobsOK
<1>4. SavingOK
  BY DEF Init, SavingOK, LoopStates, NotSaving
<1>5. QueuesOK /\ MirrorsOK
  BY DEF Init, QueuesOK, MirrorsOK
<1>6. RecoveryOK
  <2>1. 0 \in 0 .. MaxRetries
    BY AgentSessionAssumption
  <2>2. /\ lastAssistant = None /\ retryAttempt = 0 /\ overflowTried = FALSE
        /\ retryController = {} /\ cancelled = {}
    BY DEF Init
  <2> QED BY <2>1, <2>2 DEF RecoveryOK
<1>7. ManualOK /\ FlagsOK
  <2>1. /\ manual = "none" /\ connected = TRUE /\ manualKeep = 0 /\ clock = 0
        /\ idleWaiters = {} /\ refused = FALSE /\ unheard = FALSE /\ strayed = FALSE
    BY DEF Init
  <2>2. 0 \in 0 .. clock
    BY <2>1
  <2> QED BY <2>1, <2>2 DEF ManualOK, FlagsOK
<1> QED BY <1>1, <1>2, <1>3, <1>4, <1>5, <1>6, <1>7 DEF Data

\* What a session holds: every message and entry has been dated by the clock,
\* and what a compaction under way is going to keep is an entry that the session
\* still has.
THEOREM DataInvariant == Spec => []Data
BY DataInit, DataStep, PTL DEF Spec

\* The values of every field of an AgentSession, of the agent it sees and of the
\* session file.
THEOREM TypesAlwaysOK == Spec => []TypeOK
<1>1. Data => TypeOK
  <2> SUFFICES ASSUME Data PROVE TypeOK
    OBVIOUS
  <2>1. /\ pc \in [Callers -> CallStates] /\ owner \in Callers /\ pendingBash \in Nat
        /\ active \in BOOLEAN /\ overlapped \in BOOLEAN
    BY DEF Data, IInv, Types
  <2>2. job \in [Callers -> [keep : 0 .. clock, retry : BOOLEAN,
                             message : Messages \cup {None}]]
    BY DEF Data, JobsOK, Jobs, MessagesTo, Messages
  <2>3. /\ loop \in LoopStates /\ polled \in BOOLEAN /\ aborted \in BOOLEAN
        /\ saving \in [message : Messages \cup {None}, heard : BOOLEAN]
    BY DEF Data, SavingOK, MessagesTo, Messages
  <2>4. /\ transcript \in Seq(Messages)
        /\ session \in Seq([kind : Kinds, time : 1 .. clock, keep : 0 .. clock])
    BY DEF Data, ConversationOK, MessagesTo, EntriesTo, Messages
  <2>5. \A q \in {deliver, steering, followUp, steeringMirror, followUpMirror} :
           q \in Seq(Texts)
    BY DEF Data, QueuesOK, MirrorsOK
  <2>6. /\ lastAssistant \in Messages \cup {None}
        /\ retryAttempt \in 0 .. MaxRetries /\ overflowTried \in BOOLEAN
        /\ retryController \subseteq Callers /\ cancelled \subseteq Callers
    BY DEF Data, RecoveryOK, MessagesTo, Messages
  <2>7. /\ idleWaiters \subseteq {"abort", "compact"}
        /\ connected = (manual = "none")
        /\ manual \in {"none", "waiting", "working"} /\ manualKeep \in 0 .. clock
    BY DEF Data, ManualOK
  <2>8. {overlapped, refused, unheard, strayed} \subseteq BOOLEAN
    BY <2>1 DEF Data, FlagsOK
  <2> QED BY <2>1, <2>2, <2>3, <2>4, <2>5, <2>6, <2>7, <2>8 DEF TypeOK
<1> QED BY <1>1, DataInvariant, PTL

-----------------------------------------------------------------------------
(* What is shown as queued, and what is queued.                             *)

\* Messages are being announced until the last has been saved.
Delivering ==
    deliver # <<>> =>
        loop = "deliver" \/ (loop = "saving" /\ saving.message.kind = "user")

Shown(x) == Count(steeringMirror, x) + Count(followUpMirror, x)
Waiting(x) == Count(steering, x) + Count(followUp, x) + Count(deliver, x)

\* Queued messages stay, or go to the loop, which has announced all it had; a
\* prompt goes to the loop as well.
Moved ==
    \/ UNCHANGED <<steering, followUp, deliver>>
    \/ /\ deliver = <<>>
       /\ \/ UNCHANGED <<steering, followUp>>
          \/ /\ deliver' = Drained(steering) /\ steering' = Left(steering)
             /\ followUp' = followUp
          \/ /\ deliver' = Drained(followUp) /\ followUp' = Left(followUp)
             /\ steering' = steering

LEMMA CountIs ==
    ASSUME NEW q, NEW x PROVE Count(q, x) = Occurrences(q, x)
BY DEF Count, Occurrences, Positions

LEMMA CountsAre ==
    ASSUME NEW S, NEW q \in Seq(S), NEW x
    PROVE  Count(q, x) \in Nat /\ Count(<<>>, x) = 0
BY CountIs, PositionsFinite, OccurrencesOfOne

LEMMA DrainedCounts ==
    ASSUME NEW S, NEW q \in Seq(S), NEW x
    PROVE  Count(q, x) = Count(Drained(q), x) + Count(Left(q), x)
<1>1. Count(q, x) \in Nat /\ Count(<<>>, x) = 0
  BY CountsAre
<1>2. CASE QueueMode = "all" \/ q = <<>>
  <2>1. Drained(q) = q /\ Left(q) = <<>>
    BY <1>2 DEF Drained, Left
  <2> QED BY <1>1, <2>1
<1>3. CASE ~(QueueMode = "all" \/ q = <<>>)
  <2>1. Drained(q) = <<Head(q)>> /\ Left(q) = Tail(q) /\ q # <<>>
    BY <1>3 DEF Drained, Left
  <2>2. Occurrences(q, x) = (IF Head(q) = x THEN 1 ELSE 0) + Occurrences(Tail(q), x)
    BY <2>1, OccurrencesChange
  <2> QED BY <2>1, <2>2, CountIs, OccurrencesOfOne
<1> QED BY <1>2, <1>3

LEMMA MovedWaits ==
    ASSUME Data, QueuesOK', Moved, NEW x
    PROVE  Waiting(x) \in Nat /\ Waiting(x)' \in Nat /\ Waiting(x) <= Waiting(x)'
<1>1. /\ steering \in Seq(Texts) /\ followUp \in Seq(Texts) /\ deliver \in Seq(Texts)
      /\ steering' \in Seq(Texts) /\ followUp' \in Seq(Texts) /\ deliver' \in Seq(Texts)
  BY DEF Data, QueuesOK
<1>2. /\ Count(steering, x) \in Nat /\ Count(followUp, x) \in Nat
      /\ Count(deliver, x) \in Nat /\ Count(steering', x) \in Nat
      /\ Count(followUp', x) \in Nat /\ Count(deliver', x) \in Nat
      /\ Count(<<>>, x) = 0
  BY <1>1, CountsAre
<1>3. /\ Waiting(x) = Count(steering, x) + Count(followUp, x) + Count(deliver, x)
      /\ Waiting(x)' = Count(steering', x) + Count(followUp', x) + Count(deliver', x)
  BY DEF Waiting, Count
<1>4. CASE UNCHANGED <<steering, followUp, deliver>>
  BY <1>2, <1>3, <1>4
<1>5. CASE deliver = <<>> /\ UNCHANGED <<steering, followUp>>
  BY <1>2, <1>3, <1>5
<1>6. CASE /\ deliver = <<>> /\ deliver' = Drained(steering)
           /\ steering' = Left(steering) /\ followUp' = followUp
  <2>1. Count(steering, x) = Count(deliver', x) + Count(steering', x)
    BY <1>1, <1>6, DrainedCounts
  <2> QED BY <1>2, <1>3, <1>6, <2>1
<1>7. CASE /\ deliver = <<>> /\ deliver' = Drained(followUp)
           /\ followUp' = Left(followUp) /\ steering' = steering
  <2>1. Count(followUp, x) = Count(deliver', x) + Count(followUp', x)
    BY <1>1, <1>7, DrainedCounts
  <2> QED BY <1>2, <1>3, <1>7, <2>1
<1> QED BY <1>4, <1>5, <1>6, <1>7 DEF Moved

LEMMA MovedHolds ==
    ASSUME Data, QueuesOK', Moved, NoGhostQueued, UNCHANGED <<mirrors, unheard>>
    PROVE  NoGhostQueued'
<1>1. CASE unheard
  BY <1>1 DEF NoGhostQueued
<1>2. ASSUME ~unheard, NEW x \in Texts PROVE Shown(x)' <= Waiting(x)'
  <2>1. Waiting(x) \in Nat /\ Waiting(x)' \in Nat /\ Waiting(x) <= Waiting(x)'
    BY MovedWaits
  <2>2. Shown(x) <= Waiting(x)
    BY <1>2 DEF NoGhostQueued, Shown, Waiting
  <2>3. Shown(x)' = Shown(x) /\ Shown(x) \in Nat
    <3>1. Count(steeringMirror, x) \in Nat /\ Count(followUpMirror, x) \in Nat
      BY CountsAre DEF Data, MirrorsOK
    <3> QED BY <3>1 DEF Shown, mirrors, Count
  <2> HIDE DEF Shown
  <2> QED BY <2>1, <2>2, <2>3
<1> QED BY <1>1, <1>2 DEF NoGhostQueued, Shown, Waiting, Count

\* A call leaves its await.
LEMMA SettleMoves ==
    ASSUME Data, Delivering, NEW c \in Callers, NEW messages, NEW entries, NEW now,
           Settle(c, messages, entries, now)
    PROVE  Moved /\ Delivering'
BY DEF Settle, Moved, queues, Delivering, LoopLeft, LoopFree

LEMMA ContinueMoves ==
    ASSUME Data, Delivering, NEW c \in Callers, NEW messages, NEW entries, NEW now,
           Continue(c, messages, entries, now)
    PROVE  Moved /\ Delivering'
<1>1. CASE Settle(c, messages, entries, now)
  BY <1>1, SettleMoves
<1>2. CASE ~Settle(c, messages, entries, now)
  <2>1. deliver = <<>>
    BY <1>2 DEF Continue, LoopFree, Delivering
  <2> QED BY <1>2, <2>1 DEF Continue, BeginRun, Moved, queues, Delivering
<1> QED BY <1>1, <1>2

LEMMA LoopLeftMoves ==
    ASSUME Data, Delivering, NEW c \in Callers, LoopLeft(c),
           UNCHANGED <<deliver, saving, queues>>
    PROVE  Moved /\ Delivering'
BY DEF Moved, queues, Delivering, LoopLeft, LoopFree

LEMMA AfterRunMoves ==
    ASSUME Data, Delivering, NEW c \in Callers, NEW m, AfterRun(c, m)
    PROVE  Moved /\ Delivering'
BY SettleMoves, ContinueMoves, LoopLeftMoves DEF AfterRun, ContinueIfQueued

\* Every step but those that queue, clear or announce a message.
LEMMA OthersMove ==
    ASSUME Data, Delivering, [Next]_vars,
           ~(Announce \/ QueueMessage \/ ClearQueue),
           \A c \in Callers : ~PromptQueued(c)
    PROVE  Moved /\ Delivering' /\ UNCHANGED <<mirrors, unheard>>
<1>1. CASE UNCHANGED vars
  BY <1>1 DEF vars, queues, agent, Moved, Delivering
<1>2. ASSUME NEW c \in Callers,
             StartPrompt(c) \/ PromptEnds(c) \/ PromptAccepted(c) \/ AuthStep(c)
               \/ PrecompactionEnds(c) \/ Settled(c)
      PROVE  Moved /\ Delivering' /\ UNCHANGED <<mirrors, unheard>>
  <2>1. UNCHANGED <<queues, agent, mirrors, unheard>>
    BY <1>2, Zenon DEF StartPrompt, PromptEnds, PromptAccepted, AuthStep, NoAuth,
                       CheckBeforePrompt, PrecompactionEnds, Settled
  <2> QED BY <2>1 DEF queues, agent, Moved, Delivering
<1>3. ASSUME NEW c \in Callers, RunPrompt(c)
      PROVE  Moved /\ Delivering' /\ UNCHANGED <<mirrors, unheard>>
  <2>1. UNCHANGED <<mirrors, unheard, queues>>
    BY <1>3, Zenon DEF RunPrompt
  <2>2. UNCHANGED agent \/ (deliver = <<>> /\ loop' = "deliver")
    BY <1>3 DEF RunPrompt, BeginRun, Delivering
  <2> QED BY <2>1, <2>2 DEF queues, agent, Moved, Delivering
<1>4. ASSUME NEW c \in Callers, RunEnds(c)
      PROVE  Moved /\ Delivering' /\ UNCHANGED <<mirrors, unheard>>
  <2>1. /\ UNCHANGED <<mirrors, unheard>>
        /\ \/ Settle(c, transcript, session, clock)
           \/ BeginRetry(c, lastAssistant)
           \/ AfterRun(c, lastAssistant)
    BY <1>4, Zenon DEF RunEnds
  <2>2. CASE BeginRetry(c, lastAssistant)
    BY <2>1, <2>2, LoopLeftMoves DEF BeginRetry
  <2> QED BY <2>1, <2>2, SettleMoves, AfterRunMoves
<1>5. ASSUME NEW c \in Callers, RetryStep(c) \/ CompactionStep(c)
      PROVE  Moved /\ Delivering' /\ UNCHANGED <<mirrors, unheard>>
  <2>1. UNCHANGED <<mirrors, unheard>>
    BY <1>5, Zenon DEF RetryStep, RetryWakes, RetryCancelled, CompactionStep,
                       CompactionSucceeds, CompactionFails
  <2>2. \/ \E messages, entries, now :
              \/ Continue(c, messages, entries, now)
              \/ ContinueIfQueued(c, messages, entries, now)
        \/ AfterRun(c, job[c].message)
    BY <1>5, Zenon DEF RetryStep, RetryWakes, RetryCancelled, CompactionStep,
                       CompactionSucceeds, CompactionFails
  <2>3. CASE AfterRun(c, job[c].message)
    BY <2>1, <2>3, AfterRunMoves
  <2>4. ASSUME NEW messages, NEW entries, NEW now,
               \/ Continue(c, messages, entries, now)
               \/ ContinueIfQueued(c, messages, entries, now)
        PROVE  Moved /\ Delivering'
    BY <2>4, SettleMoves, ContinueMoves DEF ContinueIfQueued
  <2> QED BY <2>1, <2>2, <2>3, <2>4
<1>6. CASE CallModel
  BY <1>6 DEF CallModel, Moved, Delivering
<1>7. ASSUME NEW kind, Respond(kind)
      PROVE  Moved /\ Delivering' /\ UNCHANGED <<mirrors, unheard>>
  BY <1>7 DEF Respond, Moved, Delivering, queues
<1>8. CASE MessageSaved
  <2> DEFINE kind == saving.message.kind
  <2>1. /\ NextTurn(kind) /\ loop = "saving" /\ UNCHANGED <<mirrors, unheard>>
    BY <1>8 DEF MessageSaved
  <2>2. kind # "user" => deliver = <<>>
    BY <2>1 DEF Delivering
  <2>3. \/ kind = "user" /\ loop' = "deliver" /\ UNCHANGED <<deliver, queues>>
        \/ kind # "user" /\ UNCHANGED <<deliver, queues>>
        \/ /\ kind # "user" /\ loop' = "deliver" /\ deliver' = Drained(steering)
           /\ steering' = Left(steering) /\ followUp' = followUp
        \/ /\ kind # "user" /\ loop' = (IF followUp = <<>> THEN "ended" ELSE "deliver")
           /\ deliver' = Drained(followUp)
           /\ followUp' = Left(followUp) /\ steering' = steering
    BY <2>1 DEF NextTurn, Failures, Errors, Usages
  <2>4. followUp = <<>> => Drained(followUp) = <<>>
    BY DEF Drained
  <2> HIDE DEF kind
  <2> QED BY <2>1, <2>2, <2>3, <2>4 DEF Moved, Delivering, queues
<1>9. CASE ManualStep \/ Abort \/ RequestCompact \/ RecordBash
  <2>1. UNCHANGED <<queues, mirrors, unheard, loop, saving, deliver>>
    BY <1>9, Zenon DEF ManualStep, ManualBegins, ManualSucceeds, ManualFails, Abort,
                       RequestCompact, RecordBash, agent
  <2> QED BY <2>1 DEF queues, Moved, Delivering
<1>10. CASE Next
  BY <1>2, <1>3, <1>4, <1>5, <1>6, <1>7, <1>8, <1>9, <1>10
  DEF Next, CallStep, InputStep, LoopStep
<1> QED BY <1>1, <1>10

LEMMA QueueHolds ==
    ASSUME Data, NoGhostQueued, NEW y \in Texts, Queue(y), UNCHANGED <<deliver, unheard>>
    PROVE  NoGhostQueued'
<1>1. CASE unheard
  BY <1>1 DEF NoGhostQueued
<1>2. ASSUME ~unheard, NEW x \in Texts
      PROVE  Count(steeringMirror', x) + Count(followUpMirror', x)
               <= Count(steering', x) + Count(followUp', x) + Count(deliver', x)
  <2>1. \A q \in {steering, followUp, deliver, steeringMirror, followUpMirror} :
           q \in Seq(Texts)
    BY DEF Data, QueuesOK, MirrorsOK
  <2>2. \A q \in {steering, followUp, deliver, steeringMirror, followUpMirror} :
           Count(q, x) \in Nat
    BY <2>1, CountsAre
  <2>3. \A q \in {steering, followUp, steeringMirror, followUpMirror} :
           Count(Append(q, y), x) = Count(q, x) + (IF y = x THEN 1 ELSE 0)
    BY <2>1, OccurrencesChange, CountIs
  <2>4. Count(steeringMirror, x) + Count(followUpMirror, x)
          <= Count(steering, x) + Count(followUp, x) + Count(deliver, x)
    BY <1>2 DEF NoGhostQueued
  <2>5. CASE /\ steeringMirror' = Append(steeringMirror, y)
             /\ steering' = Append(steering, y)
             /\ UNCHANGED <<followUpMirror, followUp>>
    BY <2>2, <2>3, <2>4, <2>5
  <2>6. CASE /\ followUpMirror' = Append(followUpMirror, y)
             /\ followUp' = Append(followUp, y)
             /\ UNCHANGED <<steeringMirror, steering>>
    BY <2>2, <2>3, <2>4, <2>6
  <2> QED BY <2>5, <2>6 DEF Queue
<1> QED BY <1>1, <1>2 DEF NoGhostQueued, Count

LEMMA AnnounceHolds ==
    ASSUME Data, NoGhostQueued, Announce PROVE NoGhostQueued' /\ Delivering'
<1>1. Delivering'
  BY DEF Announce, Delivering, Message
<1>2. CASE unheard'
  BY <1>1, <1>2 DEF NoGhostQueued
<1>3. CASE ~unheard'
  <2> DEFINE y == Head(deliver)
  <2>1. /\ ~unheard /\ ForgetMirrored(y) /\ deliver # <<>> /\ deliver' = Tail(deliver)
        /\ steering' = steering /\ followUp' = followUp
    BY <1>3 DEF Announce, queues
  <2> HIDE DEF y
  <2>2. ASSUME NEW x \in Texts
        PROVE  Count(steeringMirror', x) + Count(followUpMirror', x)
                 <= Count(steering', x) + Count(followUp', x) + Count(deliver', x)
    <3>1. \A q \in {steering, followUp, deliver, steeringMirror, followUpMirror} :
             q \in Seq(Texts)
      BY DEF Data, QueuesOK, MirrorsOK
    <3>2. \A q \in {steering, followUp, deliver, steeringMirror, followUpMirror} :
             Count(q, x) \in Nat /\ (Count(q, x) > 0 <=> Contains(q, x))
      BY <3>1, CountIs, PositionsFinite
    <3>3. Count(deliver, x) = (IF y = x THEN 1 ELSE 0) + Count(deliver', x)
      BY <2>1, <3>1, OccurrencesChange, CountIs DEF y
    <3>4. \A q \in {steeringMirror, followUpMirror} :
             /\ Count(RemoveFirst(q, y), x) \in Nat
             /\ Count(RemoveFirst(q, y), x)
                  = IF Contains(q, y) /\ y = x THEN Count(q, x) - 1 ELSE Count(q, x)
      BY <3>1, OccurrencesChange, CountIs
    <3>5. deliver' \in Seq(Texts) /\ Count(deliver', x) \in Nat
      <4>1. deliver' \in Seq(Texts)
        BY <2>1, <3>1, HeadTailProperties
      <4> QED BY <4>1, CountsAre
    <3>6. Count(steeringMirror, x) + Count(followUpMirror, x)
            <= Count(steering, x) + Count(followUp, x) + Count(deliver, x)
      BY <2>1 DEF NoGhostQueued
    <3>7. /\ steeringMirror' = RemoveFirst(steeringMirror, y)
          /\ followUpMirror' = IF Contains(steeringMirror, y) THEN followUpMirror
                               ELSE RemoveFirst(followUpMirror, y)
      BY <2>1 DEF ForgetMirrored
    <3>8. CASE y # x
      <4>1. Count(steeringMirror', x) = Count(steeringMirror, x)
        BY <3>4, <3>7, <3>8
      <4>2. Count(followUpMirror', x) = Count(followUpMirror, x)
        BY <3>4, <3>7, <3>8
      <4> QED BY <2>1, <3>2, <3>3, <3>5, <3>6, <3>8, <4>1, <4>2
    <3>9. CASE y = x
      <4> DEFINE s == Count(steeringMirror, x)
                 f == Count(followUpMirror, x)
      <4>1. CASE Contains(steeringMirror, x)
        <5>1. Count(steeringMirror', x) = s - 1 /\ Count(followUpMirror', x) = f
          BY <3>4, <3>7, <3>9, <4>1
        <5> QED BY <2>1, <3>2, <3>3, <3>5, <3>6, <3>9, <5>1
      <4>2. CASE ~Contains(steeringMirror, x) /\ Contains(followUpMirror, x)
        <5>1. Count(steeringMirror', x) = s /\ Count(followUpMirror', x) = f - 1
          BY <3>4, <3>7, <3>9, <4>2
        <5> QED BY <2>1, <3>2, <3>3, <3>5, <3>6, <3>9, <5>1
      <4>3. CASE ~Contains(steeringMirror, x) /\ ~Contains(followUpMirror, x)
        <5>1. Count(steeringMirror', x) = s /\ Count(followUpMirror', x) = f
          BY <3>4, <3>7, <3>9, <4>3
        <5>2. s = 0 /\ f = 0
          BY <3>2, <4>3
        <5> QED BY <2>1, <3>2, <3>5, <5>1, <5>2
      <4> QED BY <4>1, <4>2, <4>3
    <3> QED BY <3>8, <3>9
  <2> QED BY <1>1, <2>2 DEF NoGhostQueued, Count
<1> QED BY <1>2, <1>3

LEMMA ShownStep ==
    ASSUME Data, Delivering, NoGhostQueued, [Next]_vars
    PROVE  Delivering' /\ NoGhostQueued'
<1>1. QueuesOK'
  BY DataStep DEF Data
<1>2. ASSUME NEW c \in Callers, PromptQueued(c) PROVE Delivering' /\ NoGhostQueued'
  <2>1. UNCHANGED <<agent, unheard>> /\ \E y \in Texts : Queue(y)
    BY <1>2 DEF PromptQueued
  <2> QED BY <2>1, QueueHolds DEF agent, Delivering
<1>3. CASE QueueMessage
  <2>1. UNCHANGED <<agent, unheard>> /\ \E y \in Texts : Queue(y)
    BY <1>3 DEF QueueMessage
  <2> QED BY <2>1, QueueHolds DEF agent, Delivering
<1>4. CASE ClearQueue
  <2>1. UNCHANGED agent /\ steeringMirror' = <<>> /\ followUpMirror' = <<>>
        /\ steering' = <<>> /\ followUp' = <<>>
    BY <1>4 DEF ClearQueue
  <2>2. \A x : Count(<<>>, x) = 0 /\ Count(deliver, x) \in Nat
    BY CountsAre DEF Data, QueuesOK
  <2>3. \A x : Count(steeringMirror', x) + Count(followUpMirror', x)
                 <= Count(steering', x) + Count(followUp', x) + Count(deliver', x)
    BY <2>1, <2>2 DEF agent
  <2> QED BY <2>1, <2>3 DEF agent, Delivering, NoGhostQueued, Count
<1>5. CASE Announce
  BY <1>5, AnnounceHolds
<1>6. CASE /\ ~(Announce \/ QueueMessage \/ ClearQueue)
           /\ \A c \in Callers : ~PromptQueued(c)
  <2>1. Moved /\ Delivering' /\ UNCHANGED <<mirrors, unheard>>
    BY <1>6, OthersMove
  <2> QED BY <1>1, <2>1, MovedHolds
<1> QED BY <1>2, <1>3, <1>4, <1>5, <1>6

\* The texts that the session shows as queued never outnumber the messages that
\* the agent is going to announce, whatever way a message has left the queues.
THEOREM NeverGhostQueued == Spec => []NoGhostQueued
<1>1. Init => Delivering /\ NoGhostQueued
  <2>1. \A x : Count(<<>>, x) = 0
    BY CountsAre, EmptySeq
  <2> QED BY <2>1 DEF Init, Delivering, NoGhostQueued
<1>2. Data /\ Delivering /\ NoGhostQueued /\ [Next]_vars
        => Delivering' /\ NoGhostQueued'
  BY ShownStep
<1> QED BY <1>1, <1>2, DataInvariant, PTL DEF Spec

-----------------------------------------------------------------------------
(* Why no message is stranded: while compact() listens and no message comes *)
(* from outside a run, a run that ends knows its last response, and the     *)
(* transcript it goes on with is never empty.                               *)

\* A transcript that can lose its last response and still be continued.
Sound(messages) == messages # <<>> => messages[1].kind \notin Finals

Attending ==
    /\ ~active => ~Queued
    /\ loop = "saving" => saving.heard
    /\ active /\ ~connected => loop = "deliver" /\ deliver # <<>>
    /\ loop = "ended" => lastAssistant # None
    /\ Sound(transcript)
    /\ active /\ ~(loop = "deliver" /\ deliver # <<>>) => transcript # <<>>

Attended == strayed \/ overlapped \/ Attending

LEMMA SoundDropped ==
    ASSUME NEW S, NEW messages \in Seq(S), NEW kinds, kinds \subseteq Finals,
           Sound(messages), messages # <<>>
    PROVE  WithoutLast(messages, kinds) # <<>> /\ Sound(WithoutLast(messages, kinds))
<1> DEFINE w == WithoutLast(messages, kinds)
<1>1. CASE w = messages
  BY <1>1
<1>2. CASE /\ messages[Len(messages)].kind \in kinds
           /\ Len(w) = Len(messages) - 1
           /\ \A i \in 1 .. Len(messages) - 1 : w[i] = messages[i]
  <2>1. Len(messages) \in Nat \ {0} /\ messages[1].kind \notin Finals
    BY EmptySeq DEF Sound
  <2>2. Len(messages) # 1
    BY <1>2, <2>1
  <2>3. 1 \in 1 .. Len(messages) - 1 /\ Len(w) # 0
    BY <1>2, <2>1, <2>2
  <2>4. w[1] = messages[1] /\ w # <<>>
    BY <1>2, <2>3, EmptySeq
  <2> HIDE DEF w
  <2>5. w # <<>> /\ Sound(w)
    BY <2>1, <2>4 DEF Sound
  <2> QED BY <2>5 DEF w
<1> QED BY <1>1, <1>2, LastDropped

LEMMA SoundFlushed ==
    ASSUME NEW n \in Nat, pendingBash \in Nat, NEW messages \in Seq(MessagesTo(n)),
           Sound(messages)
    PROVE  /\ Sound(messages \o BashMessages(n))
           /\ messages # <<>> => messages \o BashMessages(n) # <<>>
<1> DEFINE all == messages \o BashMessages(n)
<1>1. /\ all \in Seq(MessagesTo(n + pendingBash))
      /\ Len(all) = Len(messages) + pendingBash
      /\ \A i \in 1 .. Len(messages) : all[i] = messages[i]
      /\ pendingBash > 0 => all[Len(messages) + 1].kind = "bash"
  <2>1. <<>> \in Seq(EntriesTo(n)) /\ Linked(<<>>)
    BY EmptySeq DEF Linked
  <2> QED BY <2>1, BashAdded
<1> HIDE DEF all
<1>2. CASE messages # <<>>
  <2>1. Len(messages) \in Nat \ {0}
    BY <1>2, EmptySeq
  <2>2. all[1] = messages[1] /\ Len(all) # 0
    BY <1>1, <2>1
  <2>3. all # <<>>
    BY <2>2, EmptySeq
  <2> QED BY <1>2, <2>2, <2>3 DEF Sound, all
<1>3. CASE messages = <<>>
  <2>1. Len(messages) = 0
    BY <1>3, EmptySeq
  <2>2. CASE pendingBash = 0
    <3>1. all = <<>>
      BY <1>1, <2>1, <2>2, EmptySeq
    <3> QED BY <1>3, <3>1 DEF Sound, all
  <2>3. CASE pendingBash > 0
    <3>1. all[1].kind = "bash"
      BY <1>1, <2>1, <2>3
    <3> QED BY <1>3, <3>1 DEF Sound, all, Finals, Failures, Errors, Usages
  <2> QED BY <2>2, <2>3
<1> QED BY <1>2, <1>3

LEMMA SoundAppended ==
    ASSUME NEW S, NEW messages \in Seq(S), NEW m \in S, Sound(messages),
           messages # <<>> \/ m.kind \notin Finals
    PROVE  Sound(Append(messages, m)) /\ Append(messages, m) # <<>>
<1>1. CASE messages = <<>>
  BY <1>1 DEF Sound
<1>2. CASE messages # <<>>
  <2>1. Len(messages) \in Nat \ {0} /\ Append(messages, m) # <<>>
    BY <1>2, EmptySeq, AppendProperties
  <2>2. 1 \in 1 .. Len(messages)
    BY <2>1
  <2>3. Append(messages, m)[1] = messages[1]
    BY <2>2, AppendProperties
  <2> QED BY <1>2, <2>1, <2>3 DEF Sound
<1> QED BY <1>1, <1>2

LEMMA SoundCompacted ==
    ASSUME ConversationOK, NEW keep \in 0 .. clock, Has(session, keep)
    PROVE  LET messages == Context(Append(session, CompactionEntry(keep)))
           IN  /\ messages # <<>> /\ Sound(messages)
               /\ WithoutLast(messages, Errors) # <<>>
               /\ Sound(WithoutLast(messages, Errors))
<1> DEFINE messages == Context(Append(session, CompactionEntry(keep)))
<1>1. /\ clock + 1 \in Nat /\ messages \in Seq(MessagesTo(clock + 1))
      /\ Len(messages) > 1 /\ messages[1].kind = "compaction"
  <2>1. /\ clock \in Nat /\ clock + 1 \in Nat /\ clock + 1 >= clock + 1
        /\ session \in Seq(EntriesTo(clock)) /\ Linked(session)
    BY DEF ConversationOK
  <2> QED BY <2>1, CompactedIs
<1> HIDE DEF messages
<1>2. messages # <<>>
  BY <1>1, EmptySeq
<1>3. Sound(messages) /\ Errors \subseteq Finals
  BY <1>1 DEF Sound, Finals, Failures, Errors, Usages
<1>4. WithoutLast(messages, Errors) # <<>> /\ Sound(WithoutLast(messages, Errors))
  BY <1>1, <1>2, <1>3, SoundDropped
<1> QED BY <1>2, <1>3, <1>4 DEF messages

-----------------------------------------------------------------------------
\* A call whose run is over has the loop for itself, and is listened to.
LEMMA EndIsAlone ==
    ASSUME Data, Attending, ~overlapped, NEW c \in Callers, AtItsEnd(c)
    PROVE  /\ active /\ LoopFree(c) /\ loop \in {"idle", "ended"} /\ connected
           /\ transcript # <<>> /\ Sound(transcript)
<1>1. active /\ LoopFree(c) /\ loop \in {"idle", "ended"}
  <2>1. active /\ Busy(c) /\ owner \in Callers
    BY DEF Data, IInv, Alone, Types, AtItsEnd, Busy
  <2>2. CASE loop # "idle"
    <3>1. pc[owner] = "run" /\ Busy(owner)
      BY <2>2 DEF Data, IInv, Alone, Busy, Running
    <3>2. owner = c
      BY <2>1, <3>1 DEF Data, IInv, Alone
    <3> QED BY <2>1, <3>1, <3>2 DEF AtItsEnd, LoopFree
  <2> QED BY <2>1, <2>2 DEF LoopFree
<1>2. connected \in BOOLEAN
  BY DEF Data, ManualOK
<1> QED BY <1>1, <1>2 DEF Attending

LEMMA SettleAttends ==
    ASSUME Data, NEW c \in Callers, NEW messages, NEW entries, NEW now,
           Follows(messages, entries, now), Sound(messages), LoopFree(c), ~Queued,
           Settle(c, messages, entries, now)
    PROVE  Attending'
<1>1. Sound(transcript')
  <2>1. now \in Nat /\ pendingBash \in Nat /\ messages \in Seq(MessagesTo(now))
    BY DEF Follows, Data, IInv, Types
  <2>2. Sound(messages \o BashMessages(now))
    BY <2>1, SoundFlushed
  <2> QED BY <2>2 DEF Settle, FlushBash
<1>2. /\ active' = FALSE /\ loop' = "idle" /\ UNCHANGED <<steering, followUp>>
  BY DEF Settle, LoopLeft, queues
<1> QED BY <1>1, <1>2 DEF Attending, Queued, Sound

LEMMA ContinueAttends ==
    ASSUME Data, NEW c \in Callers, NEW messages, NEW entries, NEW now,
           Follows(messages, entries, now), Sound(messages), messages # <<>>,
           LoopFree(c), active, connected, connected' = connected,
           Continue(c, messages, entries, now)
    PROVE  Attending'
<1>1. CASE Settle(c, messages, entries, now) /\ ~Queued
  BY <1>1, SettleAttends
<1>2. CASE ~(Settle(c, messages, entries, now) /\ ~Queued)
  <2>1. active' = active /\ transcript' = messages /\ loop' = "deliver"
    BY <1>2 DEF Continue, BeginRun
  <2> QED BY <2>1 DEF Attending, Sound
<1> QED BY <1>1, <1>2

LEMMA ContinueIfQueuedAttends ==
    ASSUME Data, NEW c \in Callers, NEW messages, NEW entries, NEW now,
           Follows(messages, entries, now), Sound(messages), messages # <<>>,
           LoopFree(c), active, connected, connected' = connected,
           ContinueIfQueued(c, messages, entries, now)
    PROVE  Attending'
BY SettleAttends, ContinueAttends DEF ContinueIfQueued

\* The call waits for something else, with a transcript it can go on with.
LEMMA WaitAttends ==
    ASSUME NEW c, LoopFree(c), LoopLeft(c), active, connected,
           UNCHANGED <<active, connected>>, Sound(transcript'), transcript' # <<>>
    PROVE  Attending'
BY DEF LoopLeft, Attending, Sound

LEMMA CheckedIsSound ==
    ASSUME ConversationOK, Sound(transcript), transcript # <<>>, NEW m
    PROVE  Sound(Checked(m)) /\ Checked(m) # <<>>
BY SoundDropped DEF Checked, ConversationOK

LEMMA AfterRunAttends ==
    ASSUME Data, Attending, ~overlapped, NEW c \in Callers, AtItsEnd(c), NEW m,
           AfterRun(c, m), connected' = connected
    PROVE  Attending'
<1>1. /\ active /\ LoopFree(c) /\ connected
      /\ Sound(Checked(m)) /\ Checked(m) # <<>> /\ Follows(Checked(m), session, clock)
  BY EndIsAlone, CheckedIsSound, CheckedFollows DEF Data
<1>2. CASE ContinueIfQueued(c, Checked(m), session, clock)
  BY <1>1, <1>2, ContinueIfQueuedAttends
<1>3. CASE StartCompaction(c, m, "compact") /\ LoopLeft(c) /\ UNCHANGED active
  BY <1>1, <1>3, WaitAttends DEF StartCompaction
<1> QED BY <1>2, <1>3 DEF AfterRun

LEMMA RunEndsAttends ==
    ASSUME Data, Attending, ~overlapped, NEW c \in Callers, RunEnds(c)
    PROVE  Attending'
<1>1. /\ AtItsEnd(c) /\ loop = "ended" /\ connected' = connected
      /\ \/ lastAssistant = None
         \/ BeginRetry(c, lastAssistant)
         \/ AfterRun(c, lastAssistant)
  BY DEF RunEnds, AtItsEnd, Running, compaction
<1>2. lastAssistant # None
  BY <1>1 DEF Attending
<1>3. CASE BeginRetry(c, lastAssistant)
  <2>1. /\ active /\ LoopFree(c) /\ connected /\ transcript # <<>> /\ Sound(transcript)
    BY <1>1, EndIsAlone
  <2>2. /\ transcript' = WithoutLast(transcript, Finals) /\ LoopLeft(c)
        /\ active' = active
    BY <1>3 DEF BeginRetry
  <2>3. Sound(transcript') /\ transcript' # <<>>
    BY <2>1, <2>2, SoundDropped DEF Data, ConversationOK
  <2> QED BY <1>1, <2>1, <2>2, <2>3, WaitAttends
<1> QED BY <1>1, <1>2, <1>3, AfterRunAttends

LEMMA WaitEndsAttends ==
    ASSUME Data, Attending, ~overlapped, NEW c \in Callers,
           RetryStep(c) \/ CompactionStep(c)
    PROVE  Attending'
<1>1. AtItsEnd(c) /\ connected' = connected
  BY Zenon DEF RetryStep, RetryWakes, RetryCancelled, CompactionStep, CompactionFails,
               CompactionSucceeds, AtItsEnd, Running, compaction
<1>2. /\ active /\ LoopFree(c) /\ connected
      /\ Sound(transcript) /\ transcript # <<>> /\ Follows(transcript, session, clock)
  BY <1>1, EndIsAlone, Following DEF Data
<1>3. CASE RetryWakes(c)
  BY <1>1, <1>2, <1>3, ContinueAttends DEF RetryWakes
<1>4. CASE RetryCancelled(c)
  BY <1>1, <1>4, AfterRunAttends DEF RetryCancelled
<1>5. CASE CompactionFails(c)
  BY <1>1, <1>2, <1>5, ContinueIfQueuedAttends DEF CompactionFails
<1>6. CASE CompactionSucceeds(c)
  <2>1. Has(session, job[c].keep) /\ job[c].keep \in 0 .. clock /\ ConversationOK
    BY <1>6 DEF CompactionSucceeds, Data, JobsOK, Jobs
  <2> DEFINE entries == Append(session, CompactionEntry(job[c].keep))
  <2>2. Follows(Compacted(c), entries, clock + 1)
    BY <2>1, CompactionFollows, DroppedFollows DEF Compacted
  <2>3. Sound(Compacted(c)) /\ Compacted(c) # <<>>
    BY <2>1, SoundCompacted DEF Compacted
  <2>4. \/ Continue(c, Compacted(c), entries, clock + 1)
        \/ ContinueIfQueued(c, Compacted(c), entries, clock + 1)
    BY <1>6 DEF CompactionSucceeds
  <2> HIDE DEF entries
  <2> QED BY <1>1, <1>2, <2>2, <2>3, <2>4, ContinueAttends, ContinueIfQueuedAttends
<1> QED BY <1>3, <1>4, <1>5, <1>6 DEF RetryStep, CompactionStep

\* Before a run, and while none is under way.
LEMMA PromptAttends ==
    ASSUME Data, Attending, ~overlapped', ~overlapped, NEW c \in Callers,
           \/ StartPrompt(c) \/ InputStep(c) \/ AuthStep(c)
           \/ PrecompactionEnds(c) \/ Settled(c)
    PROVE  Attending'
<1>1. UNCHANGED <<agent, lastAssistant, active, connected>>
      /\ (UNCHANGED queues \/ active)
  BY Zenon DEF StartPrompt, InputStep, PromptEnds, PromptQueued, PromptAccepted, AuthStep,
               NoAuth, CheckBeforePrompt, PrecompactionEnds, Settled, recovery,
               compaction, Streaming
<1>2. /\ Sound(transcript')
      /\ active => transcript' = transcript
  <2>1. ConversationOK /\ Sound(transcript) /\ pendingBash \in Nat /\ clock \in Nat
    BY DEF Data, Attending, IInv, Types, ConversationOK
  <2>2. CASE transcript' = transcript
    BY <2>1, <2>2
  <2>3. CASE PromptAccepted(c)
    <3>1. transcript' = transcript \o BashMessages(clock) /\ ~active
      BY <2>3 DEF PromptAccepted, FlushBash, Streaming
    <3> QED BY <2>1, <3>1, SoundFlushed DEF ConversationOK
  <2>4. ASSUME pc[c] \in Preflight PROVE ~active
    BY <2>4 DEF Data, IInv, Alone, Busy, Preflight, Running
  <2>5. CASE CheckBeforePrompt(c)
    <3>1. transcript' = Checked(LastOfTranscript) /\ pc[c] = "auth"
      BY <2>5 DEF CheckBeforePrompt, StartCompaction
    <3>2. Sound(Checked(LastOfTranscript))
      <4>1. CASE transcript # <<>>
        BY <2>1, <4>1, CheckedIsSound
      <4>2. CASE transcript = <<>>
        BY <4>2 DEF Checked, WithoutLast, EndsWith, Sound
      <4> QED BY <4>1, <4>2
    <3> QED BY <2>4, <3>1, <3>2 DEF Preflight
  <2>6. CASE PrecompactionEnds(c)
    <3>1. pc[c] = "precompact" /\ transcript' \in {transcript, Compacted(c)}
      BY <2>6 DEF PrecompactionEnds
    <3>2. Has(session, job[c].keep) /\ job[c].keep \in 0 .. clock
      BY <3>1 DEF Data, JobsOK, Jobs
    <3>3. Sound(Compacted(c))
      BY <2>1, <3>2, SoundCompacted DEF Compacted
    <3> QED BY <2>1, <2>4, <3>1, <3>3 DEF Preflight
  <2>7. transcript' = transcript \/ PromptAccepted(c) \/ CheckBeforePrompt(c)
          \/ PrecompactionEnds(c)
    BY Zenon DEF StartPrompt, InputStep, PromptEnds, PromptQueued, AuthStep, NoAuth, Settled,
                 conversation
  <2> QED BY <2>2, <2>3, <2>5, <2>6, <2>7
<1>3. /\ loop' = loop /\ deliver' = deliver /\ saving' = saving
      /\ lastAssistant' = lastAssistant /\ active' = active /\ connected' = connected
  BY <1>1 DEF agent
<1>4. ~active' => ~Queued'
  BY <1>1 DEF Attending, Queued, queues
<1> QED BY <1>2, <1>3, <1>4 DEF Attending

LEMMA RunPromptAttends ==
    ASSUME Data, Attending, ~overlapped, NEW c \in Callers, RunPrompt(c)
    PROVE  Attending'
<1>1. loop = "idle"
  BY DEF RunPrompt, Data, IInv, Alone, Busy, Preflight, Running, Types
<1>2. /\ active' = TRUE /\ loop' = "deliver" /\ deliver' # <<>>
      /\ transcript' = transcript
  BY <1>1 DEF RunPrompt, BeginRun, conversation
<1> QED BY <1>2 DEF Attending, Sound

\* The loop, and what others ask for.
LEMMA LoopAttends ==
    ASSUME Data, Attending, ~overlapped, ~strayed', LoopStep PROVE Attending'
<1>1. active /\ active' = active /\ connected' = connected /\ connected \in BOOLEAN
  BY DEF LoopStep, Announce, CallModel, MessageSaved, Respond, Data, IInv, Alone,
         Running, Types, ManualOK, compaction
<1>2. transcript \in Seq(MessagesTo(clock)) /\ clock \in Nat /\ Sound(transcript)
  BY DEF Data, ConversationOK, Attending
<1>3. CASE Announce
  <2>1. /\ connected /\ loop' = "saving" /\ saving'.heard = connected
        /\ transcript' = Append(transcript, Message("user", clock + 1))
    BY <1>3 DEF Announce
  <2>2. transcript \in Seq(MessagesTo(clock + 1)) /\ clock + 1 \in Nat
        /\ Message("user", clock + 1) \in MessagesTo(clock + 1)
        /\ Message("user", clock + 1).kind \notin Finals
    <3>1. /\ clock + 1 \in Nat /\ clock <= clock + 1 /\ clock + 1 \in 1 .. clock + 1
          /\ transcript \in Seq(MessagesTo(clock))
      BY <1>2
    <3>2. transcript \in Seq(MessagesTo(clock + 1))
      BY <1>2, <3>1, Wider
    <3>3. "user" \in Kinds
      BY DEF Kinds
    <3>4. Message("user", clock + 1) \in MessagesTo(clock + 1)
      BY <3>1, <3>3 DEF Message, MessagesTo
    <3>5. Message("user", clock + 1).kind = "user"
      BY DEF Message
    <3>6. "user" \notin Finals
      BY DEF Finals, Failures, Errors, Usages
    <3> QED BY <3>1, <3>2, <3>4, <3>5, <3>6
  <2>3. Sound(transcript') /\ transcript' # <<>>
    BY <1>2, <2>1, <2>2, SoundAppended
  <2> QED BY <1>1, <2>1, <2>3 DEF Attending
<1>4. CASE CallModel
  <2>1. /\ loop = "deliver" /\ deliver = <<>> /\ loop' \in {"deliver", "model"}
        /\ transcript' = transcript
    BY <1>4 DEF CallModel, conversation
  <2>2. connected /\ transcript # <<>>
    BY <1>1, <2>1 DEF Attending
  <2> QED BY <1>1, <1>2, <2>1, <2>2 DEF Attending
<1>5. ASSUME NEW kind \in Finals \cup {"tools"}, Respond(kind) PROVE Attending'
  <2>1. /\ loop = "model" /\ loop' = "saving" /\ saving'.heard = connected
        /\ transcript' = Append(transcript, Message(kind, clock + 1))
    BY <1>5 DEF Respond
  <2>2. connected /\ transcript # <<>>
    BY <1>1, <2>1 DEF Attending
  <2>3. kind \in Kinds
    BY DEF Kinds
  <2>4. transcript \in Seq(MessagesTo(clock + 1)) /\ clock + 1 \in Nat
        /\ Message(kind, clock + 1) \in MessagesTo(clock + 1)
    <3>1. /\ clock + 1 \in Nat /\ clock <= clock + 1 /\ clock + 1 \in 1 .. clock + 1
          /\ 0 \in 0 .. clock + 1
      BY <1>2
    <3> QED BY <1>2, <2>3, <3>1, Wider, MessageTyped
  <2>5. Sound(transcript') /\ transcript' # <<>>
    BY <1>2, <2>1, <2>2, <2>4, SoundAppended
  <2> QED BY <1>1, <2>1, <2>2, <2>5 DEF Attending
<1>6. CASE MessageSaved
  <2>1. /\ loop = "saving" /\ Saved /\ NextTurn(saving.message.kind)
        /\ transcript' = transcript
    BY <1>6 DEF MessageSaved
  <2>2. connected /\ transcript # <<>> /\ saving.heard
    BY <1>1, <2>1 DEF Attending
  <2>3. loop' = "ended" => saving.message.kind # "user"
    BY <2>1 DEF NextTurn, Failures, Errors, Usages
  <2>4. loop' = "ended" => lastAssistant' = saving.message
    BY <2>1, <2>2, <2>3 DEF Saved
  <2>5. saving.message # None
    BY <2>1 DEF Data, SavingOK, MessagesTo, None, Message, Kinds, Finals, Failures, Errors
  <2>6. loop' \in {"deliver", "ended"}
    BY <2>1 DEF NextTurn
  <2> QED BY <1>1, <1>2, <2>1, <2>2, <2>4, <2>5, <2>6 DEF Attending
<1> QED BY <1>3, <1>4, <1>5, <1>6 DEF LoopStep

LEMMA OthersAttend ==
    ASSUME Data, Attending, ~overlapped, ~strayed',
           ManualStep \/ QueueMessage \/ Abort \/ RequestCompact \/ ClearQueue
             \/ RecordBash
    PROVE  Attending'
<1>1. UNCHANGED <<active, loop, deliver, saving, lastAssistant>>
  BY Zenon DEF ManualStep, ManualBegins, ManualSucceeds, ManualFails, QueueMessage,
               Abort, RequestCompact, ClearQueue, RecordBash, agent, recovery
<1>2. active => connected' \/ connected' = connected
  BY DEF ManualStep, ManualBegins, ManualSucceeds, ManualFails, QueueMessage,
         Abort, RequestCompact, ClearQueue, RecordBash, compaction
<1>3. ~active => ~Queued'
  BY DEF ManualStep, ManualBegins, ManualSucceeds, ManualFails, QueueMessage,
         Abort, RequestCompact, ClearQueue, RecordBash, queues, Queued, Attending
<1>4. Sound(transcript') /\ (transcript # <<>> => transcript' # <<>>)
  <2>1. ConversationOK /\ Sound(transcript) /\ clock \in Nat
    BY DEF Data, Attending, ConversationOK
  <2>2. CASE ManualSucceeds
    <3>1. /\ transcript' = Context(Append(session, CompactionEntry(manualKeep)))
          /\ manual = "working"
      BY <2>2 DEF ManualSucceeds
    <3>2. Has(session, manualKeep) /\ manualKeep \in 0 .. clock
      BY <3>1 DEF Data, ManualOK
    <3> QED BY <2>1, <3>1, <3>2, SoundCompacted
  <2>3. CASE transcript' = Append(transcript, Message("bash", clock + 1))
    <3>1. transcript \in Seq(MessagesTo(clock + 1)) /\ clock + 1 \in Nat
          /\ Message("bash", clock + 1) \in MessagesTo(clock + 1)
          /\ Message("bash", clock + 1).kind \notin Finals
      <4>1. /\ clock + 1 \in Nat /\ clock <= clock + 1 /\ clock + 1 \in 1 .. clock + 1
            /\ transcript \in Seq(MessagesTo(clock))
        BY <2>1 DEF ConversationOK
      <4>2. transcript \in Seq(MessagesTo(clock + 1))
        BY <2>1, <4>1, Wider
      <4>3. "bash" \in Kinds
        BY DEF Kinds
      <4>4. Message("bash", clock + 1) \in MessagesTo(clock + 1)
        BY <4>1, <4>3 DEF Message, MessagesTo
      <4>5. Message("bash", clock + 1).kind = "bash"
        BY DEF Message
      <4>6. "bash" \notin Finals
        BY DEF Finals, Failures, Errors, Usages
      <4> QED BY <4>1, <4>2, <4>4, <4>5, <4>6
    <3> QED BY <2>1, <2>3, <3>1, SoundAppended
  <2>4. \/ ManualSucceeds \/ transcript' = transcript
        \/ transcript' = Append(transcript, Message("bash", clock + 1))
    BY DEF ManualStep, ManualBegins, ManualFails, QueueMessage, Abort, RequestCompact,
           ClearQueue, RecordBash, conversation
  <2> QED BY <2>1, <2>2, <2>3, <2>4
<1> QED BY <1>1, <1>2, <1>3, <1>4 DEF Attending

LEMMA HistoryKept ==
    ASSUME Next PROVE (strayed => strayed') /\ (overlapped => overlapped')
<1>1. ASSUME NEW c \in Callers,
             \/ StartPrompt(c) \/ InputStep(c) \/ AuthStep(c) \/ PrecompactionEnds(c)
             \/ RunPrompt(c) \/ Settled(c)
      PROVE  (strayed => strayed') /\ (overlapped => overlapped')
  <2>1. CASE PromptAccepted(c)
    <3>1. /\ overlapped' = (overlapped \/ \E d \in Callers : pc[d] \in Preflight)
          /\ strayed' = strayed
      BY <2>1 DEF PromptAccepted
    <3> QED BY <3>1, Zenon
  <2>2. CASE ~PromptAccepted(c)
    <3>1. UNCHANGED <<strayed, overlapped>>
      BY <1>1, <2>2, Zenon DEF StartPrompt, InputStep, PromptEnds, PromptQueued, AuthStep,
         NoAuth, CheckBeforePrompt, PrecompactionEnds, RunPrompt, Settled
    <3> QED BY <3>1
  <2> QED BY <2>1, <2>2
<1>2. ASSUME NEW c \in Callers, RunEnds(c) \/ RetryStep(c) \/ CompactionStep(c)
      PROVE  (strayed => strayed') /\ (overlapped => overlapped')
  BY <1>2 DEF RunEnds, RetryStep, RetryWakes, RetryCancelled, CompactionStep,
     CompactionFails, CompactionSucceeds
<1>3. CASE LoopStep
  BY <1>3 DEF LoopStep, Announce, CallModel, Respond, MessageSaved
<1>4. CASE ManualStep \/ QueueMessage \/ Abort \/ RequestCompact \/ ClearQueue
             \/ RecordBash
  <2>1. CASE QueueMessage \/ RequestCompact
    <3>1. /\ strayed' = (strayed \/ ~active) \/ strayed' = (strayed \/ active)
          /\ overlapped' = overlapped
      BY <2>1 DEF QueueMessage, RequestCompact
    <3> QED BY <3>1, Zenon
  <2>2. CASE ManualStep \/ Abort \/ ClearQueue \/ RecordBash
    BY <2>2 DEF ManualStep, ManualBegins, ManualSucceeds, ManualFails, Abort,
                ClearQueue, RecordBash
  <2> QED BY <1>4, <2>1, <2>2
<1> QED BY <1>1, <1>2, <1>3, <1>4 DEF Next, CallStep

\* A run leaves no message in the queues when it ends, whether it is aborted,
\* fails, is retried or compacted, as long as compact() does not stop listening
\* to it.
THEOREM NothingEverStranded == Spec => []NothingStranded
<1>1. Init => Attended
  BY DEF Init, Attended, Attending, Queued, Sound
<1>2. Data /\ Attended /\ [Next]_vars => Attended'
  <2> SUFFICES ASSUME Data, Attended, [Next]_vars, ~strayed', ~overlapped'
               PROVE  Attending'
    BY DEF Attended
  <2>1. CASE UNCHANGED vars
    <3>1. Attending
      BY <2>1 DEF vars, Attended
    <3> QED BY <2>1, <3>1 DEF vars, agent, queues, conversation, recovery, compaction,
                              Attending, Queued, Sound
  <2>2. CASE Next
    <3>1. ~strayed /\ ~overlapped
      BY <2>2, HistoryKept
    <3>2. Attending
      BY <3>1 DEF Attended
    <3> QED BY <2>2, <3>1, <3>2, PromptAttends, RunPromptAttends, RunEndsAttends,
               WaitEndsAttends, LoopAttends, OthersAttend
            DEF Next, CallStep
  <2> QED BY <2>1, <2>2
<1>3. Attended => NothingStranded
  BY DEF Attended, Attending, NothingStranded
<1> QED BY <1>1, <1>2, <1>3, DataInvariant, PTL DEF Spec

-----------------------------------------------------------------------------
(* Why errors come to an end.  What the session still allows the model to   *)
(* get wrong is known from its counters; compact() that does not listen can *)
(* make it miss one response.                                               *)

Deaf == manual = "waiting" /\ "compact" \in idleWaiters

\* The attempts behind a response that is asked for now: the retries counted,
\* and a whole series of them before an overflow was recovered.
Credit == (IF overflowTried THEN MaxRetries + 1 ELSE 0) + retryAttempt

Allowed == failed <= Credit \/ (Deaf /\ failed <= 1)

EndsInFinal == EndsWith(transcript, Finals) /\ EndsWith(session, Finals)

Within == failed \in Nat /\ failed <= 2 * (MaxRetries + 1)

\* The last response is known only while a run is under way, and only a run
\* that compact() is not listening to ends without one.
Known ==
    /\ loop = "idle" => lastAssistant = None
    /\ active /\ ~connected /\ ~Deaf =>
          /\ lastAssistant = None /\ loop # "idle"
          /\ loop = "saving" => ~saving.heard

\* A run that goes on after a response has not seen an error.
Unfailing ==
    /\ loop \in {"deliver", "model", "saving"} /\ lastAssistant # None
          => lastAssistant.kind \notin Errors
    /\ loop \in {"deliver", "model"} /\ lastAssistant # None => failed = 0

Asking == loop = "model" \/ (loop = "deliver" /\ deliver = <<>>) => Allowed

Recording ==
    loop = "saving" =>
        /\ saving.message.kind \notin Errors => failed = 0
        /\ saving.message.kind \in Errors /\ saving.heard =>
              failed <= Credit + 1 /\ EndsWith(transcript, Finals)
        /\ saving.message.kind \in Errors /\ ~saving.heard =>
              (lastAssistant # None => failed <= 1 /\ Deaf)

Ending ==
    loop = "ended" /\ lastAssistant # None =>
        /\ lastAssistant.kind \in Errors => failed <= Credit + 1 /\ EndsInFinal
        /\ lastAssistant.kind \notin Errors => failed = 0 \/ (failed <= 1 /\ Deaf)

\* What waits is a retry that is counted, or a compaction after which the run
\* goes on with messages of the user at most.
Waits ==
    \A c \in Callers :
        /\ pc[c] = "retry" => failed <= Credit
        /\ pc[c] = "compact" => Allowed \/ (~job[c].retry /\ EndsInFinal)

Limits ==
    /\ Within /\ Known /\ Unfailing /\ Asking /\ Recording /\ Ending /\ Waits

\* A call whose run is over, or whose wait is, has the loop for itself.
LEMMA EndHasLoop ==
    ASSUME IInv, ~overlapped, NEW c \in Callers, AtItsEnd(c)
    PROVE  /\ active /\ LoopFree(c) /\ (pc[c] # "run" => loop = "idle")
           /\ \A d \in Callers : pc[d] \in {"retry", "compact"} => d = c
<1>1. active /\ Busy(c) /\ owner \in Callers
  BY DEF IInv, Alone, Types, AtItsEnd, Busy
<1>2. \A d \in Callers : pc[d] \in {"retry", "compact"} => d = c
  BY <1>1 DEF IInv, Alone, Busy, Running
<1>3. ASSUME loop # "idle" PROVE loop = "ended" /\ owner = c /\ pc[c] = "run"
  <2>1. pc[owner] = "run" /\ Busy(owner)
    BY <1>3 DEF IInv, Alone, Busy, Running
  <2>2. owner = c
    BY <1>1, <2>1 DEF IInv, Alone
  <2> QED BY <2>1, <2>2 DEF AtItsEnd
<1> QED BY <1>1, <1>2, <1>3 DEF LoopFree

\* Nothing is under way when no run is active.
LEMMA NothingRuns ==
    ASSUME IInv, ~overlapped, ~active
    PROVE  loop = "idle" /\ \A c \in Callers : pc[c] \notin Running
BY DEF IInv, Alone, Types, Running

\* Nothing is under way: only the count and the last response matter.
LEMMA IdleLimits ==
    ASSUME Within', loop' = "idle", lastAssistant' = None,
           \A d \in Callers : pc'[d] \notin {"retry", "compact"},
           active' => connected' \/ Deaf'
    PROVE  Limits'
BY DEF Limits, Known, Unfailing, Asking, Recording, Ending, Waits

\* A run begins, with messages of the user or because it may.
LEMMA BegunLimits ==
    ASSUME Within', loop' = "deliver", lastAssistant' = None,
           \A d \in Callers : pc'[d] \notin {"retry", "compact"},
           deliver' # <<>> \/ Allowed'
    PROVE  Limits'
BY DEF Limits, Known, Unfailing, Asking, Recording, Ending, Waits

LEMMA SettleLimits ==
    ASSUME IInv, ~overlapped, NEW c \in Callers, AtItsEnd(c), Within', lastAssistant' = None,
           NEW messages, NEW entries, NEW now, Settle(c, messages, entries, now)
    PROVE  Limits'
<1>1. /\ LoopFree(c) /\ pc \in [Callers -> CallStates]
      /\ \A d \in Callers : pc[d] \in {"retry", "compact"} => d = c
  BY EndHasLoop DEF IInv, Types
<1>2. active' = FALSE /\ loop' = "idle" /\ pc' = [pc EXCEPT ![c] = "settling"]
  BY <1>1 DEF Settle, LoopLeft
<1>3. \A d \in Callers : pc'[d] \notin {"retry", "compact"}
  BY <1>1, <1>2
<1> QED BY <1>2, <1>3, IdleLimits

LEMMA ContinueLimits ==
    ASSUME Data, ~overlapped, NEW c \in Callers, AtItsEnd(c), Within', lastAssistant' = None,
           NEW messages, NEW entries, NEW now, Continue(c, messages, entries, now),
           Allowed' \/ EndsWith(messages, Finals)
    PROVE  Limits'
<1>1. CASE Settle(c, messages, entries, now)
  BY <1>1, SettleLimits DEF Data
<1>2. CASE ~Settle(c, messages, entries, now)
  <2>1. /\ loop' = "deliver" /\ pc' = [pc EXCEPT ![c] = "run"]
        /\ \/ ~EndsWith(messages, Finals) /\ deliver' = <<>>
           \/ steering # <<>> /\ deliver' = Drained(steering)
           \/ followUp # <<>> /\ deliver' = Drained(followUp)
    BY <1>2 DEF Continue, BeginRun
  <2>2. \A q : q # <<>> => Drained(q) # <<>>
    BY DEF Drained
  <2>3. deliver' # <<>> \/ Allowed'
    BY <2>1, <2>2
  <2>4. /\ pc \in [Callers -> CallStates]
        /\ \A d \in Callers : pc[d] \in {"retry", "compact"} => d = c
    BY EndHasLoop DEF Data, IInv, Types
  <2>5. \A d \in Callers : pc'[d] \notin {"retry", "compact"}
    BY <2>1, <2>4
  <2> QED BY <2>1, <2>3, <2>5, BegunLimits
<1> QED BY <1>1, <1>2

LEMMA ContinueIfQueuedLimits ==
    ASSUME Data, ~overlapped, NEW c \in Callers, AtItsEnd(c), Within', lastAssistant' = None,
           NEW messages, NEW entries, NEW now, ContinueIfQueued(c, messages, entries, now),
           Allowed' \/ EndsWith(messages, Finals)
    PROVE  Limits'
BY SettleLimits, ContinueLimits DEF ContinueIfQueued, Data

\* The call waits for a retry or for a compaction.
LEMMA WaitLimits ==
    ASSUME Data, ~overlapped, NEW c \in Callers, AtItsEnd(c), Within', lastAssistant' = None,
           NEW at \in {"retry", "compact"}, pc' = [pc EXCEPT ![c] = at], LoopLeft(c),
           connected' \/ Deaf',
           at = "retry" => failed' <= Credit',
           at = "compact" => Allowed' \/ (~job'[c].retry /\ EndsInFinal')
    PROVE  Limits'
<1>1. /\ LoopFree(c) /\ pc \in [Callers -> CallStates]
      /\ \A d \in Callers : pc[d] \in {"retry", "compact"} => d = c
  BY EndHasLoop DEF Data, IInv, Types
<1>2. loop' = "idle"
  BY <1>1 DEF LoopLeft
<1>3. Waits'
  <2>1. \A d \in Callers : pc'[d] \in {"retry", "compact"} => d = c /\ pc'[d] = at
    BY <1>1
  <2> QED BY <2>1 DEF Waits
<1> QED BY <1>2, <1>3 DEF Limits, Known, Unfailing, Asking, Recording, Ending

\* What follows a run that is not retried, from what is known of its end.
LEMMA AfterRunLimits ==
    ASSUME Data, ~overlapped, NEW c \in Callers, AtItsEnd(c), Within', lastAssistant' = None,
           NEW m, AfterRun(c, m), connected' \/ Deaf',
           Allowed' \/ (~Recovers(m) /\ EndsInFinal)
    PROVE  Limits'
<1>1. ~Recovers(m) => Checked(m) = transcript
  BY DEF Checked
<1>2. CASE ContinueIfQueued(c, Checked(m), session, clock)
  BY <1>1, <1>2, ContinueIfQueuedLimits DEF EndsInFinal
<1>3. CASE /\ StartCompaction(c, m, "compact") /\ LoopLeft(c)
           /\ UNCHANGED session
  <2>1. PICK keep \in Keeps(session) :
           job' = [job EXCEPT ![c] = [keep |-> keep, retry |-> Recovers(m), message |-> None]]
    BY <1>3 DEF StartCompaction
  <2>2. job'[c].retry = Recovers(m)
    BY <2>1 DEF Data, JobsOK
  <2>3. pc' = [pc EXCEPT ![c] = "compact"] /\ transcript' = Checked(m)
    BY <1>3 DEF StartCompaction
  <2>4. Allowed' \/ (~job'[c].retry /\ EndsInFinal')
    BY <1>1, <1>3, <2>2, <2>3 DEF EndsInFinal
  <2> QED BY <1>3, <2>3, <2>4, WaitLimits
<1> QED BY <1>2, <1>3 DEF AfterRun

LEMMA RunEndsLimits ==
    ASSUME Data, Limits, ~overlapped, NEW c \in Callers, RunEnds(c)
    PROVE  Limits'
<1> DEFINE m == lastAssistant
<1>1. /\ AtItsEnd(c) /\ loop = "ended" /\ lastAssistant' = None /\ Within'
      /\ UNCHANGED <<connected, manual, idleWaiters, failed>>
  BY Zenon DEF RunEnds, AtItsEnd, Running, compaction, Limits, Within
<1>2. /\ failed \in Nat /\ MaxRetries \in Nat /\ retryAttempt \in 0 .. MaxRetries
      /\ active /\ overflowTried \in BOOLEAN
  BY <1>1, EndHasLoop, AgentSessionAssumption DEF Limits, Within, Data, RecoveryOK
<1>3. m # None => /\ connected \/ Deaf
                  /\ m.kind \in Errors => failed <= Credit + 1 /\ EndsInFinal
                  /\ m.kind \notin Errors => failed = 0 \/ (failed <= 1 /\ Deaf)
  BY <1>1, <1>2 DEF Limits, Known, Ending
<1>4. Deaf' = Deaf
  BY <1>1 DEF Deaf
<1>5. CASE m = None
  <2>1. Settle(c, transcript, session, clock)
    BY <1>5 DEF RunEnds, BeginRetry, Retryable, None, Message
  <2> QED BY <1>1, <2>1, SettleLimits DEF Data
<1>6. CASE m # None /\ BeginRetry(c, m)
  <2>1. /\ m.kind = "error" /\ retryAttempt' = retryAttempt + 1
        /\ overflowTried' = overflowTried
        /\ pc' = [pc EXCEPT ![c] = "retry"] /\ LoopLeft(c)
    BY <1>6, Zenon DEF BeginRetry, Retryable
  <2>2. failed <= Credit + 1
    BY <1>3, <1>6, <2>1 DEF Errors
  <2>3. failed' <= Credit'
    BY <1>1, <1>2, <2>1, <2>2 DEF Credit
  <2> QED BY <1>1, <1>3, <1>4, <1>6, <2>1, <2>3, WaitLimits
<1>7. CASE /\ m # None /\ AfterRun(c, m)
           /\ retryAttempt' = IF m.kind \in Errors THEN 0 ELSE retryAttempt
  <2>1. overflowTried' = (overflowTried \/ Recovers(m))
    BY <1>7 DEF AfterRun
  <2>2. CASE m.kind \notin Errors
    <3>1. Credit' \in Nat
      BY <1>2, <1>7, <2>1, <2>2 DEF Credit
    <3>2. Allowed'
      BY <1>1, <1>2, <1>3, <1>4, <1>7, <2>2, <3>1 DEF Allowed
    <3> QED BY <1>1, <1>3, <1>4, <1>7, <3>2, AfterRunLimits
  <2>3. CASE m.kind \in Errors /\ Recovers(m)
    <3>1. ~overflowTried /\ overflowTried' /\ retryAttempt' = 0
      BY <1>7, <2>1, <2>3, Zenon DEF Recovers
    <3>2. Credit = retryAttempt /\ Credit' = MaxRetries + 1
      BY <1>2, <3>1 DEF Credit
    <3>3. Allowed'
      BY <1>1, <1>2, <1>3, <1>7, <2>3, <3>2 DEF Allowed
    <3> QED BY <1>1, <1>3, <1>4, <1>7, <3>3, AfterRunLimits
  <2>4. CASE m.kind \in Errors /\ ~Recovers(m)
    BY <1>1, <1>3, <1>4, <1>7, <2>4, AfterRunLimits
  <2> QED BY <2>2, <2>3, <2>4
<1> QED BY <1>5, <1>6, <1>7 DEF RunEnds

LEMMA EndsAlike ==
    ASSUME ConversationOK, NEW keep \in 0 .. clock, Has(session, keep),
           EndsWith(session, Finals)
    PROVE  EndsWith(Context(Append(session, CompactionEntry(keep))), Finals)
<1> DEFINE messages == Context(Append(session, CompactionEntry(keep)))
<1>1. /\ messages \in Seq(MessagesTo(clock + 1)) /\ Len(messages) > 1
      /\ messages[Len(messages)].kind = session[Len(session)].kind
  <2>1. /\ clock \in Nat /\ clock + 1 \in Nat /\ clock + 1 >= clock + 1
        /\ session \in Seq(EntriesTo(clock)) /\ Linked(session)
    BY DEF ConversationOK
  <2> QED BY <2>1, CompactedIs
<1> HIDE DEF messages
<1>2. messages # <<>>
  BY <1>1, EmptySeq
<1>3. session[Len(session)].kind \in Finals
  BY DEF EndsWith, Last
<1>4. EndsWith(messages, Finals)
  BY <1>1, <1>2, <1>3 DEF EndsWith, Last
<1> QED BY <1>4 DEF messages

LEMMA WaitEndsLimits ==
    ASSUME Data, Limits, ~overlapped, NEW c \in Callers,
           RetryStep(c) \/ CompactionStep(c)
    PROVE  Limits'
<1>1. /\ AtItsEnd(c) /\ pc[c] \in {"retry", "compact"}
      /\ UNCHANGED <<connected, manual, idleWaiters, lastAssistant>>
  BY Zenon DEF RetryStep, RetryWakes, RetryCancelled, CompactionStep, CompactionFails,
               CompactionSucceeds, AtItsEnd, Running, compaction, recovery
<1>2. loop = "idle" /\ active /\ lastAssistant' = None
  <2>1. loop = "idle" /\ active
    BY <1>1, EndHasLoop DEF Data
  <2> QED BY <1>1, <2>1 DEF Limits, Known
<1>3. (connected \/ Deaf) /\ Deaf' = Deaf
  BY <1>1, <1>2 DEF Limits, Known, Deaf
<1>4. Within /\ Waits
  BY DEF Limits
<1>5. CASE RetryWakes(c)
  <2>1. UNCHANGED <<failed, overflowTried, retryAttempt>> /\ pc[c] = "retry"
    BY <1>5 DEF RetryWakes
  <2>2. Within' /\ Allowed'
    BY <1>4, <2>1 DEF Within, Waits, Allowed, Credit
  <2>3. Continue(c, transcript, session, clock)
    BY <1>5 DEF RetryWakes
  <2> QED BY <1>1, <1>2, <2>2, <2>3, ContinueLimits
<1>6. CASE RetryCancelled(c)
  <2>1. failed' = 0 /\ retryAttempt' = 0 /\ AfterRun(c, job[c].message)
    BY <1>6 DEF RetryCancelled
  <2>2. MaxRetries \in Nat
    BY AgentSessionAssumption
  <2>3. Within' /\ Allowed'
    BY <2>1, <2>2 DEF Within, Allowed, Credit
  <2> QED BY <1>1, <1>2, <1>3, <2>1, <2>3, AfterRunLimits
<1>7. CASE CompactionStep(c)
  <2>1. UNCHANGED <<failed, overflowTried, retryAttempt>> /\ pc[c] = "compact"
    BY <1>7, Zenon DEF CompactionStep, CompactionFails, CompactionSucceeds, recovery
  <2>2. Within' /\ Credit' = Credit
    BY <1>4, <2>1 DEF Within, Credit
  <2>3. Allowed' = Allowed
    BY <1>3, <2>1, <2>2 DEF Allowed
  <2>4. Allowed \/ (~job[c].retry /\ EndsInFinal)
    BY <1>4, <2>1 DEF Waits
  <2>5. CASE CompactionFails(c)
    <3>1. ContinueIfQueued(c, transcript, session, clock)
      BY <2>5 DEF CompactionFails
    <3> QED BY <1>1, <1>2, <2>2, <2>3, <2>4, <3>1, ContinueIfQueuedLimits DEF EndsInFinal
  <2>6. CASE CompactionSucceeds(c)
    <3> DEFINE entries == Append(session, CompactionEntry(job[c].keep))
    <3>1. Has(session, job[c].keep) /\ job[c].keep \in 0 .. clock /\ ConversationOK
      BY <2>1 DEF Data, JobsOK, Jobs
    <3>2. Allowed' \/ EndsWith(Compacted(c), Finals)
      BY <2>3, <2>4, <3>1, EndsAlike DEF Compacted, EndsInFinal
    <3>3. \/ Continue(c, Compacted(c), entries, clock + 1)
          \/ ContinueIfQueued(c, Compacted(c), entries, clock + 1)
      BY <2>6 DEF CompactionSucceeds
    <3> HIDE DEF entries
    <3> QED BY <1>1, <1>2, <2>2, <3>2, <3>3, ContinueLimits, ContinueIfQueuedLimits
  <2> QED BY <1>7, <2>5, <2>6 DEF CompactionStep
<1> QED BY <1>5, <1>6, <1>7 DEF RetryStep

\* Before a run, and after it.
LEMMA PromptLimits ==
    ASSUME Data, Limits, ~overlapped, NEW c \in Callers,
           \/ StartPrompt(c) \/ InputStep(c) \/ AuthStep(c)
           \/ PrecompactionEnds(c) \/ Settled(c)
    PROVE  Limits'
<1>1. /\ UNCHANGED <<active, lastAssistant, loop, failed, deliver, saving>>
      /\ UNCHANGED <<connected, manual>>
      /\ \E at \in {"input", "idle", "auth", "before", "precompact"} :
            pc' = [pc EXCEPT ![c] = at]
  BY Zenon DEF StartPrompt, InputStep, PromptEnds, PromptQueued, PromptAccepted, AuthStep,
               NoAuth, CheckBeforePrompt, StartCompaction, PrecompactionEnds, Settled,
               recovery, compaction, agent
<1>2. pc \in [Callers -> CallStates] /\ active \in BOOLEAN
  BY DEF Data, IInv, Types
<1>3. \A d \in Callers : pc'[d] \in {"retry", "compact"} => pc'[d] = pc[d]
  BY <1>1, <1>2
<1>4. CASE ~active
  <2>1. loop = "idle" /\ \A d \in Callers : pc[d] \notin Running
    BY <1>4, NothingRuns DEF Data
  <2>2. loop' = "idle" /\ ~active' /\ lastAssistant' = None /\ Within'
    BY <1>1, <1>4, <2>1 DEF Limits, Known, Within
  <2>3. \A d \in Callers : pc'[d] \notin {"retry", "compact"}
    BY <1>3, <2>1 DEF Running
  <2> QED BY <2>2, <2>3, IdleLimits
<1>5. CASE active
  <2>1. pc[c] \notin Preflight
    BY <1>5 DEF Data, IInv, Alone, Busy, Preflight, Running
  <2>2. /\ StartPrompt(c) \/ PromptEnds(c) \/ PromptQueued(c) \/ Settled(c)
    BY <1>5, <2>1 DEF InputStep, PromptAccepted, Streaming, AuthStep, NoAuth,
                      CheckBeforePrompt, PrecompactionEnds, Preflight
  <2>3. UNCHANGED <<transcript, session, overflowTried, retryAttempt, job, idleWaiters>>
    BY <1>5, <2>2, Zenon DEF StartPrompt, PromptEnds, PromptQueued, Settled,
                             conversation, recovery
  <2>4. Deaf' = Deaf /\ Credit' = Credit /\ Allowed' = Allowed /\ EndsInFinal' = EndsInFinal
    BY <1>1, <2>3 DEF Deaf, Credit, Allowed, EndsInFinal
  <2>5. Waits'
    BY <1>1, <1>3, <2>3, <2>4 DEF Limits, Waits
  <2> QED BY <1>1, <2>3, <2>4, <2>5
          DEF Limits, Within, Known, Unfailing, Asking, Recording, Ending
<1> QED BY <1>2, <1>4, <1>5

LEMMA RunPromptLimits ==
    ASSUME Data, Limits, ~overlapped, NEW c \in Callers, RunPrompt(c)
    PROVE  Limits'
<1>1. pc[c] = "before" /\ UNCHANGED <<failed, lastAssistant>>
  BY DEF RunPrompt, recovery
<1>2. loop = "idle" /\ \A d \in Callers : pc[d] \notin Running
  BY <1>1 DEF Data, IInv, Alone, Busy, Preflight, Running, Types
<1>3. /\ loop' = "deliver" /\ deliver' # <<>> /\ pc' = [pc EXCEPT ![c] = "run"]
  BY <1>2 DEF RunPrompt, BeginRun
<1>4. lastAssistant' = None /\ Within'
  BY <1>1, <1>2 DEF Limits, Known, Within
<1>5. \A d \in Callers : pc'[d] \notin {"retry", "compact"}
  BY <1>2, <1>3 DEF Data, IInv, Types, Running
<1> QED BY <1>3, <1>4, <1>5, BegunLimits

\* While the loop has the run, no call waits.
LEMMA LoopHasRun ==
    ASSUME IInv, ~overlapped, loop # "idle"
    PROVE  active /\ \A d \in Callers : pc[d] \notin {"retry", "compact"}
<1>1. owner \in Callers /\ pc[owner] = "run" /\ Busy(owner) /\ active
  BY DEF IInv, Alone, Types, Busy, Running
<1> QED BY <1>1 DEF IInv, Alone, Busy, Running

LEMMA MessageEnds ==
    ASSUME NEW n \in Nat, NEW messages \in Seq(MessagesTo(n)),
           NEW kind \in Finals
    PROVE  EndsWith(Append(messages, Message(kind, n + 1)), Finals)
<1> DEFINE all == Append(messages, Message(kind, n + 1))
<1>1. kind \in Kinds /\ n + 1 \in 1 .. n + 1 /\ 0 \in 0 .. n + 1
  BY DEF Kinds
<1>2. Message(kind, n + 1) \in MessagesTo(n + 1) /\ messages \in Seq(MessagesTo(n + 1))
  BY <1>1, MessageTyped, Wider
<1>3. /\ Len(all) = Len(messages) + 1 /\ Len(messages) \in Nat
      /\ all[Len(messages) + 1] = Message(kind, n + 1) /\ all \in Seq(MessagesTo(n + 1))
  BY <1>2, AppendProperties, LenProperties
<1> HIDE DEF all
<1>4. all # <<>> /\ all[Len(all)].kind = kind
  BY <1>3, EmptySeq DEF Message
<1> QED BY <1>4 DEF EndsWith, Last, all

LEMMA AnnounceLimits ==
    ASSUME Data, Limits, ~overlapped, Announce PROVE Limits'
<1>1. /\ loop = "deliver" /\ loop' = "saving" /\ failed' = 0
      /\ saving' = [message |-> Message("user", clock + 1), heard |-> connected]
      /\ UNCHANGED <<pc, active, lastAssistant, idleWaiters, connected, manual>>
  BY DEF Announce, calls, compaction
<1>2. active /\ \A d \in Callers : pc[d] \notin {"retry", "compact"}
  BY <1>1, LoopHasRun DEF Data
<1>3. Within' /\ Deaf' = Deaf
  BY <1>1, AgentSessionAssumption DEF Within, Deaf
<1>4. saving'.message.kind \notin Errors /\ saving'.heard = connected
  BY <1>1 DEF Message, Errors
<1>5. Known'
  BY <1>1, <1>3, <1>4 DEF Limits, Known
<1>6. Unfailing'
  BY <1>1 DEF Limits, Unfailing
<1> QED BY <1>1, <1>2, <1>3, <1>4, <1>5, <1>6
        DEF Limits, Asking, Recording, Ending, Waits

LEMMA CallModelLimits ==
    ASSUME Data, Limits, ~overlapped, CallModel PROVE Limits'
<1>1. /\ loop = "deliver" /\ deliver = <<>> /\ loop' \in {"deliver", "model"}
      /\ UNCHANGED <<pc, active, lastAssistant, idleWaiters, connected, manual, failed,
                     overflowTried, retryAttempt>>
  BY Zenon DEF CallModel, calls, compaction, recovery
<1>2. active /\ \A d \in Callers : pc[d] \notin {"retry", "compact"}
  BY <1>1, LoopHasRun DEF Data
<1>3. Within' /\ Deaf' = Deaf /\ Allowed' /\ Allowed
  BY <1>1 DEF Limits, Within, Deaf, Allowed, Credit, Asking
<1> QED BY <1>1, <1>2, <1>3
        DEF Limits, Known, Unfailing, Asking, Recording, Ending, Waits

LEMMA RespondLimits ==
    ASSUME Data, Limits, ~overlapped, NEW kind \in Finals \cup {"tools"}, Respond(kind)
    PROVE  Limits'
<1>1. /\ loop = "model" /\ loop' = "saving"
      /\ failed' = IF kind \in Errors THEN failed + 1 ELSE 0
      /\ saving' = [message |-> Message(kind, clock + 1), heard |-> connected]
      /\ transcript' = Append(transcript, Message(kind, clock + 1))
      /\ UNCHANGED <<pc, active, lastAssistant, idleWaiters, connected, manual,
                     overflowTried, retryAttempt>>
  BY DEF Respond, calls, compaction, recovery
<1>2. active /\ \A d \in Callers : pc[d] \notin {"retry", "compact"}
  BY <1>1, LoopHasRun DEF Data
<1>3. /\ failed \in Nat /\ Allowed /\ MaxRetries \in Nat
      /\ retryAttempt \in 0 .. MaxRetries
      /\ lastAssistant # None => failed = 0 /\ lastAssistant.kind \notin Errors
      /\ ~connected /\ ~Deaf => lastAssistant = None
      /\ manual = "none" <=> connected
  BY <1>1, <1>2, AgentSessionAssumption
     DEF Limits, Within, Asking, Unfailing, Known, Data, RecoveryOK, ManualOK
<1>4. Deaf' = Deaf /\ Credit' = Credit /\ Credit \in Nat /\ Credit <= 2 * MaxRetries + 1
  BY <1>1, <1>3 DEF Deaf, Credit
<1>5. Within'
  BY <1>1, <1>3, <1>4 DEF Within, Allowed
<1>6. saving'.message.kind = kind /\ saving'.heard = connected
  BY <1>1 DEF Message
<1>7. ASSUME kind \in Errors, connected
      PROVE  failed' <= Credit' + 1 /\ EndsWith(transcript', Finals)
  <2>1. ~Deaf
    BY <1>3, <1>7 DEF Deaf
  <2>2. failed' <= Credit' + 1
    BY <1>1, <1>3, <1>4, <1>7, <2>1 DEF Allowed
  <2>3. kind \in Finals /\ clock \in Nat /\ transcript \in Seq(MessagesTo(clock))
    BY <1>7 DEF Data, ConversationOK, Finals, Failures
  <2> QED BY <1>1, <2>2, <2>3, MessageEnds
<1>8. ASSUME kind \in Errors, ~connected, lastAssistant # None
      PROVE  failed' <= 1 /\ Deaf
  BY <1>1, <1>3, <1>8
<1>9. Recording'
  BY <1>1, <1>4, <1>6, <1>7, <1>8 DEF Recording
<1>10. Known'
  BY <1>1, <1>3, <1>4, <1>6 DEF Known
<1> QED BY <1>1, <1>2, <1>3, <1>5, <1>9, <1>10
        DEF Limits, Unfailing, Asking, Ending, Waits

LEMMA MessageSavedLimits ==
    ASSUME Data, Limits, ~overlapped, MessageSaved PROVE Limits'
<1> DEFINE m == saving.message
<1>1. /\ loop = "saving" /\ Saved /\ NextTurn(m.kind)
      /\ UNCHANGED <<pc, active, transcript, idleWaiters, connected, manual, failed>>
  BY DEF MessageSaved, calls, compaction
<1>2. active /\ \A d \in Callers : pc[d] \notin {"retry", "compact"}
  BY <1>1, LoopHasRun DEF Data
<1>3. /\ loop' \in {"deliver", "ended"}
      /\ m.kind \in Errors => loop' = "ended"
      /\ loop' = "ended" => m.kind # "user"
  BY <1>1 DEF NextTurn, Failures, Errors, Usages
<1>4. /\ saving.heard => connected \/ Deaf
      /\ ~saving.heard /\ ~connected /\ ~Deaf => lastAssistant = None
      /\ lastAssistant # None => lastAssistant.kind \notin Errors
      /\ m.kind \notin Errors => failed = 0
      /\ m.kind \in Errors /\ saving.heard =>
              failed <= Credit + 1 /\ EndsWith(transcript, Finals)
      /\ m.kind \in Errors /\ ~saving.heard =>
              (lastAssistant # None => failed <= 1 /\ Deaf)
  BY <1>1, <1>2 DEF Limits, Known, Unfailing, Recording
<1>5. Within' /\ Deaf' = Deaf /\ saving.heard \in BOOLEAN
  BY <1>1 DEF Limits, Within, Deaf, Data, SavingOK
<1>6. /\ retryAttempt \in Nat /\ MaxRetries \in Nat
  BY AgentSessionAssumption DEF Data, RecoveryOK
<1>7. CASE ~saving.heard
  <2>1. UNCHANGED <<session, lastAssistant, overflowTried, retryAttempt>>
    BY <1>1, <1>7 DEF Saved
  <2>2. Credit' = Credit /\ Credit \in Nat
    BY <1>6, <2>1 DEF Credit
  <2>3. Known'
    BY <1>1, <1>3, <1>4, <1>5, <1>7, <2>1 DEF Limits, Known
  <2>4. Unfailing' /\ Ending'
    BY <1>1, <1>3, <1>4, <1>5, <1>7, <2>1 DEF Unfailing, Ending
  <2>5. Asking'
    BY <1>1, <1>3, <1>4, <2>2 DEF Asking, Allowed
  <2> QED BY <1>1, <1>2, <1>3, <1>5, <2>3, <2>4, <2>5 DEF Limits, Recording, Waits
<1>8. CASE saving.heard
  <2>1. /\ session' = Append(session, Entry(m.kind, m.time, 0))
        /\ \/ m.kind = "user" /\ UNCHANGED <<lastAssistant, overflowTried, retryAttempt>>
           \/ /\ m.kind # "user" /\ lastAssistant' = m
              /\ overflowTried' = (overflowTried /\ m.kind \in Errors)
              /\ retryAttempt' = IF m.kind \in Errors THEN retryAttempt ELSE 0
    BY <1>1, <1>8 DEF Saved
  <2>2. Credit' \in Nat
    BY <1>6, <2>1 DEF Credit
  <2>3. Known'
    BY <1>1, <1>3, <1>4, <1>5, <1>8 DEF Known
  <2>4. CASE m.kind \notin Errors
    <3>1. failed' = 0 /\ (lastAssistant' # None => lastAssistant'.kind \notin Errors)
      BY <1>1, <1>4, <2>1, <2>4
    <3>2. Unfailing'
      BY <3>1 DEF Unfailing
    <3>3. Ending'
      BY <3>1 DEF Ending
    <3>4. Asking'
      BY <2>2, <3>1 DEF Asking, Allowed
    <3> QED BY <1>1, <1>2, <1>3, <1>5, <2>3, <3>2, <3>3, <3>4 DEF Limits, Recording, Waits
  <2>5. CASE m.kind \in Errors
    <3>1. loop' = "ended" /\ lastAssistant' = m /\ retryAttempt' = retryAttempt
          /\ m.kind \in Finals
      BY <1>3, <2>1, <2>5 DEF Errors, Finals, Failures
    <3>2. overflowTried \in BOOLEAN /\ overflowTried' = overflowTried
      BY <2>1, <2>5 DEF Data, RecoveryOK, Errors
    <3>3. Credit' = Credit
      BY <3>1, <3>2 DEF Credit
    <3>4. EndsWith(session', Finals)
      <4>1. /\ session \in Seq(EntriesTo(clock)) /\ m \in MessagesTo(clock) /\ clock \in Nat
        BY <1>1 DEF Data, ConversationOK, SavingOK
      <4>2. Entry(m.kind, m.time, 0) \in EntriesTo(clock)
            /\ Entry(m.kind, m.time, 0).kind = m.kind
        BY <4>1 DEF MessagesTo, EntriesTo, Entry
      <4>3. /\ Len(session') = Len(session) + 1 /\ Len(session) \in Nat
            /\ session'[Len(session) + 1] = Entry(m.kind, m.time, 0)
            /\ session' \in Seq(EntriesTo(clock))
        BY <2>1, <4>1, <4>2, AppendProperties, LenProperties
      <4>4. session' # <<>>
        BY <4>3, EmptySeq
      <4> QED BY <3>1, <4>2, <4>3, <4>4 DEF EndsWith, Last
    <3>5. failed' <= Credit' + 1 /\ EndsInFinal'
      BY <1>1, <1>4, <1>8, <2>5, <3>3, <3>4 DEF EndsInFinal
    <3>6. Unfailing' /\ Ending' /\ Asking'
      BY <2>5, <3>1, <3>5 DEF Unfailing, Ending, Asking
    <3> QED BY <1>1, <1>2, <1>3, <1>5, <2>3, <3>6 DEF Limits, Recording, Waits
  <2> QED BY <2>4, <2>5
<1> QED BY <1>5, <1>7, <1>8

\* What others ask for, and compaction by hand.
LEMMA OthersLimits ==
    ASSUME Data, Limits, ~overlapped,
           ManualStep \/ QueueMessage \/ Abort \/ RequestCompact \/ ClearQueue
             \/ RecordBash
    PROVE  Limits'
<1>1. UNCHANGED <<pc, job, active, loop, deliver, saving, lastAssistant, overflowTried,
                  retryAttempt, failed>>
  BY Zenon DEF ManualStep, ManualBegins, ManualSucceeds, ManualFails, QueueMessage,
               Abort, RequestCompact, ClearQueue, RecordBash, calls, agent, recovery
<1>2. active \in BOOLEAN /\ connected = (manual = "none")
  BY DEF Data, IInv, Types, ManualOK
<1>3. Within' /\ Credit' = Credit
  BY <1>1 DEF Limits, Within, Credit
<1>4. CASE ~active
  <2>1. loop = "idle" /\ \A d \in Callers : pc[d] \notin Running
    BY <1>4, NothingRuns DEF Data
  <2>2. lastAssistant' = None
    BY <1>1, <2>1 DEF Limits, Known
  <2> QED BY <1>1, <1>3, <1>4, <2>1, <2>2, IdleLimits DEF Running
<1>5. CASE active /\ ManualSucceeds
  <2>1. ~connected /\ connected' /\ ~Deaf
    BY <1>2, <1>5 DEF ManualSucceeds, Deaf
  <2>2. lastAssistant = None /\ loop # "idle" /\ (loop = "saving" => ~saving.heard)
    BY <1>5, <2>1 DEF Limits, Known
  <2>3. \A d \in Callers : pc[d] \notin {"retry", "compact"}
    BY <2>2, LoopHasRun DEF Data
  <2>4. Asking'
    BY <1>1, <1>3, <2>1 DEF Limits, Asking, Allowed
  <2>5. Recording'
    BY <1>1, <2>2 DEF Limits, Recording
  <2> QED BY <1>1, <1>3, <2>1, <2>2, <2>3, <2>4, <2>5
          DEF Limits, Known, Unfailing, Ending, Waits
<1>6. CASE active /\ ~ManualSucceeds
  <2>1. UNCHANGED <<transcript, session>>
    BY <1>6, Zenon DEF ManualStep, ManualBegins, ManualFails, QueueMessage, Abort,
                 RequestCompact, ClearQueue, RecordBash, Streaming, conversation
  <2>2. Deaf => Deaf'
    BY <1>6 DEF ManualStep, ManualBegins, ManualFails, QueueMessage, Abort, AbortAll,
                 RequestCompact, ClearQueue, RecordBash, compaction, Deaf
  <2>3. connected' \/ Deaf' \/ (~connected /\ ~Deaf)
    BY <1>2, <1>6 DEF ManualStep, ManualBegins, ManualFails, QueueMessage, Abort, AbortAll,
                 RequestCompact, ClearQueue, RecordBash, compaction, Deaf
  <2>4. EndsInFinal' = EndsInFinal /\ (Allowed => Allowed')
    BY <1>1, <1>3, <2>1, <2>2 DEF EndsInFinal, Allowed
  <2>5. Known'
    BY <1>1, <1>6, <2>3 DEF Limits, Known
  <2>6. Waits' /\ Asking'
    BY <1>1, <1>3, <2>4 DEF Limits, Waits, Asking
  <2>7. Recording' /\ Ending'
    BY <1>1, <1>3, <2>1, <2>2, <2>4 DEF Limits, Recording, Ending
  <2> QED BY <1>1, <1>3, <2>5, <2>6, <2>7 DEF Limits, Unfailing
<1> QED BY <1>2, <1>4, <1>5, <1>6

Bounded == overlapped \/ Limits

LEMMA LimitsInvariant == Spec => []Bounded
<1>1. Init => Bounded
  BY AgentSessionAssumption DEF Init, Bounded, Limits, Within, Known, Unfailing, Asking, Recording,
                                Ending, Waits
<1>2. Data /\ Bounded /\ [Next]_vars => Bounded'
  <2> SUFFICES ASSUME Data, Bounded, [Next]_vars, ~overlapped' PROVE Limits'
    BY DEF Bounded
  <2>1. CASE UNCHANGED vars
    <3>1. Limits
      BY <2>1 DEF vars, Bounded
    <3> QED BY <2>1, <3>1
            DEF vars, calls, agent, conversation, recovery, compaction, Limits, Within, Known,
                Unfailing, Asking, Recording, Ending, Waits, Deaf, Credit, Allowed,
                EndsInFinal
  <2>2. CASE Next
    <3>1. ~overlapped /\ Limits
      BY <2>2, HistoryKept DEF Bounded
    <3> QED BY <2>2, <3>1, PromptLimits, RunPromptLimits, RunEndsLimits, WaitEndsLimits,
               AnnounceLimits, CallModelLimits, RespondLimits, MessageSavedLimits,
               OthersLimits
            DEF Next, CallStep, LoopStep
  <2> QED BY <2>1, <2>2
<1> QED BY <1>1, <1>2, DataInvariant, PTL DEF Spec

\* The model fails a bounded number of times between two interventions of the
\* user: the series of retries and the recovery of an overflow feed each other
\* only once.
THEOREM ErrorsAlwaysBounded == Spec => []ErrorsBounded
<1>1. Bounded => ErrorsBounded
  BY DEF Bounded, Limits, Within, ErrorsBounded
<1> QED BY <1>1, LimitsInvariant, PTL

-----------------------------------------------------------------------------
(* What lasts, and in which order.                                          *)

\* What lasts of one conversation is in another, in the same order.
Embeds(a, d, b, e) ==
    \A i, j \in DOMAIN a :
        i <= j /\ Lasts(a[i], d) /\ Lasts(a[j], d) =>
            \E k, l \in DOMAIN b : /\ k <= l /\ b[k] = a[i] /\ b[l] = a[j]
                                  /\ Lasts(b[k], e) /\ Lasts(b[l], e)

LEMMA OrderIs ==
    ASSUME NEW a, NEW d, NEW b, NEW e
    PROVE  Order(a, d) \subseteq Order(b, e) <=> Embeds(a, d, b, e)
<1>1. ASSUME NEW s, NEW f, NEW r
      PROVE  r \in Order(s, f) <=>
                \E i, j \in DOMAIN s : /\ i <= j /\ Lasts(s[i], f) /\ Lasts(s[j], f)
                                      /\ r = <<s[i], s[j]>>
  <2> DEFINE L == {i \in DOMAIN s : Lasts(s[i], f)}
  <2>1. Order(s, f) = {<<s[p[1]], s[p[2]]>> : p \in {q \in L \X L : q[1] <= q[2]}}
    BY DEF Order
  <2>2. ASSUME NEW i \in DOMAIN s, NEW j \in DOMAIN s,
               i <= j, Lasts(s[i], f), Lasts(s[j], f), r = <<s[i], s[j]>>
        PROVE  r \in Order(s, f)
    <3>1. <<i, j>> \in {q \in L \X L : q[1] <= q[2]}
      BY <2>2
    <3> HIDE DEF L
    <3> QED BY <2>1, <2>2, <3>1
  <2>3. ASSUME r \in Order(s, f)
        PROVE  \E i, j \in DOMAIN s : /\ i <= j /\ Lasts(s[i], f) /\ Lasts(s[j], f)
                                     /\ r = <<s[i], s[j]>>
    <3>1. PICK p \in L \X L : p[1] <= p[2] /\ r = <<s[p[1]], s[p[2]]>>
      <4> HIDE DEF L
      <4> QED BY <2>1, <2>3
    <3>2. p[1] \in L /\ p[2] \in L
      <4> HIDE DEF L
      <4> QED OBVIOUS
    <3> QED BY <3>1, <3>2
  <2> QED BY <2>2, <2>3
<1>2. ASSUME Order(a, d) \subseteq Order(b, e) PROVE Embeds(a, d, b, e)
  <2> SUFFICES ASSUME NEW i \in DOMAIN a, NEW j \in DOMAIN a,
                      i <= j, Lasts(a[i], d), Lasts(a[j], d)
               PROVE  \E k, l \in DOMAIN b : /\ k <= l /\ b[k] = a[i] /\ b[l] = a[j]
                                            /\ Lasts(b[k], e) /\ Lasts(b[l], e)
    BY DEF Embeds
  <2>1. <<a[i], a[j]>> \in Order(b, e)
    BY <1>1, <1>2
  <2>2. PICK k, l \in DOMAIN b : /\ k <= l /\ Lasts(b[k], e) /\ Lasts(b[l], e)
                                 /\ <<a[i], a[j]>> = <<b[k], b[l]>>
    BY <1>1, <2>1
  <2>3. b[k] = a[i] /\ b[l] = a[j]
    BY <2>2
  <2> QED BY <2>2, <2>3
<1>3. ASSUME Embeds(a, d, b, e) PROVE Order(a, d) \subseteq Order(b, e)
  <2> SUFFICES ASSUME NEW r \in Order(a, d) PROVE r \in Order(b, e)
    OBVIOUS
  <2>1. PICK i, j \in DOMAIN a : /\ i <= j /\ Lasts(a[i], d) /\ Lasts(a[j], d)
                                 /\ r = <<a[i], a[j]>>
    BY <1>1
  <2>2. PICK k, l \in DOMAIN b : /\ k <= l /\ b[k] = a[i] /\ b[l] = a[j]
                                 /\ Lasts(b[k], e) /\ Lasts(b[l], e)
    BY <1>3, <2>1 DEF Embeds
  <2> QED BY <1>1, <2>1, <2>2
<1> QED BY <1>2, <1>3

LEMMA LastsIs ==
    ASSUME NEW S, NEW entries \in Seq(S), NEW m
    PROVE  /\ Lasts(m, entries) <=> m.kind \notin Passing /\ Has(entries, m.time)
           /\ DOMAIN entries = 1 .. Len(entries)
BY LenProperties DEF Lasts, Has

\* The messages and entries of these are at other times.
Apart(messages, entries) ==
    \A i \in 1 .. Len(messages), j \in 1 .. Len(entries) :
        messages[i].time # entries[j].time

\* What is added to both conversations and to the session keeps the order.
LEMMA EmbedsJoined ==
    ASSUME NEW n \in Nat, NEW a \in Seq(MessagesTo(n)), NEW b \in Seq(MessagesTo(n)),
           NEW entries \in Seq(EntriesTo(n)), NEW B \in Seq(MessagesTo(n)),
           NEW E \in Seq(EntriesTo(n)),
           Embeds(a, entries, b, entries), Apart(a, E)
    PROVE  Embeds(a \o B, entries \o E, b \o B, entries \o E)
<1> DEFINE u == a \o B
           v == b \o B
           all == entries \o E
<1>1. /\ u \in Seq(MessagesTo(n)) /\ Len(a) \in Nat /\ Len(B) \in Nat
      /\ Len(u) = Len(a) + Len(B)
      /\ \A i \in 1 .. Len(a) : u[i] = a[i]
      /\ \A i \in 1 .. Len(B) : u[Len(a) + i] = B[i]
      /\ \A i \in 1 .. Len(u) : i \in 1 .. Len(a) \/ \E j \in 1 .. Len(B) : i = Len(a) + j
  BY Joined
<1>2. /\ v \in Seq(MessagesTo(n)) /\ Len(b) \in Nat
      /\ Len(v) = Len(b) + Len(B)
      /\ \A i \in 1 .. Len(b) : v[i] = b[i]
      /\ \A i \in 1 .. Len(B) : v[Len(b) + i] = B[i]
  BY Joined
<1>3. /\ all \in Seq(EntriesTo(n)) /\ Len(entries) \in Nat /\ Len(E) \in Nat
      /\ Len(all) = Len(entries) + Len(E)
      /\ \A i \in 1 .. Len(entries) : all[i] = entries[i]
      /\ \A i \in 1 .. Len(E) : all[Len(entries) + i] = E[i]
      /\ \A i \in 1 .. Len(all) :
            i \in 1 .. Len(entries) \/ \E j \in 1 .. Len(E) : i = Len(entries) + j
  BY Joined
<1> HIDE DEF u, v, all
<1>4. DOMAIN u = 1 .. Len(u) /\ DOMAIN v = 1 .. Len(v) /\ DOMAIN a = 1 .. Len(a)
      /\ DOMAIN b = 1 .. Len(b)
  BY <1>1, <1>2, LenProperties
<1>5. \A t : Has(entries, t) => Has(all, t)
  <2>1. \A i \in 1 .. Len(entries) : i \in 1 .. Len(all)
    BY <1>3
  <2> QED BY <1>3, <2>1 DEF Has
<1>6. \A m : Lasts(m, entries) => Lasts(m, all)
  BY <1>3, <1>5, LastsIs
<1>7. ASSUME NEW i \in 1 .. Len(a), Lasts(a[i], all) PROVE Lasts(a[i], entries)
  <2>1. a[i].kind \notin Passing /\ Has(all, a[i].time)
    BY <1>3, <1>7, LastsIs
  <2>2. PICK k \in 1 .. Len(all) : all[k].time = a[i].time
    BY <2>1 DEF Has
  <2>3. CASE k \in 1 .. Len(entries)
    <3>1. Has(entries, a[i].time)
      BY <1>3, <2>2, <2>3 DEF Has
    <3> QED BY <2>1, <3>1, LastsIs
  <2>4. CASE \E j \in 1 .. Len(E) : k = Len(entries) + j
    <3>1. PICK j \in 1 .. Len(E) : k = Len(entries) + j
      BY <2>4
    <3>2. E[j].time = a[i].time
      BY <1>3, <2>2, <3>1
    <3> QED BY <3>2 DEF Apart
  <2> QED BY <1>3, <2>3, <2>4
<1>8. \A i \in 1 .. Len(b) : i \in 1 .. Len(v)
  BY <1>2
<1>9. \A i \in 1 .. Len(B) : Len(b) + i \in 1 .. Len(v)
  BY <1>1, <1>2
<1> SUFFICES Embeds(u, all, v, all)
  BY DEF u, v, all
<1> SUFFICES ASSUME NEW i \in DOMAIN u, NEW j \in DOMAIN u,
                    i <= j, Lasts(u[i], all), Lasts(u[j], all)
             PROVE  \E k, l \in DOMAIN v : /\ k <= l /\ v[k] = u[i] /\ v[l] = u[j]
                                           /\ Lasts(v[k], all) /\ Lasts(v[l], all)
  BY DEF Embeds
<1> SUFFICES \E k, l \in 1 .. Len(v) : k <= l /\ v[k] = u[i] /\ v[l] = u[j]
  <2>1. ASSUME NEW k \in 1 .. Len(v), NEW l \in 1 .. Len(v), k <= l, v[k] = u[i], v[l] = u[j]
      PROVE  \E x, y \in DOMAIN v : /\ x <= y /\ v[x] = u[i] /\ v[y] = u[j]
                                    /\ Lasts(v[x], all) /\ Lasts(v[y], all)
    BY <1>4, <2>1
  <2> QED BY <2>1
<1>14. i \in 1 .. Len(u) /\ j \in 1 .. Len(u)
  BY <1>4
<1>10. CASE i \in 1 .. Len(a) /\ j \in 1 .. Len(a)
  <2>1. Lasts(a[i], entries) /\ Lasts(a[j], entries) /\ u[i] = a[i] /\ u[j] = a[j]
    BY <1>1, <1>7, <1>10
  <2>2. PICK k, l \in 1 .. Len(b) : /\ k <= l /\ b[k] = a[i] /\ b[l] = a[j]
                                     /\ Lasts(b[k], entries) /\ Lasts(b[l], entries)
    BY <1>4, <1>10, <2>1, ZenonT(40) DEF Embeds
  <2>3. v[k] = u[i] /\ v[l] = u[j] /\ k \in 1 .. Len(v) /\ l \in 1 .. Len(v)
    BY <1>2, <1>8, <2>1, <2>2
  <2> QED BY <2>2, <2>3
<1>11. ASSUME i \in 1 .. Len(a), NEW y \in 1 .. Len(B), j = Len(a) + y
       PROVE  \E k, l \in 1 .. Len(v) : k <= l /\ v[k] = u[i] /\ v[l] = u[j]
  <2>1. Lasts(a[i], entries) /\ u[i] = a[i] /\ u[j] = B[y] /\ i <= i
    BY <1>1, <1>7, <1>11
  <2>2. PICK k \in 1 .. Len(b) : b[k] = a[i]
    BY <1>4, <1>11, <2>1 DEF Embeds
  <2>3. v[k] = u[i] /\ v[Len(b) + y] = u[j] /\ k \in 1 .. Len(v) /\ Len(b) + y \in 1 .. Len(v)
    BY <1>2, <1>8, <1>9, <2>1, <2>2
  <2>4. k <= Len(b) + y
    BY <1>1, <1>2
  <2> QED BY <2>3, <2>4
<1>12. ASSUME NEW x \in 1 .. Len(B), NEW y \in 1 .. Len(B),
              i = Len(a) + x, j = Len(a) + y
       PROVE  \E k, l \in 1 .. Len(v) : k <= l /\ v[k] = u[i] /\ v[l] = u[j]
  <2>1. u[i] = B[x] /\ u[j] = B[y] /\ Len(b) + x <= Len(b) + y
    BY <1>1, <1>2, <1>12
  <2>2. v[Len(b) + x] = u[i] /\ v[Len(b) + y] = u[j]
    BY <1>2, <2>1
  <2> QED BY <1>9, <2>1, <2>2
<1>13. ~(j \in 1 .. Len(a)) \/ i \in 1 .. Len(a)
  BY <1>1, <1>14
<1> QED BY <1>1, <1>14, <1>10, <1>11, <1>12, <1>13

-----------------------------------------------------------------------------
(* The context of a session that grows.                                     *)

LEMMA ContextFlat ==
    ASSUME NEW n \in Nat, NEW entries \in Seq(EntriesTo(n)), LastCompaction(entries) = 0
    PROVE  /\ Context(entries) \in Seq(MessagesTo(n)) /\ Len(Context(entries)) = Len(entries)
           /\ \A i \in 1 .. Len(entries) :
                 Context(entries)[i] = Message(entries[i].kind, entries[i].time)
<1>1. /\ Len(entries) \in Nat /\ DOMAIN entries = 1 .. Len(entries)
      /\ \A i \in 1 .. Len(entries) : entries[i] \in EntriesTo(n)
  BY LenProperties, ElementOfSeq
<1>2. Context(entries) =
        [i \in 1 .. Len(entries) |-> Message(entries[i].kind, entries[i].time)]
  BY <1>1 DEF Context, ContextEntries
<1>3. \A i \in 1 .. Len(entries) :
         Message(entries[i].kind, entries[i].time) \in MessagesTo(n)
  BY <1>1 DEF Message, MessagesTo, EntriesTo
<1>4. Context(entries) \in Seq(MessagesTo(n))
  BY <1>1, <1>2, <1>3, IsASeq
<1> QED BY <1>1, <1>2, <1>4, LenProperties

\* Every message of a context stands for an entry of its own.
LEMMA ContextStands ==
    ASSUME NEW n \in Nat, NEW entries \in Seq(EntriesTo(n)), Linked(entries)
    PROVE  /\ Context(entries) \in Seq(MessagesTo(n))
           /\ \E f \in [1 .. Len(Context(entries)) -> 1 .. Len(entries)] :
                 \A i, j \in 1 .. Len(Context(entries)) :
                    /\ Context(entries)[i].time = entries[f[i]].time
                    /\ f[i] = f[j] => i = j
<1> DEFINE k == LastCompaction(entries)
           C == Context(entries)
<1>1. Len(entries) \in Nat /\ k \in 0 .. Len(entries)
  BY LenProperties, LastCompactionIs
<1>2. CASE k = 0
  <2>1. /\ C \in Seq(MessagesTo(n)) /\ Len(C) = Len(entries)
        /\ \A i \in 1 .. Len(entries) : C[i] = Message(entries[i].kind, entries[i].time)
    BY <1>2, ContextFlat
  <2> HIDE DEF C
  <2> DEFINE f == [i \in 1 .. Len(C) |-> i]
  <2>2. f \in [1 .. Len(C) -> 1 .. Len(entries)]
    BY <2>1
  <2>3. ASSUME NEW i \in 1 .. Len(C) PROVE f[i] = i /\ C[i].time = entries[f[i]].time
    <3>1. f[i] = i /\ i \in 1 .. Len(entries)
      BY <2>1
    <3>2. C[i] = Message(entries[i].kind, entries[i].time)
      BY <2>1, <3>1
    <3>3. C[i].time = entries[i].time
      BY <3>2 DEF Message
    <3> HIDE DEF f
    <3> QED BY <3>1, <3>3
  <2>4. \A i, j \in 1 .. Len(C) :
           C[i].time = entries[f[i]].time /\ (f[i] = f[j] => i = j)
    BY <2>3
  <2> HIDE DEF f
  <2> QED BY <2>1, <2>2, <2>4 DEF C
<1>3. CASE k # 0
  <2> HIDE DEF k
  <2>0. /\ k = LastCompaction(entries) /\ k # 0
        /\ n \in Nat /\ entries \in Seq(EntriesTo(n)) /\ Linked(entries)
    BY <1>3 DEF k
  <2> HIDE DEF C
  <2>a. PICK a \in 1 .. k - 1 : ContextAt(entries, n, k, a)
    BY <2>0, ContextIs
  <2>1. /\ C \in Seq(MessagesTo(n)) /\ k \in 1 .. Len(entries)
        /\ Len(C) = 1 + a + (Len(entries) - k)
        /\ C[1] = Message("compaction", entries[k].time)
        /\ \A i \in 1 .. a :
              /\ k - a + i - 1 \in 1 .. k - 1
              /\ C[1 + i] = Message(entries[k - a + i - 1].kind, entries[k - a + i - 1].time)
        /\ \A i \in 1 .. Len(entries) - k :
              C[(1 + a) + i] = Message(entries[k + i].kind, entries[k + i].time)
    BY <2>a DEF ContextAt, C
  <2> DEFINE at(i) == IF i = 1 THEN k
                      ELSE IF i <= 1 + a THEN k - a + (i - 1) - 1 ELSE k + (i - 1 - a)
             f == [i \in 1 .. Len(C) |-> at(i)]
  <2>2. /\ a \in Nat /\ k \in Nat /\ k <= Len(entries) /\ a < k /\ a >= 1
        /\ Len(C) = 1 + a + (Len(entries) - k)
    BY <1>1, <2>1
  <2>3. \A i \in 1 .. Len(C) : at(i) \in 1 .. Len(entries)
    BY <1>1, <2>1, <2>2
  <2>4. \A i, j \in 1 .. Len(C) : at(i) = at(j) => i = j
    BY <1>1, <2>1, <2>2
  <2>5. ASSUME NEW i \in 1 .. Len(C) PROVE C[i].time = entries[at(i)].time
    <3>1. CASE i = 1
      BY <2>1, <3>1 DEF Message
    <3>2. CASE i # 1 /\ i <= 1 + a
      <4>1. i - 1 \in 1 .. a /\ 1 + (i - 1) = i
        BY <2>2, <3>2
      <4>2. C[1 + (i - 1)] =
              Message(entries[k - a + (i - 1) - 1].kind, entries[k - a + (i - 1) - 1].time)
        BY <2>1, <4>1
      <4> QED BY <3>2, <4>1, <4>2 DEF Message
    <3>3. CASE ~(i <= 1 + a)
      <4>1. i - 1 - a \in 1 .. Len(entries) - k /\ (1 + a) + (i - 1 - a) = i /\ i # 1
        BY <1>1, <2>2, <3>3
      <4>2. C[(1 + a) + (i - 1 - a)] =
              Message(entries[k + (i - 1 - a)].kind, entries[k + (i - 1 - a)].time)
        BY <2>1, <4>1
      <4> QED BY <3>3, <4>1, <4>2 DEF Message
    <3> QED BY <3>1, <3>2, <3>3
  <2> HIDE DEF at
  <2>6. f \in [1 .. Len(C) -> 1 .. Len(entries)]
    BY <2>3
  <2>7. \A i, j \in 1 .. Len(C) :
           C[i].time = entries[f[i]].time /\ (f[i] = f[j] => i = j)
    BY <2>4, <2>5
  <2> HIDE DEF f
  <2> QED BY <2>1, <2>6, <2>7 DEF C
<1> QED BY <1>2, <1>3

LEMMA ContextDistinct ==
    ASSUME NEW n \in Nat, NEW entries \in Seq(EntriesTo(n)), Linked(entries),
           Distinct(entries)
    PROVE  /\ Context(entries) \in Seq(MessagesTo(n)) /\ Distinct(Context(entries))
           /\ \A i \in 1 .. Len(Context(entries)) : Has(entries, Context(entries)[i].time)
<1> DEFINE C == Context(entries)
<1>1. PICK f \in [1 .. Len(C) -> 1 .. Len(entries)] :
         \A i, j \in 1 .. Len(C) :
            C[i].time = entries[f[i]].time /\ (f[i] = f[j] => i = j)
  BY ContextStands
<1>2. C \in Seq(MessagesTo(n))
  BY ContextStands
<1> HIDE DEF C
<1>3. DOMAIN C = 1 .. Len(C) /\ DOMAIN entries = 1 .. Len(entries)
  BY <1>2, LenProperties
<1>4. Distinct(C)
  BY <1>1, <1>3 DEF Distinct
<1>5. \A i \in 1 .. Len(C) : Has(entries, C[i].time)
  BY <1>1 DEF Has
<1> QED BY <1>2, <1>4, <1>5 DEF C

\* Entries and the messages that they stand for.
Stands(messages, entries) ==
    /\ Len(messages) = Len(entries)
    /\ \A i \in 1 .. Len(entries) :
          /\ entries[i].kind # "compaction"
          /\ messages[i] = Message(entries[i].kind, entries[i].time)

\* What is added to a session is added to its context.
LEMMA ContextJoined ==
    ASSUME NEW n \in Nat, NEW entries \in Seq(EntriesTo(n)), Linked(entries),
           NEW E \in Seq(EntriesTo(n)), NEW B \in Seq(MessagesTo(n)), Stands(B, E)
    PROVE  /\ entries \o E \in Seq(EntriesTo(n)) /\ Linked(entries \o E)
           /\ Context(entries \o E) = Context(entries) \o B
<1> DEFINE all == entries \o E
           k == LastCompaction(entries)
           C == Context(entries)
           D == Context(all)
<1>1. /\ all \in Seq(EntriesTo(n)) /\ Len(entries) \in Nat /\ Len(E) \in Nat
      /\ Len(all) = Len(entries) + Len(E)
      /\ \A i \in 1 .. Len(entries) : all[i] = entries[i]
      /\ \A i \in 1 .. Len(E) : all[Len(entries) + i] = E[i]
      /\ \A i \in 1 .. Len(all) :
            i \in 1 .. Len(entries) \/ \E j \in 1 .. Len(E) : i = Len(entries) + j
  BY Joined
<1> HIDE DEF all, C, D
<1>0. Len(all) \in Nat
  BY <1>1
<1>2. \A i \in 1 .. Len(all) : all[i].kind = "compaction" => i \in 1 .. Len(entries)
  BY <1>1 DEF Stands
<1>3. Linked(all)
  <2> SUFFICES ASSUME NEW i \in 1 .. Len(all), all[i].kind = "compaction"
               PROVE  \E j \in 1 .. i - 1 : all[j].time = all[i].keep
    BY DEF Linked
  <2>1. i \in 1 .. Len(entries) /\ all[i] = entries[i]
    BY <1>1, <1>2
  <2>2. PICK j \in 1 .. i - 1 : entries[j].time = entries[i].keep
    BY <2>1 DEF Linked
  <2>3. j \in 1 .. Len(entries)
    BY <1>1, <2>1
  <2> QED BY <1>1, <2>1, <2>2, <2>3
<1>4. k \in 0 .. Len(entries) /\ LastCompaction(all) = k
  <2>1. /\ k \in 0 .. Len(entries) /\ (k # 0 => entries[k].kind = "compaction")
        /\ \A j \in 1 .. Len(entries) : entries[j].kind = "compaction" => j <= k
    BY <1>0, <1>1, LastCompactionIs
  <2> DEFINE l == LastCompaction(all)
  <2>2. /\ l \in 0 .. Len(all) /\ (l # 0 => all[l].kind = "compaction")
        /\ \A j \in 1 .. Len(all) : all[j].kind = "compaction" => j <= l
    BY <1>0, <1>1, LastCompactionIs
  <2> HIDE DEF k, l
  <2>3. l # 0 => l \in 1 .. Len(entries) /\ entries[l].kind = "compaction"
    BY <1>1, <1>2, <2>2
  <2>4. k # 0 => k \in 1 .. Len(all) /\ all[k].kind = "compaction"
    BY <1>1, <2>1
  <2>5. l <= k /\ k <= l
    BY <1>1, <2>1, <2>2, <2>3, <2>4
  <2> QED BY <1>1, <2>1, <2>2, <2>5 DEF l
<1>5. /\ B \in Seq(MessagesTo(n)) /\ Len(B) = Len(E)
      /\ \A i \in 1 .. Len(E) :
            B[i] = Message(all[Len(entries) + i].kind, all[Len(entries) + i].time)
  BY <1>1 DEF Stands
<1>6. ASSUME C \in Seq(MessagesTo(n)), D \in Seq(MessagesTo(n)), Len(C) \in Nat,
             Len(D) = Len(C) + Len(E), \A i \in 1 .. Len(C) : D[i] = C[i],
             \A i \in 1 .. Len(E) : D[Len(C) + i] = B[i]
      PROVE  D = C \o B
  <2> DEFINE u == C \o B
  <2>1. /\ u \in Seq(MessagesTo(n)) /\ Len(u) = Len(C) + Len(B)
        /\ \A i \in 1 .. Len(C) : u[i] = C[i]
        /\ \A i \in 1 .. Len(B) : u[Len(C) + i] = B[i]
        /\ \A i \in 1 .. Len(u) : i \in 1 .. Len(C) \/ \E j \in 1 .. Len(B) : i = Len(C) + j
    <3>1. C \in Seq(MessagesTo(n)) /\ B \in Seq(MessagesTo(n))
      BY <1>6
    <3> QED BY <3>1, Joined
  <2> HIDE DEF u
  <2>2. Len(u) = Len(D)
    BY <1>5, <1>6, <2>1
  <2>3. \A i \in 1 .. Len(u) : u[i] = D[i]
    BY <1>5, <1>6, <2>1
  <2> QED BY <1>6, <2>1, <2>2, <2>3, SeqEqual DEF u
<1>7. ASSUME k = 0 PROVE D = C \o B
  <2>1. /\ C \in Seq(MessagesTo(n)) /\ Len(C) = Len(entries)
        /\ \A i \in 1 .. Len(entries) : C[i] = Message(entries[i].kind, entries[i].time)
    BY <1>7, ContextFlat DEF C
  <2>2. /\ D \in Seq(MessagesTo(n)) /\ Len(D) = Len(all)
        /\ \A i \in 1 .. Len(all) : D[i] = Message(all[i].kind, all[i].time)
    BY <1>1, <1>4, <1>7, ContextFlat DEF D
  <2> HIDE DEF k
  <2>3. \A i \in 1 .. Len(C) : i \in 1 .. Len(all) /\ all[i] = entries[i]
    BY <1>1, <2>1
  <2>4. \A i \in 1 .. Len(C) : D[i] = C[i]
    BY <2>1, <2>2, <2>3
  <2>5. \A i \in 1 .. Len(E) : Len(C) + i \in 1 .. Len(all) /\ Len(C) = Len(entries)
    BY <1>1, <2>1
  <2>6. \A i \in 1 .. Len(E) : D[Len(C) + i] = B[i]
    BY <1>5, <2>2, <2>5
  <2> QED BY <1>1, <1>6, <2>1, <2>2, <2>4, <2>6
<1>8. ASSUME k # 0 PROVE D = C \o B
  <2> HIDE DEF k
  <2>1. k = LastCompaction(entries) /\ k = LastCompaction(all)
    BY <1>4 DEF k
  <2>2. PICK a \in 1 .. k - 1 : ContextAt(entries, n, k, a)
    BY <1>8, <2>1, ContextIs
  <2>3. PICK b \in 1 .. k - 1 : ContextAt(all, n, k, b)
    BY <1>1, <1>3, <1>8, <2>1, ContextIs
  <2>4. /\ C \in Seq(MessagesTo(n)) /\ Len(C) = 1 + a + (Len(entries) - k)
        /\ k \in 1 .. Len(entries) /\ entries[k - a].time = entries[k].keep
        /\ \A j \in 1 .. k - 1 : entries[j].time = entries[k].keep => j >= k - a
        /\ C[1] = Message("compaction", entries[k].time)
        /\ \A i \in 1 .. a :
              /\ k - a + i - 1 \in 1 .. k - 1
              /\ C[1 + i] = Message(entries[k - a + i - 1].kind, entries[k - a + i - 1].time)
        /\ \A i \in 1 .. Len(entries) - k :
              C[(1 + a) + i] = Message(entries[k + i].kind, entries[k + i].time)
    BY <2>2 DEF ContextAt, C
  <2>5. /\ D \in Seq(MessagesTo(n)) /\ Len(D) = 1 + b + (Len(all) - k)
        /\ all[k - b].time = all[k].keep
        /\ \A j \in 1 .. k - 1 : all[j].time = all[k].keep => j >= k - b
        /\ D[1] = Message("compaction", all[k].time)
        /\ \A i \in 1 .. b : D[1 + i] = Message(all[k - b + i - 1].kind, all[k - b + i - 1].time)
        /\ \A i \in 1 .. Len(all) - k :
              D[(1 + b) + i] = Message(all[k + i].kind, all[k + i].time)
    BY <2>3 DEF ContextAt, D
  <2>6. \A i \in 1 .. k : i \in 1 .. Len(entries) /\ all[i] = entries[i]
    <3>1. k \in 1 .. Len(entries)
      BY <2>4
    <3> QED BY <1>1, <3>1
  <2>7. a = b
    <3>1. k - a \in 1 .. k - 1 /\ k - b \in 1 .. k - 1 /\ k \in 1 .. k
      BY <2>4
    <3>2. k - a \in 1 .. k /\ k - b \in 1 .. k
      BY <3>1
    <3>3. /\ all[k - a] = entries[k - a] /\ all[k - b] = entries[k - b]
          /\ all[k] = entries[k]
      BY <2>6, <3>1, <3>2
    <3>4. k - a >= k - b /\ k - b >= k - a
      BY <2>4, <2>5, <3>1, <3>3
    <3> QED BY <2>4, <3>4
  <2>8. /\ a \in Nat /\ k \in Nat /\ k <= Len(entries) /\ Len(C) = 1 + a + (Len(entries) - k)
        /\ Len(D) = Len(C) + Len(E) /\ Len(C) \in Nat
        /\ Len(all) = Len(entries) + Len(E) /\ Len(entries) \in Nat /\ Len(E) \in Nat
    BY <1>1, <2>4, <2>5, <2>7
  <2>9. ASSUME NEW i \in 1 .. Len(C) PROVE D[i] = C[i]
    <3>1. CASE i = 1
      <4>1. k \in 1 .. k
        BY <2>4
      <4>2. all[k] = entries[k]
        BY <2>6, <4>1
      <4> QED BY <2>4, <2>5, <3>1, <4>2
    <3>2. CASE i # 1 /\ i <= 1 + a
      <4>1. i - 1 \in 1 .. a /\ 1 + (i - 1) = i
        BY <2>8, <3>2
      <4>2. k - a + (i - 1) - 1 \in 1 .. k - 1
        BY <2>4, <4>1
      <4>3. k - a + (i - 1) - 1 \in 1 .. k
        BY <2>8, <4>2
      <4>4. all[k - a + (i - 1) - 1] = entries[k - a + (i - 1) - 1]
        BY <2>6, <4>3
      <4>5. C[1 + (i - 1)] =
              Message(entries[k - a + (i - 1) - 1].kind, entries[k - a + (i - 1) - 1].time)
        BY <2>4, <4>1
      <4>6. D[1 + (i - 1)] =
              Message(all[k - a + (i - 1) - 1].kind, all[k - a + (i - 1) - 1].time)
        BY <2>5, <2>7, <4>1
      <4> QED BY <4>1, <4>4, <4>5, <4>6
    <3>3. CASE ~(i <= 1 + a)
      <4> DEFINE x == i - 1 - a
      <4>1. x \in 1 .. Len(entries) - k /\ x \in 1 .. Len(all) - k /\ (1 + a) + x = i
            /\ k + x \in 1 .. Len(entries)
        BY <2>8, <3>3, SMTT(40)
      <4> HIDE DEF x
      <4>2. C[(1 + a) + x] = Message(entries[k + x].kind, entries[k + x].time)
        BY <2>4, <4>1
      <4>3. D[(1 + a) + x] = Message(all[k + x].kind, all[k + x].time)
        BY <2>5, <2>7, <4>1
      <4> QED BY <1>1, <4>1, <4>2, <4>3
    <3> QED BY <3>1, <3>2, <3>3
  <2>10. ASSUME NEW i \in 1 .. Len(E) PROVE D[Len(C) + i] = B[i]
    <3> DEFINE x == Len(entries) - k + i
    <3>1. x \in 1 .. Len(all) - k /\ Len(C) + i = (1 + a) + x /\ k + x = Len(entries) + i
      BY <2>8, SMTT(40)
    <3> HIDE DEF x
    <3>2. D[(1 + a) + x] = Message(all[k + x].kind, all[k + x].time)
      BY <2>5, <2>7, <3>1
    <3> QED BY <1>5, <3>1, <3>2
  <2> QED BY <1>6, <2>4, <2>5, <2>8, <2>9, <2>10
<1> QED BY <1>1, <1>3, <1>7, <1>8 DEF all, C, D

-----------------------------------------------------------------------------
(* What the agent has and what the session stands for are the same.         *)

Same(messages, entries) ==
    /\ Order(messages, entries) = Order(Context(entries), entries)
    /\ Distinct(messages) /\ Distinct(entries)

LEMMA DistinctIs ==
    ASSUME NEW S, NEW s \in Seq(S)
    PROVE  /\ Distinct(s) <=> \A i, j \in 1 .. Len(s) : s[i].time = s[j].time => i = j
           /\ Len(s) \in Nat
BY LenProperties DEF Distinct

LEMMA DistinctJoined ==
    ASSUME NEW S, NEW s \in Seq(S), NEW t \in Seq(S), Distinct(s), Distinct(t), Apart(s, t)
    PROVE  Distinct(s \o t)
<1> DEFINE u == s \o t
<1>1. /\ u \in Seq(S) /\ Len(s) \in Nat /\ Len(t) \in Nat
      /\ \A i \in 1 .. Len(s) : u[i] = s[i]
      /\ \A i \in 1 .. Len(t) : u[Len(s) + i] = t[i]
      /\ \A i \in 1 .. Len(u) : i \in 1 .. Len(s) \/ \E j \in 1 .. Len(t) : i = Len(s) + j
  BY Joined
<1> HIDE DEF u
<1>2. /\ \A i, j \in 1 .. Len(s) : s[i].time = s[j].time => i = j
      /\ \A i, j \in 1 .. Len(t) : t[i].time = t[j].time => i = j
      /\ \A i \in 1 .. Len(s), j \in 1 .. Len(t) : s[i].time # t[j].time
  BY DistinctIs DEF Apart
<1>3. ASSUME NEW i \in 1 .. Len(u), NEW j \in 1 .. Len(u), u[i].time = u[j].time
      PROVE  i = j
  <2>1. CASE i \in 1 .. Len(s) /\ j \in 1 .. Len(s)
    BY <1>1, <1>2, <1>3, <2>1
  <2>2. ASSUME NEW x \in 1 .. Len(t), i = Len(s) + x, j \in 1 .. Len(s) PROVE FALSE
    <3>1. u[i] = t[x] /\ u[j] = s[j]
      BY <1>1, <2>2
    <3> QED BY <1>2, <1>3, <2>2, <3>1
  <2>3. ASSUME NEW x \in 1 .. Len(t), j = Len(s) + x, i \in 1 .. Len(s) PROVE FALSE
    <3>1. u[i] = s[i] /\ u[j] = t[x]
      BY <1>1, <2>3
    <3> QED BY <1>2, <1>3, <2>3, <3>1
  <2>4. ASSUME NEW x \in 1 .. Len(t), i = Len(s) + x, NEW y \in 1 .. Len(t), j = Len(s) + y
        PROVE  i = j
    <3>1. t[x].time = t[y].time
      BY <1>1, <1>3, <2>4
    <3> QED BY <1>2, <2>4, <3>1
  <2> QED BY <1>1, <2>1, <2>2, <2>3, <2>4
<1> QED BY <1>1, <1>3, DistinctIs DEF u

LEMMA SameIs ==
    ASSUME NEW messages, NEW entries
    PROVE  Same(messages, entries) <=>
              /\ Embeds(messages, entries, Context(entries), entries)
              /\ Embeds(Context(entries), entries, messages, entries)
              /\ Distinct(messages) /\ Distinct(entries)
<1>1. /\ Order(messages, entries) \subseteq Order(Context(entries), entries)
            <=> Embeds(messages, entries, Context(entries), entries)
      /\ Order(Context(entries), entries) \subseteq Order(messages, entries)
            <=> Embeds(Context(entries), entries, messages, entries)
  BY OrderIs
<1> QED BY <1>1 DEF Same

\* The results and the messages of a step are added to both.
LEMMA SameJoined ==
    ASSUME NEW n \in Nat, NEW messages \in Seq(MessagesTo(n)),
           NEW entries \in Seq(EntriesTo(n)), Linked(entries), Same(messages, entries),
           NEW E \in Seq(EntriesTo(n)), NEW B \in Seq(MessagesTo(n)), Stands(B, E),
           Distinct(E), Apart(messages, E), Apart(entries, E)
    PROVE  Same(messages \o B, entries \o E)
<1> DEFINE C == Context(entries)
<1>1. /\ C \in Seq(MessagesTo(n)) /\ Distinct(entries) /\ Distinct(messages)
      /\ \A i \in 1 .. Len(C) : Has(entries, C[i].time)
  BY ContextDistinct DEF Same
<1>2. Apart(C, E)
  BY <1>1 DEF Apart, Has
<1>3. Context(entries \o E) = C \o B
  BY ContextJoined
<1>4. Embeds(messages, entries, C, entries) /\ Embeds(C, entries, messages, entries)
  BY SameIs
<1> HIDE DEF C
<1>5. /\ Embeds(messages \o B, entries \o E, C \o B, entries \o E)
      /\ Embeds(C \o B, entries \o E, messages \o B, entries \o E)
  BY <1>1, <1>2, <1>4, EmbedsJoined
<1>6. Distinct(entries \o E)
  BY <1>1, DistinctJoined
<1>7. Distinct(messages \o B)
  <2>1. ASSUME NEW i \in 1 .. Len(E) PROVE B[i].time = E[i].time
    <3>1. B[i] = Message(E[i].kind, E[i].time)
      BY DEF Stands
    <3> QED BY <3>1 DEF Message
  <2>2. Len(B) = Len(E) /\ Len(E) \in Nat
    BY LenProperties DEF Stands
  <2>3. Distinct(B)
    BY <2>1, <2>2, DistinctIs
  <2>4. Apart(messages, B)
    BY <2>1, <2>2 DEF Apart
  <2> QED BY <1>1, <2>3, <2>4, DistinctJoined
<1> QED BY <1>3, <1>5, <1>6, <1>7, SameIs

\* The last message does not count if it does not last.
LEMMA LastLost ==
    ASSUME NEW S, NEW messages \in Seq(S), NEW front \in Seq(S), NEW entries,
           Len(messages) = Len(front) + 1,
           \A i \in 1 .. Len(front) : messages[i] = front[i],
           ~Lasts(messages[Len(messages)], entries)
    PROVE  /\ Order(front, entries) = Order(messages, entries)
           /\ Distinct(messages) => Distinct(front)
<1>1. /\ DOMAIN front = 1 .. Len(front) /\ DOMAIN messages = 1 .. Len(messages)
      /\ Len(front) \in Nat
  BY LenProperties
<1>2. \A i \in 1 .. Len(front) : i \in 1 .. Len(messages)
  BY <1>1
<1>3. \A i \in 1 .. Len(messages) : i # Len(messages) => i \in 1 .. Len(front)
  BY <1>1
<1>4. Embeds(front, entries, messages, entries)
  <2> SUFFICES ASSUME NEW i \in DOMAIN front, NEW j \in DOMAIN front,
                      i <= j, Lasts(front[i], entries), Lasts(front[j], entries)
               PROVE  \E k, l \in DOMAIN messages :
                         /\ k <= l /\ messages[k] = front[i] /\ messages[l] = front[j]
                         /\ Lasts(messages[k], entries) /\ Lasts(messages[l], entries)
    BY DEF Embeds
  <2> QED BY <1>1, <1>2
<1>5. Embeds(messages, entries, front, entries)
  <2> SUFFICES ASSUME NEW i \in DOMAIN messages, NEW j \in DOMAIN messages,
                      i <= j, Lasts(messages[i], entries), Lasts(messages[j], entries)
               PROVE  \E k, l \in DOMAIN front :
                         /\ k <= l /\ front[k] = messages[i] /\ front[l] = messages[j]
                         /\ Lasts(front[k], entries) /\ Lasts(front[l], entries)
    BY DEF Embeds
  <2>1. i \in 1 .. Len(front) /\ j \in 1 .. Len(front)
    BY <1>1, <1>3
  <2> QED BY <1>1, <2>1
<1>6. Order(front, entries) = Order(messages, entries)
  <2>1. Order(front, entries) \subseteq Order(messages, entries)
    BY <1>4, OrderIs
  <2>2. Order(messages, entries) \subseteq Order(front, entries)
    BY <1>5, OrderIs
  <2> QED BY <2>1, <2>2
<1>7. ASSUME Distinct(messages) PROVE Distinct(front)
  BY <1>2, <1>7, DistinctIs
<1> QED BY <1>6, <1>7

LEMMA SameDropped ==
    ASSUME NEW n \in Nat, NEW messages \in Seq(MessagesTo(n)), NEW entries, NEW kinds,
           Same(messages, entries),
           EndsWith(messages, kinds) => ~Lasts(messages[Len(messages)], entries)
    PROVE  Same(WithoutLast(messages, kinds), entries)
<1> DEFINE front == WithoutLast(messages, kinds)
<1>1. /\ front \in Seq(MessagesTo(n))
      /\ \/ front = messages
         \/ /\ messages # <<>> /\ messages[Len(messages)].kind \in kinds
            /\ Len(front) = Len(messages) - 1
            /\ \A i \in 1 .. Len(messages) - 1 : front[i] = messages[i]
  BY LastDropped
<1> HIDE DEF front
<1>2. CASE front = messages
  BY <1>2 DEF front
<1>3. CASE front # messages
  <2>1. EndsWith(messages, kinds)
    BY <1>1, <1>3 DEF EndsWith, Last
  <2>2. ~Lasts(messages[Len(messages)], entries)
    BY <2>1
  <2>3. Len(messages) = Len(front) + 1 /\ \A i \in 1 .. Len(front) : messages[i] = front[i]
    BY <1>1, <1>3, LenProperties
  <2>4. Order(front, entries) = Order(messages, entries) /\ Distinct(front)
    BY <1>1, <2>2, <2>3, LastLost DEF Same
  <2> QED BY <2>4 DEF Same, front
<1> QED BY <1>2, <1>3

\* A message that is announced and not saved yet, or never.
LEMMA SameAnnounced ==
    ASSUME NEW n \in Nat, NEW messages \in Seq(MessagesTo(n)),
           NEW entries \in Seq(EntriesTo(n)), Same(messages, entries), NEW kind \in Kinds
    PROVE  /\ Same(Append(messages, Message(kind, n + 1)), entries)
           /\ ~Has(entries, n + 1)
<1> DEFINE m == Message(kind, n + 1)
           all == Append(messages, m)
<1>1. m.time = n + 1 /\ m \in MessagesTo(n + 1)
  <2>1. n + 1 \in Nat /\ n + 1 \in 1 .. n + 1 /\ 0 \in 0 .. n + 1
    OBVIOUS
  <2> QED BY <2>1, MessageTyped DEF Message
<1>2. /\ messages \in Seq(MessagesTo(n + 1)) /\ Len(messages) \in Nat
      /\ \A i \in 1 .. Len(messages) : messages[i] \in MessagesTo(n)
      /\ Len(entries) \in Nat /\ \A i \in 1 .. Len(entries) : entries[i] \in EntriesTo(n)
  BY Wider, ElementOfSeq, LenProperties
<1> HIDE DEF m
<1>3. ~Has(entries, n + 1)
  BY <1>2 DEF Has, EntriesTo
<1>4. /\ all \in Seq(MessagesTo(n + 1)) /\ Len(all) = Len(messages) + 1
      /\ \A i \in 1 .. Len(messages) : all[i] = messages[i]
      /\ all[Len(all)] = m
  BY <1>1, <1>2, AppendProperties
<1>5. ~Lasts(m, entries)
  BY <1>1, <1>3, LastsIs
<1> HIDE DEF all
<1>6. Order(messages, entries) = Order(all, entries)
  BY <1>2, <1>4, <1>5, LastLost
<1>7. Distinct(all)
  <2>1. \A i, j \in 1 .. Len(messages) : messages[i].time = messages[j].time => i = j
    BY DistinctIs DEF Same
  <2>2. \A i \in 1 .. Len(messages) : messages[i].time # n + 1
    BY <1>2 DEF MessagesTo
  <2>3. \A i \in 1 .. Len(all) : i \in 1 .. Len(messages) \/ i = Len(all)
    BY <1>2, <1>4
  <2>4. \A i, j \in 1 .. Len(all) : all[i].time = all[j].time => i = j
    BY <1>1, <1>2, <1>4, <2>1, <2>2, <2>3
  <2> QED BY <1>4, <2>4, DistinctIs
<1> QED BY <1>3, <1>6, <1>7 DEF Same, all, m

\* The last message is saved.
LEMMA SameSaved ==
    ASSUME NEW n \in Nat, NEW messages \in Seq(MessagesTo(n)),
           NEW entries \in Seq(EntriesTo(n)), Linked(entries), Same(messages, entries),
           messages # <<>>, NEW m, m = messages[Len(messages)],
           m.kind # "compaction", ~Has(entries, m.time)
    PROVE  Same(messages, Append(entries, Entry(m.kind, m.time, 0)))
<1> DEFINE e == Entry(m.kind, m.time, 0)
<1>1. PICK front \in Seq(MessagesTo(n)), x \in MessagesTo(n) : messages = Append(front, x)
  BY SequenceEmptyOrAppend
<1>2. /\ Len(front) \in Nat /\ Len(messages) = Len(front) + 1
      /\ \A i \in 1 .. Len(front) : messages[i] = front[i]
      /\ messages[Len(front) + 1] = x
  BY <1>1, AppendProperties, LenProperties
<1>3. x = m /\ m \in MessagesTo(n)
  BY <1>1, <1>2
<1>4. ~Lasts(messages[Len(messages)], entries)
  BY LastsIs
<1>5. Same(front, entries)
  <2>1. Order(front, entries) = Order(messages, entries) /\ Distinct(front)
    BY <1>2, <1>4, LastLost DEF Same
  <2> QED BY <2>1 DEF Same
<1>6. /\ e \in EntriesTo(n) /\ e.kind = m.kind /\ e.time = m.time
      /\ m = Message(m.kind, m.time)
  BY <1>3 DEF Entry, EntriesTo, MessagesTo, Message
<1> HIDE DEF e
<1> DEFINE B == <<m>>
           E == <<e>>
<1>7. /\ B \in Seq(MessagesTo(n)) /\ Len(B) = 1 /\ B[1] = m
      /\ E \in Seq(EntriesTo(n)) /\ Len(E) = 1 /\ E[1] = e
  BY <1>3, <1>6
<1>8. messages = front \o B /\ Append(entries, e) = entries \o E
  BY <1>1, <1>3, <1>6, AppendIsConcat
<1> HIDE DEF B, E
<1>9. \A i \in 1 .. Len(E) : i = 1
  BY <1>7
<1>10. Stands(B, E)
  BY <1>6, <1>7, <1>9 DEF Stands
<1>11. Distinct(E)
  BY <1>7, <1>9, DistinctIs
<1>12. Apart(entries, E)
  BY <1>6, <1>7, <1>9 DEF Apart, Has
<1>13. Apart(front, E)
  <2>1. \A i, j \in 1 .. Len(messages) : messages[i].time = messages[j].time => i = j
    BY DistinctIs DEF Same
  <2>2. ASSUME NEW i \in 1 .. Len(front) PROVE front[i].time # m.time
    <3>1. i \in 1 .. Len(messages) /\ Len(messages) \in 1 .. Len(messages) /\ i # Len(messages)
      BY <1>2
    <3> QED BY <1>2, <2>1, <3>1
  <2> QED BY <1>6, <1>7, <1>9, <2>2 DEF Apart
<1>14. Same(front \o B, entries \o E)
  BY <1>5, <1>7, <1>10, <1>11, <1>12, <1>13, SameJoined
<1> QED BY <1>8, <1>14 DEF e

LEMMA SameContext ==
    ASSUME NEW n \in Nat, NEW entries \in Seq(EntriesTo(n)), Linked(entries),
           Distinct(entries)
    PROVE  Same(Context(entries), entries)
BY ContextDistinct DEF Same

\* The context right after a compaction, without the error that is retried.
LEMMA SameCompacted ==
    ASSUME ConversationOK, Distinct(session), NEW keep \in 0 .. clock, Has(session, keep)
    PROVE  LET entries == Append(session, CompactionEntry(keep))
           IN  /\ Same(Context(entries), entries)
               /\ Same(WithoutLast(Context(entries), Errors), entries)
<1> DEFINE n == clock + 1
           e == CompactionEntry(keep)
           entries == Append(session, e)
<1>1. /\ clock \in Nat /\ n \in Nat /\ n >= clock + 1 /\ session \in Seq(EntriesTo(clock))
      /\ Linked(session)
  BY DEF ConversationOK
<1>2. entries \in Seq(EntriesTo(n)) /\ Linked(entries) /\ Context(entries) \in Seq(MessagesTo(n))
  BY <1>1, CompactedIs
<1>3. e \in EntriesTo(n) /\ e.time = clock + 1
  BY <1>1 DEF CompactionEntry, Entry, EntriesTo, Kinds
<1>4. /\ session \in Seq(EntriesTo(n)) /\ Len(session) \in Nat
      /\ \A i \in 1 .. Len(session) : session[i] \in EntriesTo(clock)
  BY <1>1, Wider, ElementOfSeq, LenProperties
<1> HIDE DEF e, n
<1>5. /\ Len(entries) = Len(session) + 1 /\ entries[Len(session) + 1] = e
      /\ \A i \in 1 .. Len(session) : entries[i] = session[i]
  BY <1>3, <1>4, AppendProperties
<1> HIDE DEF entries
<1>6. Distinct(entries)
  <2>1. \A i, j \in 1 .. Len(session) : session[i].time = session[j].time => i = j
    BY <1>4, DistinctIs
  <2>2. \A i \in 1 .. Len(session) : session[i].time # clock + 1
    BY <1>1, <1>4 DEF EntriesTo
  <2>3. \A i \in 1 .. Len(entries) : i \in 1 .. Len(session) \/ i = Len(session) + 1
    BY <1>4, <1>5
  <2>4. \A i, j \in 1 .. Len(entries) : entries[i].time = entries[j].time => i = j
    BY <1>3, <1>4, <1>5, <2>1, <2>2, <2>3
  <2> QED BY <1>2, <2>4, DistinctIs
<1>7. Same(Context(entries), entries) /\ n \in Nat
  BY <1>1, <1>2, <1>6, SameContext
<1>8. Same(WithoutLast(Context(entries), Errors), entries)
  <2> DEFINE messages == Context(entries)
  <2>1. EndsWith(messages, Errors) => ~Lasts(messages[Len(messages)], entries)
    BY DEF EndsWith, Last, Lasts, Passing
  <2> QED BY <1>2, <1>7, <2>1, SameDropped
<1> QED BY <1>7, <1>8 DEF entries, e

\* Results that were put off.
LEMMA SameFlushed ==
    ASSUME NEW n \in Nat, pendingBash \in Nat,
           NEW messages \in Seq(MessagesTo(n)), NEW entries \in Seq(EntriesTo(n)),
           Linked(entries), Same(messages, entries)
    PROVE  Same(messages \o BashMessages(n), entries \o BashEntries(n))
<1> DEFINE last == n + pendingBash
           B == BashMessages(n)
           E == BashEntries(n)
<1>1. last \in Nat /\ n <= last
  OBVIOUS
<1>2. /\ B \in Seq(MessagesTo(last)) /\ Len(B) = pendingBash
      /\ E \in Seq(EntriesTo(last)) /\ Len(E) = pendingBash
      /\ \A i \in 1 .. pendingBash :
            E[i].kind = "bash" /\ E[i].time = n + i /\ B[i] = Message("bash", n + i)
  BY BashTyped
<1> HIDE DEF last, B, E
<1>3. /\ messages \in Seq(MessagesTo(last)) /\ entries \in Seq(EntriesTo(last))
      /\ \A i \in 1 .. Len(messages) : messages[i] \in MessagesTo(n)
      /\ \A i \in 1 .. Len(entries) : entries[i] \in EntriesTo(n)
  BY <1>1, Wider, ElementOfSeq
<1>4. Stands(B, E)
  BY <1>2 DEF Stands
<1>5. Distinct(E)
  <2>1. \A i, j \in 1 .. Len(E) : E[i].time = E[j].time => i = j
    BY <1>2
  <2> QED BY <1>2, <2>1, DistinctIs
<1>6. \A i \in 1 .. Len(E) : E[i].time > n
  BY <1>2
<1>7. \A i \in 1 .. Len(messages) : messages[i].time \in 1 .. n
  BY <1>3 DEF MessagesTo
<1>8. \A i \in 1 .. Len(entries) : entries[i].time \in 1 .. n
  BY <1>3 DEF EntriesTo
<1>9. \A t \in 1 .. n, i \in 1 .. Len(E) : t # E[i].time
  BY <1>6
<1>10. Apart(messages, E) /\ Apart(entries, E)
  BY <1>7, <1>8, <1>9 DEF Apart
<1>11. Same(messages \o B, entries \o E)
  BY <1>1, <1>2, <1>3, <1>4, <1>5, <1>10, SameJoined
<1> QED BY <1>11 DEF B, E

-----------------------------------------------------------------------------
(* Why the transcript follows the session.                                 *)

\* What is being saved is the last message and is not in the session yet,
\* and so is what is announced to nobody after a response that was heard.
Told ==
    loop = "saving" /\ (saving.heard \/ lastAssistant # None) =>
        /\ transcript # <<>> /\ transcript[Len(transcript)] = saving.message
        /\ saving.message.kind # "compaction"
        /\ ~Has(session, saving.message.time)

\* A run after which a response may be dropped ends with it, or with a message
\* that came after it and was announced to nobody.
Ends ==
    loop = "ended" /\ lastAssistant # None /\ lastAssistant.kind \in Passing =>
        ~Lasts(transcript[Len(transcript)], session)

\* What is retried is not an overflow.
Retrying == \A c \in Callers : pc[c] = "retry" => job[c].message.kind = "error"

History == Same(transcript, session) /\ Told /\ Ends /\ Retrying

\* Nothing is being saved, and no run has just ended.
LEMMA QuietHistory ==
    ASSUME Same(transcript', session'), loop' \in {"idle", "deliver", "model"}, Retrying'
    PROVE  History'
BY DEF History, Told, Ends

LEMMA FlushSame ==
    ASSUME pendingBash \in Nat, NEW messages, NEW entries, NEW now,
           Follows(messages, entries, now), Same(messages, entries),
           FlushBash(messages, entries, now)
    PROVE  Same(transcript', session')
BY SameFlushed DEF Follows, FlushBash

LEMMA SettleHistory ==
    ASSUME Data, ~overlapped, NEW c \in Callers, AtItsEnd(c),
           NEW messages, NEW entries, NEW now, Follows(messages, entries, now),
           Same(messages, entries), Settle(c, messages, entries, now)
    PROVE  History'
<1>1. /\ LoopFree(c) /\ pc \in [Callers -> CallStates] /\ pendingBash \in Nat
      /\ \A d \in Callers : pc[d] \in {"retry", "compact"} => d = c
  BY EndHasLoop DEF Data, IInv, Types
<1>2. /\ FlushBash(messages, entries, now) /\ loop' = "idle"
      /\ pc' = [pc EXCEPT ![c] = "settling"]
  BY <1>1 DEF Settle, LoopLeft
<1>3. Retrying'
  BY <1>1, <1>2 DEF Retrying
<1>4. Same(transcript', session')
  BY <1>1, <1>2, FlushSame
<1> QED BY <1>2, <1>3, <1>4, QuietHistory

LEMMA ContinueHistory ==
    ASSUME Data, ~overlapped, NEW c \in Callers, AtItsEnd(c),
           NEW messages, NEW entries, NEW now, Follows(messages, entries, now),
           Same(messages, entries), Continue(c, messages, entries, now)
    PROVE  History'
<1>1. CASE Settle(c, messages, entries, now)
  BY <1>1, SettleHistory
<1>2. CASE ~Settle(c, messages, entries, now)
  <2>1. /\ loop' = "deliver" /\ pc' = [pc EXCEPT ![c] = "run"]
        /\ transcript' = messages /\ session' = entries
    BY <1>2 DEF Continue, BeginRun
  <2>2. /\ pc \in [Callers -> CallStates]
        /\ \A d \in Callers : pc[d] \in {"retry", "compact"} => d = c
    BY EndHasLoop DEF Data, IInv, Types
  <2>3. Retrying'
    BY <2>1, <2>2 DEF Retrying
  <2>4. Same(transcript', session')
    BY <2>1
  <2> QED BY <2>1, <2>3, <2>4, QuietHistory
<1> QED BY <1>1, <1>2

LEMMA ContinueIfQueuedHistory ==
    ASSUME Data, ~overlapped, NEW c \in Callers, AtItsEnd(c),
           NEW messages, NEW entries, NEW now, Follows(messages, entries, now),
           Same(messages, entries), ContinueIfQueued(c, messages, entries, now)
    PROVE  History'
BY SettleHistory, ContinueHistory DEF ContinueIfQueued

\* What follows a run that is not retried.
LEMMA AfterRunHistory ==
    ASSUME Data, ~overlapped, NEW c \in Callers, AtItsEnd(c), NEW m, AfterRun(c, m),
           Same(Checked(m), session)
    PROVE  History'
<1>1. CASE ContinueIfQueued(c, Checked(m), session, clock)
  BY <1>1, CheckedFollows, ContinueIfQueuedHistory DEF Data
<1>2. CASE /\ StartCompaction(c, m, "compact") /\ LoopLeft(c)
           /\ UNCHANGED session
  <2>1. /\ LoopFree(c) /\ pc \in [Callers -> CallStates]
        /\ \A d \in Callers : pc[d] \in {"retry", "compact"} => d = c
    BY EndHasLoop DEF Data, IInv, Types
  <2>2. /\ pc' = [pc EXCEPT ![c] = "compact"] /\ transcript' = Checked(m) /\ loop' = "idle"
    BY <1>2, <2>1 DEF StartCompaction, LoopLeft
  <2>3. Retrying'
    BY <2>1, <2>2 DEF Retrying
  <2>4. Same(transcript', session')
    BY <1>2, <2>2
  <2> QED BY <2>2, <2>3, <2>4, QuietHistory
<1> QED BY <1>1, <1>2 DEF AfterRun

\* The message that a recovery drops is not one that lasts.
LEMMA CheckedSame ==
    ASSUME ConversationOK, Same(transcript, session), NEW m,
           Recovers(m) /\ EndsWith(transcript, Finals) =>
               ~Lasts(transcript[Len(transcript)], session)
    PROVE  Same(Checked(m), session)
<1>1. clock \in Nat /\ transcript \in Seq(MessagesTo(clock))
  BY DEF ConversationOK
<1> QED BY <1>1, SameDropped DEF Checked

LEMMA RunEndsHistory ==
    ASSUME Data, History, ~overlapped, NEW c \in Callers, RunEnds(c)
    PROVE  History'
<1> DEFINE m == lastAssistant
<1>1. AtItsEnd(c) /\ loop = "ended"
  BY DEF RunEnds, AtItsEnd, Running
<1>2. /\ clock \in Nat /\ transcript \in Seq(MessagesTo(clock)) /\ ConversationOK
      /\ Same(transcript, session) /\ Follows(transcript, session, clock)
  BY Following DEF Data, ConversationOK, History
<1>3. m # None /\ m.kind \in Passing => ~Lasts(transcript[Len(transcript)], session)
  BY <1>1 DEF History, Ends
<1>4. CASE m = None
  <2>1. Settle(c, transcript, session, clock)
    BY <1>4 DEF RunEnds, BeginRetry, Retryable, None, Message
  <2> QED BY <1>1, <1>2, <2>1, SettleHistory
<1>5. CASE m # None /\ BeginRetry(c, m)
  <2>1. /\ m.kind = "error" /\ transcript' = WithoutLast(transcript, Finals)
        /\ pc' = [pc EXCEPT ![c] = "retry"] /\ LoopLeft(c) /\ session' = session
        /\ job' = [job EXCEPT ![c].message = m]
    BY <1>5, Zenon DEF BeginRetry, Retryable
  <2>2. ~Lasts(transcript[Len(transcript)], session)
    BY <1>3, <1>5, <2>1 DEF Passing, Errors
  <2>3. Same(transcript', session')
    BY <1>2, <2>1, <2>2, SameDropped
  <2>4. /\ LoopFree(c) /\ pc \in [Callers -> CallStates] /\ job \in [Callers -> Jobs(clock)]
        /\ \A d \in Callers : pc[d] \in {"retry", "compact"} => d = c
    BY <1>1, EndHasLoop DEF Data, IInv, Types, JobsOK
  <2>5. loop' = "idle"
    BY <2>1, <2>4 DEF LoopLeft
  <2>6. job'[c].message = m
    BY <2>1, <2>4 DEF Jobs
  <2>7. Retrying'
    <3>1. \A d \in Callers : pc'[d] = "retry" => d = c
      BY <2>1, <2>4
    <3> QED BY <2>1, <2>6, <3>1 DEF Retrying
  <2> QED BY <2>3, <2>5, <2>7, QuietHistory
<1>6. CASE m # None /\ AfterRun(c, m)
  <2>1. Recovers(m) => ~Lasts(transcript[Len(transcript)], session)
    BY <1>3, <1>6 DEF Recovers, Overflows, Passing, Errors
  <2>2. Same(Checked(m), session)
    BY <1>2, <2>1, CheckedSame
  <2> QED BY <1>1, <1>6, <2>2, AfterRunHistory
<1> QED BY <1>4, <1>5, <1>6 DEF RunEnds

LEMMA WaitEndsHistory ==
    ASSUME Data, History, ~overlapped, NEW c \in Callers,
           RetryStep(c) \/ CompactionStep(c)
    PROVE  History'
<1>1. AtItsEnd(c) /\ pc[c] \in {"retry", "compact"}
  BY Zenon DEF RetryStep, RetryWakes, RetryCancelled, CompactionStep, CompactionFails,
               CompactionSucceeds, AtItsEnd, Running
<1>2. /\ clock \in Nat /\ ConversationOK /\ Same(transcript, session)
      /\ Follows(transcript, session, clock)
  BY Following DEF Data, ConversationOK, History
<1>3. CASE RetryWakes(c)
  <2>1. Continue(c, transcript, session, clock)
    BY <1>3 DEF RetryWakes
  <2> QED BY <1>1, <1>2, <2>1, ContinueHistory
<1>4. CASE RetryCancelled(c)
  <2>1. AfterRun(c, job[c].message) /\ job[c].message.kind = "error"
    BY <1>4 DEF RetryCancelled, History, Retrying
  <2>2. ~Recovers(job[c].message)
    BY <2>1 DEF Recovers, Overflows
  <2>3. Same(Checked(job[c].message), session)
    BY <1>2, <2>2, CheckedSame
  <2> QED BY <1>1, <2>1, <2>3, AfterRunHistory
<1>5. CASE CompactionFails(c)
  <2>1. ContinueIfQueued(c, transcript, session, clock)
    BY <1>5 DEF CompactionFails
  <2> QED BY <1>1, <1>2, <2>1, ContinueIfQueuedHistory
<1>6. CASE CompactionSucceeds(c)
  <2> DEFINE entries == Append(session, CompactionEntry(job[c].keep))
  <2>1. Has(session, job[c].keep) /\ job[c].keep \in 0 .. clock /\ Distinct(session)
    BY <1>2, <1>6 DEF Data, JobsOK, Jobs, CompactionSucceeds, Same
  <2>2. Same(Compacted(c), entries)
    BY <1>2, <2>1, SameCompacted DEF Compacted
  <2>3. Follows(Compacted(c), entries, clock + 1)
    BY <1>2, <2>1, CompactionFollows, DroppedFollows DEF Compacted
  <2>4. \/ Continue(c, Compacted(c), entries, clock + 1)
        \/ ContinueIfQueued(c, Compacted(c), entries, clock + 1)
    BY <1>6 DEF CompactionSucceeds
  <2> HIDE DEF entries
  <2> QED BY <1>1, <2>2, <2>3, <2>4, ContinueHistory, ContinueIfQueuedHistory
<1> QED BY <1>3, <1>4, <1>5, <1>6 DEF RetryStep, CompactionStep

\* The last response that a prompt looks at, when it ends the transcript.
LEMMA LastOfTranscriptIs ==
    ASSUME ConversationOK, EndsWith(transcript, Finals)
    PROVE  LastOfTranscript = transcript[Len(transcript)]
<1> DEFINE I == {i \in 1 .. Len(transcript) :
                    transcript[i].kind \in Finals \cup {"tools"}}
<1>1. LastAssistantIndex = IF I # {} THEN Max(I) ELSE 0
  BY DEF LastAssistantIndex, SelectLastInSeq
<1>2. /\ Len(transcript) \in Nat /\ transcript # <<>>
      /\ transcript[Len(transcript)].kind \in Finals
  BY LenProperties DEF ConversationOK, EndsWith, Last
<1>3. Len(transcript) \in 1 .. Len(transcript)
  BY <1>2, EmptySeq DEF ConversationOK
<1>4. Len(transcript) \in I /\ I \subseteq 0 .. Len(transcript)
  BY <1>2, <1>3
<1>5. \A i \in I : i \in Nat /\ i <= Len(transcript)
  BY <1>2
<1> HIDE DEF I
<1>6. Max(I) \in I /\ \A j \in I : j <= Max(I)
  BY <1>2, <1>4, MaxIsGreatest
<1>7. Max(I) = Len(transcript)
  <2> DEFINE x == Max(I)
             n == Len(transcript)
  <2>1. n <= x /\ x \in Nat /\ x <= n /\ n \in Nat
    BY <1>2, <1>4, <1>5, <1>6
  <2> HIDE DEF x, n
  <2>2. x = n
    BY <2>1
  <2> QED BY <2>2 DEF x, n
<1>8. LastAssistantIndex = Len(transcript) /\ LastAssistantIndex # 0
  BY <1>1, <1>3, <1>4, <1>7
<1> QED BY <1>8 DEF LastOfTranscript

\* A call that has passed the check of isStreaming and not run yet.
LEMMA PreflightRunsNothing ==
    ASSUME IInv, ~overlapped, NEW c \in Callers, pc[c] \in Preflight
    PROVE  loop = "idle" /\ ~active
BY DEF IInv, Alone, Types, Busy, Preflight, Running

\* A step that leaves the run and the conversation as they are.
LEMMA IdleStepHistory ==
    ASSUME Data, History, NEW c \in Callers,
           NEW at \in {"input", "idle", "auth", "before", "precompact", "settling"},
           pc' = [pc EXCEPT ![c] = at], job' = job, UNCHANGED <<loop, saving, lastAssistant>>,
           UNCHANGED <<transcript, session>>
    PROVE  History'
<1>1. pc \in [Callers -> CallStates]
  BY DEF Data, IInv, Types
<1>2. Retrying'
  BY <1>1 DEF History, Retrying
<1> QED BY <1>2 DEF History, Told, Ends

\* Before a run, and after it.
LEMMA PromptHistory ==
    ASSUME Data, History, ~overlapped, NEW c \in Callers,
           \/ StartPrompt(c) \/ InputStep(c) \/ AuthStep(c)
           \/ PrecompactionEnds(c) \/ Settled(c)
    PROVE  History'
<1>1. /\ clock \in Nat /\ ConversationOK /\ Same(transcript, session)
      /\ Follows(transcript, session, clock) /\ pendingBash \in Nat
      /\ pc \in [Callers -> CallStates]
  BY Following DEF Data, ConversationOK, History, IInv, Types
<1>2. CASE StartPrompt(c) \/ PromptEnds(c) \/ PromptQueued(c) \/ NoAuth(c) \/ Settled(c)
  <2>1. /\ \E at \in {"input", "idle"} : pc' = [pc EXCEPT ![c] = at]
        /\ job' = job
        /\ UNCHANGED <<loop, saving, lastAssistant>> /\ UNCHANGED <<transcript, session>>
    BY <1>2, Zenon DEF StartPrompt, PromptEnds, PromptQueued, NoAuth, Settled, agent,
                       recovery, conversation
  <2> QED BY <2>1, IdleStepHistory
<1>3. ASSUME PromptAccepted(c) \/ CheckBeforePrompt(c) \/ PrecompactionEnds(c),
             Same(transcript', session')
      PROVE  History'
  <2>1. loop' = loop /\ loop = "idle"
    <3>1. ~active \/ pc[c] \in Preflight
      BY <1>3, Zenon DEF PromptAccepted, Streaming, CheckBeforePrompt, PrecompactionEnds,
                         Preflight
    <3>2. loop' = loop
      BY <1>3, Zenon DEF PromptAccepted, CheckBeforePrompt, PrecompactionEnds, agent
    <3> QED BY <3>1, <3>2, NothingRuns, PreflightRunsNothing DEF Data
  <2>2. /\ pc[c] # "retry"
        /\ \E at \in {"auth", "before", "precompact"} : pc' = [pc EXCEPT ![c] = at]
        /\ \A d \in Callers : d # c => job'[d] = job[d]
    <3>1. job \in [Callers -> Jobs(clock)]
      BY DEF Data, JobsOK
    <3> QED BY <1>3, <3>1 DEF PromptAccepted, CheckBeforePrompt, StartCompaction,
                              PrecompactionEnds
  <2>3. Retrying'
    BY <1>1, <2>2 DEF History, Retrying
  <2> QED BY <1>3, <2>1, <2>3, QuietHistory
<1>4. CASE PromptAccepted(c)
  <2>1. Same(transcript', session')
    BY <1>1, <1>4, FlushSame DEF PromptAccepted
  <2> QED BY <1>3, <1>4, <2>1
<1>5. CASE CheckBeforePrompt(c)
  <2> DEFINE m == LastOfTranscript
  <2>1. transcript' = Checked(m) /\ session' = session
    BY <1>5, Zenon DEF CheckBeforePrompt, StartCompaction
  <2>2. ASSUME Recovers(m), EndsWith(transcript, Finals)
        PROVE  ~Lasts(transcript[Len(transcript)], session)
    <3>1. m = transcript[Len(transcript)] /\ m.kind \in Passing
      BY <1>1, <2>2, LastOfTranscriptIs DEF Recovers, Overflows, Passing, Errors
    <3> QED BY <3>1 DEF Lasts
  <2>3. Same(Checked(m), session)
    BY <1>1, <2>2, CheckedSame
  <2>4. Same(transcript', session')
    BY <2>1, <2>3
  <2> QED BY <1>3, <1>5, <2>4
<1>6. CASE PrecompactionEnds(c)
  <2> DEFINE entries == Append(session, CompactionEntry(job[c].keep))
  <2>1. \/ session' = entries /\ transcript' = Compacted(c)
        \/ UNCHANGED <<session, transcript>>
    BY <1>6 DEF PrecompactionEnds
  <2>2. Has(session, job[c].keep) /\ job[c].keep \in 0 .. clock /\ Distinct(session)
    BY <1>1, <1>6 DEF Data, JobsOK, Jobs, PrecompactionEnds, Same
  <2>3. Same(Compacted(c), entries)
    BY <1>1, <2>2, SameCompacted DEF Compacted
  <2> HIDE DEF entries
  <2>4. Same(transcript', session')
    BY <1>1, <2>1, <2>3
  <2> QED BY <1>3, <1>6, <2>4
<1> QED BY <1>2, <1>4, <1>5, <1>6 DEF InputStep, AuthStep

LEMMA RunPromptHistory ==
    ASSUME Data, History, ~overlapped, NEW c \in Callers, RunPrompt(c)
    PROVE  History'
<1>1. pc[c] = "before" /\ pc \in [Callers -> CallStates]
  BY DEF RunPrompt, Data, IInv, Types
<1>2. loop = "idle" /\ ~active /\ \A d \in Callers : pc[d] \notin Running
  BY <1>1, PreflightRunsNothing, NothingRuns DEF Data, Preflight
<1>3. loop' = "deliver" /\ pc' = [pc EXCEPT ![c] = "run"] /\ UNCHANGED <<transcript, session>>
  BY <1>2 DEF RunPrompt, BeginRun, conversation
<1>4. Retrying'
  BY <1>1, <1>2, <1>3 DEF Retrying, Running
<1>5. Same(transcript', session')
  BY <1>3 DEF History
<1> QED BY <1>3, <1>4, <1>5, QuietHistory

\* The loop adds a message.
LEMMA SavingBeginsHistory ==
    ASSUME Data, History, NEW kind \in Kinds \ {"compaction"},
           transcript' = Append(transcript, Message(kind, clock + 1)),
           saving' = [message |-> Message(kind, clock + 1), heard |-> connected],
           loop' = "saving", UNCHANGED <<pc, job, session>>
    PROVE  History'
<1> DEFINE m == Message(kind, clock + 1)
<1>1. /\ clock \in Nat /\ transcript \in Seq(MessagesTo(clock))
      /\ session \in Seq(EntriesTo(clock)) /\ Same(transcript, session)
  BY DEF Data, ConversationOK, History
<1>2. Same(transcript', session') /\ ~Has(session', clock + 1)
  BY <1>1, SameAnnounced
<1>3. m.kind # "compaction" /\ m.time = clock + 1
  BY DEF Message
<1>4. clock + 1 \in Nat /\ clock <= clock + 1 /\ clock + 1 \in 1 .. clock + 1
      /\ 0 \in 0 .. clock + 1
  BY <1>1
<1>5. m \in MessagesTo(clock + 1) /\ transcript \in Seq(MessagesTo(clock + 1))
  BY <1>1, <1>4, MessageTyped, Wider
<1> HIDE DEF m
<1>6. /\ Len(transcript') = Len(transcript) + 1 /\ Len(transcript) \in Nat
      /\ transcript'[Len(transcript) + 1] = m
      /\ transcript' \in Seq(MessagesTo(clock + 1))
  BY <1>5, AppendProperties, LenProperties DEF m
<1>7. transcript' # <<>> /\ transcript'[Len(transcript')] = m /\ saving'.message = m
  BY <1>6, EmptySeq DEF m
<1>8. Told'
  BY <1>2, <1>3, <1>7 DEF Told
<1>9. Retrying' /\ Ends'
  BY DEF History, Retrying, Ends
<1> QED BY <1>2, <1>8, <1>9 DEF History

LEMMA MessageSavedHistory ==
    ASSUME Data, Limits, History, MessageSaved
    PROVE  History'
<1> DEFINE m == saving.message
<1>1. /\ loop = "saving" /\ Saved /\ NextTurn(m.kind)
      /\ UNCHANGED <<pc, job, transcript>>
  BY DEF MessageSaved, calls
<1>2. /\ loop' \in {"deliver", "ended"}
      /\ loop' = "ended" => m.kind # "user"
  BY <1>1 DEF NextTurn, Failures, Errors, Usages
<1>3. Retrying'
  BY <1>1 DEF History, Retrying
<1>4. clock \in Nat /\ session \in Seq(EntriesTo(clock))
  BY DEF Data, ConversationOK
<1>5. CASE ~saving.heard
  <2>1. UNCHANGED <<session, lastAssistant>>
    BY <1>1, <1>5 DEF Saved
  <2>2. lastAssistant # None => ~Lasts(transcript[Len(transcript)], session)
    BY <1>1, <1>4, LastsIs DEF History, Told
  <2>3. Ends'
    BY <1>1, <2>1, <2>2 DEF Ends
  <2> QED BY <1>1, <1>2, <1>3, <2>1, <2>3 DEF History, Told
<1>6. CASE saving.heard
  <2>1. /\ session' = Append(session, Entry(m.kind, m.time, 0))
        /\ m.kind # "user" => lastAssistant' = m
    BY <1>1, <1>6 DEF Saved
  <2>2. /\ transcript # <<>> /\ transcript[Len(transcript)] = m
        /\ m.kind # "compaction" /\ ~Has(session, m.time) /\ Same(transcript, session)
    BY <1>1, <1>6 DEF History, Told
  <2>3. /\ clock \in Nat /\ transcript \in Seq(MessagesTo(clock))
        /\ session \in Seq(EntriesTo(clock)) /\ Linked(session)
    BY DEF Data, ConversationOK
  <2> HIDE DEF m
  <2>4. Same(transcript', session')
    BY <1>1, <2>1, <2>2, <2>3, SameSaved
  <2>5. Ends'
    BY <1>1, <1>2, <2>1, <2>2 DEF Ends, Lasts
  <2> QED BY <1>2, <1>3, <2>4, <2>5 DEF History, Told
<1>7. saving.heard \in BOOLEAN
  BY DEF Data, SavingOK
<1> QED BY <1>5, <1>6, <1>7

LEMMA LoopHistory ==
    ASSUME Data, Limits, History, LoopStep
    PROVE  History'
<1>1. CASE Announce
  <2>1. /\ transcript' = Append(transcript, Message("user", clock + 1))
        /\ saving' = [message |-> Message("user", clock + 1), heard |-> connected]
        /\ loop' = "saving" /\ UNCHANGED <<pc, job, session>>
    BY <1>1 DEF Announce, calls
  <2>2. "user" \in Kinds \ {"compaction"}
    BY DEF Kinds
  <2> QED BY <2>1, <2>2, SavingBeginsHistory
<1>2. ASSUME NEW kind \in Finals \cup {"tools"}, Respond(kind) PROVE History'
  <2>1. /\ transcript' = Append(transcript, Message(kind, clock + 1))
        /\ saving' = [message |-> Message(kind, clock + 1), heard |-> connected]
        /\ loop' = "saving" /\ UNCHANGED <<pc, job, session>>
    BY <1>2 DEF Respond, calls
  <2>2. kind \in Kinds \ {"compaction"}
    BY DEF Kinds, Finals, Failures, Errors, Usages
  <2> QED BY <2>1, <2>2, SavingBeginsHistory
<1>3. CASE CallModel
  <2>1. loop' \in {"deliver", "model"} /\ UNCHANGED <<pc, job, transcript, session>>
    BY <1>3 DEF CallModel, calls, conversation
  <2> QED BY <2>1, QuietHistory DEF History, Retrying
<1>4. CASE MessageSaved
  BY <1>4, MessageSavedHistory
<1> QED BY <1>1, <1>2, <1>3, <1>4 DEF LoopStep

\* A result is recorded when no run is active.
LEMMA RecordedSame ==
    ASSUME ConversationOK, Same(transcript, session)
    PROVE  Same(Append(transcript, Message("bash", clock + 1)),
                Append(session, Entry("bash", clock + 1, 0)))
<1> DEFINE m == Message("bash", clock + 1)
           messages == Append(transcript, m)
           n == clock + 1
<1>1. /\ clock \in Nat /\ transcript \in Seq(MessagesTo(clock))
      /\ session \in Seq(EntriesTo(clock)) /\ Linked(session)
      /\ "bash" \in Kinds
  BY DEF ConversationOK, Kinds
<1>2. Same(messages, session) /\ ~Has(session, clock + 1)
  BY <1>1, SameAnnounced
<1>3. /\ n \in Nat /\ clock <= n /\ n \in 1 .. n /\ 0 \in 0 .. n
      /\ m.kind = "bash" /\ m.time = clock + 1
  BY <1>1 DEF Message
<1>4. /\ m \in MessagesTo(n) /\ transcript \in Seq(MessagesTo(n))
      /\ session \in Seq(EntriesTo(n))
  BY <1>1, <1>3, MessageTyped, Wider
<1> HIDE DEF m, n
<1>5. /\ Len(messages) = Len(transcript) + 1 /\ Len(transcript) \in Nat
      /\ messages[Len(transcript) + 1] = m /\ messages \in Seq(MessagesTo(n))
  BY <1>4, AppendProperties, LenProperties
<1> HIDE DEF messages
<1>6. messages # <<>> /\ m = messages[Len(messages)]
  BY <1>5, EmptySeq
<1>7. Same(messages, Append(session, Entry(m.kind, m.time, 0)))
  BY <1>1, <1>2, <1>3, <1>4, <1>5, <1>6, SameSaved
<1> QED BY <1>3, <1>7 DEF messages, m

\* What others ask for, and compaction by hand.
LEMMA OthersHistory ==
    ASSUME Data, Limits, History, ~overlapped,
           ManualStep \/ QueueMessage \/ Abort \/ RequestCompact \/ ClearQueue
             \/ RecordBash
    PROVE  History'
<1>1. UNCHANGED <<pc, job, active, loop, saving, lastAssistant>>
  BY Zenon DEF ManualStep, ManualBegins, ManualSucceeds, ManualFails, QueueMessage,
               Abort, RequestCompact, ClearQueue, RecordBash, calls, agent, recovery
<1>2. ConversationOK /\ Same(transcript, session) /\ Retrying' /\ active \in BOOLEAN
  BY <1>1 DEF Data, IInv, Types, History, Retrying
<1>3. CASE UNCHANGED <<transcript, session>>
  BY <1>1, <1>2, <1>3 DEF History, Told, Ends
<1>4. CASE RecordBash /\ ~UNCHANGED <<transcript, session>>
  <2>1. /\ ~active
        /\ transcript' = Append(transcript, Message("bash", clock + 1))
        /\ session' = Append(session, Entry("bash", clock + 1, 0))
    BY <1>4 DEF RecordBash, Streaming, conversation
  <2>2. Same(transcript', session') /\ loop' = "idle"
    BY <1>1, <1>2, <2>1, RecordedSame, NothingRuns DEF Data
  <2> QED BY <1>2, <2>2, QuietHistory
<1>5. CASE ManualSucceeds
  <2>1. /\ session' = Append(session, CompactionEntry(manualKeep))
        /\ transcript' = Context(session') /\ ~connected /\ ~Deaf
        /\ Has(session, manualKeep) /\ manualKeep \in 0 .. clock
    BY <1>5 DEF ManualSucceeds, Data, ManualOK, Deaf
  <2>2. Same(transcript', session')
    BY <1>2, <2>1, SameCompacted DEF Same
  <2>3. loop = "saving" => ~saving.heard
    BY <1>2, <2>1, NothingRuns DEF Limits, Known, Data
  <2>4. lastAssistant = None
    BY <1>2, <2>1, NothingRuns DEF Limits, Known, Data
  <2> QED BY <1>1, <1>2, <2>2, <2>3, <2>4 DEF History, Told, Ends
<1>6. CASE /\ ~ManualSucceeds /\ ~RecordBash
           /\ ManualStep \/ QueueMessage \/ Abort \/ RequestCompact \/ ClearQueue
  <2>1. UNCHANGED <<transcript, session>>
    BY <1>6, Zenon DEF ManualStep, ManualBegins, ManualFails, QueueMessage, Abort,
                 RequestCompact, ClearQueue, conversation
  <2> QED BY <1>3, <2>1
<1> QED BY <1>3, <1>4, <1>5, <1>6

\* What the agent is going to send next is what a restart would read from the
\* session: the same messages, in the same order, once each, apart from what
\* was never saved, and from errors and overflows, which only the session is
\* sure to keep.
THEOREM HistoryAlwaysTranscript == Spec => []HistoryIsTranscript
<1>1. Init => overlapped \/ History
  <2> SUFFICES ASSUME Init PROVE History
    OBVIOUS
  <2>1. /\ transcript = <<>> /\ session = <<>> /\ loop = "idle"
        /\ pc = [c \in Callers |-> "idle"]
    BY DEF Init
  <2>2. /\ <<>> \in Seq(EntriesTo(0)) /\ 0 \in Nat /\ Linked(<<>>) /\ Distinct(<<>>)
        /\ LastCompaction(<<>>) = 0
    BY LastCompactionIs DEF Linked, Distinct
  <2>3. Context(<<>>) \in Seq(MessagesTo(0)) /\ Len(Context(<<>>)) = 0
    BY <2>2, ContextFlat
  <2>4. Context(<<>>) = <<>>
    BY <2>3, EmptySeq
  <2>5. Same(transcript, session)
    BY <2>1, <2>2, <2>4, SameContext
  <2> QED BY <2>1, <2>5 DEF History, Told, Ends, Retrying
<1>2. /\ Data /\ Bounded /\ (overlapped \/ History) /\ [Next]_vars
      => (overlapped \/ History)'
  <2> SUFFICES ASSUME Data, Bounded, overlapped \/ History, [Next]_vars, ~overlapped'
               PROVE  History'
    OBVIOUS
  <2>1. CASE UNCHANGED vars
    BY <2>1 DEF vars, calls, agent, conversation, recovery, History, Told, Ends, Retrying
  <2>2. CASE Next
    <3>1. ~overlapped /\ Limits /\ History
      BY <2>2, HistoryKept DEF Bounded
    <3> QED BY <2>2, <3>1, PromptHistory, RunPromptHistory, RunEndsHistory,
               WaitEndsHistory, LoopHistory, OthersHistory
            DEF Next, CallStep
  <2> QED BY <2>1, <2>2
<1>3. Data /\ (overlapped \/ History) => HistoryIsTranscript
  <2> SUFFICES ASSUME Data, History PROVE HistoryIsTranscript
    BY DEF HistoryIsTranscript
  <2>1. /\ clock \in Nat /\ session \in Seq(EntriesTo(clock)) /\ Linked(session)
        /\ Same(transcript, session)
    BY DEF Data, ConversationOK, History
  <2>2. Distinct(Context(session))
    BY <2>1, ContextDistinct DEF Same
  <2> QED BY <2>1, <2>2 DEF HistoryIsTranscript, Same
<1> QED BY <1>1, <1>2, <1>3, DataInvariant, LimitsInvariant, PTL DEF Spec
=============================================================================
