--------------------------- MODULE SequenceLemmas ---------------------------
(***************************************************************************)
(* Facts about numbers and sequences on which the proofs rest: the least   *)
(* and the greatest element of a set of positions, and induction.  The     *)
(* library's induction takes a predicate as a parameter; here it is stated *)
(* with the set of the numbers that have the property.                     *)
(***************************************************************************)
EXTENDS Integers, Sequences, FiniteSets, SequencesExt, FiniteSetTheorems,
        SequenceTheorems, WellFoundedInduction, TLAPS

\* Strict inclusion is well-founded on the initial segments up to a number.
LEMMA LeastElement ==
    ASSUME NEW T, T \subseteq Nat, T # {}
    PROVE  \E x \in T : \A y \in T : x <= y
<1>1. PICK n \in T : TRUE
  OBVIOUS
<1> DEFINE S == 1..n
           F == {1..k : k \in {j \in T : j <= n}}
<1>2. IsFiniteSet(S) /\ n \in Nat
  BY <1>1, FS_Interval
<1>3. F \subseteq FiniteSubsetsOf(S) /\ F # {}
  <2>1. FiniteSubsetsOf(S) = SUBSET S
    BY <1>2, FS_FiniteSubsetsOfFinite
  <2>2. 1..n \in F
    BY <1>1, <1>2
  <2>3. \A k \in {j \in T : j <= n} : 1..k \subseteq S
    BY <1>1, <1>2
  <2> QED BY <2>1, <2>2, <2>3
<1>4. IsWellFoundedOn(StrictSubsetOrdering(S), FiniteSubsetsOf(S))
  BY FS_StrictSubsetOrderingWellFounded
<1>5. PICK x \in F : \A y \in F : <<y, x>> \notin StrictSubsetOrdering(S)
  <2> HIDE DEF F, S
  <2> QED BY <1>3, <1>4, WFMin
<1>6. PICK k \in T : k <= n /\ x = 1..k
  BY <1>1
<1>7. ASSUME NEW j \in T, j < k PROVE FALSE
  <2>1. 1..j \in F
    BY <1>1, <1>6, <1>7
  <2>2. 1..j \subseteq 1..k /\ k \in 1..k /\ k \notin 1..j /\ 1..k \subseteq S
    BY <1>6, <1>7
  <2>3. <<1..j, 1..k>> \in StrictSubsetOrdering(S)
    BY <2>2 DEF StrictSubsetOrdering
  <2> QED BY <1>5, <1>6, <2>1, <2>3
<1> QED BY <1>6, <1>7

LEMMA GreatestElement ==
    ASSUME NEW n \in Nat, NEW T, T \subseteq 0..n, T # {}
    PROVE  \E x \in T : \A y \in T : y <= x
<1> DEFINE U == {n - i : i \in T}
<1>1. U \subseteq Nat /\ U # {}
  <2>1. \A i \in T : n - i \in Nat
    OBVIOUS
  <2> QED BY <2>1
<1> HIDE DEF U
<1>2. PICK u \in U : \A v \in U : u <= v
  BY <1>1, LeastElement
<1>3. PICK x \in T : u = n - x
  BY <1>2 DEF U
<1>4. \A y \in T : n - x <= n - y
  BY <1>2, <1>3 DEF U
<1> QED BY <1>4

LEMMA Induction ==
    ASSUME NEW S, 0 \in S, \A n \in Nat : n \in S => n + 1 \in S
    PROVE  Nat \subseteq S
<1> SUFFICES ASSUME NEW m \in Nat, m \notin S PROVE FALSE
  OBVIOUS
<1> DEFINE T == {n \in Nat : n \notin S}
<1>1. T \subseteq Nat /\ T # {}
  OBVIOUS
<1> HIDE DEF T
<1>2. PICK x \in T : \A y \in T : x <= y
  BY <1>1, LeastElement
<1>3. x \in Nat /\ x \notin S /\ x # 0
  BY <1>2 DEF T
<1>4. x - 1 \in Nat /\ x - 1 \notin T
  BY <1>2, <1>3, <1>1
<1>5. x - 1 \in S
  BY <1>4 DEF T
<1> QED BY <1>3, <1>4, <1>5

LEMMA MinIsLeast ==
    ASSUME NEW T, T \subseteq Nat, T # {}
    PROVE  Min(T) \in T /\ \A y \in T : Min(T) <= y
BY LeastElement DEF Min

LEMMA MaxIsGreatest ==
    ASSUME NEW n \in Nat, NEW T, T \subseteq 0..n, T # {}
    PROVE  Max(T) \in T /\ \A y \in T : y <= Max(T)
<1>1. PICK x \in T : \A y \in T : y <= x
  BY GreatestElement
<1>2. \A y \in T : x >= y
  BY <1>1
<1>3. Max(T) \in T /\ \A y \in T : Max(T) >= y
  BY <1>2, Zenon DEF Max
<1> QED BY <1>3

-----------------------------------------------------------------------------
\* Where the elements of a concatenation are.
LEMMA Joined ==
    ASSUME NEW S, NEW s \in Seq(S), NEW t \in Seq(S)
    PROVE  /\ s \o t \in Seq(S) /\ Len(s) \in Nat /\ Len(t) \in Nat
           /\ Len(s \o t) = Len(s) + Len(t)
           /\ \A i \in 1..Len(s) : (s \o t)[i] = s[i]
           /\ \A i \in 1..Len(t) : (s \o t)[Len(s) + i] = t[i]
           /\ \A i \in 1..Len(s \o t) :
                 i \in 1..Len(s) \/ \E j \in 1..Len(t) : i = Len(s) + j
<1> DEFINE u == s \o t
<1>1. /\ u \in Seq(S) /\ Len(u) = Len(s) + Len(t)
      /\ \A i \in 1..Len(s) + Len(t) :
            u[i] = IF i <= Len(s) THEN s[i] ELSE t[i - Len(s)]
  BY ConcatProperties
<1>2. Len(s) \in Nat /\ Len(t) \in Nat
  BY LenProperties
<1> HIDE DEF u
<1>3. \A i \in 1..Len(s) : u[i] = s[i]
  BY <1>1, <1>2
<1>4. ASSUME NEW i \in 1..Len(t) PROVE u[Len(s) + i] = t[i]
  <2>1. /\ Len(s) + i \in 1..Len(s) + Len(t) /\ ~(Len(s) + i <= Len(s))
        /\ (Len(s) + i) - Len(s) = i
    BY <1>2
  <2> QED BY <1>1, <2>1
<1>5. ASSUME NEW i \in 1..Len(u), i \notin 1..Len(s)
      PROVE  \E j \in 1..Len(t) : i = Len(s) + j
  <2>1. i - Len(s) \in 1..Len(t) /\ i = Len(s) + (i - Len(s))
    BY <1>1, <1>2, <1>5
  <2> QED BY <2>1
<1> QED BY <1>1, <1>2, <1>3, <1>4, <1>5 DEF u

\* The elements of a part of a sequence.
LEMMA Part ==
    ASSUME NEW S, NEW s \in Seq(S), NEW m \in 1..Len(s) + 1, NEW n \in m - 1..Len(s)
    PROVE  /\ SubSeq(s, m, n) \in Seq(S) /\ Len(SubSeq(s, m, n)) = n - m + 1
           /\ \A i \in 1..n - m + 1 : /\ SubSeq(s, m, n)[i] = s[(m - 1) + i]
                                    /\ (m - 1) + i \in 1..Len(s)
<1>1. Len(s) \in Nat /\ m \in Int /\ n \in Int
  BY LenProperties
<1>2. \A i \in m..n : s[i] \in S
  BY <1>1, ElementOfSeq
<1> DEFINE p == SubSeq(s, m, n)
<1>3. /\ p \in Seq(S) /\ Len(p) = IF m <= n THEN n - m + 1 ELSE 0
      /\ \A i \in 1..n - m + 1 : p[i] = s[m + i - 1]
  BY <1>1, <1>2, SubSeqProperties
<1> HIDE DEF p
<1>4. Len(p) = n - m + 1
  BY <1>1, <1>3
<1>5. ASSUME NEW i \in 1..n - m + 1
      PROVE  p[i] = s[(m - 1) + i] /\ (m - 1) + i \in 1..Len(s)
  <2>1. m + i - 1 = (m - 1) + i /\ (m - 1) + i \in 1..Len(s)
    BY <1>1
  <2> QED BY <1>3, <2>1
<1> QED BY <1>3, <1>4, <1>5 DEF p

\* A sequence is what comes before an element, the element, and what follows it.
LEMMA Rejoined ==
    ASSUME NEW S, NEW q \in Seq(S), NEW i \in 1..Len(q)
    PROVE  q = (SubSeq(q, 1, i - 1) \o <<q[i]>>) \o SubSeq(q, i + 1, Len(q))
<1> DEFINE a == SubSeq(q, 1, i - 1)
           y == q[i]
           b == SubSeq(q, i + 1, Len(q))
           c == a \o <<y>>
           u == c \o b
<1>1. /\ Len(q) \in Nat /\ 1 \in 1..Len(q) + 1 /\ i - 1 \in 1 - 1..Len(q)
      /\ i + 1 \in 1..Len(q) + 1 /\ Len(q) \in (i + 1) - 1..Len(q)
  BY LenProperties
<1>2. /\ a \in Seq(S) /\ Len(a) = (i - 1) - 1 + 1
      /\ \A j \in 1..(i - 1) - 1 + 1 : a[j] = q[(1 - 1) + j]
  BY <1>1, Part
<1>3. /\ b \in Seq(S) /\ Len(b) = Len(q) - (i + 1) + 1
      /\ \A j \in 1..Len(q) - (i + 1) + 1 : b[j] = q[((i + 1) - 1) + j]
  BY <1>1, Part
<1>4. y \in S /\ <<y>> \in Seq(S) /\ Len(<<y>>) = 1 /\ <<y>>[1] = y
  BY ElementOfSeq
<1>5. Len(a) = i - 1 /\ \A j \in 1..i - 1 : a[j] = q[j]
  BY <1>1, <1>2
<1>6. Len(b) = Len(q) - i /\ \A j \in 1..Len(q) - i : b[j] = q[i + j]
  BY <1>1, <1>3
<1> HIDE DEF a, b
<1>7. /\ c \in Seq(S) /\ Len(c) = Len(a) + Len(<<y>>)
      /\ \A j \in 1..Len(a) : c[j] = a[j]
      /\ \A j \in 1..Len(<<y>>) : c[Len(a) + j] = <<y>>[j]
  BY <1>2, <1>4, Joined
<1>8. Len(c) = i /\ (\A j \in 1..i - 1 : c[j] = q[j]) /\ c[i] = q[i]
  <2>1. 1 \in 1..Len(<<y>>) /\ Len(a) + 1 = i
    BY <1>1, <1>4, <1>5
  <2>2. c[Len(a) + 1] = y
    BY <1>4, <1>7, <2>1
  <2>3. Len(c) = i
    BY <1>4, <1>5, <1>7
  <2> QED BY <1>5, <1>7, <2>1, <2>2, <2>3
<1> HIDE DEF c
<1>9. /\ u \in Seq(S) /\ Len(u) = Len(c) + Len(b)
      /\ \A j \in 1..Len(c) : u[j] = c[j]
      /\ \A j \in 1..Len(b) : u[Len(c) + j] = b[j]
      /\ \A j \in 1..Len(u) : j \in 1..Len(c) \/ \E k \in 1..Len(b) : j = Len(c) + k
  <2>1. c \in Seq(S) /\ b \in Seq(S)
    BY <1>3, <1>7
  <2> QED BY <2>1, Joined
<1> HIDE DEF u, y
<1>10. Len(u) = Len(q)
  BY <1>1, <1>6, <1>8, <1>9
<1>11. ASSUME NEW j \in 1..Len(u) PROVE u[j] = q[j]
  <2>1. CASE j \in 1..i
    BY <1>8, <1>9, <2>1
  <2>2. CASE \E k \in 1..Len(b) : j = i + k
    BY <1>6, <1>8, <1>9, <2>2
  <2> QED BY <1>8, <1>9, <2>1, <2>2
<1>12. u = q
  BY <1>9, <1>10, <1>11, SeqEqual
<1> QED BY <1>12 DEF u, c, y, a, b

-----------------------------------------------------------------------------
\* RemoveFirst leaves a sequence alone, or takes one element out of it.
LEMMA RemovedTyped ==
    ASSUME NEW S, NEW q \in Seq(S), NEW x
    PROVE  \/ ~Contains(q, x) /\ RemoveFirst(q, x) = q
           \/ \E i \in 1 .. Len(q) :
                 /\ q[i] = x /\ SubSeq(q, 1, i - 1) \in Seq(S)
                 /\ SubSeq(q, i + 1, Len(q)) \in Seq(S)
                 /\ RemoveFirst(q, x) = SubSeq(q, 1, i - 1) \o SubSeq(q, i + 1, Len(q))
<1>1. CASE ~Contains(q, x)
  BY <1>1 DEF RemoveFirst, Contains
<1>2. CASE Contains(q, x)
  <2> DEFINE I == {i \in 1 .. Len(q) : q[i] = x}
             i == Min(I)
  <2>1. I # {} /\ I \subseteq Nat
    BY <1>2 DEF Contains
  <2>2. RemoveFirst(q, x) = SubSeq(q, 1, i - 1) \o SubSeq(q, i + 1, Len(q))
    BY <1>2, <2>1 DEF RemoveFirst, RemoveAt, Contains, SelectInSeq
  <2> HIDE DEF I
  <2>3. i \in I
    BY <2>1, MinIsLeast
  <2> HIDE DEF i
  <2>4. i \in 1 .. Len(q) /\ q[i] = x
    BY <2>3 DEF I
  <2>5. /\ Len(q) \in Nat /\ 1 \in 1 .. Len(q) + 1 /\ i - 1 \in 1 - 1 .. Len(q)
        /\ i + 1 \in 1 .. Len(q) + 1 /\ Len(q) \in (i + 1) - 1 .. Len(q)
    BY <2>4, LenProperties
  <2>6. SubSeq(q, 1, i - 1) \in Seq(S) /\ SubSeq(q, i + 1, Len(q)) \in Seq(S)
    BY <2>5, Part
  <2> QED BY <2>2, <2>4, <2>6
<1> QED BY <1>1, <1>2

-----------------------------------------------------------------------------
(* How often a value occurs in a sequence.                                  *)

Positions(s, x) == {i \in DOMAIN s : s[i] = x}

Occurrences(s, x) == Cardinality(Positions(s, x))

LEMMA PositionsFinite ==
    ASSUME NEW S, NEW s \in Seq(S), NEW x
    PROVE  /\ Positions(s, x) \subseteq 1..Len(s) /\ IsFiniteSet(Positions(s, x))
           /\ Occurrences(s, x) \in Nat
           /\ Occurrences(s, x) > 0 <=> Contains(s, x)
<1>1. Len(s) \in Nat /\ Positions(s, x) = {i \in 1..Len(s) : s[i] = x}
  BY LenProperties DEF Positions
<1>2. IsFiniteSet(1..Len(s))
  BY <1>1, FS_Interval
<1> DEFINE P == Positions(s, x)
<1>3. P \subseteq 1..Len(s) /\ (P # {} <=> Contains(s, x))
  BY <1>1 DEF Contains
<1> HIDE DEF P
<1>4. IsFiniteSet(P)
  BY <1>2, <1>3, FS_Subset
<1>5. Cardinality(P) \in Nat /\ (Cardinality(P) = 0 <=> P = {})
  BY <1>4, FS_CardinalityType, FS_EmptySet
<1>6. Cardinality(P) > 0 <=> P # {}
  BY <1>5
<1> QED BY <1>3, <1>4, <1>5, <1>6 DEF P, Occurrences

LEMMA OccurrencesJoined ==
    ASSUME NEW S, NEW s \in Seq(S), NEW t \in Seq(S), NEW x
    PROVE  Occurrences(s \o t, x) = Occurrences(s, x) + Occurrences(t, x)
<1> DEFINE n == Len(s)
           u == s \o t
           A == Positions(s, x)
           B == Positions(t, x)
           C == {n + i : i \in B}
           f == [i \in B |-> n + i]
<1>1. /\ u \in Seq(S) /\ n \in Nat /\ Len(t) \in Nat /\ Len(u) = n + Len(t)
      /\ \A i \in 1..n : u[i] = s[i]
      /\ \A i \in 1..Len(t) : u[n + i] = t[i]
      /\ \A i \in 1..Len(u) : i \in 1..n \/ \E j \in 1..Len(t) : i = n + j
  BY Joined
<1>2. /\ A \subseteq 1..n /\ IsFiniteSet(A) /\ Cardinality(A) \in Nat
      /\ B \subseteq 1..Len(t) /\ IsFiniteSet(B) /\ Cardinality(B) \in Nat
      /\ \A i \in 1..n : i \in A <=> s[i] = x
      /\ \A i \in 1..Len(t) : i \in B <=> t[i] = x
      /\ \A i : i \in Positions(u, x) <=> i \in 1..Len(u) /\ u[i] = x
  <2>1. DOMAIN s = 1..n /\ DOMAIN t = 1..Len(t)
    BY LenProperties
  <2>2. DOMAIN u = 1..Len(u)
    <3> HIDE DEF u
    <3> QED BY <1>1, LenProperties
  <2> QED BY <2>1, <2>2, PositionsFinite DEF Positions, Occurrences
<1> HIDE DEF u, A, B, n
<1>3. Positions(u, x) = A \cup C
  <2>1. ASSUME NEW i \in Positions(u, x) PROVE i \in A \cup C
    <3>1. i \in 1..Len(u) /\ u[i] = x
      BY <1>2, <2>1
    <3>2. CASE i \in 1..n
      BY <1>1, <1>2, <3>1, <3>2
    <3>3. CASE \E j \in 1..Len(t) : i = n + j
      <4>1. PICK j \in 1..Len(t) : i = n + j
        BY <3>3
      <4>2. j \in B
        BY <1>1, <1>2, <3>1, <4>1
      <4> QED BY <4>1, <4>2
    <3> QED BY <1>1, <3>1, <3>2, <3>3
  <2>2. ASSUME NEW i \in A PROVE i \in Positions(u, x)
    <3>1. i \in 1..n /\ i \in 1..Len(u)
      BY <1>1, <1>2
    <3> QED BY <1>1, <1>2, <3>1
  <2>3. ASSUME NEW j \in B PROVE n + j \in Positions(u, x)
    <3>1. j \in 1..Len(t) /\ n + j \in 1..Len(u)
      BY <1>1, <1>2
    <3> QED BY <1>1, <1>2, <3>1
  <2> QED BY <2>1, <2>2, <2>3
<1>4. IsFiniteSet(C) /\ Cardinality(C) = Cardinality(B)
  <2>1. f \in Bijection(B, C)
    <3>1. \A i, j \in B : f[i] = f[j] => i = j
      BY <1>1, <1>2
    <3>2. f \in [B -> C] /\ \A y \in C : \E i \in B : f[i] = y
      OBVIOUS
    <3> QED BY <3>1, <3>2 DEF Bijection, Injection, Surjection, IsInjective
  <2>2. ExistsBijection(B, C)
    BY <2>1 DEF ExistsBijection
  <2> QED BY <1>2, <2>2, FS_Bijection
<1>5. A \cap C = {}
  BY <1>1, <1>2
<1> HIDE DEF C
<1>6. Cardinality(A \cup C) = Cardinality(A) + Cardinality(C) - Cardinality({})
  BY <1>2, <1>4, <1>5, FS_Union
<1>7. Cardinality(A \cup C) = Cardinality(A) + Cardinality(B)
  BY <1>2, <1>4, <1>6, FS_EmptySet
<1> QED BY <1>3, <1>7 DEF u, A, B, Occurrences

LEMMA OccurrencesOfOne ==
    ASSUME NEW x, NEW y
    PROVE  Occurrences(<<y>>, x) = (IF y = x THEN 1 ELSE 0) /\ Occurrences(<<>>, x) = 0
<1>1. Positions(<<y>>, x) = IF y = x THEN {1} ELSE {}
  BY DEF Positions
<1>2. Positions(<<>>, x) = {}
  BY DEF Positions
<1> QED BY <1>1, <1>2, FS_Singleton, FS_EmptySet DEF Occurrences

LEMMA OccurrencesChange ==
    ASSUME NEW S, NEW q \in Seq(S), NEW x
    PROVE  /\ \A y \in S : Occurrences(Append(q, y), x)
                             = Occurrences(q, x) + (IF y = x THEN 1 ELSE 0)
           /\ q # <<>> => Occurrences(q, x) = (IF Head(q) = x THEN 1 ELSE 0)
                                              + Occurrences(Tail(q), x)
           /\ \A y : /\ Occurrences(RemoveFirst(q, y), x) \in Nat
                     /\ Occurrences(RemoveFirst(q, y), x)
                          = IF Contains(q, y) /\ y = x THEN Occurrences(q, x) - 1
                            ELSE Occurrences(q, x)
<1>1. ASSUME NEW y \in S
      PROVE  Occurrences(Append(q, y), x) = Occurrences(q, x) + (IF y = x THEN 1 ELSE 0)
  <2>1. Append(q, y) = q \o <<y>> /\ <<y>> \in Seq(S)
    BY AppendIsConcat
  <2>2. Occurrences(q \o <<y>>, x) = Occurrences(q, x) + Occurrences(<<y>>, x)
    BY <2>1, OccurrencesJoined
  <2> QED BY <2>1, <2>2, OccurrencesOfOne
<1>2. ASSUME q # <<>>
      PROVE  Occurrences(q, x) = (IF Head(q) = x THEN 1 ELSE 0) + Occurrences(Tail(q), x)
  <2>1. Head(q) \in S /\ Tail(q) \in Seq(S) /\ <<Head(q)>> \in Seq(S)
    BY <1>2, HeadTailProperties
  <2>2. q = <<Head(q)>> \o Tail(q)
    BY <1>2, HeadTailProperties, LenProperties
  <2>3. Occurrences(<<Head(q)>> \o Tail(q), x)
          = Occurrences(<<Head(q)>>, x) + Occurrences(Tail(q), x)
    BY <2>1, OccurrencesJoined
  <2> QED BY <2>2, <2>3, OccurrencesOfOne
<1>3. ASSUME NEW y
      PROVE  /\ Occurrences(RemoveFirst(q, y), x) \in Nat
             /\ Occurrences(RemoveFirst(q, y), x)
                  = IF Contains(q, y) /\ y = x THEN Occurrences(q, x) - 1
                    ELSE Occurrences(q, x)
  <2>1. CASE ~Contains(q, y) /\ RemoveFirst(q, y) = q
    BY <2>1, PositionsFinite
  <2>2. ASSUME NEW i \in 1..Len(q), q[i] = y,
               SubSeq(q, 1, i - 1) \in Seq(S), SubSeq(q, i + 1, Len(q)) \in Seq(S),
               RemoveFirst(q, y) = SubSeq(q, 1, i - 1) \o SubSeq(q, i + 1, Len(q))
        PROVE  /\ Occurrences(RemoveFirst(q, y), x) \in Nat
               /\ Occurrences(RemoveFirst(q, y), x)
                    = IF Contains(q, y) /\ y = x THEN Occurrences(q, x) - 1
                      ELSE Occurrences(q, x)
    <3> DEFINE a == SubSeq(q, 1, i - 1)
               b == SubSeq(q, i + 1, Len(q))
    <3>1. Contains(q, y) /\ y \in S /\ <<y>> \in Seq(S)
      BY <2>2, ElementOfSeq DEF Contains
    <3>2. q = (a \o <<y>>) \o b
      BY <2>2, Rejoined
    <3> HIDE DEF a, b
    <3>3. a \in Seq(S) /\ b \in Seq(S) /\ a \o <<y>> \in Seq(S) /\ a \o b \in Seq(S)
      BY <2>2, <3>1, ConcatProperties DEF a, b
    <3>4. /\ Occurrences(q, x) = Occurrences(a \o <<y>>, x) + Occurrences(b, x)
          /\ Occurrences(a \o <<y>>, x) = Occurrences(a, x) + Occurrences(<<y>>, x)
          /\ Occurrences(a \o b, x) = Occurrences(a, x) + Occurrences(b, x)
      BY <3>1, <3>2, <3>3, OccurrencesJoined
    <3>5. Occurrences(a, x) \in Nat /\ Occurrences(b, x) \in Nat
      BY <3>3, PositionsFinite
    <3>6. RemoveFirst(q, y) = a \o b
      BY <2>2 DEF a, b
    <3> QED BY <3>1, <3>4, <3>5, <3>6, OccurrencesOfOne
  <2> QED BY <2>1, <2>2, RemovedTyped, ZenonT(60)
<1> QED BY <1>1, <1>2, <1>3
=============================================================================
