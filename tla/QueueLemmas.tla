---------------------------- MODULE QueueLemmas -----------------------------
(***************************************************************************)
(* Facts about queues that the proofs share.  What the library's fold over *)
(* a finite set computes, and what Select leaves of a sequence; then what  *)
(* the operations of the controllers' two queues do to the messages in     *)
(* them, for messages of any kind and queues of any length.  The library's *)
(* own induction theorems take an operator as a parameter; NatSetInduction *)
(* states induction over a set instead.                                    *)
(***************************************************************************)
EXTENDS ControllerQueues, Selection, SequenceTheorems, FiniteSetTheorems, TLAPS

\* Induction over the naturals for a set: no smallest number is outside it.
LEMMA NatSetInduction ==
  ASSUME NEW S, 0 \in S, \A n \in Nat : n \in S => n + 1 \in S
  PROVE  Nat \subseteq S
<1> DEFINE T == Nat \ S
<1> DEFINE R == OpToRel(<, Nat)
<1>1. IsWellFoundedOn(R, Nat)
  BY NatLessThanWellFounded DEF OpToRel
<1>2. SUFFICES ASSUME T # {} PROVE FALSE
  OBVIOUS
<1> HIDE DEF R
<1>3. T \subseteq Nat
  OBVIOUS
<1>4. \E x \in T : \A y \in T : ~ (<<y, x>> \in R)
  <2> HIDE DEF T
  <2> QED BY <1>1, <1>2, <1>3, WFMin, Zenon
<1>5. PICK x \in T : \A y \in T : ~ (<<y, x>> \in R)
  BY <1>4
<1>6. x # 0 /\ x \in Nat /\ x - 1 \in Nat
  BY <1>5
<1>7. x - 1 \in T
  <2>1. x - 1 \in S => (x - 1) + 1 \in S
    BY <1>6
  <2> QED BY <2>1, <1>5, <1>6
<1>8. <<x - 1, x>> \in R
  BY <1>6 DEF R, OpToRel
<1> QED BY <1>5, <1>7, <1>8

\* The recursion of a fold over the subsets of a finite set has a solution.
IsFold(it, S, b, G, ch) ==
  \A s \in SUBSET S : it[s] = IF s = {} THEN b ELSE G[<<ch[s], it[s \ {ch[s]}]>>]

\* MapThenFoldSet takes a solution of that recursion: over a finite set there
\* is one, whatever element it takes first.
LEMMA FoldExists ==
  ASSUME NEW S, IsFiniteSet(S), NEW T, NEW b \in T, NEW G \in [S \X T -> T], NEW ch,
         \A s \in SUBSET S : s # {} => ch[s] \in s
  PROVE  \E it \in [SUBSET S -> T] : IsFold(it, S, b, G, ch)
<1> DEFINE Small(n) == {s \in SUBSET S : Cardinality(s) <= n}
<1> DEFINE Sol(it, n) ==
      /\ it \in [Small(n) -> T]
      /\ \A s \in Small(n) : it[s] = IF s = {} THEN b ELSE G[<<ch[s], it[s \ {ch[s]}]>>]
<1> DEFINE P == {n \in Nat : \E it : Sol(it, n)}
<1>1. \A s \in SUBSET S : IsFiniteSet(s) /\ Cardinality(s) \in Nat
  BY FS_Subset, FS_CardinalityType
<1>2. \A s \in SUBSET S : s # {} =>
        ch[s] \in S /\ s \ {ch[s]} \in SUBSET S /\ Cardinality(s \ {ch[s]}) = Cardinality(s) - 1
  BY <1>1, FS_RemoveElement
<1>3. 0 \in P
  <2> DEFINE it == [s \in Small(0) |-> b]
  <2>1. \A s \in Small(0) : s = {}
    BY <1>1, FS_EmptySet
  <2>2. Sol(it, 0)
    BY <2>1
  <2> QED BY <2>2
<1>4. ASSUME NEW n \in Nat, n \in P PROVE n + 1 \in P
  <2>1. PICK it : Sol(it, n)
    BY <1>4
  <2> DEFINE more == [s \in Small(n + 1) |-> IF s \in Small(n) THEN it[s] ELSE G[<<ch[s], it[s \ {ch[s]}]>>]]
  <2>2. \A s \in Small(n) : s \in Small(n + 1)
    BY <1>1
  <2>3. ASSUME NEW s \in Small(n + 1), s # {} PROVE s \ {ch[s]} \in Small(n)
    <3>1. Cardinality(s) \in Nat /\ Cardinality(s) <= n + 1 /\ s \in SUBSET S
      BY <1>1
    <3>2. s \ {ch[s]} \in SUBSET S /\ Cardinality(s \ {ch[s]}) = Cardinality(s) - 1
      BY <1>2, <2>3
    <3>3. Cardinality(s \ {ch[s]}) <= n
      BY <3>1, <3>2
    <3> QED BY <3>2, <3>3
  <2>4. {} \in Small(n)
    BY FS_EmptySet
  <2>5. \A s \in Small(n + 1) : s \in SUBSET S
    OBVIOUS
  <2> HIDE DEF Small
  <2>6. \A s \in Small(n) : it[s] \in T
    BY <2>1
  <2>7. \A s \in Small(n + 1) : s # {} => G[<<ch[s], it[s \ {ch[s]}]>>] \in T
    BY <1>2, <2>3, <2>5, <2>6
  <2>8. more \in [Small(n + 1) -> T]
    BY <2>4, <2>6, <2>7
  <2>9. ASSUME NEW s \in Small(n + 1)
        PROVE  more[s] = IF s = {} THEN b ELSE G[<<ch[s], more[s \ {ch[s]}]>>]
    <3>1. CASE s = {}
      BY <2>1, <2>4, <3>1
    <3>2. CASE s # {}
      <4>1. more[s \ {ch[s]}] = it[s \ {ch[s]}]
        BY <2>2, <2>3, <3>2
      <4>2. more[s] = G[<<ch[s], it[s \ {ch[s]}]>>]
        BY <2>1, <3>2
      <4> QED BY <3>2, <4>1, <4>2
    <3> QED BY <3>1, <3>2
  <2>10. Sol(more, n + 1)
    BY <2>8, <2>9
  <2> HIDE DEF more, Sol
  <2>11. n + 1 \in Nat
    OBVIOUS
  <2>12. \E x : Sol(x, n + 1)
    BY <2>10, Zenon
  <2> QED BY <2>11, <2>12, Zenon
<1> HIDE DEF P
<1>5. Nat \subseteq P
  BY <1>3, <1>4, NatSetInduction
<1> DEFINE N == Cardinality(S)
<1>6. N \in Nat /\ Small(N) = SUBSET S
  BY <1>1, FS_Subset
<1>7. PICK it : Sol(it, N)
  BY <1>5, <1>6 DEF P
<1> QED
  BY <1>6, <1>7 DEF IsFold

\* A nonempty set of positions has a last one.
LEMMA MaxExists ==
  ASSUME NEW n \in Nat, NEW s \in SUBSET (1..n), s # {}
  PROVE  Max(s) \in s /\ \A y \in s : Max(s) >= y
<1> DEFINE P == {k \in Nat : \A t \in SUBSET (1..k) : t # {} => \E x \in t : \A y \in t : x >= y}
<1>1. 0 \in P
  <2>1. \A t \in SUBSET (1..0) : t = {}
    OBVIOUS
  <2> QED BY <2>1
<1>2. ASSUME NEW k \in Nat, k \in P PROVE k + 1 \in P
  <2> SUFFICES ASSUME NEW t \in SUBSET (1..(k + 1)), t # {} PROVE \E x \in t : \A y \in t : x >= y
    OBVIOUS
  <2>1. CASE k + 1 \in t
    BY <2>1
  <2>2. CASE k + 1 \notin t
    <3>1. t \in SUBSET (1..k)
      BY <2>2
    <3> QED BY <1>2, <3>1
  <2> QED BY <2>1, <2>2
<1> HIDE DEF P
<1>3. Nat \subseteq P
  BY <1>1, <1>2, NatSetInduction
<1>4. \E x \in s : \A y \in s : x >= y
  BY <1>3 DEF P
<1> QED
  BY <1>4, Zenon DEF Max

\* A fold over positions, from the last one down, adds the elements from the
\* first one up.
FoldsDown(it, n, T, b, G) ==
  /\ n \in Nat /\ b \in T /\ G \in [(1..n) \X T -> T] /\ it[{}] = b
  /\ \A s \in SUBSET (1..n) : s # {} /\ it[s \ {Max(s)}] \in T => it[s] = G[<<Max(s), it[s \ {Max(s)}]>>]

\* Its values for the first k positions follow from one another.
LEMMA FoldChain ==
  ASSUME NEW n, NEW T, NEW b, NEW G, NEW it, FoldsDown(it, n, T, b, G)
  PROVE  /\ \A k \in 0..n : it[1..k] \in T
         /\ \A k \in 1..n : it[1..k] = G[<<k, it[1..(k - 1)]>>]
<1> USE DEF FoldsDown
<1>1. ASSUME NEW k \in 1..n
      PROVE  1..k \in SUBSET (1..n) /\ 1..k # {} /\ Max(1..k) = k /\ (1..k) \ {Max(1..k)} = 1..(k - 1)
  <2>1. 1..k \in SUBSET (1..n) /\ 1..k # {} /\ k \in 1..k
    OBVIOUS
  <2>2. Max(1..k) \in 1..k /\ \A y \in 1..k : Max(1..k) >= y
    BY <2>1, MaxExists
  <2>3. Max(1..k) = k
    BY <2>1, <2>2
  <2> QED BY <2>1, <2>3
<1>2. \A k \in 1..n : it[1..(k - 1)] \in T => it[1..k] = G[<<k, it[1..(k - 1)]>>]
  BY <1>1
<1> DEFINE P == {k \in Nat : k <= n => it[1..k] \in T}
<1>3. 0 \in P
  <2>1. 1..0 = {}
    OBVIOUS
  <2> QED BY <2>1
<1>4. ASSUME NEW k \in Nat, k \in P PROVE k + 1 \in P
  <2> SUFFICES ASSUME k + 1 <= n PROVE it[1..(k + 1)] \in T
    OBVIOUS
  <2>1. k + 1 \in 1..n /\ (k + 1) - 1 = k /\ it[1..k] \in T
    BY <1>4
  <2>2. it[1..(k + 1)] = G[<<k + 1, it[1..k]>>]
    BY <1>2, <2>1
  <2> QED BY <2>1, <2>2
<1> HIDE DEF P
<1>5. Nat \subseteq P
  BY <1>3, <1>4, NatSetInduction
<1>6. \A k \in 0..n : it[1..k] \in T
  BY <1>5 DEF P
<1>7. \A k \in 1..n : k - 1 \in 0..n
  OBVIOUS
<1> QED
  BY <1>2, <1>6, <1>7

\* The prefixes of a selection.
SelectsBy(g, s, keep) ==
  /\ g[0] = <<>>
  /\ \A k \in 1..Len(s) : g[k] = IF s[k] \in keep THEN Append(g[k - 1], s[k]) ELSE g[k - 1]
  /\ Select(s, keep) = g[Len(s)]

\* Select is the last of the prefixes it goes through.
LEMMA SelectChain ==
  ASSUME NEW E, NEW s \in Seq(E), NEW keep
  PROVE  \E g \in [0..Len(s) -> Seq(E)] : SelectsBy(g, s, keep)
<1> DEFINE n == Len(s)
<1> DEFINE D == 1..n
<1> DEFINE T == Seq(E)
<1>1. n \in Nat /\ DOMAIN s = D /\ \A i \in D : s[i] \in E
  BY LenProperties
<1> DEFINE Add(i, t) == IF s[i] \in keep THEN Append(t, s[i]) ELSE t
<1> DEFINE G == [z \in D \X T |-> Add(z[1], z[2])]
<1> DEFINE ch == [t \in SUBSET D |-> Max(t)]
<1>2. \A i \in D, t \in T : Add(i, t) \in T /\ G[<<i, t>>] = Add(i, t)
  BY <1>1
<1>3. G \in [D \X T -> T] /\ <<>> \in T
  BY <1>2
<1>4. \A t \in SUBSET D : t # {} => ch[t] \in t /\ ch[t] = Max(t) /\ Max(t) \in D /\ t \ {Max(t)} \in SUBSET D
  BY <1>1, MaxExists
<1>5. IsFiniteSet(D)
  BY <1>1, FS_Interval
<1> HIDE DEF G, ch
<1>6. PICK f \in [SUBSET D -> T] : IsFold(f, D, <<>>, G, ch)
  <2> HIDE DEF D, T
  <2> QED BY <1>3, <1>4, <1>5, FoldExists
<1> DEFINE Eqn(it) ==
      it = [t \in SUBSET D |-> IF t = {} THEN <<>> ELSE Add(Max(t), it[t \ {Max(t)}])]
<1>7. Eqn(f)
  <2>1. ASSUME NEW t \in SUBSET D PROVE f[t] = IF t = {} THEN <<>> ELSE Add(Max(t), f[t \ {Max(t)}])
    <3>1. CASE t = {}
      BY <1>6, <3>1 DEF IsFold
    <3>2. CASE t # {}
      <4>1. f[t] = G[<<Max(t), f[t \ {Max(t)}]>>]
        BY <1>4, <1>6, <3>2 DEF IsFold
      <4> HIDE DEF Add
      <4> QED BY <1>2, <1>4, <1>6, <3>2, <4>1
    <3> QED BY <3>1, <3>2
  <2> HIDE DEF Add
  <2> QED BY <2>1, <1>6
<1> DEFINE it == CHOOSE it : Eqn(it)
<1>8. Eqn(it)
  <2> HIDE DEF Eqn
  <2> QED BY <1>7, Zenon
<1>9. Select(s, keep) = it[D]
  BY <1>1 DEF Select, MapThenFoldSet
<1> HIDE DEF it
<1>10. it[{}] = <<>> /\ \A t \in SUBSET D : t # {} => it[t] = Add(Max(t), it[t \ {Max(t)}])
  <2> HIDE DEF Add
  <2> QED BY <1>8
<1>11. \A t \in SUBSET D : t # {} /\ it[t \ {Max(t)}] \in T => it[t] = G[<<Max(t), it[t \ {Max(t)}]>>]
  <2> HIDE DEF Add, T, Eqn
  <2> QED BY <1>2, <1>4, <1>10
<1>12. /\ \A k \in 0..n : it[1..k] \in T
       /\ \A k \in 1..n : it[1..k] = G[<<k, it[1..(k - 1)]>>]
  <2> DEFINE b == <<>>
  <2>1. it[{}] = b
    BY <1>10
  <2>2. G \in [(1..n) \X T -> T] /\ b \in T
    BY <1>3
  <2>3. \A t \in SUBSET (1..n) : t # {} /\ it[t \ {Max(t)}] \in T => it[t] = G[<<Max(t), it[t \ {Max(t)}]>>]
    BY <1>11
  <2>4. n \in Nat
    BY <1>1
  <2> HIDE DEF n, T, b, D
  <2>5. FoldsDown(it, n, T, b, G)
    BY <2>1, <2>2, <2>3, <2>4 DEF FoldsDown
  <2> QED BY <2>5, FoldChain
<1> DEFINE g == [k \in 0..n |-> it[1..k]]
<1>13. g \in [0..n -> T]
  BY <1>12
<1>14. g[0] = <<>>
  BY <1>1, <1>10
<1>15. ASSUME NEW k \in 1..n PROVE g[k] = Add(k, g[k - 1])
  <2>1. k - 1 \in 0..n /\ k \in 0..n /\ k \in D
    BY <1>1
  <2> HIDE DEF Add, T
  <2> QED BY <1>2, <1>12, <2>1
<1>16. Select(s, keep) = g[n]
  BY <1>1, <1>9
<1> QED
  BY <1>13, <1>14, <1>15, <1>16 DEF SelectsBy

-----------------------------------------------------------------------------
(* The two queues.                                                         *)

\* The end of a sequence, from any position.
LEMMA Suffix ==
  ASSUME NEW M, NEW s \in Seq(M), NEW n \in 0..Len(s)
  PROVE  /\ SubSeq(s, n + 1, Len(s)) \in Seq(M)
         /\ Len(SubSeq(s, n + 1, Len(s))) = Len(s) - n
         /\ \A i \in 1..Len(s) - n : SubSeq(s, n + 1, Len(s))[i] = s[n + i]
<1>1. n + 1 \in Int /\ Len(s) \in Int /\ \A i \in n + 1..Len(s) : s[i] \in M
  BY LenProperties, ElementOfSeq
<1> DEFINE m == n + 1
<1> DEFINE l == Len(s)
<1>2. m \in Int /\ l \in Int /\ \A i \in m..l : s[i] \in M
  BY <1>1
<1> HIDE DEF m, l
<1>3. /\ SubSeq(s, m, l) \in Seq(M)
      /\ Len(SubSeq(s, m, l)) = IF m <= l THEN l - m + 1 ELSE 0
      /\ \A i \in 1..l - m + 1 : SubSeq(s, m, l)[i] = s[m + i - 1]
  BY <1>2, SubSeqProperties
<1> USE DEF m, l
<1>4. Len(SubSeq(s, n + 1, Len(s))) = Len(s) - n
  BY <1>1, <1>3
<1>5. ASSUME NEW i \in 1..Len(s) - n PROVE SubSeq(s, n + 1, Len(s))[i] = s[n + i]
  <2>1. i \in 1..l - m + 1 /\ m + i - 1 = n + i
    BY <1>1
  <2> QED BY <1>3, <2>1
<1> QED BY <1>3, <1>4, <1>5

\* ReceivedQueue: what is left to take is a sequence of messages.
LEMMA ContentsType ==
  ASSUME NEW M, NEW q, q.messages \in Seq(M), q.next \in 0..Len(q.messages)
  PROVE  /\ Contents(q) \in Seq(M)
         /\ Len(Contents(q)) = Len(q.messages) - q.next
         /\ \A i \in 1..Len(q.messages) - q.next : Contents(q)[i] = q.messages[q.next + i]
BY Suffix DEF Contents

\* The end of a sequence from its first position is the sequence.
LEMMA SuffixAll ==
  ASSUME NEW M, NEW s \in Seq(M)
  PROVE  SubSeq(s, 1, Len(s)) = s
<1> DEFINE t == SubSeq(s, 1, Len(s))
<1>1. Len(s) \in Nat
  BY LenProperties
<1>2. t \in Seq(M) /\ Len(t) = Len(s) /\ \A i \in 1..Len(s) : t[i] = s[i]
  <2>1. 0 \in 0..Len(s) /\ 0 + 1 = 1
    BY <1>1
  <2>2. /\ t \in Seq(M) /\ Len(t) = Len(s) - 0
        /\ \A i \in 1..Len(s) - 0 : t[i] = s[0 + i]
    BY <2>1, Suffix
  <2> QED BY <1>1, <2>2
<1> HIDE DEF t
<1>3. t = s
  BY <1>2, SeqEqual
<1> QED BY <1>3 DEF t

\* A nonempty end of a sequence is its first element and the rest.
LEMMA SuffixFirst ==
  ASSUME NEW M, NEW s \in Seq(M), NEW n \in 0..Len(s), n # Len(s)
  PROVE  /\ s[n + 1] \in M
         /\ SubSeq(s, n + 1, Len(s)) = <<s[n + 1]>> \o SubSeq(s, n + 1 + 1, Len(s))
<1> DEFINE t == SubSeq(s, n + 1, Len(s))
<1> DEFINE u == SubSeq(s, n + 1 + 1, Len(s))
<1> DEFINE h == <<s[n + 1]>>
<1> DEFINE w == h \o u
<1>1. Len(s) \in Nat /\ n + 1 \in 0..Len(s) /\ n + 1 \in 1..Len(s)
  BY LenProperties
<1>2. s[n + 1] \in M
  BY <1>1, ElementOfSeq
<1>3. t \in Seq(M) /\ Len(t) = Len(s) - n /\ \A i \in 1..Len(s) - n : t[i] = s[n + i]
  BY Suffix
<1>4. u \in Seq(M) /\ Len(u) = Len(s) - (n + 1)
      /\ \A i \in 1..Len(s) - (n + 1) : u[i] = s[n + 1 + i]
  BY <1>1, Suffix
<1>5. h \in Seq(M) /\ Len(h) = 1 /\ h[1] = s[n + 1]
  BY <1>2
<1> HIDE DEF t, u, h
<1>6. /\ w \in Seq(M) /\ Len(w) = Len(h) + Len(u)
      /\ \A i \in 1..Len(h) + Len(u) : w[i] = IF i <= Len(h) THEN h[i] ELSE u[i - Len(h)]
  BY <1>4, <1>5, ConcatProperties
<1> HIDE DEF w
<1>7. Len(w) = Len(t)
  BY <1>1, <1>3, <1>4, <1>5, <1>6
<1>8. ASSUME NEW i \in 1..Len(t) PROVE t[i] = w[i]
  <2>1. CASE i = 1
    BY <1>1, <1>3, <1>4, <1>5, <1>6, <2>1
  <2>2. CASE i # 1
    <3>1. i - 1 \in 1..Len(s) - (n + 1) /\ n + 1 + (i - 1) = n + i
      BY <1>1, <1>3, <2>2
    <3>2. u[i - 1] = s[n + i]
      BY <1>4, <3>1
    <3>3. w[i] = u[i - 1]
      BY <1>1, <1>3, <1>4, <1>5, <1>6, <2>2
    <3> QED BY <1>3, <3>2, <3>3
  <2> QED BY <2>1, <2>2
<1>9. t = w
  BY <1>3, <1>6, <1>7, <1>8, SeqEqual
<1> QED BY <1>2, <1>9 DEF t, u, h, w

\* An empty queue holds nothing.
LEMMA EmptyContents ==
  /\ EmptyReceived.messages = <<>> /\ EmptyReceived.next = 0
  /\ Contents(EmptyReceived) = <<>>
<1>1. EmptyReceived.messages = <<>> /\ EmptyReceived.next = 0
  BY DEF EmptyReceived
<1> QED BY <1>1, SubSeqEmpty DEF Contents

\* append() adds the source behind what is left and reclaims the rest.
LEMMA AppendedContents ==
  ASSUME NEW M, NEW q, q.messages \in Seq(M), q.next \in 0..Len(q.messages),
         NEW source \in Seq(M)
  PROVE  /\ Appended(q, source).messages \in Seq(M)
         /\ Appended(q, source).next \in 0..Len(Appended(q, source).messages)
         /\ Contents(Appended(q, source)) = Contents(q) \o source
<1>1. Contents(q) \in Seq(M)
  BY ContentsType
<1>2. CASE source = <<>>
  BY <1>1, <1>2, ConcatEmptySeq DEF Appended
<1>3. CASE source # <<>>
  <2> DEFINE c == Contents(q) \o source
  <2>1. Appended(q, source).messages = c /\ Appended(q, source).next = 0
    BY <1>3 DEF Appended
  <2>2. c \in Seq(M) /\ Len(c) \in Nat
    BY <1>1, ConcatProperties, LenProperties
  <2>3. Contents(Appended(q, source)) = SubSeq(c, 1, Len(c))
    BY <2>1 DEF Contents
  <2> HIDE DEF c
  <2>4. SubSeq(c, 1, Len(c)) = c
    BY <2>2, SuffixAll
  <2>5. 0 \in 0..Len(c)
    BY <2>2
  <2> QED BY <2>1, <2>2, <2>3, <2>4, <2>5 DEF c
<1> QED BY <1>2, <1>3

\* take() removes the oldest message and nothing else.
LEMMA TakenContents ==
  ASSUME NEW M, NEW q, q.messages \in Seq(M), q.next \in 0..Len(q.messages), CanTake(q)
  PROVE  /\ NextMessage(q) \in M
         /\ Taken(q).messages \in Seq(M)
         /\ Taken(q).next \in 0..Len(Taken(q).messages)
         /\ Contents(q) = <<NextMessage(q)>> \o Contents(Taken(q))
<1> DEFINE s == q.messages
<1> DEFINE n == q.next
<1>1. s \in Seq(M) /\ n \in 0..Len(s) /\ n # Len(s) /\ Len(s) \in Nat
  BY LenProperties DEF CanTake
<1>2. /\ s[n + 1] \in M
      /\ SubSeq(s, n + 1, Len(s)) = <<s[n + 1]>> \o SubSeq(s, n + 1 + 1, Len(s))
  <2> HIDE DEF s, n
  <2> QED BY <1>1, SuffixFirst
<1>3. NextMessage(q) = s[n + 1] /\ Contents(q) = SubSeq(s, n + 1, Len(s))
  BY DEF NextMessage, Contents
<1>4. CASE n + 1 = Len(s)
  <2>1. Taken(q).messages = <<>> /\ Taken(q).next = 0
    BY <1>4 DEF Taken
  <2>2. Contents(Taken(q)) = <<>>
    BY <2>1, SubSeqEmpty DEF Contents
  <2>3. SubSeq(s, n + 1 + 1, Len(s)) = <<>>
    <3> HIDE DEF s, n
    <3> QED BY <1>1, <1>4, SubSeqEmpty
  <2>4. <<>> \in Seq(M) /\ 0 \in 0..Len(<<>>)
    BY EmptySeq
  <2>5. NextMessage(q) \in M /\ Contents(q) = <<NextMessage(q)>> \o Contents(Taken(q))
    <3> HIDE DEF s, n
    <3> QED BY <1>2, <1>3, <2>2, <2>3
  <2> QED BY <2>1, <2>4, <2>5
<1>5. CASE n + 1 # Len(s)
  <2>1. Taken(q).messages = s /\ Taken(q).next = n + 1
    BY <1>5 DEF Taken
  <2>2. Contents(Taken(q)) = SubSeq(s, n + 1 + 1, Len(s))
    BY <2>1 DEF Contents
  <2>3. n + 1 \in 0..Len(s)
    <3> HIDE DEF s, n
    <3> QED BY <1>1, <1>5
  <2> QED BY <1>1, <1>2, <1>3, <2>1, <2>2, <2>3
<1> QED BY <1>4, <1>5

-----------------------------------------------------------------------------
\* OutgoingQueue: drain() returns the payloads in order.
LEMMA PayloadsType ==
  ASSUME NEW M, NEW K, NEW q, q.entries \in Seq([data : M, key : K])
  PROVE  /\ Payloads(q) \in Seq(M)
         /\ Len(Payloads(q)) = Len(q.entries)
         /\ \A i \in 1..Len(q.entries) : Payloads(q)[i] = q.entries[i].data
<1> DEFINE s == q.entries
<1>1. Len(s) \in Nat /\ \A i \in 1..Len(s) : s[i].data \in M
  <2>1. \A i \in 1..Len(s) : s[i] \in [data : M, key : K]
    BY ElementOfSeq
  <2> QED BY <2>1, LenProperties
<1>2. Payloads(q) = [i \in 1..Len(s) |-> s[i].data]
  BY DEF Payloads
<1> HIDE DEF s
<1>3. /\ [i \in 1..Len(s) |-> s[i].data] \in Seq(M)
      /\ Len([i \in 1..Len(s) |-> s[i].data]) = Len(s)
  BY <1>1
<1> QED BY <1>2, <1>3 DEF s

\* Draining an empty OutgoingQueue yields an empty batch.
LEMMA EmptyPayloads ==
  EmptyOutgoing.entries = <<>> /\ Payloads(EmptyOutgoing) = <<>>
<1>1. EmptyOutgoing.entries = <<>>
  BY DEF EmptyOutgoing
<1>2. \A i : i \notin 1..0
  OBVIOUS
<1>3. Payloads(EmptyOutgoing) = [i \in 1..0 |-> EmptyOutgoing.entries[i].data]
  BY <1>1 DEF Payloads
<1> QED BY <1>1, <1>2, <1>3

\* r holds the elements of s at the positions outside drop, in their order: f
\* gives the old position of each.
Keeps(s, r, drop) ==
  \E f \in [1..Len(r) -> 1..Len(s)] :
    /\ \A i \in 1..Len(r) : r[i] = s[f[i]] /\ f[i] \notin drop
    /\ \A i, j \in 1..Len(r) : i < j => f[i] < f[j]
    /\ \A k \in (1..Len(s)) \ drop : \E i \in 1..Len(r) : f[i] = k

\* erase_if of at most one entry keeps the others, in their order.
LEMMA ErasedKeeps ==
  ASSUME NEW E, NEW s \in Seq(E), NEW drop,
         drop = {} \/ \E k \in 1..Len(s) : drop = {k}
  PROVE  Erased(s, drop) \in Seq(E) /\ Keeps(s, Erased(s, drop), drop)
<1> DEFINE n == Len(s)
<1> DEFINE kept == (1..n) \ drop
<1> DEFINE c == Cardinality(kept)
<1> DEFINE Increasing(f) == \A a, b \in DOMAIN f : a < b => f[a] < f[b]
<1>1. n \in Nat /\ DOMAIN s = 1..n /\ \A i \in 1..n : s[i] \in E
  BY LenProperties, ElementOfSeq
<1>2. IsFiniteSet(1..n) /\ Cardinality(1..n) = n
  <2>1. IsFiniteSet(1..n) /\ Cardinality(1..n) = IF 1 > n THEN 0 ELSE n - 1 + 1
    BY <1>1, FS_Interval
  <2> QED BY <1>1, <2>1
<1>3. c \in Nat /\ \E f \in Bijection(1..c, kept) : Increasing(f)
  <2>1. CASE drop = {}
    <3> DEFINE g == [i \in 1..n |-> i]
    <3>1. kept = 1..n /\ c = n
      BY <1>2, <2>1
    <3>2. g \in Bijection(1..n, 1..n)
      BY DEF Bijection, Injection, Surjection, IsInjective
    <3>3. Increasing(g)
      BY <1>1
    <3> HIDE DEF g, c, kept
    <3> QED BY <1>1, <3>1, <3>2, <3>3
  <2>2. ASSUME NEW k \in 1..n, drop = {k}
        PROVE  c \in Nat /\ \E f \in Bijection(1..c, kept) : Increasing(f)
    <3> DEFINE g == [i \in 1..n - 1 |-> IF i < k THEN i ELSE i + 1]
    <3>1. c = n - 1
      BY <1>1, <1>2, <2>2, FS_RemoveElement
    <3>2. g \in [1..n - 1 -> kept] /\ IsInjective(g)
      BY <1>1, <2>2 DEF IsInjective
    <3>3. \A t \in kept : \E i \in 1..n - 1 : g[i] = t
      <4> SUFFICES ASSUME NEW t \in kept PROVE \E i \in 1..n - 1 : g[i] = t
        OBVIOUS
      <4>1. CASE t < k
        <5>1. t \in 1..n - 1 /\ g[t] = t
          BY <1>1, <2>2, <4>1
        <5> QED BY <5>1
      <4>2. CASE ~(t < k)
        <5>1. t - 1 \in 1..n - 1 /\ g[t - 1] = t
          BY <1>1, <2>2, <4>2
        <5> QED BY <5>1
      <4> QED BY <4>1, <4>2
    <3>4. Increasing(g)
      BY <1>1, <2>2
    <3>5. g \in Bijection(1..n - 1, kept)
      <4> HIDE DEF g, kept
      <4> QED BY <3>2, <3>3 DEF Bijection, Injection, Surjection
    <3>6. n - 1 \in Nat
      BY <1>1, <2>2
    <3> HIDE DEF g, kept, c, n
    <3> QED BY <3>1, <3>4, <3>5, <3>6
  <2> QED BY <2>1, <2>2
<1> DEFINE f == CHOOSE g \in Bijection(1..c, kept) : Increasing(g)
<1>4. f \in Bijection(1..c, kept) /\ Increasing(f)
  <2> HIDE DEF c, kept, Increasing
  <2> QED BY <1>3
<1> DEFINE r == [i \in 1..c |-> s[f[i]]]
<1>5. Erased(s, drop) = r
  BY <1>1 DEF Erased
<1> HIDE DEF f, c
<1>6. /\ f \in [1..c -> kept] /\ \A k \in kept : \E i \in 1..c : f[i] = k
      /\ \A i, j \in 1..c : i < j => f[i] < f[j]
  BY <1>4 DEF Bijection, Injection, Surjection
<1>7. r \in Seq(E) /\ Len(r) = c /\ \A i \in 1..c : r[i] = s[f[i]]
  BY <1>1, <1>3, <1>6
<1> HIDE DEF r
<1>8. f \in [1..Len(r) -> 1..n] /\ \A i \in 1..Len(r) : f[i] \notin drop
  BY <1>6, <1>7
<1>9. /\ \A i \in 1..Len(r) : r[i] = s[f[i]] /\ f[i] \notin drop
      /\ \A i, j \in 1..Len(r) : i < j => f[i] < f[j]
      /\ \A k \in (1..n) \ drop : \E i \in 1..Len(r) : f[i] = k
  BY <1>6, <1>7, <1>8
<1>10. Keeps(s, r, drop)
  BY <1>8, <1>9 DEF Keeps
<1> QED BY <1>5, <1>7, <1>10

-----------------------------------------------------------------------------
\* r keeps the elements of s in their order except some that are in lost, and
\* ends with x.
Grows(s, r, x, lost) ==
  \E n \in Nat : \E g \in [1..n -> 1..Len(s)] :
    /\ Len(r) = n + 1 /\ r[n + 1] = x
    /\ \A i \in 1..n : r[i] = s[g[i]]
    /\ \A i, j \in 1..n : i < j => g[i] < g[j]
    /\ \A k \in 1..Len(s) : (\E i \in 1..n : g[i] = k) \/ s[k] \in lost

\* Only the last entry can have this key.
KeyLast(entries, key) ==
  \A a \in 1..Len(entries) : entries[a].key = key => key = NoKey \/ a = Len(entries)

\* submit(): the entries of the same key go, the new entry comes last.
LEMMA SubmittedGrows ==
  ASSUME NEW E, NEW q, q.entries \in Seq(E), NEW x, NEW key, [data |-> x, key |-> key] \in E,
         SameKey(q, key) = {} \/ \E k \in 1..Len(q.entries) : SameKey(q, key) = {k}
  PROVE  /\ Submitted(q, x, key).entries \in Seq(E)
         /\ Grows(q.entries, Submitted(q, x, key).entries, [data |-> x, key |-> key],
                  {q.entries[k] : k \in SameKey(q, key)})
         /\ KeyLast(Submitted(q, x, key).entries, key)
<1> DEFINE new == [data |-> x, key |-> key]
<1> DEFINE drop == SameKey(q, key)
<1> DEFINE s == q.entries
<1> DEFINE e == Erased(s, drop)
<1>1. Submitted(q, x, key).entries = Append(e, new)
  BY DEF Submitted
<1>2. new \in E /\ s \in Seq(E) /\ (drop = {} \/ \E k \in 1..Len(s) : drop = {k})
  OBVIOUS
<1>x. \A k \in 1..Len(s) : k \in drop <=> key # NoKey /\ s[k].key = key
  <2>1. DOMAIN s = 1..Len(s)
    BY <1>2, LenProperties
  <2> QED BY <2>1 DEF SameKey
<1> HIDE DEF new, drop, s
<1>3. e \in Seq(E) /\ Keeps(s, e, drop)
  BY <1>2, ErasedKeeps
<1>4. PICK f \in [1..Len(e) -> 1..Len(s)] :
        /\ \A i \in 1..Len(e) : e[i] = s[f[i]] /\ f[i] \notin drop
        /\ \A i, j \in 1..Len(e) : i < j => f[i] < f[j]
        /\ \A k \in (1..Len(s)) \ drop : \E i \in 1..Len(e) : f[i] = k
  BY <1>3 DEF Keeps
<1> HIDE DEF e
<1> DEFINE r == Append(e, new)
<1>5. /\ r \in Seq(E) /\ Len(r) = Len(e) + 1 /\ r[Len(e) + 1] = new
      /\ \A i \in 1..Len(e) : r[i] = e[i]
  BY <1>2, <1>3, AppendProperties
<1> DEFINE n == Len(e)
<1> DEFINE lost == {s[k] : k \in drop}
<1>6. n \in Nat
  BY <1>3, LenProperties
<1>7. \A k \in 1..Len(s) : (\E i \in 1..n : f[i] = k) \/ s[k] \in lost
  BY <1>4
<1>8. \A i \in 1..n : r[i] = s[f[i]]
  BY <1>4, <1>5
<1>k. KeyLast(r, key)
  <2> SUFFICES ASSUME NEW a \in 1..Len(r), r[a].key = key, key # NoKey, a # Len(r) PROVE FALSE
    BY DEF KeyLast
  <2>1. a \in 1..n
    BY <1>5, <1>6
  <2>2. r[a] = s[f[a]] /\ f[a] \in 1..Len(s) /\ f[a] \notin drop
    BY <1>4, <1>8, <2>1
  <2> QED BY <1>x, <2>2
<1> HIDE DEF lost, r
<1>9. Grows(s, r, new, lost)
  BY <1>4, <1>5, <1>6, <1>7, <1>8 DEF Grows
<1> QED BY <1>1, <1>5, <1>9, <1>k DEF r, lost, s, new, drop

\* The same seen on the payloads.
LEMMA PayloadsGrow ==
  ASSUME NEW E, NEW q, NEW p, q.entries \in Seq(E), p.entries \in Seq(E), NEW x, NEW lost,
         Grows(q.entries, p.entries, x, lost)
  PROVE  Grows(Payloads(q), Payloads(p), x.data, {e.data : e \in lost})
<1>0. Len(q.entries) \in Nat /\ Len(p.entries) \in Nat
  BY LenProperties
<1>1. /\ Len(Payloads(q)) = Len(q.entries)
      /\ \A i \in 1..Len(q.entries) : Payloads(q)[i] = q.entries[i].data
  BY <1>0 DEF Payloads
<1>2. /\ Len(Payloads(p)) = Len(p.entries)
      /\ \A i \in 1..Len(p.entries) : Payloads(p)[i] = p.entries[i].data
  BY <1>0 DEF Payloads
<1> DEFINE s == Payloads(q)
<1> DEFINE r == Payloads(p)
<1> DEFINE S == q.entries
<1> DEFINE R == p.entries
<1> DEFINE gone == {e.data : e \in lost}
<1> HIDE DEF s, r, S, R
<1>n. PICK n \in Nat : \E g \in [1..n -> 1..Len(S)] :
        /\ Len(R) = n + 1 /\ R[n + 1] = x
        /\ \A i \in 1..n : R[i] = S[g[i]]
        /\ \A i, j \in 1..n : i < j => g[i] < g[j]
        /\ \A k \in 1..Len(S) : (\E i \in 1..n : g[i] = k) \/ S[k] \in lost
  BY DEF Grows, S, R
<1>3. PICK g \in [1..n -> 1..Len(S)] :
        /\ Len(R) = n + 1 /\ R[n + 1] = x
        /\ \A i \in 1..n : R[i] = S[g[i]]
        /\ \A i, j \in 1..n : i < j => g[i] < g[j]
        /\ \A k \in 1..Len(S) : (\E i \in 1..n : g[i] = k) \/ S[k] \in lost
  BY <1>n
<1>4. Len(s) = Len(S) /\ \A i \in 1..Len(S) : s[i] = S[i].data
  BY <1>1 DEF s, S
<1>5. Len(r) = Len(R) /\ \A i \in 1..Len(R) : r[i] = R[i].data
  BY <1>2 DEF r, R
<1>6. Len(r) = n + 1 /\ r[n + 1] = x.data /\ \A i \in 1..n : r[i] = s[g[i]]
  BY <1>3, <1>4, <1>5
<1>7. \A k \in 1..Len(s) : (\E i \in 1..n : g[i] = k) \/ s[k] \in gone
  BY <1>3, <1>4
<1>8. g \in [1..n -> 1..Len(s)] /\ \A i, j \in 1..n : i < j => g[i] < g[j]
  BY <1>3, <1>4
<1> DEFINE y == x.data
<1>9. Len(r) = n + 1 /\ r[n + 1] = y
  BY <1>6
<1> HIDE DEF gone, y
<1>10. Grows(s, r, y, gone)
  BY <1>6, <1>7, <1>8, <1>9 DEF Grows
<1> QED BY <1>10 DEF s, r, gone, y

\* What is ahead of a queue does not change when the queue grows.
LEMMA GrowsBehind ==
  ASSUME NEW M, NEW a \in Seq(M), NEW s \in Seq(M), NEW r \in Seq(M), NEW x, NEW lost,
         Grows(s, r, x, lost)
  PROVE  Grows(a \o s, a \o r, x, lost)
<1> DEFINE l == Len(a)
<1> DEFINE S == a \o s
<1> DEFINE R == a \o r
<1>1. l \in Nat /\ Len(s) \in Nat
  BY LenProperties
<1>2. Len(S) = l + Len(s) /\ \A i \in 1..l + Len(s) : S[i] = IF i <= l THEN a[i] ELSE s[i - l]
  BY ConcatProperties
<1>3. Len(R) = l + Len(r) /\ \A i \in 1..l + Len(r) : R[i] = IF i <= l THEN a[i] ELSE r[i - l]
  BY ConcatProperties
<1>n. PICK n \in Nat : \E g \in [1..n -> 1..Len(s)] :
        /\ Len(r) = n + 1 /\ r[n + 1] = x
        /\ \A i \in 1..n : r[i] = s[g[i]]
        /\ \A i, j \in 1..n : i < j => g[i] < g[j]
        /\ \A k \in 1..Len(s) : (\E i \in 1..n : g[i] = k) \/ s[k] \in lost
  BY DEF Grows
<1>4. PICK g \in [1..n -> 1..Len(s)] :
        /\ Len(r) = n + 1 /\ r[n + 1] = x
        /\ \A i \in 1..n : r[i] = s[g[i]]
        /\ \A i, j \in 1..n : i < j => g[i] < g[j]
        /\ \A k \in 1..Len(s) : (\E i \in 1..n : g[i] = k) \/ s[k] \in lost
  BY <1>n
<1> HIDE DEF l, S, R
<1> DEFINE h == [i \in 1..l + n |-> IF i <= l THEN i ELSE l + g[i - l]]
<1>5. l + n \in Nat /\ h \in [1..l + n -> 1..Len(S)]
  BY <1>1, <1>2, <1>4
<1>6. Len(R) = l + n + 1 /\ R[l + n + 1] = x
  BY <1>1, <1>3, <1>4
<1>7. ASSUME NEW i \in 1..l + n PROVE R[i] = S[h[i]]
  <2>1. R[i] = IF i <= l THEN a[i] ELSE r[i - l]
    BY <1>1, <1>3, <1>4
  <2>2. CASE i <= l
    BY <1>1, <1>2, <2>1, <2>2
  <2>3. CASE i > l
    <3>1. i - l \in 1..n /\ g[i - l] \in 1..Len(s) /\ R[i] = s[g[i - l]]
      BY <1>1, <1>4, <2>1, <2>3
    <3>2. h[i] = l + g[i - l]
      BY <1>1, <2>3
    <3> QED BY <1>1, <1>2, <3>1, <3>2
  <2> QED BY <1>1, <2>2, <2>3
<1>8. ASSUME NEW i \in 1..l + n, NEW j \in 1..l + n, i < j PROVE h[i] < h[j]
  <2>1. CASE j <= l
    BY <1>1, <1>8, <2>1
  <2>2. CASE i <= l /\ j > l
    BY <1>1, <1>8, <2>2
  <2>3. CASE i > l
    <3>1. i - l \in 1..n /\ j - l \in 1..n /\ i - l < j - l
      BY <1>1, <1>8, <2>3
    <3>2. g[i - l] < g[j - l]
      BY <1>4, <3>1
    <3> QED BY <1>1, <1>4, <1>8, <2>3, <3>1, <3>2
  <2> QED BY <1>1, <2>1, <2>2, <2>3
<1>9. ASSUME NEW k \in 1..Len(S) PROVE (\E i \in 1..l + n : h[i] = k) \/ S[k] \in lost
  <2>1. CASE k <= l
    <3>1. k \in 1..l + n /\ h[k] = k
      BY <1>1, <1>2, <2>1
    <3> QED BY <3>1
  <2>2. CASE k > l
    <3>1. k - l \in 1..Len(s) /\ S[k] = s[k - l]
      BY <1>1, <1>2, <2>2
    <3>2. CASE s[k - l] \in lost
      BY <3>1, <3>2
    <3>3. ASSUME NEW i \in 1..n, g[i] = k - l PROVE \E t \in 1..l + n : h[t] = k
      <4>1. l + i \in 1..l + n /\ h[l + i] = k
        BY <1>1, <1>2, <3>3
      <4> QED BY <4>1
    <3> QED BY <1>4, <3>1, <3>2, <3>3
  <2> QED BY <1>1, <1>2, <2>1, <2>2
<1> HIDE DEF h
<1>10. Grows(S, R, x, lost)
  BY <1>5, <1>6, <1>7, <1>8, <1>9 DEF Grows
<1> QED BY <1>10 DEF S, R
=============================================================================
