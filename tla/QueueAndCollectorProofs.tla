---------------------- MODULE QueueAndCollectorProofs -----------------------
(***************************************************************************)
(* Two components that keep what passes through them in order, for every   *)
(* value of the constants.                                                 *)
(*                                                                         *)
(* The two queues of the controllers, together (QueuePair.tla): the limits *)
(* that submit() enforces are those of what is really pending, and the     *)
(* pair is a first-in first-out channel with coalescing.  The inductive    *)
(* invariant PairInv says that the byte counters are the sums they stand   *)
(* for and that a key is pending at most once; without the second, a       *)
(* replacement could take more out of the queue than it subtracts.         *)
(*                                                                         *)
(* The collector of an experiment (Collector.tla): what it records has no  *)
(* gaps, covers its window when it says so, and has the parameters the     *)
(* controller has.                                                         *)
(***************************************************************************)
EXTENDS QueuePair, Collector, QueueLemmas

-----------------------------------------------------------------------------
(* Sums.                                                                    *)

\* A sum over a finite set, in any order: sums[s] is the sum over s.
Sums(sums, f, S) ==
  /\ sums \in [SUBSET S -> Nat] /\ sums[{}] = 0
  /\ \A s \in SUBSET S : \A x \in s : sums[s] = f[x] + sums[s \ {x}]
  /\ SumFunctionOnSet(f, S) = sums[S]

\* The sum of naturals over a finite set is a natural, and it can be taken
\* apart at any element.
LEMMA SumExists ==
  ASSUME NEW S, IsFiniteSet(S), NEW f, \A x \in S : f[x] \in Nat
  PROVE  \E sums : Sums(sums, f, S)
<1> DEFINE Pick(t) == CHOOSE x \in t : TRUE
<1> DEFINE G == [z \in S \X Nat |-> f[z[1]] + z[2]]
<1> DEFINE ch == [t \in SUBSET S |-> Pick(t)]
<1>1. G \in [S \X Nat -> Nat] /\ \A x \in S, m \in Nat : G[<<x, m>>] = f[x] + m
  OBVIOUS
<1>2. \A t \in SUBSET S : t # {} => ch[t] \in t /\ ch[t] = Pick(t) /\ Pick(t) \in S /\ t \ {Pick(t)} \in SUBSET S
  OBVIOUS
<1> HIDE DEF G, ch, Pick
<1>3. PICK g \in [SUBSET S -> Nat] : IsFold(g, S, 0, G, ch)
  BY <1>1, <1>2, FoldExists
<1> DEFINE Eqn(it) == it = [t \in SUBSET S |-> IF t = {} THEN 0 ELSE f[Pick(t)] + it[t \ {Pick(t)}]]
<1>4. Eqn(g)
  <2>1. ASSUME NEW t \in SUBSET S PROVE g[t] = IF t = {} THEN 0 ELSE f[Pick(t)] + g[t \ {Pick(t)}]
    <3>1. CASE t = {}
      BY <1>3, <3>1 DEF IsFold
    <3>2. CASE t # {}
      BY <1>1, <1>2, <1>3, <3>2 DEF IsFold
    <3> QED BY <3>1, <3>2
  <2> QED BY <2>1, <1>3
<1> DEFINE it == CHOOSE it : Eqn(it)
<1>5. Eqn(it)
  <2> HIDE DEF Eqn
  <2> QED BY <1>4, Zenon
<1>6. SumFunctionOnSet(f, S) = it[S]
  BY DEF SumFunctionOnSet, FoldFunctionOnSet, MapThenFoldSet, Pick
<1> HIDE DEF it
<1>7. it[{}] = 0 /\ \A t \in SUBSET S : t # {} => it[t] = f[Pick(t)] + it[t \ {Pick(t)}]
  BY <1>5
<1>8. DOMAIN it = SUBSET S /\ it = [t \in SUBSET S |-> it[t]]
  BY <1>5
<1> HIDE DEF Eqn
<1> DEFINE Good(t) == it[t] \in Nat /\ \A x \in t : it[t] = f[x] + it[t \ {x}]
<1> DEFINE P == {n \in Nat : \A t \in SUBSET S : Cardinality(t) <= n => Good(t)}
<1>9. \A t \in SUBSET S : IsFiniteSet(t) /\ Cardinality(t) \in Nat
  BY FS_Subset, FS_CardinalityType
<1>10. \A t \in SUBSET S : \A x \in t : t \ {x} \in SUBSET S /\ Cardinality(t \ {x}) = Cardinality(t) - 1
  BY <1>9, FS_RemoveElement
<1>11. Good({})
  BY <1>7
<1>12. 0 \in P
  <2>1. ASSUME NEW t \in SUBSET S, Cardinality(t) <= 0 PROVE t = {}
    BY <2>1, <1>9, FS_EmptySet
  <2> HIDE DEF Good
  <2> QED BY <2>1, <1>11
<1>13. ASSUME NEW n \in Nat, n \in P PROVE n + 1 \in P
  <2>1. \A t \in SUBSET S : Cardinality(t) <= n => Good(t)
    BY <1>13
  <2>2. ASSUME NEW t \in SUBSET S, t # {}, Cardinality(t) <= n + 1 PROVE Good(t)
    <3> DEFINE c == Pick(t)
    <3>1. c \in t /\ it[t] = f[c] + it[t \ {c}]
      BY <1>2, <1>7, <2>2
    <3>2. \A x \in t : t \ {x} \in SUBSET S /\ Cardinality(t \ {x}) <= n
      BY <1>9, <1>10, <2>2
    <3>3. \A x \in t : Good(t \ {x})
      <4> HIDE DEF Good
      <4> QED BY <2>1, <3>2
    <3> HIDE DEF c, P
    <3>4. \A x \in t : f[x] \in Nat
      OBVIOUS
    <3>5. it[t] \in Nat
      <4>1. f[c] \in Nat /\ it[t \ {c}] \in Nat
        BY <3>1, <3>3, <3>4
      <4> QED BY <3>1, <4>1
    <3>6. ASSUME NEW x \in t PROVE it[t] = f[x] + it[t \ {x}]
      <4>1. CASE x = c
        BY <3>1, <4>1
      <4>2. CASE x # c
        <5> DEFINE u == (t \ {x}) \ {c}
        <5>1. (t \ {c}) \ {x} = u /\ x \in t \ {c} /\ c \in t \ {x}
          BY <3>1, <4>2
        <5>2. it[t \ {c}] = f[x] + it[u] /\ it[t \ {x}] = f[c] + it[u]
          BY <3>1, <3>3, <5>1
        <5>3. u \in SUBSET S /\ Cardinality(u) <= n
          <6>1. u \in SUBSET S /\ Cardinality(u) = Cardinality(t \ {x}) - 1
            BY <1>10, <3>2, <5>1
          <6> QED BY <1>9, <3>2, <6>1
        <5>4. it[u] \in Nat
          BY <2>1, <5>3
        <5> HIDE DEF u
        <5> QED BY <3>1, <3>4, <5>2, <5>4
      <4> QED BY <4>1, <4>2
    <3> QED BY <3>5, <3>6
  <2> HIDE DEF Good, P
  <2>3. ASSUME NEW t \in SUBSET S, Cardinality(t) <= n + 1 PROVE Good(t)
    <3>1. CASE t = {}
      BY <1>11, <3>1
    <3>2. CASE t # {}
      BY <2>2, <2>3, <3>2
    <3> QED BY <3>1, <3>2
  <2>4. n + 1 \in Nat
    OBVIOUS
  <2> QED BY <2>3, <2>4, Zenon DEF P
<1> HIDE DEF P
<1>14. Nat \subseteq P
  BY <1>12, <1>13, NatSetInduction
<1>15. \A t \in SUBSET S : Good(t)
  <2> HIDE DEF Good
  <2>1. ASSUME NEW t \in SUBSET S PROVE Good(t)
    <3> DEFINE n == Cardinality(t)
    <3>1. n \in Nat /\ n \in P /\ n <= n
      BY <1>9, <1>14
    <3> HIDE DEF n
    <3>2. \A w \in SUBSET S : Cardinality(w) <= n => Good(w)
      BY <3>1 DEF P
    <3> QED BY <3>1, <3>2 DEF n
  <2> QED BY <2>1
<1>16. it \in [SUBSET S -> Nat]
  BY <1>8, <1>15
<1>17. Sums(it, f, S)
  BY <1>6, <1>7, <1>15, <1>16 DEF Sums
<1> QED BY <1>17

\* The sum of a sequence of numbers, from the first one up.
Totals(t, h, n) ==
  /\ t \in [0..n -> Nat] /\ t[0] = 0
  /\ \A k \in 1..n : h[k] \in Nat /\ t[k] = t[k - 1] + h[k]

\* The sum over the positions of a sequence is the last of its running totals.
LEMMA SumChain ==
  ASSUME NEW n \in Nat, NEW h, \A k \in 1..n : h[k] \in Nat
  PROVE  \E t : Totals(t, h, n) /\ SumFunctionOnSet(h, 1..n) = t[n]
<1> DEFINE D == 1..n
<1>1. IsFiniteSet(D)
  BY FS_Interval
<1>2. PICK sums : Sums(sums, h, D)
  BY <1>1, SumExists
<1> DEFINE t == [k \in 0..n |-> sums[1..k]]
<1>3. \A k \in 0..n : 1..k \in SUBSET D
  OBVIOUS
<1>4. t \in [0..n -> Nat]
  BY <1>2, <1>3 DEF Sums
<1>5. t[0] = 0
  <2>1. 1..0 = {} /\ 0 \in 0..n
    OBVIOUS
  <2> QED BY <1>2, <2>1 DEF Sums
<1>6. ASSUME NEW k \in 1..n PROVE t[k] = t[k - 1] + h[k]
  <2>1. k \in 0..n /\ k - 1 \in 0..n /\ k \in 1..k /\ (1..k) \ {k} = 1..(k - 1)
    OBVIOUS
  <2>2. sums[1..k] = h[k] + sums[1..(k - 1)]
    <3> DEFINE c == 1..k
    <3> DEFINE b == 1..(k - 1)
    <3>1. c \in SUBSET D /\ k \in c /\ c \ {k} = b
      BY <1>3, <2>1
    <3>2. \A s \in SUBSET D : \A x \in s : sums[s] = h[x] + sums[s \ {x}]
      BY <1>2 DEF Sums
    <3> HIDE DEF b, c, D
    <3>3. sums[c] = h[k] + sums[b]
      BY <3>1, <3>2
    <3> QED BY <3>3 DEF b, c
  <2>3. t[k] \in Nat /\ t[k - 1] \in Nat /\ t[k] = sums[1..k] /\ t[k - 1] = sums[1..(k - 1)] /\ h[k] \in Nat
    BY <1>4, <2>1
  <2> HIDE DEF t
  <2> QED BY <2>2, <2>3
<1>7. SumFunctionOnSet(h, 1..n) = t[n]
  BY <1>2 DEF Sums
<1> HIDE DEF t
<1> QED BY <1>4, <1>5, <1>6, <1>7 DEF Totals

\* Two sequences that begin alike have the same totals there.
LEMMA TotalsAgree ==
  ASSUME NEW n \in Nat, NEW m \in Nat, m <= n, NEW t, NEW h, Totals(t, h, n),
         NEW u, NEW g, Totals(u, g, m), \A k \in 1..m : g[k] = h[k]
  PROVE  \A k \in 0..m : u[k] = t[k]
<1> DEFINE P == {k \in Nat : k <= m => u[k] = t[k]}
<1>1. 0 \in P
  BY DEF Totals
<1>2. ASSUME NEW k \in Nat, k \in P PROVE k + 1 \in P
  <2> SUFFICES ASSUME k + 1 <= m PROVE u[k + 1] = t[k + 1]
    OBVIOUS
  <2>1. k + 1 \in 1..m /\ k + 1 \in 1..n /\ (k + 1) - 1 = k /\ u[k] = t[k]
    BY <1>2
  <2> QED BY <2>1 DEF Totals
<1> HIDE DEF P
<1>3. Nat \subseteq P
  BY <1>1, <1>2, NatSetInduction
<1> QED BY <1>3 DEF P

\* w is h and then g.
Joins(w, h, n, g, m) ==
  /\ \A k \in 1..n : w[k] = h[k]
  /\ \A k \in 1..m : w[n + k] = g[k]

\* One sequence after another has the sum of both.
LEMMA TotalsConcat ==
  ASSUME NEW n \in Nat, NEW m \in Nat, NEW t, NEW h, Totals(t, h, n),
         NEW u, NEW g, Totals(u, g, m), NEW v, NEW w, Totals(v, w, n + m),
         Joins(w, h, n, g, m)
  PROVE  v[n + m] = t[n] + u[m]
<1> DEFINE P == {k \in Nat : k <= m => v[n + k] = t[n] + u[k]}
<1>0. n + m \in Nat /\ n <= n + m /\ n \in 0..n /\ t[n] \in Nat
  BY DEF Totals
<1>1. 0 \in P
  <2>1. t[n] = v[n]
    BY <1>0, TotalsAgree DEF Joins
  <2> QED BY <1>0, <2>1 DEF Totals
<1>2. ASSUME NEW k \in Nat, k \in P PROVE k + 1 \in P
  <2> SUFFICES ASSUME k + 1 <= m PROVE v[n + (k + 1)] = t[n] + u[k + 1]
    OBVIOUS
  <2>1. k + 1 \in 1..m /\ n + (k + 1) \in 1..(n + m) /\ (k + 1) - 1 = k /\ (n + (k + 1)) - 1 = n + k
        /\ v[n + k] = t[n] + u[k]
    BY <1>2
  <2>2. v[n + (k + 1)] = v[n + k] + w[n + (k + 1)] /\ u[k + 1] = u[k] + g[k + 1] /\ w[n + (k + 1)] = g[k + 1]
    BY <2>1 DEF Totals, Joins
  <2>3. u[k] \in Nat /\ u[k + 1] \in Nat
    BY <2>1 DEF Totals
  <2>4. g[k + 1] \in Nat
    BY <2>1 DEF Totals
  <2> QED BY <1>0, <2>1, <2>2, <2>3, <2>4
<1> HIDE DEF P
<1>3. Nat \subseteq P
  BY <1>1, <1>2, NatSetInduction
<1> QED BY <1>3 DEF P

-----------------------------------------------------------------------------
(* Sizes.                                                                   *)

\* A sequence with one element less, or one step more.
LEMMA TotalsRemove ==
  ASSUME NEW n \in Nat, NEW d \in 1..n, NEW t, NEW h, Totals(t, h, n),
         NEW u, NEW g, Totals(u, g, n - 1),
         \A k \in 1..(n - 1) : g[k] = IF k < d THEN h[k] ELSE h[k + 1]
  PROVE  u[n - 1] = t[n] - h[d]
<1> DEFINE P == {k \in Nat : k <= n - 1 => IF k < d THEN u[k] = t[k] ELSE u[k] = t[k + 1] - h[d]}
<1>0. n - 1 \in Nat /\ h[d] \in Nat /\ \A k \in 0..n : t[k] \in Nat
  BY DEF Totals
<1>1. 0 \in P
  BY <1>0 DEF Totals
<1>2. ASSUME NEW k \in Nat, k \in P PROVE k + 1 \in P
  <2> SUFFICES ASSUME k + 1 <= n - 1
               PROVE  IF k + 1 < d THEN u[k + 1] = t[k + 1] ELSE u[k + 1] = t[(k + 1) + 1] - h[d]
    OBVIOUS
  <2>1. /\ k + 1 \in 1..(n - 1) /\ k + 1 \in 1..n /\ (k + 1) - 1 = k /\ (k + 1) + 1 \in 1..n
        /\ ((k + 1) + 1) - 1 = k + 1
    BY <1>0
  <2>2. u[k + 1] = u[k] + g[k + 1] /\ t[k + 1] = t[k] + h[k + 1] /\ t[(k + 1) + 1] = t[k + 1] + h[(k + 1) + 1]
    BY <2>1 DEF Totals
  <2>3. /\ t[k] \in Nat /\ t[k + 1] \in Nat /\ t[(k + 1) + 1] \in Nat /\ u[k] \in Nat
        /\ h[k + 1] \in Nat /\ h[(k + 1) + 1] \in Nat
    BY <1>0, <2>1 DEF Totals
  <2>4. CASE k + 1 < d
    <3>1. u[k] = t[k] /\ g[k + 1] = h[k + 1]
      BY <1>2, <2>1, <2>4
    <3> QED BY <2>2, <2>4, <3>1
  <2>5. CASE ~(k + 1 < d)
    <3>1. g[k + 1] = h[(k + 1) + 1]
      BY <2>1, <2>5
    <3>2. CASE k < d
      <4>1. d = k + 1 /\ u[k] = t[k]
        BY <1>2, <2>1, <2>5, <3>2
      <4> QED BY <2>2, <2>3, <2>5, <3>1, <4>1
    <3>3. CASE ~(k < d)
      <4>1. u[k] = t[k + 1] - h[d]
        BY <1>2, <2>1, <3>3
      <4> QED BY <1>0, <2>2, <2>3, <2>5, <3>1, <4>1
    <3> QED BY <3>2, <3>3
  <2> QED BY <2>4, <2>5
<1> HIDE DEF P
<1>3. Nat \subseteq P
  BY <1>1, <1>2, NatSetInduction
<1>4. n - 1 \in P /\ n - 1 <= n - 1 /\ (n - 1) + 1 = n
  BY <1>0, <1>3
<1>5. n - 1 < d => d = n /\ u[n - 1] = t[n - 1]
  BY <1>0, <1>4 DEF P
<1>6. ~(n - 1 < d) => u[n - 1] = t[n] - h[d]
  BY <1>0, <1>4 DEF P
<1>7. t[n] = t[n - 1] + h[n]
  BY DEF Totals
<1> QED BY <1>0, <1>5, <1>6, <1>7

-----------------------------------------------------------------------------
\* Messages have sizes.
Sized(M) == \A m \in M : m.size \in Nat

\* The payload of a batch, message by message.
LEMMA BytesChain ==
  ASSUME NEW M, Sized(M), NEW s \in Seq(M)
  PROVE  LET h == [i \in DOMAIN s |-> s[i].size]
         IN  \E t : Totals(t, h, Len(s)) /\ Bytes(s) = t[Len(s)]
<1> DEFINE h == [i \in DOMAIN s |-> s[i].size]
<1> DEFINE n == Len(s)
<1>1. n \in Nat /\ DOMAIN s = 1..n /\ \A k \in 1..n : h[k] \in Nat
  BY LenProperties, ElementOfSeq DEF Sized
<1>2. Bytes(s) = SumFunctionOnSet(h, 1..n)
  BY <1>1 DEF Bytes, SumFunction
<1> HIDE DEF h, n
<1>3. \E t : Totals(t, h, n) /\ SumFunctionOnSet(h, 1..n) = t[n]
  BY <1>1, SumChain
<1> QED BY <1>2, <1>3 DEF h, n

\* Batches are appended: their sizes add up.
LEMMA BytesConcat ==
  ASSUME NEW M, Sized(M), NEW a \in Seq(M), NEW b \in Seq(M)
  PROVE  Bytes(a) \in Nat /\ Bytes(a \o b) = Bytes(a) + Bytes(b)
<1> DEFINE h == [i \in DOMAIN a |-> a[i].size]
<1> DEFINE g == [i \in DOMAIN b |-> b[i].size]
<1> DEFINE c == a \o b
<1> DEFINE w == [i \in DOMAIN c |-> c[i].size]
<1> DEFINE n == Len(a)
<1> DEFINE m == Len(b)
<1>1. /\ n \in Nat /\ m \in Nat /\ DOMAIN a = 1..n /\ DOMAIN b = 1..m
      /\ c \in Seq(M) /\ Len(c) = n + m /\ DOMAIN c = 1..(n + m)
      /\ \A i \in 1..(n + m) : c[i] = IF i <= n THEN a[i] ELSE b[i - n]
  BY LenProperties, ConcatProperties
<1>2. \A k \in 1..n : w[k] = h[k]
  BY <1>1
<1>3. \A k \in 1..m : w[n + k] = g[k]
  BY <1>1
<1>4. PICK t : Totals(t, h, n) /\ Bytes(a) = t[n]
  BY BytesChain
<1>5. PICK u : Totals(u, g, m) /\ Bytes(b) = u[m]
  BY BytesChain
<1>6. PICK v : Totals(v, w, n + m) /\ Bytes(c) = v[n + m]
  <2> HIDE DEF c
  <2>1. PICK v : Totals(v, w, Len(c)) /\ Bytes(c) = v[Len(c)]
    BY <1>1, BytesChain
  <2> HIDE DEF n, m, w
  <2> QED BY <1>1, <2>1
<1>7. t[n] \in Nat
  BY <1>1, <1>4 DEF Totals
<1> HIDE DEF h, g, w, n, m, c
<1>8. v[n + m] = t[n] + u[m]
  <2>1. Joins(w, h, n, g, m)
    BY <1>2, <1>3 DEF Joins
  <2> QED BY <1>1, <2>1, <1>4, <1>5, <1>6, TotalsConcat
<1> QED BY <1>4, <1>5, <1>6, <1>7, <1>8 DEF c

\* r is s without its element at d.
Without(s, r, d) ==
  /\ Len(r) = Len(s) - 1
  /\ \A k \in 1..(Len(s) - 1) : r[k] = IF k < d THEN s[k] ELSE s[k + 1]

\* A message that leaves a batch takes its size along.
LEMMA BytesWithout ==
  ASSUME NEW M, Sized(M), NEW s \in Seq(M), NEW r \in Seq(M), NEW d \in 1..Len(s), Without(s, r, d)
  PROVE  Bytes(r) = Bytes(s) - s[d].size
<1> DEFINE h == [i \in DOMAIN s |-> s[i].size]
<1> DEFINE g == [i \in DOMAIN r |-> r[i].size]
<1> DEFINE n == Len(s)
<1>1. n \in Nat /\ n - 1 \in Nat /\ DOMAIN s = 1..n /\ DOMAIN r = 1..(n - 1) /\ Len(r) = n - 1
  BY LenProperties DEF Without
<1>2. \A k \in 1..(n - 1) : g[k] = IF k < d THEN h[k] ELSE h[k + 1]
  BY <1>1 DEF Without
<1>3. PICK t : Totals(t, h, n) /\ Bytes(s) = t[n]
  BY BytesChain
<1>4. PICK u : Totals(u, g, n - 1) /\ Bytes(r) = u[n - 1]
  <2>1. PICK u : Totals(u, g, Len(r)) /\ Bytes(r) = u[Len(r)]
    BY BytesChain
  <2> HIDE DEF g, n
  <2> QED BY <1>1, <2>1
<1>5. h[d] = s[d].size
  BY <1>1
<1>6. d \in 1..n
  OBVIOUS
<1> HIDE DEF h, g, n
<1>7. u[n - 1] = t[n] - h[d]
  BY <1>1, <1>2, <1>3, <1>4, <1>6, TotalsRemove
<1> QED BY <1>3, <1>4, <1>5, <1>7

\* An empty batch, and a batch of one message.
LEMMA BytesSmall ==
  /\ Bytes(<<>>) = 0
  /\ \A x : x.size \in Nat => Bytes(<<x>>) = x.size
<1>1. Bytes(<<>>) = 0
  <2> DEFINE M == {}
  <2>1. Sized(M) /\ <<>> \in Seq(M) /\ Len(<<>>) = 0
    BY EmptySeq DEF Sized
  <2> DEFINE h == [i \in DOMAIN <<>> |-> <<>>[i].size]
  <2>2. PICK t : Totals(t, h, 0) /\ Bytes(<<>>) = t[0]
    BY <2>1, BytesChain
  <2> QED BY <2>2 DEF Totals
<1>2. ASSUME NEW x, x.size \in Nat PROVE Bytes(<<x>>) = x.size
  <2> DEFINE M == {x}
  <2> DEFINE s == <<x>>
  <2>1. Sized(M) /\ s \in Seq(M) /\ Len(s) = 1 /\ DOMAIN s = 1..1 /\ s[1] = x
    BY <1>2 DEF Sized
  <2> DEFINE h == [i \in DOMAIN s |-> s[i].size]
  <2>2. h[1] = x.size
    BY <2>1
  <2>3. PICK t : Totals(t, h, 1) /\ Bytes(s) = t[1]
    BY <2>1, BytesChain
  <2> HIDE DEF h, s
  <2>4. t[1] = t[0] + h[1] /\ t[0] = 0
    BY <2>3 DEF Totals
  <2> QED BY <1>2, <2>2, <2>3, <2>4 DEF s
<1> QED BY <1>1, <1>2

-----------------------------------------------------------------------------
(* Selections.                                                              *)

\* f lists the members of K in order.
Lists(f, n, K) ==
  /\ n \in Nat /\ f \in [1..n -> K] /\ \A k \in K : \E i \in 1..n : f[i] = k
  /\ \A i, j \in 1..n : i < j => f[i] < f[j]

\* Two lists of the same positions are equal as far as both go.
LEMMA ListsAgree ==
  ASSUME NEW K \in SUBSET Nat, NEW f, NEW n, Lists(f, n, K), NEW g, NEW m, Lists(g, m, K)
  PROVE  \A k \in Nat : k \in 1..n /\ k \in 1..m => f[k] = g[k]
<1> DEFINE P == {k \in Nat : \A j \in 1..k : j <= n /\ j <= m => f[j] = g[j]}
<1>0. n \in Nat /\ m \in Nat /\ (\A i \in 1..n : f[i] \in Nat) /\ \A i \in 1..m : g[i] \in Nat
  BY DEF Lists
<1>1. 0 \in P
  OBVIOUS
<1>2. ASSUME NEW k \in Nat, k \in P PROVE k + 1 \in P
  <2> SUFFICES ASSUME k + 1 <= n, k + 1 <= m PROVE f[k + 1] = g[k + 1]
    BY <1>2
  <2>0. k + 1 \in 1..n /\ k + 1 \in 1..m /\ \A j \in 1..k : f[j] = g[j]
    BY <1>0, <1>2
  <2>1. PICK a \in 1..m : g[a] = f[k + 1]
    BY <2>0 DEF Lists
  <2>2. PICK b \in 1..n : f[b] = g[k + 1]
    BY <2>0 DEF Lists
  <2>3. a >= k + 1
    <3> SUFFICES ASSUME a < k + 1 PROVE FALSE
      BY <1>0
    <3>1. a \in 1..k /\ a \in 1..n
      BY <1>0
    <3>2. f[a] = f[k + 1] /\ f[a] < f[k + 1]
      BY <2>0, <2>1, <3>1 DEF Lists
    <3> QED BY <1>0, <2>0, <3>1, <3>2
  <2>4. b >= k + 1
    <3> SUFFICES ASSUME b < k + 1 PROVE FALSE
      BY <1>0
    <3>1. b \in 1..k /\ b \in 1..m
      BY <1>0
    <3>2. g[b] = g[k + 1] /\ g[b] < g[k + 1]
      BY <2>0, <2>2, <3>1 DEF Lists
    <3> QED BY <1>0, <2>0, <3>1, <3>2
  <2>5. a = k + 1 \/ g[k + 1] < g[a]
    BY <1>0, <2>0, <2>3 DEF Lists
  <2>6. b = k + 1 \/ f[k + 1] < f[b]
    BY <1>0, <2>0, <2>4 DEF Lists
  <2> QED BY <1>0, <2>0, <2>1, <2>2, <2>5, <2>6
<1> HIDE DEF P
<1>3. Nat \subseteq P
  BY <1>1, <1>2, NatSetInduction
<1> QED BY <1>0, <1>3 DEF P

\* Neither of two lists of the same positions is the longer one.
LEMMA ListsNoLonger ==
  ASSUME NEW K \in SUBSET Nat, NEW f, NEW n, Lists(f, n, K), NEW g, NEW m, Lists(g, m, K)
  PROVE  ~(n < m)
<1> SUFFICES ASSUME n < m PROVE FALSE
  OBVIOUS
<1>1. n \in Nat /\ m \in Nat /\ n + 1 \in 1..m
  BY DEF Lists
<1>2. PICK i \in 1..n : f[i] = g[n + 1]
  BY <1>1 DEF Lists
<1>3. i \in Nat /\ i \in 1..m /\ i < n + 1
  BY <1>1
<1>4. f[i] = g[i]
  BY <1>3, ListsAgree
<1>5. g[i] < g[n + 1] /\ g[i] \in Nat
  BY <1>1, <1>3 DEF Lists
<1> QED BY <1>2, <1>4, <1>5

\* What is kept of a sequence is determined by what is dropped.
LEMMA KeepsUnique ==
  ASSUME NEW E, NEW s \in Seq(E), NEW r \in Seq(E), NEW q \in Seq(E), NEW drop,
         Keeps(s, r, drop), Keeps(s, q, drop)
  PROVE  r = q
<1> DEFINE K == (1..Len(s)) \ drop
<1>0. Len(s) \in Nat /\ Len(r) \in Nat /\ Len(q) \in Nat /\ K \in SUBSET Nat
  BY LenProperties
<1>1. PICK f : Lists(f, Len(r), K) /\ \A i \in 1..Len(r) : r[i] = s[f[i]]
  BY <1>0 DEF Keeps, Lists
<1>2. PICK g : Lists(g, Len(q), K) /\ \A i \in 1..Len(q) : q[i] = s[g[i]]
  BY <1>0 DEF Keeps, Lists
<1> HIDE DEF K
<1>3. Len(r) = Len(q)
  BY <1>0, <1>1, <1>2, ListsNoLonger
<1>4. \A i \in 1..Len(r) : f[i] = g[i]
  BY <1>0, <1>1, <1>2, <1>3, ListsAgree
<1>5. \A i \in 1..Len(r) : r[i] = q[i]
  BY <1>1, <1>2, <1>3, <1>4
<1> QED BY <1>3, <1>5, SeqEqual

\* A selection drops the positions whose elements are not kept.
LEMMA SelectKeeps ==
  ASSUME NEW E, NEW s \in Seq(E), NEW keep, NEW drop,
         \A k \in 1..Len(s) : k \in drop <=> s[k] \notin keep
  PROVE  Select(s, keep) \in Seq(E) /\ Keeps(s, Select(s, keep), drop)
<1> DEFINE n == Len(s)
<1>1. n \in Nat /\ DOMAIN s = 1..n /\ \A i \in 1..n : s[i] \in E
  BY LenProperties, ElementOfSeq
<1>2. PICK g \in [0..n -> Seq(E)] : SelectsBy(g, s, keep)
  BY SelectChain
<1> DEFINE Good(t, k) ==
      \E f : Lists(f, Len(t), (1..k) \ drop) /\ \A i \in 1..Len(t) : t[i] = s[f[i]]
<1> DEFINE P == {k \in Nat : k <= n => Good(g[k], k)}
<1>3. 0 \in P
  <2>1. g[0] = <<>> /\ Len(g[0]) = 0
    BY <1>2 DEF SelectsBy
  <2> DEFINE f == [i \in 1..0 |-> i]
  <2>2. Lists(f, 0, (1..0) \ drop)
    BY DEF Lists
  <2>3. Good(g[0], 0)
    BY <2>1, <2>2
  <2> QED BY <2>3
<1>4. ASSUME NEW k \in Nat, k \in P PROVE k + 1 \in P
  <2>0. SUFFICES ASSUME k + 1 <= n PROVE Good(g[k + 1], k + 1)
    <3> HIDE DEF Good
    <3> QED OBVIOUS
  <2>h. Good(g[k], k)
    <3> HIDE DEF Good
    <3> QED BY <1>1, <1>4, <2>0
  <2>1. k + 1 \in 1..n /\ (k + 1) - 1 = k /\ k \in 0..n
    BY <1>1, <2>0
  <2> DEFINE t == g[k]
  <2> DEFINE x == s[k + 1]
  <2>2. g[k + 1] = IF x \in keep THEN Append(t, x) ELSE t
    BY <1>2, <2>1 DEF SelectsBy
  <2>3. t \in Seq(E) /\ Len(t) \in Nat /\ x \in E
    BY <1>1, <1>2, <2>1, LenProperties
  <2> HIDE DEF t
  <2>4. PICK f : Lists(f, Len(t), (1..k) \ drop) /\ \A i \in 1..Len(t) : t[i] = s[f[i]]
    BY <2>h DEF t
  <2>5. CASE x \notin keep
    <3>1. k + 1 \in drop
      BY <2>1, <2>5
    <3>2. (1..(k + 1)) \ drop = (1..k) \ drop
      BY <3>1
    <3> QED BY <2>2, <2>4, <2>5, <3>2
  <2>6. CASE x \in keep
    <3> DEFINE u == Append(t, x)
    <3> DEFINE l == Len(t)
    <3> DEFINE K == (1..k) \ drop
    <3> DEFINE L == (1..(k + 1)) \ drop
    <3>1. Len(u) = l + 1 /\ u[l + 1] = x /\ \A i \in 1..l : u[i] = t[i]
      BY <2>3, AppendProperties
    <3>2. k + 1 \notin drop
      BY <2>1, <2>6
    <3>3. L = K \cup {k + 1} /\ \A y \in K : y \in Nat /\ y < k + 1
      BY <3>2
    <3> DEFINE e == [i \in 1..(l + 1) |-> IF i = l + 1 THEN k + 1 ELSE f[i]]
    <3>l. l \in Nat
      BY <2>3
    <3>f. Lists(f, l, K)
      BY <2>4
    <3>s. \A i \in 1..l : t[i] = s[f[i]]
      BY <2>4
    <3>g. g[k + 1] = u
      BY <2>2, <2>6
    <3> HIDE DEF L, K, l, u
    <3>4. e[l + 1] = k + 1 /\ \A i \in 1..l : e[i] = f[i] /\ f[i] \in K
      BY <3>l, <3>f DEF Lists
    <3>5. e \in [1..(l + 1) -> L]
      <4>1. k + 1 \in L /\ \A i \in 1..l : f[i] \in L
        BY <3>3, <3>4
      <4>2. \A i \in 1..(l + 1) : i = l + 1 \/ i \in 1..l
        BY <3>l
      <4> QED BY <4>1, <4>2
    <3> HIDE DEF e
    <3>6. \A y \in L : \E i \in 1..(l + 1) : e[i] = y
      <4> SUFFICES ASSUME NEW y \in L PROVE \E i \in 1..(l + 1) : e[i] = y
        OBVIOUS
      <4>1. CASE y = k + 1
        <5>1. l + 1 \in 1..(l + 1)
          BY <3>l
        <5> QED BY <3>4, <4>1, <5>1
      <4>2. CASE y \in K
        <5>1. PICK i \in 1..l : f[i] = y
          BY <3>f, <4>2 DEF Lists
        <5>2. i \in 1..(l + 1)
          BY <3>l
        <5> QED BY <3>4, <5>1, <5>2
      <4> QED BY <3>3, <4>1, <4>2
    <3>7. ASSUME NEW i \in 1..(l + 1), NEW j \in 1..(l + 1), i < j PROVE e[i] < e[j]
      <4>1. i \in 1..l
        BY <3>l, <3>7
      <4>2. CASE j = l + 1
        BY <3>3, <3>4, <4>1, <4>2
      <4>3. CASE j # l + 1
        <5>1. j \in 1..l
          BY <3>l, <4>3
        <5> QED BY <3>f, <3>4, <3>7, <4>1, <5>1 DEF Lists
      <4> QED BY <4>2, <4>3
    <3>8. Lists(e, l + 1, L)
      BY <3>l, <3>5, <3>6, <3>7 DEF Lists
    <3>9. \A i \in 1..(l + 1) : u[i] = s[e[i]]
      BY <3>l, <3>1, <3>4, <3>s
    <3>10. Good(u, k + 1)
      <4>1. Lists(e, Len(u), (1..(k + 1)) \ drop) /\ \A i \in 1..Len(u) : u[i] = s[e[i]]
        BY <3>1, <3>8, <3>9 DEF L
      <4> QED BY <4>1
    <3> QED BY <3>g, <3>10
  <2> QED BY <2>5, <2>6
<1> HIDE DEF P
<1>5. Nat \subseteq P
  BY <1>3, <1>4, NatSetInduction
<1>6. Good(g[n], n) /\ g[n] \in Seq(E) /\ Select(s, keep) = g[n]
  <2> HIDE DEF Good, n
  <2>1. n \in P /\ n <= n /\ n \in 0..n
    BY <1>1, <1>5
  <2>2. Good(g[n], n)
    BY <2>1 DEF P
  <2>3. Select(s, keep) = g[n]
    BY <1>2 DEF SelectsBy, n
  <2> QED BY <1>2, <2>1, <2>2, <2>3
<1> DEFINE r == Select(s, keep)
<1>7. PICK f : Lists(f, Len(r), (1..n) \ drop) /\ \A i \in 1..Len(r) : r[i] = s[f[i]]
  BY <1>6
<1> HIDE DEF r
<1>8. f \in [1..Len(r) -> 1..n] /\ \A i \in 1..Len(r) : f[i] \notin drop
  BY <1>7 DEF Lists
<1>9. Keeps(s, r, drop)
  BY <1>7, <1>8 DEF Lists, Keeps
<1> QED BY <1>6, <1>9 DEF r

\* Without one element, the others are kept.
LEMMA WithoutKeeps ==
  ASSUME NEW E, NEW s \in Seq(E), NEW r \in Seq(E), NEW d \in 1..Len(s), Without(s, r, d)
  PROVE  Keeps(s, r, {d})
<1> DEFINE n == Len(s)
<1> DEFINE f == [i \in 1..(n - 1) |-> IF i < d THEN i ELSE i + 1]
<1>1. n \in Nat /\ Len(r) = n - 1 /\ \A i \in 1..(n - 1) : r[i] = IF i < d THEN s[i] ELSE s[i + 1]
  BY LenProperties DEF Without
<1>d. d \in 1..n
  OBVIOUS
<1> HIDE DEF n
<1>2. f \in [1..(n - 1) -> 1..n] /\ \A i \in 1..(n - 1) : r[i] = s[f[i]] /\ f[i] \notin {d}
  BY <1>1, <1>d
<1>3. \A i, j \in 1..(n - 1) : i < j => f[i] < f[j]
  BY <1>1, <1>d
<1>4. ASSUME NEW k \in (1..n) \ {d} PROVE \E i \in 1..(n - 1) : f[i] = k
  <2>1. CASE k < d
    <3>1. k \in 1..(n - 1) /\ f[k] = k
      BY <1>1, <1>d, <2>1
    <3> QED BY <3>1
  <2>2. CASE ~(k < d)
    <3>1. k - 1 \in 1..(n - 1) /\ f[k - 1] = k
      BY <1>1, <1>d, <2>2
    <3> QED BY <3>1
  <2> QED BY <2>1, <2>2
<1> HIDE DEF f
<1>5. /\ f \in [1..Len(r) -> 1..Len(s)]
      /\ \A i \in 1..Len(r) : r[i] = s[f[i]] /\ f[i] \notin {d}
      /\ \A i, j \in 1..Len(r) : i < j => f[i] < f[j]
      /\ \A k \in (1..Len(s)) \ {d} : \E i \in 1..Len(r) : f[i] = k
  BY <1>1, <1>2, <1>3, <1>4 DEF n
<1> QED BY <1>5 DEF Keeps

\* What erase_if leaves of entries of which at most one goes.
LEMMA ErasedOne ==
  ASSUME NEW E, NEW s \in Seq(E), NEW d \in 1..Len(s)
  PROVE  Erased(s, {d}) \in Seq(E) /\ Without(s, Erased(s, {d}), d)
<1> DEFINE n == Len(s)
<1> DEFINE r == [i \in 1..(n - 1) |-> IF i < d THEN s[i] ELSE s[i + 1]]
<1>1. n \in Nat /\ n - 1 \in Nat /\ \A i \in 1..n : s[i] \in E
  BY LenProperties, ElementOfSeq
<1>2. r \in Seq(E) /\ Len(r) = n - 1 /\ Without(s, r, d)
  BY <1>1 DEF Without
<1> HIDE DEF r
<1>3. Keeps(s, r, {d})
  BY <1>2, WithoutKeeps
<1>4. Erased(s, {d}) \in Seq(E) /\ Keeps(s, Erased(s, {d}), {d})
  BY ErasedKeeps
<1>5. Erased(s, {d}) = r
  BY <1>2, <1>3, <1>4, KeepsUnique
<1> QED BY <1>2, <1>5

\* erase_if without a match leaves the entries as they are.
LEMMA ErasedNone ==
  ASSUME NEW E, NEW s \in Seq(E) PROVE Erased(s, {}) = s
<1> DEFINE n == Len(s)
<1> DEFINE f == [i \in 1..n |-> i]
<1>1. n \in Nat /\ f \in [1..n -> 1..n] /\ \A i \in 1..n : s[i] = s[f[i]] /\ f[i] = i
  BY LenProperties
<1>2. \A i, j \in 1..n : i < j => f[i] < f[j]
  BY <1>1
<1> HIDE DEF f
<1>3. Keeps(s, s, {})
  BY <1>1, <1>2 DEF Keeps
<1>4. Erased(s, {}) \in Seq(E) /\ Keeps(s, Erased(s, {}), {})
  BY ErasedKeeps
<1> QED BY <1>3, <1>4, KeepsUnique

-----------------------------------------------------------------------------
(* submit().                                                                *)

\* A sum over no index and over one.
LEMMA SumSmall ==
  /\ \A f : SumFunctionOnSet(f, {}) = 0
  /\ \A f, d : f[d] \in Nat => SumFunctionOnSet(f, {d}) = f[d]
<1>1. ASSUME NEW f PROVE SumFunctionOnSet(f, {}) = 0
  <2>1. PICK sums : Sums(sums, f, {})
    BY SumExists, FS_EmptySet
  <2> QED BY <2>1 DEF Sums
<1>2. ASSUME NEW f, NEW d, f[d] \in Nat PROVE SumFunctionOnSet(f, {d}) = f[d]
  <2> DEFINE D == {d}
  <2>1. IsFiniteSet(D) /\ \A x \in D : f[x] \in Nat
    BY <1>2, FS_Singleton
  <2>2. PICK sums : Sums(sums, f, D)
    BY <2>1, SumExists
  <2>3. sums[D] = f[d] + sums[D \ {d}] /\ D \ {d} = {} /\ sums[{}] = 0
    BY <2>2 DEF Sums
  <2> HIDE DEF D
  <2> QED BY <1>2, <2>2, <2>3 DEF Sums, D
<1> QED BY <1>1, <1>2

\* Entries with messages of M.
Carries(E, M) == \A e \in E : e.data \in M

\* The payloads of a queue are its entries' messages, in order.
LEMMA PayloadsSeq ==
  ASSUME NEW E, NEW M, Carries(E, M), NEW q, q.entries \in Seq(E)
  PROVE  /\ Payloads(q) \in Seq(M)
         /\ Len(Payloads(q)) = Len(q.entries)
         /\ \A i \in 1..Len(q.entries) : Payloads(q)[i] = q.entries[i].data
<1> DEFINE s == q.entries
<1>1. Len(s) \in Nat /\ \A i \in 1..Len(s) : s[i].data \in M
  <2>1. \A i \in 1..Len(s) : s[i] \in E
    BY ElementOfSeq
  <2> QED BY <2>1, LenProperties DEF Carries
<1>2. Payloads(q) = [i \in 1..Len(s) |-> s[i].data]
  BY DEF Payloads
<1> HIDE DEF s
<1>3. /\ [i \in 1..Len(s) |-> s[i].data] \in Seq(M)
      /\ Len([i \in 1..Len(s) |-> s[i].data]) = Len(s)
  BY <1>1
<1> QED BY <1>2, <1>3 DEF s

\* submit() that replaces at most one entry: the counters it leaves are those
\* of the entries it leaves.
LEMMA SubmittedCounts ==
  ASSUME NEW M, Sized(M), NEW E, Carries(E, M), NEW q, q.entries \in Seq(E),
         q.bytes = Bytes(Payloads(q)), NEW x \in M, NEW key, [data |-> x, key |-> key] \in E,
         SameKey(q, key) = {} \/ \E k \in 1..Len(q.entries) : SameKey(q, key) = {k}
  PROVE  /\ Submitted(q, x, key).entries \in Seq(E)
         /\ Len(Payloads(Submitted(q, x, key))) = Len(q.entries) - Cardinality(SameKey(q, key)) + 1
         /\ Bytes(Payloads(Submitted(q, x, key))) = BytesKept(q, key) + x.size
         /\ BytesKept(q, key) \in Int
<1> DEFINE s == q.entries
<1> DEFINE drop == SameKey(q, key)
<1> DEFINE r == Erased(s, drop)
<1> DEFINE new == [data |-> x, key |-> key]
<1> DEFINE h == [i \in DOMAIN s |-> s[i].data.size]
<1> DEFINE a == [entries |-> r]
<1> DEFINE p == Submitted(q, x, key)
<1>1. s \in Seq(E) /\ Len(s) \in Nat /\ DOMAIN s = 1..Len(s) /\ \A i \in 1..Len(s) : s[i].data \in M /\ h[i] \in Nat
  BY LenProperties, ElementOfSeq DEF Sized, Carries
<1>2. /\ Payloads(q) \in Seq(M) /\ Len(Payloads(q)) = Len(s)
      /\ \A i \in 1..Len(s) : Payloads(q)[i] = s[i].data
  BY PayloadsSeq
<1>3. BytesKept(q, key) = Bytes(Payloads(q)) - SumFunctionOnSet(h, drop)
  BY DEF BytesKept
<1>4. p.entries = Append(r, new) /\ new \in E
  BY DEF Submitted
<1>5. Bytes(Payloads(q)) \in Nat
  BY <1>2, BytesConcat, EmptySeq
<1>6. /\ r \in Seq(E) /\ Len(r) = Len(s) - Cardinality(drop)
      /\ Bytes(Payloads(a)) = Bytes(Payloads(q)) - SumFunctionOnSet(h, drop)
      /\ SumFunctionOnSet(h, drop) \in Nat
  <2> HIDE DEF h, s, drop
  <2>1. CASE drop = {}
    <3>1. r = s
      BY <1>1, <2>1, ErasedNone
    <3>2. Payloads(a) = Payloads(q)
      BY <3>1 DEF Payloads, s
    <3>3. SumFunctionOnSet(h, drop) = 0 /\ Cardinality(drop) = 0
      BY <2>1, SumSmall, FS_EmptySet
    <3> HIDE DEF r, a
    <3> QED BY <1>1, <1>5, <3>1, <3>2, <3>3
  <2>2. ASSUME NEW d \in 1..Len(s), drop = {d}
        PROVE  /\ r \in Seq(E) /\ Len(r) = Len(s) - Cardinality(drop)
               /\ Bytes(Payloads(a)) = Bytes(Payloads(q)) - SumFunctionOnSet(h, drop)
               /\ SumFunctionOnSet(h, drop) \in Nat
    <3>1. r \in Seq(E) /\ Without(s, r, d)
      BY <1>1, <2>2, ErasedOne
    <3>2. SumFunctionOnSet(h, drop) = h[d] /\ Cardinality(drop) = 1 /\ h[d] \in Nat /\ h[d] = s[d].data.size
      BY <1>1, <2>2, SumSmall, FS_Singleton DEF h
    <3>3. a.entries = r
      OBVIOUS
    <3> HIDE DEF r, a
    <3>4. /\ Payloads(a) \in Seq(M) /\ Len(Payloads(a)) = Len(r)
          /\ \A i \in 1..Len(r) : Payloads(a)[i] = r[i].data
      BY <3>1, <3>3, PayloadsSeq
    <3>5. Without(Payloads(q), Payloads(a), d)
      <4>1. \A k \in 1..(Len(s) - 1) : k \in 1..Len(s) /\ k + 1 \in 1..Len(s)
        BY <1>1
      <4> QED BY <1>1, <1>2, <3>1, <3>4, <4>1 DEF Without
    <3>6. Bytes(Payloads(a)) = Bytes(Payloads(q)) - Payloads(q)[d].size
      BY <1>2, <3>4, <3>5, BytesWithout
    <3> QED BY <1>2, <2>2, <3>1, <3>2, <3>6 DEF Without
  <2> QED BY <2>1, <2>2 DEF s, drop
<1>7. a.entries = r
  OBVIOUS
<1> HIDE DEF r, a, p, new, s, drop, h
<1>8. /\ Payloads(a) \in Seq(M) /\ Len(Payloads(a)) = Len(r) /\ Len(r) \in Nat
      /\ \A i \in 1..Len(r) : Payloads(a)[i] = r[i].data
  BY <1>6, <1>7, PayloadsSeq, LenProperties
<1>9. p.entries \in Seq(E) /\ Len(p.entries) = Len(r) + 1
      /\ (\A i \in 1..Len(r) : p.entries[i] = r[i]) /\ p.entries[Len(r) + 1] = new
  BY <1>4, <1>6, AppendProperties
<1>10. /\ Payloads(p) \in Seq(M) /\ Len(Payloads(p)) = Len(r) + 1
       /\ \A i \in 1..(Len(r) + 1) : Payloads(p)[i] = p.entries[i].data
  BY <1>9, PayloadsSeq
<1>11. Payloads(p) = Payloads(a) \o <<x>>
  <2> DEFINE c == Payloads(a) \o <<x>>
  <2>1. <<x>> \in Seq(M) /\ Len(<<x>>) = 1 /\ <<x>>[1] = x
    OBVIOUS
  <2>2. /\ c \in Seq(M) /\ Len(c) = Len(r) + 1
        /\ \A i \in 1..(Len(r) + 1) : c[i] = IF i <= Len(r) THEN Payloads(a)[i] ELSE <<x>>[i - Len(r)]
    BY <1>8, <2>1, ConcatProperties
  <2>3. new.data = x
    BY DEF new
  <2> HIDE DEF c
  <2>4. ASSUME NEW i \in 1..(Len(r) + 1) PROVE Payloads(p)[i] = c[i]
    <3>1. CASE i = Len(r) + 1
      BY <1>8, <1>9, <1>10, <2>1, <2>2, <2>3, <3>1
    <3>2. CASE i # Len(r) + 1
      <4>1. i \in 1..Len(r) /\ i <= Len(r)
        BY <1>8, <3>2
      <4> QED BY <1>8, <1>9, <1>10, <2>2, <4>1
    <3> QED BY <3>1, <3>2
  <2>5. Payloads(p) = c
    BY <1>10, <2>2, <2>4, SeqEqual
  <2> QED BY <2>5 DEF c
<1>12. Bytes(Payloads(p)) = Bytes(Payloads(a)) + x.size
  <2>1. <<x>> \in Seq(M) /\ x.size \in Nat
    BY DEF Sized
  <2> QED BY <1>8, <1>11, <2>1, BytesConcat, BytesSmall
<1>13. Len(Payloads(p)) = Len(s) - Cardinality(drop) + 1
  BY <1>6, <1>10
<1> QED BY <1>3, <1>5, <1>6, <1>9, <1>12, <1>13 DEF s, drop, p

-----------------------------------------------------------------------------
(* The pair.                                                                *)

\* Messages and the outgoing queue's entries, as the callers make them.
Message == [id : Nat, size : Sizes]
Entry == [data : Message, key : Keys \cup {NoKey}]

\* A key is pending at most once.
OnceKeyed(s) ==
  \A i, j \in 1..Len(s) : s[i].key = s[j].key /\ s[i].key # NoKey => i = j

\* The inductive invariant: the byte counters of both queues are the sums of
\* what they hold, and no key is pending twice.
PairInv ==
  /\ calls \in Nat /\ out.entries \in Seq(Entry) /\ OnceKeyed(out.entries)
  /\ in.messages \in Seq(Message) /\ in.next \in 0..Len(in.messages)
  /\ out.bytes = Bytes(Payloads(out)) /\ in.bytes = Bytes(Contents(in))

\* The sets of messages and entries are as the lemmas on sizes want them.
LEMMA EntryFacts == Sized(Message) /\ Carries(Entry, Message)
BY PairAssumption DEF Sized, Carries, Message, Entry

\* A submitted message is a message, and its entry an entry.
LEMMA NewFacts ==
  ASSUME calls \in Nat, NEW size \in Sizes, NEW key \in Keys \cup {NoKey}
  PROVE  NewData(size) \in Message /\ [data |-> NewData(size), key |-> key] \in Entry
BY DEF NewData, Message, Entry

\* submit() replaces at most one entry.
LEMMA OneOfKey ==
  ASSUME NEW E, NEW q, q.entries \in Seq(E), OnceKeyed(q.entries), NEW key
  PROVE  SameKey(q, key) = {} \/ \E k \in 1..Len(q.entries) : SameKey(q, key) = {k}
<1> DEFINE s == q.entries
<1>1. DOMAIN s = 1..Len(s)
  BY LenProperties
<1>2. \A i, j \in SameKey(q, key) : i = j
  BY <1>1 DEF SameKey, OnceKeyed
<1>3. SameKey(q, key) \subseteq 1..Len(s)
  BY <1>1 DEF SameKey
<1> QED BY <1>2, <1>3

\* After submit() the key is still pending once: what it replaced is gone.
LEMMA OnceKeyedSubmit ==
  ASSUME NEW E, NEW q, q.entries \in Seq(E), OnceKeyed(q.entries),
         NEW x, NEW key, [data |-> x, key |-> key] \in E
  PROVE  OnceKeyed(Submitted(q, x, key).entries)
<1> DEFINE s == q.entries
<1> DEFINE r == Submitted(q, x, key).entries
<1> DEFINE new == [data |-> x, key |-> key]
<1> DEFINE lost == {s[k] : k \in SameKey(q, key)}
<1>1. r \in Seq(E) /\ Grows(s, r, new, lost) /\ KeyLast(r, key)
  <2>1. SameKey(q, key) = {} \/ \E k \in 1..Len(q.entries) : SameKey(q, key) = {k}
    BY OneOfKey
  <2> QED BY <2>1, SubmittedGrows, Zenon
<1>2. new.key = key /\ OnceKeyed(s)
  OBVIOUS
<1> HIDE DEF s, r, new, lost
<1>3. PICK n \in Nat : \E g \in [1..n -> 1..Len(s)] :
        /\ Len(r) = n + 1 /\ r[n + 1] = new
        /\ \A i \in 1..n : r[i] = s[g[i]]
        /\ \A i, j \in 1..n : i < j => g[i] < g[j]
        /\ \A k \in 1..Len(s) : (\E i \in 1..n : g[i] = k) \/ s[k] \in lost
  BY <1>1 DEF Grows
<1>4. PICK g \in [1..n -> 1..Len(s)] :
        /\ Len(r) = n + 1 /\ r[n + 1] = new
        /\ \A i \in 1..n : r[i] = s[g[i]]
        /\ \A i, j \in 1..n : i < j => g[i] < g[j]
        /\ \A k \in 1..Len(s) : (\E i \in 1..n : g[i] = k) \/ s[k] \in lost
  BY <1>3
<1>5. ASSUME NEW i \in 1..(n + 1), NEW j \in 1..(n + 1), i < j, r[i].key = r[j].key, r[i].key # NoKey
      PROVE  FALSE
  <2>1. i \in 1..n
    BY <1>5
  <2>2. CASE j = n + 1
    <3>1. r[i].key = key
      BY <1>2, <1>4, <1>5, <2>2
    <3> QED BY <1>1, <1>4, <1>5, <2>2, <3>1 DEF KeyLast
  <2>3. CASE j # n + 1
    <3>1. j \in 1..n
      BY <2>3
    <3>2. g[i] = g[j]
      <4>1. r[i] = s[g[i]] /\ r[j] = s[g[j]] /\ g[i] \in 1..Len(s) /\ g[j] \in 1..Len(s)
        BY <1>4, <2>1, <3>1
      <4>2. s[g[i]].key = s[g[j]].key /\ s[g[i]].key # NoKey
        BY <1>5, <4>1
      <4> QED BY <1>2, <4>1, <4>2 DEF OnceKeyed
    <3>3. g[i] < g[j] /\ g[i] \in 1..Len(s)
      BY <1>4, <1>5, <2>1, <3>1
    <3> QED BY <3>2, <3>3
  <2> QED BY <2>2, <2>3
<1>6. ASSUME NEW i \in 1..(n + 1), NEW j \in 1..(n + 1), r[i].key = r[j].key, r[i].key # NoKey PROVE i = j
  <2>1. ~(i < j) /\ ~(j < i)
    BY <1>5, <1>6
  <2> QED BY <2>1
<1>7. OnceKeyed(r)
  BY <1>4, <1>6 DEF OnceKeyed
<1> QED BY <1>7 DEF r

\* The invariant holds of empty queues.
LEMMA PairInit == Init => PairInv
<1> SUFFICES ASSUME Init PROVE PairInv
  OBVIOUS
<1>1. /\ calls = 0 /\ out.entries = <<>> /\ Payloads(out) = <<>> /\ out.bytes = 0
      /\ in.messages = <<>> /\ in.next = 0 /\ Contents(in) = <<>> /\ in.bytes = 0
  BY EmptyContents, EmptyPayloads DEF Init, EmptyOutgoing, EmptyReceived
<1>2. <<>> \in Seq(Entry) /\ <<>> \in Seq(Message) /\ Len(<<>>) = 0 /\ Bytes(<<>>) = 0
  BY EmptySeq, BytesSmall
<1>3. OnceKeyed(<<>>)
  BY <1>2 DEF OnceKeyed
<1> QED BY <1>1, <1>2, <1>3 DEF PairInv

\* An accepted submit() preserves it, whether it replaces an entry or not.
LEMMA SubmitPair ==
  ASSUME PairInv, NEW size \in Sizes, NEW key \in Keys \cup {NoKey}, Submit(size, key)
  PROVE  PairInv'
<1> DEFINE x == NewData(size)
<1> DEFINE p == Submitted(out, x, key)
<1>1. out' = p /\ in' = in /\ calls' = calls + 1
  BY DEF Submit
<1>2. x \in Message /\ [data |-> x, key |-> key] \in Entry
  BY NewFacts DEF PairInv
<1>3. out.entries \in Seq(Entry) /\ OnceKeyed(out.entries) /\ out.bytes = Bytes(Payloads(out))
  BY DEF PairInv
<1>4. SameKey(out, key) = {} \/ \E k \in 1..Len(out.entries) : SameKey(out, key) = {k}
  BY <1>3, OneOfKey
<1> HIDE DEF x
<1>5. /\ p.entries \in Seq(Entry) /\ Bytes(Payloads(p)) = BytesKept(out, key) + x.size
  BY <1>2, <1>3, <1>4, EntryFacts, SubmittedCounts
<1>6. OnceKeyed(p.entries)
  BY <1>2, <1>3, OnceKeyedSubmit
<1>7. p.bytes = BytesKept(out, key) + x.size
  BY DEF Submitted
<1> HIDE DEF p
<1> QED BY <1>1, <1>5, <1>6, <1>7 DEF PairInv

\* Moving the outgoing batch to the receiving side preserves it.
LEMMA TransferPair == PairInv /\ Transfer => PairInv'
<1> SUFFICES ASSUME PairInv, Transfer PROVE PairInv'
  OBVIOUS
<1> DEFINE b == Payloads(out)
<1> DEFINE n == Appended(in, b)
<1>1. out' = EmptyOutgoing /\ calls' = calls /\ (in' = n \/ in' = in)
  BY DEF Transfer
<1>2. /\ EmptyOutgoing.entries = <<>> /\ Payloads(EmptyOutgoing) = <<>> /\ EmptyOutgoing.bytes = 0
      /\ <<>> \in Seq(Entry) /\ Len(<<>>) = 0 /\ Bytes(<<>>) = 0
  BY EmptyPayloads, EmptySeq, BytesSmall DEF EmptyOutgoing
<1>3. OnceKeyed(<<>>)
  BY <1>2 DEF OnceKeyed
<1>4. b \in Seq(Message)
  BY EntryFacts, PayloadsSeq DEF PairInv
<1>5. in.messages \in Seq(Message) /\ in.next \in 0..Len(in.messages) /\ in.bytes = Bytes(Contents(in))
  BY DEF PairInv
<1>6. Contents(in) \in Seq(Message)
  BY <1>5, ContentsType
<1> HIDE DEF b
<1>7. n.messages \in Seq(Message) /\ n.next \in 0..Len(n.messages) /\ Contents(n) = Contents(in) \o b
  BY <1>4, <1>5, AppendedContents
<1>8. Bytes(Contents(n)) = in.bytes + Bytes(b) /\ in.bytes \in Nat
  BY <1>4, <1>5, <1>6, <1>7, EntryFacts, BytesConcat
<1>9. n.bytes = Bytes(Contents(n))
  <2>1. CASE b = <<>>
    <3>1. n = in
      BY <2>1 DEF Appended
    <3> QED BY <1>5, <3>1
  <2>2. CASE b # <<>>
    BY <1>8, <2>2 DEF Appended
  <2> QED BY <2>1, <2>2
<1> HIDE DEF n
<1> QED BY <1>1, <1>2, <1>3, <1>5, <1>7, <1>9 DEF PairInv

\* take() preserves it.
LEMMA TakePair == PairInv /\ Take => PairInv'
<1> SUFFICES ASSUME PairInv, Take PROVE PairInv'
  OBVIOUS
<1> DEFINE n == Taken(in)
<1> DEFINE x == NextMessage(in)
<1>1. CanTake(in) /\ in' = n /\ out' = out /\ calls' = calls
  BY DEF Take
<1>2. in.messages \in Seq(Message) /\ in.next \in 0..Len(in.messages) /\ in.bytes = Bytes(Contents(in))
  BY DEF PairInv
<1>3. /\ x \in Message /\ n.messages \in Seq(Message) /\ n.next \in 0..Len(n.messages)
      /\ Contents(in) = <<x>> \o Contents(n)
  BY <1>1, <1>2, TakenContents
<1>4. n.bytes = in.bytes - x.size
  BY DEF Taken
<1> HIDE DEF n, x
<1>5. Contents(n) \in Seq(Message) /\ <<x>> \in Seq(Message) /\ x.size \in Nat
  BY <1>3, ContentsType, EntryFacts DEF Sized
<1>6. Bytes(<<x>>) = x.size /\ Bytes(Contents(in)) = x.size + Bytes(Contents(n)) /\ Bytes(Contents(n)) \in Nat
  BY <1>3, <1>5, EntryFacts, BytesConcat, BytesSmall
<1>7. n.bytes = Bytes(Contents(n))
  BY <1>2, <1>4, <1>5, <1>6
<1> QED BY <1>1, <1>3, <1>7 DEF PairInv

\* ReceivedQueue::drain preserves it.
LEMMA DrainPair == PairInv /\ Drain => PairInv'
<1> SUFFICES ASSUME PairInv, Drain PROVE PairInv'
  OBVIOUS
<1>1. /\ calls' = calls /\ out' = out /\ in' = EmptyReceived
      /\ EmptyReceived.messages = <<>> /\ EmptyReceived.next = 0 /\ EmptyReceived.bytes = 0
      /\ Contents(EmptyReceived) = <<>>
  BY EmptyContents DEF Drain, EmptyReceived
<1>2. <<>> \in Seq(Message) /\ Len(<<>>) = 0 /\ Bytes(<<>>) = 0
  BY EmptySeq, BytesSmall
<1> QED BY <1>1, <1>2 DEF PairInv

\* It holds in every state of the pair.
LEMMA PairInvariance == Spec => []PairInv
<1>1. PairInv /\ [Next]_vars => PairInv'
  <2> SUFFICES ASSUME PairInv, [Next]_vars PROVE PairInv'
    OBVIOUS
  <2>1. ASSUME NEW size \in Sizes, NEW key \in Keys \cup {NoKey}, Submit(size, key) PROVE PairInv'
    BY <2>1, SubmitPair
  <2>2. CASE UNCHANGED vars
    BY <2>2 DEF PairInv, vars
  <2> QED BY <2>1, <2>2, TransferPair, TakePair, DrainPair DEF Next
<1> QED BY <1>1, PairInit, PTL DEF Spec

\* With the counters exact, submit() and append() refuse exactly what would
\* leave a queue over a limit.
LEMMA ExactInv == PairInv => ExactLimits
<1> SUFFICES ASSUME PairInv PROVE ExactLimits
  OBVIOUS
<1>0. out.entries \in Seq(Entry) /\ OnceKeyed(out.entries) /\ out.bytes = Bytes(Payloads(out)) /\ Len(out.entries) \in Nat
  BY LenProperties DEF PairInv
<1>1. ASSUME NEW size \in Sizes, NEW key \in Keys \cup {NoKey}
      PROVE  AcceptsSubmit(out, NewData(size), key) <=>
               /\ Len(Payloads(Submitted(out, NewData(size), key))) <= MaxMessages
               /\ Bytes(Payloads(Submitted(out, NewData(size), key))) <= MaxBytes
  <2> DEFINE x == NewData(size)
  <2>1. x \in Message /\ [data |-> x, key |-> key] \in Entry /\ x.size \in Nat
    BY NewFacts, EntryFacts DEF PairInv, Sized
  <2>2. SameKey(out, key) = {} \/ \E k \in 1..Len(out.entries) : SameKey(out, key) = {k}
    BY <1>0, OneOfKey
  <2>3. Cardinality(SameKey(out, key)) \in Nat
    <3> DEFINE same == SameKey(out, key)
    <3>1. same = {} => Cardinality(same) = 0
      BY FS_EmptySet
    <3>2. \A k : same = {k} => Cardinality(same) = 1
      <4> HIDE DEF same
      <4> QED BY FS_Singleton
    <3>3. same = {} \/ \E k \in 1..Len(out.entries) : same = {k}
      BY <2>2
    <3> HIDE DEF same
    <3>4. Cardinality(same) \in Nat
      BY <3>1, <3>2, <3>3
    <3> QED BY <3>4 DEF same
  <2> HIDE DEF x
  <2>4. /\ Len(Payloads(Submitted(out, x, key))) = Len(out.entries) - Cardinality(SameKey(out, key)) + 1
        /\ Bytes(Payloads(Submitted(out, x, key))) = BytesKept(out, key) + x.size
        /\ BytesKept(out, key) \in Int
    BY <1>0, <2>1, <2>2, EntryFacts, SubmittedCounts
  <2>5. AcceptsSubmit(out, x, key) <=>
          /\ Len(Payloads(Submitted(out, x, key))) <= MaxMessages
          /\ Bytes(Payloads(Submitted(out, x, key))) <= MaxBytes
    BY <1>0, <2>1, <2>3, <2>4, LimitsAssumption DEF AcceptsSubmit
  <2> QED BY <2>5 DEF x
<1>2. AcceptsAppend(in, Payloads(out)) <=>
        /\ Len(Contents(in) \o Payloads(out)) <= MaxMessages
        /\ Bytes(Contents(in) \o Payloads(out)) <= MaxBytes
  <2> DEFINE b == Payloads(out)
  <2> DEFINE c == Contents(in)
  <2>1. b \in Seq(Message)
    BY <1>0, EntryFacts, PayloadsSeq
  <2>2. in.messages \in Seq(Message) /\ in.next \in 0..Len(in.messages) /\ in.bytes = Bytes(c)
    BY DEF PairInv
  <2>3. c \in Seq(Message) /\ Len(c) = Len(in.messages) - in.next
    BY <2>2, ContentsType
  <2> HIDE DEF b, c
  <2>4. /\ Bytes(c \o b) = Bytes(c) + Bytes(b) /\ Bytes(c) \in Nat /\ Bytes(b) \in Nat
        /\ Len(c \o b) = Len(c) + Len(b) /\ Len(c) \in Nat /\ Len(b) \in Nat
    BY <2>1, <2>3, EntryFacts, BytesConcat, ConcatProperties, LenProperties
  <2>5. AcceptsAppend(in, b) <=> Len(c \o b) <= MaxMessages /\ Bytes(c \o b) <= MaxBytes
    BY <2>2, <2>3, <2>4, LimitsAssumption DEF AcceptsAppend
  <2> QED BY <2>5 DEF b, c
<1> QED BY <1>1, <1>2, Zenon DEF ExactLimits

\* The limits that submit() and append() enforce are the real ones, after every
\* sequence of submissions, replacements, transfers, takes and drains, for all
\* sizes and limits.
THEOREM LimitsAreExact == Spec => []ExactLimits
BY PairInvariance, ExactInv, PTL

\* erase_if of the entries of a key is the abstract selection of the others.
LEMMA ErasedIsSelected ==
  ASSUME NEW E, NEW q, q.entries \in Seq(E), OnceKeyed(q.entries), NEW key
  PROVE  Erased(q.entries, SameKey(q, key)) =
           Select(q.entries, {e \in Range(q.entries) : key = NoKey \/ e.key # key})
<1> DEFINE s == q.entries
<1> DEFINE drop == SameKey(q, key)
<1> DEFINE keep == {e \in Range(s) : key = NoKey \/ e.key # key}
<1>1. s \in Seq(E) /\ DOMAIN s = 1..Len(s)
  BY LenProperties
<1>2. \A k \in 1..Len(s) : k \in drop <=> s[k] \notin keep
  BY <1>1 DEF SameKey, Range
<1>3. drop = {} \/ \E k \in 1..Len(s) : drop = {k}
  BY OneOfKey
<1> HIDE DEF s, drop, keep
<1>4. Erased(s, drop) \in Seq(E) /\ Keeps(s, Erased(s, drop), drop)
  BY <1>1, <1>3, ErasedKeeps
<1>5. Select(s, keep) \in Seq(E) /\ Keeps(s, Select(s, keep), drop)
  BY <1>1, <1>2, SelectKeeps
<1>6. Erased(s, drop) = Select(s, keep)
  BY <1>1, <1>4, <1>5, KeepsUnique
<1> QED BY <1>6 DEF s, drop, keep

\* The abstract specification's Select is the same operator.
LEMMA SameSelect == \A s, keep : Fifo!Select(s, keep) = Select(s, keep)
BY DEF Fifo!Select, Select, Fifo!MapThenFoldSet, MapThenFoldSet, Fifo!Max, Max

\* An accepted submit() is an acceptance by the abstract channel.
LEMMA SubmitAccepts ==
  ASSUME PairInv, NEW size \in Sizes, NEW key \in Keys \cup {NoKey}, Submit(size, key)
  PROVE  Fifo!FifoNext
<1> DEFINE x == NewData(size)
<1> DEFINE keep == {e \in Range(out.entries) : key = NoKey \/ e.key # key}
<1>1. /\ out' = Submitted(out, x, key) /\ in' = in /\ calls < MaxCalls /\ calls \in Nat
      /\ out.entries \in Seq(Entry) /\ OnceKeyed(out.entries)
  BY DEF Submit, PairInv
<1>2. x \in [id : 1..MaxCalls, size : Sizes]
  BY <1>1, PairAssumption DEF NewData
<1>3. out'.entries = Append(Select(out.entries, keep), [data |-> x, key |-> key])
  <2>1. Erased(out.entries, SameKey(out, key)) = Select(out.entries, keep)
    BY <1>1, ErasedIsSelected
  <2> QED BY <1>1, <2>1 DEF Submitted
<1>4. Fifo!Range(out.entries) = Range(out.entries)
  BY DEF Fifo!Range, Range
<1> HIDE DEF x
<1>5. Fifo!Accept(x, key)
  <2>1. Contents(in)' = Contents(in)
    BY <1>1
  <2>2. out.entries' = Append(Fifo!Select(out.entries, {e \in Fifo!Range(out.entries) : key = NoKey \/ e.key # key}), [data |-> x, key |-> key])
    BY <1>3, <1>4, SameSelect
  <2> QED BY <2>1, <2>2 DEF Fifo!Accept
<1> QED BY <1>2, <1>5 DEF Fifo!FifoNext

\* A transfer, accepted or refused, is the abstract channel's move of
\* everything pending.
LEMMA TransferMoves == PairInv /\ Transfer => Fifo!Move
<1> SUFFICES ASSUME PairInv, Transfer PROVE Fifo!Move
  OBVIOUS
<1> DEFINE b == Payloads(out)
<1>1. out' = EmptyOutgoing /\ (in' = Appended(in, b) \/ in' = in)
  BY DEF Transfer
<1>2. out.entries \in Seq(Entry) /\ in.messages \in Seq(Message) /\ in.next \in 0..Len(in.messages)
  BY DEF PairInv
<1>3. b \in Seq(Message)
  BY <1>2, EntryFacts, PayloadsSeq
<1>4. Contents(Appended(in, b)) = Contents(in) \o b
  <2> HIDE DEF b
  <2> QED BY <1>2, <1>3, AppendedContents
<1>5. b = [i \in DOMAIN out.entries |-> out.entries[i].data]
  <2>1. DOMAIN out.entries = 1..Len(out.entries)
    BY <1>2, LenProperties
  <2> QED BY <2>1 DEF Payloads
<1> HIDE DEF b
<1>6. Contents(in)' = Contents(in) \o b \/ Contents(in)' = Contents(in)
  BY <1>1, <1>4
<1>7. out.entries' = <<>>
  BY <1>1, EmptyPayloads
<1> QED BY <1>5, <1>6, <1>7 DEF Fifo!Move

\* take() delivers the oldest message.
LEMMA TakeDelivers == PairInv /\ Take => Fifo!Deliver
<1> SUFFICES ASSUME PairInv, Take PROVE Fifo!Deliver
  OBVIOUS
<1> DEFINE n == Taken(in)
<1> DEFINE x == NextMessage(in)
<1>1. CanTake(in) /\ in' = n /\ out' = out
  BY DEF Take
<1>2. in.messages \in Seq(Message) /\ in.next \in 0..Len(in.messages)
  BY DEF PairInv
<1>3. /\ x \in Message /\ n.messages \in Seq(Message) /\ n.next \in 0..Len(n.messages)
      /\ Contents(in) = <<x>> \o Contents(n)
  BY <1>1, <1>2, TakenContents
<1> HIDE DEF n, x
<1> DEFINE c == Contents(in)
<1> DEFINE d == Contents(n)
<1>4. d \in Seq(Message) /\ c \in Seq(Message)
  BY <1>2, <1>3, ContentsType
<1>5. c # <<>> /\ Tail(c) = d
  <2>1. c = <<x>> \o d
    BY <1>3
  <2> HIDE DEF c, d
  <2>2. /\ Len(c) = 1 + Len(d) /\ Len(d) \in Nat
        /\ \A i \in 1..Len(d) : c[i + 1] = d[i]
    BY <1>3, <1>4, <2>1, ConcatProperties, LenProperties
  <2>3. c # <<>>
    BY <2>2
  <2>4. Tail(c) \in Seq(Message) /\ Len(Tail(c)) = Len(d) /\ \A i \in 1..Len(d) : Tail(c)[i] = c[i + 1]
    BY <1>4, <2>2, <2>3, HeadTailProperties
  <2> QED BY <1>4, <2>2, <2>3, <2>4, SeqEqual
<1>6. Contents(in)' = d /\ out.entries' = out.entries
  BY <1>1
<1> QED BY <1>5, <1>6 DEF Fifo!Deliver

\* ReceivedQueue::drain is the abstract detach.
LEMMA DrainDetaches == Drain => Fifo!Detach
<1> SUFFICES ASSUME Drain PROVE Fifo!Detach
  OBVIOUS
<1>1. out' = out /\ in' = EmptyReceived /\ Contents(EmptyReceived) = <<>>
  BY EmptyContents DEF Drain
<1> QED BY <1>1 DEF Fifo!Detach

\* The pair of queues implements the coalescing first-in first-out channel.
THEOREM QueuesAreFifo == Spec => FifoOrder
<1>1. Init => Fifo!FifoInit
  BY EmptyContents, EmptyPayloads DEF Init, Fifo!FifoInit
<1>2. PairInv /\ [Next]_vars => [Fifo!FifoNext]_Fifo!fifoVars
  <2> SUFFICES ASSUME PairInv, [Next]_vars PROVE [Fifo!FifoNext]_Fifo!fifoVars
    OBVIOUS
  <2>1. ASSUME NEW size \in Sizes, NEW key \in Keys \cup {NoKey}, Submit(size, key) PROVE Fifo!FifoNext
    BY <2>1, SubmitAccepts
  <2>2. CASE UNCHANGED vars
    BY <2>2 DEF vars, Fifo!fifoVars
  <2>3. CASE Transfer \/ Take \/ Drain
    BY <2>3, TransferMoves, TakeDelivers, DrainDetaches DEF Fifo!FifoNext
  <2> QED BY <2>1, <2>2, <2>3 DEF Next
<1> QED BY <1>1, <1>2, PairInvariance, PTL DEF Spec, FifoOrder, Fifo!FifoSpec


-----------------------------------------------------------------------------
(* The inductive invariant.                                                *)

\* The recorder's start and the node's last command are the first and the
\* last row; a row that could not be written is the last command of an
\* attempt that has failed.
Bookkeeping ==
  samples # <<>> =>
    start = samples[1] /\ (pc = "spin" => last_command = samples[Len(samples)])

\* The clock of a collection that goes on is within the timeout of the last
\* command; this bounds the next gap before the command that ends it arrives.
InTime ==
  pc = "spin" =>
    /\ (samples = <<>>) <=> (start = None)
    /\ samples # <<>> => 0 <= sim - last_command /\ sim - last_command <= Timeout

\* A success under way already has its window.
Promised ==
  pc = "save" /\ success =>
    /\ samples # <<>> /\ sim - samples[1] >= duration
    /\ sim - samples[Len(samples)] <= Timeout

\* The metadata says completed after a save only, and the exit code comes last.
Verdict ==
  /\ completed => pc \in {"leave", "gone"}
  /\ pc = "leave" /\ success => completed
  /\ code # None => pc = "gone"

\* The inductive invariant of the collector's rows, with the properties it is
\* for.
IInv ==
  /\ TypeOK /\ Bookkeeping /\ InTime /\ Promised /\ Verdict
  /\ GapBounded /\ WindowCovered /\ ExitTruthful

-----------------------------------------------------------------------------
(* Steps.                                                                  *)

\* The invariant holds when the collector has opened its files.
LEMMA InitIInv == CollectorInit => IInv
<1> SUFFICES ASSUME CollectorInit PROVE IInv
    OBVIOUS
<1>1. samples = <<>> /\ Len(samples) = 0 /\ samples \in Seq(Nat)
    BY DEF CollectorInit
<1>2. TypeOK
    BY <1>1, CollectorAssumption DEF CollectorInit, TypeOK
<1>3. GapBounded
    BY <1>1 DEF GapBounded
<1> QED
    BY <1>1, <1>2, <1>3 DEF CollectorInit, IInv, Bookkeeping, InTime, Promised, Verdict, WindowCovered,
       ExitTruthful, None

\* A recorded row is at the current time and no further from the last row than
\* the timeout.
LEMMA CommandIInv == IInv /\ OnCommand => IInv'
<1> SUFFICES ASSUME IInv, OnCommand PROVE IInv'
    OBVIOUS
<1> USE CollectorAssumption DEF None
<1>1. /\ samples \in Seq(Nat) /\ sim \in Nat /\ 0 < sim /\ pc = "spin"
      /\ samples # <<>> => sim >= samples[Len(samples)] /\ sim - samples[Len(samples)] <= Timeout
    BY DEF IInv, TypeOK, OnCommand, Ready, Bookkeeping, InTime
<1>2. samples' = Append(samples, sim) /\ UNCHANGED endVars
    BY <1>1, SMTT(30) DEF OnCommand, Last
<1>3. /\ samples' \in Seq(Nat) /\ Len(samples') = Len(samples) + 1
      /\ samples'[Len(samples')] = sim /\ samples' # <<>>
      /\ \A i \in 1..Len(samples) : samples'[i] = samples[i]
    BY <1>1, <1>2
<1>4. TypeOK'
    BY <1>1, <1>2, <1>3 DEF IInv, TypeOK, OnCommand, endVars
<1>5. Bookkeeping'
  <2>1. CASE samples = <<>>
      BY <2>1, <1>1, <1>3 DEF IInv, InTime, Bookkeeping, OnCommand
  <2>2. CASE samples # <<>>
    <3>1. Len(samples) \in Nat \ {0} /\ start = samples[1] /\ start # None
        BY <2>2, <1>1 DEF IInv, Bookkeeping, InTime
    <3> QED
        BY <3>1, <1>3 DEF Bookkeeping, OnCommand
  <2> QED
      BY <2>1, <2>2
<1>6. InTime'
    BY <1>1, <1>2, <1>3 DEF InTime, OnCommand
<1>7. GapBounded'
  <2> SUFFICES ASSUME NEW i \in 1..Len(samples)
               PROVE  samples'[i] <= samples'[i + 1] /\ samples'[i + 1] - samples'[i] <= Timeout
      BY <1>1, <1>3 DEF GapBounded
  <2>1. CASE i = Len(samples)
      BY <2>1, <1>1, <1>3
  <2>2. CASE i # Len(samples)
    <3>1. i \in 1..(Len(samples) - 1) /\ i + 1 \in 1..Len(samples)
        BY <2>2, <1>1
    <3>2. samples[i] <= samples[i + 1] /\ samples[i + 1] - samples[i] <= Timeout
        BY <3>1 DEF IInv, GapBounded
    <3> QED
        BY <3>1, <3>2, <1>3
  <2> QED
      BY <2>1, <2>2
<1>8. Promised' /\ Verdict' /\ WindowCovered' /\ ExitTruthful'
    BY <1>1, <1>2 DEF IInv, Promised, Verdict, WindowCovered, ExitTruthful, endVars
<1> QED
    BY <1>4, <1>5, <1>6, <1>7, <1>8 DEF IInv

\* A message of the clock keeps the time since the last command within the
\* timeout or ends the collection, successfully only when the window is over.
LEMMA ClockIInv == ASSUME NEW t \in Nat, IInv, OnClock(t) PROVE IInv'
<1> USE CollectorAssumption DEF None
<1>1. /\ samples \in Seq(Nat) /\ pc = "spin" /\ UNCHANGED <<duration, samples, start, last_command, raised, completed, code>>
      /\ samples # <<>> => start = samples[1] /\ last_command = samples[Len(samples)]
      /\ samples # <<>> => samples[1] \in Nat /\ samples[Len(samples)] \in Nat
      /\ pc' \in {"spin", "save"} /\ ~completed /\ code # 0
    BY DEF Verdict, IInv, TypeOK, Bookkeeping, OnClock, ClockBack, ClockSet, Tick, LostCommands,
       WindowOver, Finish, endVars, obsVars
<1>2. TypeOK'
    BY DEF IInv, TypeOK, OnClock, ClockBack, ClockSet, Tick, LostCommands, WindowOver,
       Finish, endVars, obsVars
<1>3. InTime'
    BY <1>1 DEF IInv, TypeOK, InTime, OnClock, ClockBack, ClockSet, Tick, LostCommands,
       WindowOver, Finish, endVars, obsVars, Lost
<1>4. Promised'
    BY <1>1 DEF IInv, TypeOK, InTime, Promised, OnClock, ClockBack, ClockSet, Tick,
       LostCommands, WindowOver, Finish, endVars, obsVars, Lost, Over
<1>5. Bookkeeping' /\ GapBounded' /\ WindowCovered' /\ ExitTruthful' /\ Verdict'
    BY <1>1 DEF IInv, Bookkeeping, GapBounded, WindowCovered, ExitTruthful, Verdict
<1> QED
    BY <1>2, <1>3, <1>4, <1>5 DEF IInv

\* An exception, and the callbacks that record no row, promise nothing.
LEMMA QuietIInv ==
  ASSUME IInv, OnScan \/ OnPose \/ RecordFails \/ OnParameters \/ Interrupt
  PROVE  IInv'
<1> USE CollectorAssumption DEF None
<1>1. /\ pc = "spin" /\ UNCHANGED <<duration, samples, sim, completed, code>>
      /\ \/ UNCHANGED <<pc, success, start, last_command>>
         \/ pc' = "save" /\ success' = FALSE /\ UNCHANGED <<start, last_command>>
         \/ RecordFails
    BY DEF RecordFails, Ready, OnScan, OnPose, OnParameters, Interrupt, Raise, endVars, obsVars
<1>2. TypeOK'
    BY DEF IInv, TypeOK, OnScan, OnPose, RecordFails, OnParameters, Interrupt, Raise, Ready,
       endVars, obsVars
<1>3. CASE ~RecordFails
    BY <1>1, <1>2, <1>3 DEF IInv, Bookkeeping, InTime, Promised, Verdict, GapBounded,
       WindowCovered, ExitTruthful
<1>4. CASE RecordFails
    BY <1>1, <1>2, <1>4 DEF IInv, Bookkeeping, InTime, Promised, Verdict, GapBounded,
       WindowCovered, ExitTruthful, RecordFails, Raise
<1> QED
    BY <1>3, <1>4

\* The metadata says completed only for what finish promised.
LEMMA EndIInv == ASSUME IInv, Save \/ Exit \/ Dies PROVE IInv'
<1> USE CollectorAssumption DEF None
<1>1. /\ UNCHANGED <<duration, samples, sim, start, last_command>> /\ samples \in Seq(Nat)
      /\ pc' \in {"leave", "gone"}
    BY DEF IInv, TypeOK, Save, SaveAnd, Exit, Dies, obsVars
<1>2. Bookkeeping' /\ InTime' /\ Promised' /\ GapBounded'
    BY <1>1 DEF IInv, Bookkeeping, InTime, Promised, GapBounded
<1>3. CASE Save
  <2>1. Complete \in BOOLEAN
      BY DEF Complete, IInv, TypeOK
  <2>2. TypeOK' /\ Verdict' /\ ExitTruthful'
      BY <1>3, <2>1 DEF IInv, TypeOK, Verdict, ExitTruthful, Save, SaveAnd, obsVars
  <2>3. WindowCovered'
    <3> SUFFICES ASSUME Complete PROVE WindowCovered'
        BY <1>3 DEF Save, SaveAnd, WindowCovered
    <3>1. samples # <<>> /\ Len(samples) >= 2 /\ samples[Len(samples)] > samples[1]
        BY <1>1 DEF Complete, Last, IInv, Bookkeeping
    <3> QED
        BY <1>1, <1>3, <3>1 DEF Save, SaveAnd, WindowCovered, IInv, Promised, Complete
  <2> QED
      BY <1>2, <2>2, <2>3 DEF IInv
<1>4. CASE Exit \/ Dies
  <2>1. UNCHANGED <<completed, success, raised>> /\ pc' = "gone"
      BY <1>4 DEF Exit, Dies
  <2>2. TypeOK'
      BY <1>4 DEF IInv, TypeOK, Exit, Dies, obsVars
  <2>3. Verdict' /\ ExitTruthful'
      BY <1>4, <2>1 DEF IInv, Verdict, ExitTruthful, Exit, Dies
  <2>4. WindowCovered'
      BY <1>1, <2>1 DEF IInv, WindowCovered
  <2> QED
      BY <1>2, <2>2, <2>3, <2>4 DEF IInv
<1> QED
    BY <1>3, <1>4

\* What the invariant speaks of is left alone by the controller.
LEMMA SameIInv == ASSUME IInv, UNCHANGED <<obsVars, endVars>> PROVE IInv'
BY DEF IInv, TypeOK, Bookkeeping, InTime, Promised, Verdict, GapBounded, WindowCovered,
   ExitTruthful, obsVars, endVars

\* The invariant holds throughout.
LEMMA Invariance == CollectorSpec => []IInv
<1>1. IInv /\ [CollectorNext]_collectorVars => IInv'
  <2> SUFFICES ASSUME IInv, [CollectorNext]_collectorVars PROVE IInv'
      OBVIOUS
  <2>1. ASSUME NEW u \in Updates, Set(u) PROVE IInv'
      BY <2>1, SameIInv DEF Set, Announce
  <2>2. ASSUME NEW t \in 0..MaxTime, OnClock(t) PROVE IInv'
      BY <2>2, ClockIInv, CollectorAssumption
  <2> QED
      BY <2>1, <2>2, CommandIInv, QuietIInv, EndIInv, SameIInv DEF CollectorNext, collectorVars
<1> QED
    BY <1>1, InitIInv, PTL DEF CollectorSpec

-----------------------------------------------------------------------------
(* Theorems.                                                               *)

\* For every window and timeout, two rows of samples.csv in a row are at most
\* command_timeout of simulated time apart.
THEOREM GapsAreBounded == CollectorSpec => []GapBounded
BY Invariance, PTL DEF IInv

\* For every window and timeout, metadata that says completed belongs to
\* samples that take up the window but for command_timeout at its end.
THEOREM CompletedIsCovered == CollectorSpec => []WindowCovered
BY Invariance, PTL DEF IInv

\* However the collector ends, exit code 0 means completed metadata.
THEOREM ExitIsTruthful == CollectorSpec => []ExitTruthful
BY Invariance, PTL DEF IInv

-----------------------------------------------------------------------------
(* The recorder's parameters.                                               *)

\* Values for all parameters.
Params == [Names -> Values]

\* One update keeps the parameters' type.
LEMMA CandidateType ==
  ASSUME NEW p \in Params, NEW u \in Updates PROVE Candidate(p, u) \in Params
<1>1. \A n \in Names : n \in DOMAIN u => u[n] \in Values
  BY DEF Updates
<1> QED
  BY <1>1 DEF Candidate, Params

\* h[k] are the parameters after the first k updates of s.
Applies(h, p, s) ==
  /\ h \in [0..Len(s) -> Params] /\ h[0] = p
  /\ \A k \in 1..Len(s) : h[k] = Candidate(h[k - 1], s[k])

\* The recursive function of the property is the only one of its kind.
LEMMA AnnouncedIs ==
  ASSUME Len(events) \in Nat, NEW h, Applies(h, parameters, events)
  PROVE  \A k \in 0..Len(events) : Announced[k] = h[k]
<1> DEFINE n == Len(events)
<1> DEFINE Eqn(f) == f = [k \in 0..n |-> IF k = 0 THEN parameters ELSE Candidate(f[k - 1], events[k])]
<1>1. n \in Nat
  OBVIOUS
<1>2. Applies(h, parameters, events)
  OBVIOUS
<1>3. Eqn(h)
  BY <1>1, <1>2 DEF Applies
<1>4. Announced = CHOOSE f : Eqn(f)
  BY DEF Announced
<1>5. Eqn(Announced)
  <2> HIDE DEF Eqn
  <2> QED BY <1>3, <1>4, Zenon
<1>6. ASSUME NEW f, Eqn(f) PROVE \A k \in 0..n : f[k] = h[k]
  <2> DEFINE P == {k \in Nat : k <= n => f[k] = h[k]}
  <2>1. 0 \in P
    BY <1>1, <1>2, <1>6 DEF Applies
  <2>2. ASSUME NEW k \in Nat, k \in P PROVE k + 1 \in P
    <3> SUFFICES ASSUME k + 1 <= n PROVE f[k + 1] = h[k + 1]
      OBVIOUS
    <3>1. k + 1 \in 1..n /\ k + 1 \in 0..n /\ (k + 1) - 1 = k /\ f[k] = h[k] /\ k + 1 # 0
      BY <1>1, <2>2
    <3>2. f[k + 1] = Candidate(f[(k + 1) - 1], events[k + 1])
      BY <1>6, <3>1
    <3> QED BY <1>2, <3>1, <3>2 DEF Applies
  <2> HIDE DEF P
  <2>3. Nat \subseteq P
    BY <2>1, <2>2, NatSetInduction
  <2> QED BY <1>1, <2>3 DEF P
<1> QED BY <1>5, <1>6

\* The recorder follows the controller.
Following(h, q, s, p) ==
  Applies(h, q, s) /\ h[Len(s)] = p /\ \A n \in 0..Len(s) : Valid(h[n])

\* The inductive invariant of the parameters: the updates in flight lead from
\* the recorder's to the controller's.
ParInv ==
  /\ parameters \in Params /\ p_ \in Params /\ events \in Seq(Updates)
  /\ pc = "spin" => \E h : Following(h, parameters, events, p_)

\* It says what the property says.
LEMMA ParInvFollows == ParInv => ParametersFollow
<1> SUFFICES ASSUME ParInv, pc = "spin" PROVE ParametersFollow
  BY DEF ParametersFollow
<1>1. PICK h : Following(h, parameters, events, p_)
  BY DEF ParInv
<1>2. Len(events) \in Nat /\ \A k \in 0..Len(events) : Announced[k] = h[k]
  BY <1>1, LenProperties, AnnouncedIs DEF Following, ParInv
<1> QED BY <1>1, <1>2 DEF Following, ParametersFollow

\* Both start with the same parameters.
LEMMA InitPar == CollectorInit => ParInv
<1> SUFFICES ASSUME CollectorInit PROVE ParInv
  OBVIOUS
<1>1. parameters \in Params /\ p_ = parameters /\ events = <<>> /\ Valid(parameters) /\ Len(events) = 0
  BY DEF CollectorInit, Params
<1> DEFINE h == [k \in 0..0 |-> parameters]
<1>2. Following(h, parameters, events, p_)
  BY <1>1 DEF Following, Applies
<1> QED BY <1>1, <1>2 DEF ParInv

\* The recorder applies the oldest update.
LEMMA OnParametersPar == ParInv /\ OnParameters => ParInv'
<1> SUFFICES ASSUME ParInv, OnParameters PROVE ParInv'
  OBVIOUS
<1> DEFINE c == Candidate(parameters, Head(events))
<1>1. /\ pc = "spin" /\ events # <<>> /\ events' = Tail(events) /\ p_' = p_
      /\ (Valid(c) /\ parameters' = c /\ pc' = pc) \/ (~Valid(c) /\ parameters' = parameters /\ pc' = "save")
  BY DEF OnParameters, Raise, endVars
<1>2. /\ events \in Seq(Updates) /\ events' \in Seq(Updates) /\ Len(events) \in Nat \ {0}
      /\ Len(events') = Len(events) - 1 /\ Head(events) = events[1] /\ events[1] \in Updates
      /\ \A k \in 1..Len(events') : events'[k] = events[k + 1]
  BY <1>1, LenProperties, HeadTailProperties DEF ParInv
<1>3. c \in Params
  BY <1>2, CandidateType DEF ParInv
<1>4. PICK h : Following(h, parameters, events, p_)
  BY <1>1 DEF ParInv
<1>5. h \in [0..Len(events) -> Params] /\ h[1] = c /\ Valid(h[1]) /\ 1 \in 1..Len(events)
  BY <1>2, <1>4 DEF Following, Applies
<1> HIDE DEF c
<1>6. parameters' = c
  BY <1>1, <1>5
<1> DEFINE g == [k \in 0..Len(events') |-> h[k + 1]]
<1>7. g \in [0..Len(events') -> Params]
  BY <1>2, <1>5
<1>8. ASSUME NEW k \in 1..Len(events') PROVE g[k] = Candidate(g[k - 1], events'[k])
  <2>1. k + 1 \in 1..Len(events) /\ k \in 0..Len(events') /\ k - 1 \in 0..Len(events') /\ (k + 1) - 1 = k /\ (k - 1) + 1 = k
    BY <1>2
  <2>2. h[k + 1] = Candidate(h[k], events[k + 1])
    BY <1>4, <2>1 DEF Following, Applies
  <2> QED BY <1>2, <2>1, <2>2
<1>9. g[0] = parameters' /\ g[Len(events')] = p_' /\ \A n \in 0..Len(events') : Valid(g[n])
  BY <1>1, <1>2, <1>4, <1>5, <1>6 DEF Following
<1>10. Following(g, parameters', events', p_')
  BY <1>7, <1>8, <1>9 DEF Following, Applies
<1> QED BY <1>1, <1>2, <1>3, <1>6, <1>10 DEF ParInv

\* The controller's parameters change only with the update it announces.
LEMMA SetPar == ASSUME NEW u \in Updates, ParInv, Set(u) PROVE ParInv'
<1> DEFINE c == Candidate(p_, u)
<1> DEFINE n == Len(events)
<1>1. Valid(c) /\ p_' = c /\ events' = Append(events, u) /\ parameters' = parameters /\ pc' = pc
  BY DEF Set, Announce, endVars
<1>2. /\ events \in Seq(Updates) /\ events' \in Seq(Updates) /\ n \in Nat
      /\ Len(events') = n + 1 /\ events'[n + 1] = u
      /\ \A k \in 1..n : events'[k] = events[k]
  BY <1>1, LenProperties, AppendProperties DEF ParInv
<1>3. c \in Params
  BY CandidateType DEF ParInv
<1>4. ASSUME pc = "spin" PROVE \E g : Following(g, parameters', events', p_')
  <2>1. PICK h : Following(h, parameters, events, p_)
    BY <1>4 DEF ParInv
  <2> DEFINE g == [k \in 0..(n + 1) |-> IF k <= n THEN h[k] ELSE c]
  <2>2. /\ h \in [0..n -> Params] /\ h[0] = parameters /\ h[n] = p_
        /\ \A k \in 1..n : h[k] = Candidate(h[k - 1], events[k])
        /\ \A k \in 0..n : Valid(h[k])
    BY <2>1 DEF Following, Applies
  <2>3. g[n] = p_ /\ g[n + 1] = c /\ \A k \in 0..n : g[k] = h[k]
    BY <1>2, <2>2
  <2>4. g \in [0..(n + 1) -> Params] /\ g[0] = parameters /\ \A k \in 0..(n + 1) : Valid(g[k])
    <3> HIDE DEF c
    <3> QED BY <1>1, <1>2, <1>3, <2>2
  <2> HIDE DEF g
  <2>5. ASSUME NEW k \in 1..(n + 1) PROVE g[k] = Candidate(g[k - 1], events'[k])
    <3>1. CASE k = n + 1
      BY <1>2, <2>3, <3>1
    <3>2. CASE k \in 1..n
      <4>1. k \in 0..n /\ k - 1 \in 0..n
        BY <1>2, <3>2
      <4> QED BY <1>2, <2>2, <2>3, <3>2, <4>1
    <3> QED BY <1>2, <3>1, <3>2
  <2>6. Following(g, parameters', events', p_')
    BY <1>1, <1>2, <2>3, <2>4, <2>5 DEF Following, Applies
  <2> QED BY <2>6
<1> QED BY <1>1, <1>2, <1>3, <1>4 DEF ParInv

\* The other steps leave the parameters and what is announced alone.
LEMMA OtherPar == ASSUME ParInv, UNCHANGED parVars, pc' = "spin" => pc = "spin" PROVE ParInv'
BY DEF ParInv, parVars

\* The invariant holds in every state.
LEMMA ParInvariance == CollectorSpec => []ParInv
<1>1. ParInv /\ [CollectorNext]_collectorVars => ParInv'
  <2> SUFFICES ASSUME ParInv, [CollectorNext]_collectorVars PROVE ParInv'
      OBVIOUS
  <2>1. ASSUME NEW u \in Updates, Set(u) PROVE ParInv'
      BY <2>1, SetPar
  <2>2. ASSUME NEW t \in 0..MaxTime, OnClock(t) PROVE ParInv'
      BY <2>2, OtherPar DEF OnClock, ClockBack, ClockSet, Tick, LostCommands, WindowOver, Finish
  <2>3. ASSUME OnScan \/ OnPose \/ OnCommand \/ RecordFails \/ Interrupt PROVE ParInv'
      BY <2>3, OtherPar DEF OnScan, OnPose, OnCommand, RecordFails, Interrupt, Ready, Raise
  <2>4. ASSUME Save \/ Exit \/ Dies PROVE ParInv'
      BY <2>4, OtherPar DEF Save, SaveAnd, Exit, Dies
  <2>5. ASSUME UNCHANGED collectorVars PROVE ParInv'
      BY <2>5, OtherPar DEF collectorVars, endVars
  <2> QED
      BY <2>1, <2>2, <2>3, <2>4, <2>5, OnParametersPar DEF CollectorNext
<1> QED
    BY <1>1, InitPar, PTL DEF CollectorSpec

\* Once the updates in flight are applied the recorder has the controller's
\* parameters, and all it has on the way are valid: for every set of
\* parameters, values and updates.
THEOREM RecorderFollows == CollectorSpec => []ParametersFollow
BY ParInvariance, ParInvFollows, PTL
=============================================================================
