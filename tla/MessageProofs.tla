--------------------------- MODULE MessageProofs ----------------------------
(***************************************************************************)
(* Messages arrive as they were sent, at each level they pass through, for *)
(* every value of the constants.  A header gives back the number it was    *)
(* made of (Framing.tla); a batch gives back its messages (BatchCodec.tla),*)
(* so that the bridges lose none (Bridge.tla); and packets and connections *)
(* carry whole messages (Transport.tla).                                   *)
(***************************************************************************)
EXTENDS Transport, Bridge, SequenceTheorems, WellFoundedInduction, TLAPS

-----------------------------------------------------------------------------
(* Numbers as bytes.                                                       *)

\* Induction up to a bound, for a set: no smallest number is outside it.
LEMMA BoundedInduction ==
  ASSUME NEW N \in Nat, NEW S, 0 \in S, \A n \in 0..(N - 1) : n \in S => n + 1 \in S
  PROVE  0..N \subseteq S
<1> DEFINE T == (0..N) \ S
<1> DEFINE R == OpToRel(<, Nat)
<1>1. IsWellFoundedOn(R, Nat)
  BY NatLessThanWellFounded DEF OpToRel
<1>2. SUFFICES ASSUME T # {} PROVE FALSE
  OBVIOUS
<1> HIDE DEF R
<1>3. T \subseteq Nat
  OBVIOUS
<1>4. \E x \in T : \A y \in T : ~ (<<y, x>> \in R)
  <2> HIDE DEF T
  <2> QED BY <1>1, <1>2, <1>3, WFMin, Zenon
<1>5. PICK x \in T : \A y \in T : ~ (<<y, x>> \in R)
  BY <1>4
<1>6. x # 0 /\ x \in 0..N /\ x - 1 \in 0..(N - 1)
  BY <1>5
<1>7. x - 1 \in T
  <2>1. x - 1 \in S => (x - 1) + 1 \in S
    BY <1>6
  <2> QED BY <2>1, <1>5, <1>6
<1>8. <<x - 1, x>> \in R
  BY <1>6 DEF R, OpToRel
<1> QED BY <1>5, <1>7, <1>8

\* f solves the recursion that starts with b and goes on with G.
Solves(f, n, b, G) == f[0] = b /\ \A k \in 1..n : f[k] = G[<<k, f[k - 1]>>]

\* A recursion over the numbers up to a bound has a solution.
LEMMA RecursionSolved ==
  ASSUME NEW N \in Nat, NEW T, NEW b \in T, NEW G \in [(1..N) \X T -> T]
  PROVE  \E f \in [0..N -> T] : Solves(f, N, b, G)
<1> DEFINE P == {n \in 0..N : \E f \in [0..n -> T] : Solves(f, n, b, G)}
<1>1. 0 \in P
  <2>1. [k \in 0..0 |-> b] \in [0..0 -> T] /\ Solves([k \in 0..0 |-> b], 0, b, G)
    BY DEF Solves
  <2> QED BY <2>1
<1>2. ASSUME NEW n \in 0..(N - 1), n \in P PROVE n + 1 \in P
  <2>1. PICK f \in [0..n -> T] : Solves(f, n, b, G)
    BY <1>2
  <2> DEFINE g == [k \in 0..(n + 1) |-> IF k = n + 1 THEN G[<<n + 1, f[n]>>] ELSE f[k]]
  <2>2. f[n] \in T /\ n + 1 \in 1..N /\ n + 1 \in 0..N
    BY <2>1
  <2>3. G[<<n + 1, f[n]>>] \in T
    BY <2>2
  <2>4. g \in [0..(n + 1) -> T]
    BY <2>1, <2>3
  <2>5. g[0] = b /\ g[n + 1] = G[<<n + 1, g[(n + 1) - 1]>>]
    BY <2>1 DEF Solves
  <2>6. ASSUME NEW k \in 1..n PROVE g[k] = G[<<k, g[k - 1]>>]
    <3>1. g[k] = f[k] /\ g[k - 1] = f[k - 1]
      OBVIOUS
    <3> QED BY <2>1, <3>1 DEF Solves
  <2>7. Solves(g, n + 1, b, G)
    <3> HIDE DEF g
    <3>1. ASSUME NEW k \in 1..(n + 1) PROVE g[k] = G[<<k, g[k - 1]>>]
      <4>1. k = n + 1 \/ k \in 1..n
        OBVIOUS
      <4> QED BY <2>5, <2>6, <4>1
    <3> QED BY <2>5, <3>1 DEF Solves
  <2> QED BY <2>2, <2>4, <2>7
<1> HIDE DEF P
<1>3. N \in P
  BY <1>1, <1>2, BoundedInduction
<1> QED BY <1>3 DEF P

\* What is left of a number after each shift.
LEMMA ShiftedSteps ==
  ASSUME NEW n \in Nat
  PROVE  /\ shifted(n) \in [0..Width -> Nat] /\ shifted(n)[0] = n
         /\ \A k \in 1..Width : shifted(n)[k] = shifted(n)[k - 1] \div Base
<1> DEFINE Eqn(f) == f = [k \in 0..Width |-> IF k = 0 THEN n ELSE f[k - 1] \div Base]
<1> DEFINE G == [p \in (1..Width) \X Nat |-> p[2] \div Base]
<1>1. Base \in Nat \ {0} /\ Width \in Nat /\ \A x \in Nat : x \div Base \in Nat
  BY FramingAssumption
<1>2. G \in [(1..Width) \X Nat -> Nat] /\ \A k \in 1..Width, x \in Nat : G[<<k, x>>] = x \div Base
  BY <1>1
<1> HIDE DEF G
<1>3. PICK f \in [0..Width -> Nat] : Solves(f, Width, n, G)
  BY <1>1, <1>2, RecursionSolved
<1>4. \A k \in 1..Width : f[k] = f[k - 1] \div Base
  <2> TAKE k \in 1..Width
  <2>1. k - 1 \in 0..Width
    BY <1>1
  <2>2. f[k - 1] \in Nat
    BY <1>3, <2>1
  <2>3. f[k] = G[<<k, f[k - 1]>>]
    BY <1>3 DEF Solves
  <2> QED BY <1>2, <2>2, <2>3
<1>5. Eqn(f)
  <2>1. ASSUME NEW k \in 0..Width PROVE f[k] = IF k = 0 THEN n ELSE f[k - 1] \div Base
    <3>1. k = 0 \/ k \in 1..Width
      BY <1>1
    <3> QED BY <1>3, <1>4, <3>1 DEF Solves
  <2>2. f = [k \in 0..Width |-> f[k]]
    BY <1>3
  <2> QED BY <2>1, <2>2
<1>6. shifted(n) = CHOOSE s : Eqn(s)
  BY DEF shifted
<1>7. Eqn(shifted(n))
  <2> HIDE DEF Eqn
  <2> QED BY <1>5, <1>6, Zenon
<1> DEFINE s == shifted(n)
<1>8. DOMAIN s = 0..Width /\ s[0] = n /\ \A k \in 1..Width : s[k] = s[k - 1] \div Base
  <2> HIDE DEF s
  <2>1. s = [k \in 0..Width |-> IF k = 0 THEN n ELSE s[k - 1] \div Base]
    BY <1>7 DEF s
  <2>2. DOMAIN s = 0..Width /\ s[0] = n
    BY <1>1, <2>1
  <2>3. ASSUME NEW k \in 1..Width PROVE s[k] = s[k - 1] \div Base
    <3>1. k \in 0..Width /\ k # 0
      BY <1>1
    <3> QED BY <2>1, <3>1
  <2> QED BY <2>2, <2>3
<1> DEFINE P == {k \in 0..Width : s[k] \in Nat}
<1> HIDE DEF s
<1>9. 0 \in P
  BY <1>1, <1>8
<1>10. ASSUME NEW k \in 0..(Width - 1), k \in P PROVE k + 1 \in P
  <2>1. k + 1 \in 1..Width /\ (k + 1) - 1 = k
    BY <1>1
  <2>2. s[k + 1] = s[k] \div Base
    BY <1>8, <2>1
  <2>3. s[k] \in Nat
    BY <1>10
  <2>4. s[k + 1] \in Nat
    BY <1>1, <2>2, <2>3
  <2> QED BY <1>1, <2>1, <2>4
<1>11. 0..Width \subseteq P
  <2> HIDE DEF P
  <2> QED BY <1>1, <1>9, <1>10, BoundedInduction
<1>12. s \in [0..Width -> Nat]
  <2>1. s = [k \in 0..Width |-> s[k]]
    BY <1>7 DEF s
  <2> QED BY <1>11, <2>1
<1> QED BY <1>8, <1>12 DEF s

\* Division by the base: what is left and what is cut off.
LEMMA Division ==
  ASSUME NEW a \in Nat
  PROVE  /\ a \div Base \in Nat /\ a % Base \in 0..(Base - 1)
         /\ a = (a \div Base) * Base + (a % Base)
<1>1. Base \in Nat /\ Base > 0
  BY FramingAssumption
<1> QED BY <1>1

\* A smaller number leaves no more.
LEMMA DivisionMonotonic ==
  ASSUME NEW a \in Nat, NEW b \in Nat, a <= b PROVE a \div Base <= b \div Base
<1> DEFINE p == a \div Base
<1> DEFINE q == b \div Base
<1>1. Base \in Nat /\ Base > 0
  BY FramingAssumption
<1>2. p \in Nat /\ q \in Nat
  BY Division
<1>3. p * Base <= a /\ b < q * Base + Base
  <2>1. a = p * Base + (a % Base) /\ a % Base \in 0..(Base - 1)
    BY Division
  <2>2. b = q * Base + (b % Base) /\ b % Base \in 0..(Base - 1)
    BY Division
  <2> HIDE DEF p, q
  <2>3. p * Base \in Nat /\ q * Base \in Nat
    BY <1>1, <1>2
  <2> QED BY <1>1, <2>1, <2>2, <2>3
<1> HIDE DEF p, q
<1>4. SUFFICES ASSUME p > q PROVE FALSE
  BY <1>2 DEF p, q
<1>5. p * Base >= (q + 1) * Base
  BY <1>1, <1>2, <1>4
<1>6. (q + 1) * Base = q * Base + Base /\ q * Base \in Nat /\ p * Base \in Nat
  BY <1>1, <1>2
<1> QED BY <1>1, <1>3, <1>5, <1>6

\* What is at most a number that fits in a header fits too.
LEMMA RepresentableBelow ==
  ASSUME NEW n, Representable(n), NEW m \in Nat, m <= n PROVE Representable(m)
<1> DEFINE s == shifted(n)
<1> DEFINE t == shifted(m)
<1>0. n \in Nat /\ s[Width] = 0 /\ Width \in Nat
  BY FramingAssumption DEF Representable
<1>1. /\ s \in [0..Width -> Nat] /\ s[0] = n
      /\ \A k \in 1..Width : s[k] = s[k - 1] \div Base
  BY <1>0, ShiftedSteps
<1>2. /\ t \in [0..Width -> Nat] /\ t[0] = m
      /\ \A k \in 1..Width : t[k] = t[k - 1] \div Base
  BY ShiftedSteps
<1> HIDE DEF s, t
<1> DEFINE P == {k \in 0..Width : t[k] <= s[k]}
<1>3. 0 \in P
  BY <1>0, <1>1, <1>2
<1>4. ASSUME NEW k \in 0..(Width - 1), k \in P PROVE k + 1 \in P
  <2>1. k + 1 \in 1..Width /\ (k + 1) - 1 = k /\ k \in 0..Width /\ k + 1 \in 0..Width
    BY <1>0
  <2>2. s[k + 1] = s[k] \div Base /\ t[k + 1] = t[k] \div Base
    BY <1>1, <1>2, <2>1
  <2>3. s[k] \in Nat /\ t[k] \in Nat /\ t[k] <= s[k]
    BY <1>1, <1>2, <1>4, <2>1
  <2>4. t[k] \div Base <= s[k] \div Base
    BY <2>3, DivisionMonotonic
  <2> QED BY <2>1, <2>2, <2>4
<1>5. Width \in P
  <2> HIDE DEF P
  <2> QED BY <1>0, <1>3, <1>4, BoundedInduction
<1>6. t[Width] = 0
  BY <1>0, <1>2, <1>5
<1> QED BY <1>6 DEF t, Representable

\* A header is as many bytes as it says.
LEMMA DigitsType ==
  ASSUME NEW n \in Nat
  PROVE  digits(n) \in Seq(0..(Base - 1)) /\ digits(n) \in Seq(Nat) /\ Len(digits(n)) = Width
<1>1. Width \in Nat /\ Base \in Nat
  BY FramingAssumption
<1>2. ASSUME NEW i \in 1..Width PROVE shifted(n)[Width - i] % Base \in 0..(Base - 1)
  <2>1. Width - i \in 0..Width
    BY <1>1
  <2>2. shifted(n)[Width - i] \in Nat
    BY <2>1, ShiftedSteps
  <2> QED BY <2>2, Division
<1>3. digits(n) \in [1..Width -> 0..(Base - 1)]
  BY <1>2 DEF digits
<1>4. digits(n) \in Seq(0..(Base - 1)) /\ Len(digits(n)) = Width
  BY <1>1, <1>3
<1>5. digits(n) \in [1..Width -> Nat]
  BY <1>1, <1>3
<1>6. digits(n) \in Seq(Nat)
  BY <1>1, <1>5
<1> QED BY <1>4, <1>6

\* What encode puts in a header is what decode reads from it, for all numbers
\* that fit in one (framing.hpp; put and get of controller_protocol.hpp).
THEOREM HeaderRoundTrip ==
  ASSUME NEW n, Representable(n) PROVE number(digits(n)) = n
<1> DEFINE s == shifted(n)
<1> DEFINE d == digits(n)
<1> DEFINE Eqn(f) == f = [i \in 0..Width |-> IF i = 0 THEN 0 ELSE f[i - 1] * Base + d[i]]
<1> DEFINE v == [i \in 0..Width |-> s[Width - i]]
<1>0. n \in Nat /\ s[Width] = 0 /\ Width \in Nat
  BY FramingAssumption DEF Representable
<1>1. /\ s \in [0..Width -> Nat] /\ s[0] = n
      /\ \A k \in 1..Width : s[k] = s[k - 1] \div Base
  BY <1>0, ShiftedSteps
<1>2. \A i \in 1..Width : d[i] = s[Width - i] % Base
  BY DEF digits
<1> HIDE DEF s, d
<1>3. v[0] = 0 /\ v[Width] = n
  BY <1>0, <1>1
<1>4. ASSUME NEW i \in 1..Width PROVE v[i] = v[i - 1] * Base + d[i]
  <2> DEFINE k == Width - i
  <2>1. k \in 0..Width /\ k + 1 \in 1..Width /\ (k + 1) - 1 = k /\ Width - (i - 1) = k + 1 /\ i - 1 \in 0..Width
    BY <1>0
  <2>2. s[k + 1] = s[k] \div Base /\ s[k] \in Nat
    BY <1>1, <2>1
  <2>3. s[k] = (s[k] \div Base) * Base + (s[k] % Base)
    BY <2>2, Division
  <2>4. v[i] = s[k] /\ v[i - 1] = s[k + 1]
    BY <1>0, <2>1
  <2> QED BY <1>2, <2>2, <2>3, <2>4
<1>5. Eqn(v)
  <2>1. v = [i \in 0..Width |-> v[i]]
    OBVIOUS
  <2> HIDE DEF v
  <2>2. ASSUME NEW i \in 0..Width PROVE v[i] = IF i = 0 THEN 0 ELSE v[i - 1] * Base + d[i]
    <3>1. i = 0 \/ i \in 1..Width
      BY <1>0
    <3> QED BY <1>3, <1>4, <3>1
  <2> QED BY <2>1, <2>2
<1> DEFINE c == CHOOSE f : Eqn(f)
<1>6. number(d) = c[Width]
  BY DEF number
<1>7. Eqn(c)
  <2> HIDE DEF Eqn
  <2> QED BY <1>5, Zenon
<1> DEFINE P == {i \in 0..Width : c[i] = v[i]}
<1> HIDE DEF c, v
<1>8. 0 \in P
  BY <1>0, <1>3, <1>7
<1>9. ASSUME NEW i \in 0..(Width - 1), i \in P PROVE i + 1 \in P
  <2>1. i + 1 \in 1..Width /\ i + 1 \in 0..Width /\ (i + 1) - 1 = i /\ i + 1 # 0
    BY <1>0
  <2>2. c[i + 1] = c[(i + 1) - 1] * Base + d[i + 1]
    BY <1>7, <2>1
  <2>3. v[i + 1] = v[(i + 1) - 1] * Base + d[i + 1]
    BY <1>4, <2>1
  <2>4. c[i] = v[i]
    BY <1>9
  <2> QED BY <2>1, <2>2, <2>3, <2>4
<1>10. Width \in P
  <2> HIDE DEF P
  <2> QED BY <1>0, <1>8, <1>9, BoundedInduction
<1> QED BY <1>3, <1>6, <1>10 DEF d

-----------------------------------------------------------------------------
(* Batches.                                                                *)

\* Byte sequences: messages, frames and packets.
Bytes == Seq(Nat)

\* t[k] is the size of the first k messages.
Counts(t, msgs) ==
  /\ t \in [0..Len(msgs) -> Nat] /\ t[0] = 0
  /\ \A k \in 1..Len(msgs) : t[k] = t[k - 1] + Len(msgs[k])

\* Messages have lengths.
LEMMA MessageLength ==
  ASSUME NEW msgs \in Seq(Bytes)
  PROVE  Len(msgs) \in Nat /\ \A k \in 1..Len(msgs) : msgs[k] \in Bytes /\ Len(msgs[k]) \in Nat
<1>1. Len(msgs) \in Nat /\ \A k \in 1..Len(msgs) : msgs[k] \in Bytes
  BY LenProperties, ElementOfSeq
<1>2. \A m \in Bytes : Len(m) \in Nat
  BY LenProperties DEF Bytes
<1> QED BY <1>1, <1>2

\* There are such sizes,
LEMMA CountsExist ==
  ASSUME NEW msgs \in Seq(Bytes) PROVE \E t : Counts(t, msgs)
<1> DEFINE N == Len(msgs)
<1> DEFINE G == [p \in (1..N) \X Nat |-> p[2] + Len(msgs[p[1]])]
<1>1. N \in Nat /\ \A k \in 1..N : Len(msgs[k]) \in Nat
  BY MessageLength
<1>2. G \in [(1..N) \X Nat -> Nat] /\ \A k \in 1..N, x \in Nat : G[<<k, x>>] = x + Len(msgs[k])
  BY <1>1
<1> HIDE DEF G
<1>3. PICK f \in [0..N -> Nat] : Solves(f, N, 0, G)
  BY <1>1, <1>2, RecursionSolved
<1>4. ASSUME NEW k \in 1..N PROVE f[k] = f[k - 1] + Len(msgs[k])
  <2>1. k - 1 \in 0..N
    BY <1>1
  <2>2. f[k - 1] \in Nat /\ f[k] = G[<<k, f[k - 1]>>]
    BY <1>3, <2>1 DEF Solves
  <2> QED BY <1>2, <2>2
<1>5. Counts(f, msgs)
  BY <1>3, <1>4 DEF Counts, Solves
<1> QED BY <1>5

\* and the last of them is what bytes computes.
LEMMA BytesIs ==
  ASSUME NEW msgs \in Seq(Bytes), NEW t, Counts(t, msgs) PROVE bytes(msgs) = t[Len(msgs)]
<1> DEFINE N == Len(msgs)
<1> DEFINE Eqn(f) == f = [i \in 0..N |-> IF i = 0 THEN 0 ELSE f[i - 1] + Len(msgs[i])]
<1> DEFINE c == CHOOSE f : Eqn(f)
<1>1. N \in Nat
  BY MessageLength
<1>2. t \in [0..N -> Nat] /\ t[0] = 0 /\ \A k \in 1..N : t[k] = t[k - 1] + Len(msgs[k])
  BY DEF Counts
<1>3. bytes(msgs) = c[N]
  BY DEF bytes
<1>4. Eqn(t)
  <2>1. ASSUME NEW i \in 0..N PROVE t[i] = IF i = 0 THEN 0 ELSE t[i - 1] + Len(msgs[i])
    <3>1. i = 0 \/ i \in 1..N
      BY <1>1
    <3> QED BY <1>2, <3>1
  <2>2. t = [i \in 0..N |-> t[i]]
    BY <1>2
  <2> QED BY <2>1, <2>2
<1>5. Eqn(c)
  <2> HIDE DEF Eqn
  <2> QED BY <1>4, Zenon
<1> DEFINE P == {i \in 0..N : c[i] = t[i]}
<1> HIDE DEF c, N
<1>6. 0 \in P
  BY <1>1, <1>2, <1>5
<1>7. ASSUME NEW i \in 0..(N - 1), i \in P PROVE i + 1 \in P
  <2>1. i + 1 \in 1..N /\ i + 1 \in 0..N /\ (i + 1) - 1 = i /\ i + 1 # 0
    BY <1>1
  <2>2. c[i + 1] = c[(i + 1) - 1] + Len(msgs[i + 1])
    BY <1>5, <2>1
  <2>3. t[i + 1] = t[(i + 1) - 1] + Len(msgs[i + 1])
    BY <1>2, <2>1
  <2>4. c[i] = t[i]
    BY <1>7
  <2> QED BY <2>1, <2>2, <2>3, <2>4
<1>8. N \in P
  <2> HIDE DEF P
  <2>1. 0..N \subseteq P
    BY <1>1, <1>6, <1>7, BoundedInduction
  <2> QED BY <1>1, <2>1
<1> QED BY <1>3, <1>8 DEF N

\* The size of the first messages of a batch.
LEMMA BytesOfPrefix ==
  ASSUME NEW msgs \in Seq(Bytes), NEW t, Counts(t, msgs), NEW k \in 0..Len(msgs)
  PROVE  SubSeq(msgs, 1, k) \in Seq(Bytes) /\ bytes(SubSeq(msgs, 1, k)) = t[k]
<1> DEFINE m == SubSeq(msgs, 1, k)
<1> DEFINE u == [i \in 0..k |-> t[i]]
<1>1. Len(msgs) \in Nat /\ k \in Nat /\ \A i \in 1..Len(msgs) : msgs[i] \in Bytes
  BY MessageLength
<1>2. m \in Seq(Bytes) /\ Len(m) = k /\ \A i \in 1..k : m[i] = msgs[i]
  BY <1>1, SubSeqProperties
<1> HIDE DEF m
<1>3. /\ t \in [0..Len(msgs) -> Nat] /\ t[0] = 0
      /\ \A i \in 1..Len(msgs) : t[i] = t[i - 1] + Len(msgs[i])
  BY DEF Counts
<1>4. u \in [0..k -> Nat] /\ u[0] = 0
  BY <1>1, <1>3
<1>5. ASSUME NEW i \in 1..k PROVE u[i] = u[i - 1] + Len(m[i])
  <2>1. i \in 1..Len(msgs) /\ i \in 0..k /\ i - 1 \in 0..k
    BY <1>1
  <2> QED BY <1>2, <1>3, <2>1
<1>6. u[k] = t[k]
  BY <1>1
<1> HIDE DEF u
<1>7. Counts(u, m)
  BY <1>2, <1>4, <1>5 DEF Counts
<1> QED BY <1>2, <1>6, <1>7, BytesIs DEF m

\* One message more.
LEMMA BytesAppend ==
  ASSUME NEW msgs \in Seq(Bytes), NEW f \in Bytes
  PROVE  bytes(msgs) \in Nat /\ bytes(Append(msgs, f)) = bytes(msgs) + Len(f)
<1> DEFINE a == Append(msgs, f)
<1> DEFINE n == Len(msgs)
<1>1. n \in Nat /\ a \in Seq(Bytes) /\ Len(a) = n + 1 /\ a[n + 1] = f /\ \A i \in 1..n : a[i] = msgs[i]
  BY MessageLength, AppendProperties
<1> HIDE DEF a
<1>2. PICK t : Counts(t, a)
  BY <1>1, CountsExist
<1>3. bytes(a) = t[n + 1] /\ t[n + 1] = t[n] + Len(f) /\ t[n] \in Nat
  <2>1. n + 1 \in 1..(n + 1) /\ (n + 1) - 1 = n /\ n \in 0..(n + 1)
    BY <1>1
  <2> QED BY <1>1, <1>2, <2>1, BytesIs DEF Counts
<1>4. SubSeq(a, 1, n) = msgs
  <2>1. SubSeq(a, 1, n) \in Seq(Bytes) /\ Len(SubSeq(a, 1, n)) = n /\ \A i \in 1..n : SubSeq(a, 1, n)[i] = a[i]
    <3>1. \A i \in 1..n : a[i] \in Bytes
      BY <1>1, MessageLength
    <3> QED BY <1>1, <3>1, SubSeqProperties
  <2> QED BY <1>1, <2>1, SeqEqual
<1>5. bytes(msgs) = t[n]
  <2>1. n \in 0..Len(a)
    BY <1>1
  <2> QED BY <1>1, <1>2, <1>4, <2>1, BytesOfPrefix
<1> QED BY <1>3, <1>5 DEF a

\* One message.
LEMMA BytesOfOne ==
  ASSUME NEW f \in Bytes PROVE bytes(<<>>) = 0 /\ bytes(<<f>>) = Len(f)
<1>1. <<>> \in Seq(Bytes) /\ Len(<<>>) = 0 /\ Append(<<>>, f) = <<f>>
  OBVIOUS
<1>2. PICK t : Counts(t, <<>>)
  BY <1>1, CountsExist
<1>3. bytes(<<>>) = 0
  BY <1>1, <1>2, BytesIs DEF Counts
<1>4. Len(f) \in Nat
  BY DEF Bytes
<1>5. bytes(Append(<<>>, f)) = bytes(<<>>) + Len(f)
  BY <1>1, BytesAppend, Zenon
<1> QED BY <1>1, <1>3, <1>4, <1>5

\* e[k] is the packet of a batch after its first k messages.
Builds(e, msgs) ==
  /\ e \in [0..Len(msgs) -> Bytes] /\ e[0] = digits(Len(msgs))
  /\ \A k \in 1..Len(msgs) : e[k] = (e[k - 1] \o digits(Len(msgs[k]))) \o msgs[k]

\* Numbers are put at the end of a packet.
LEMMA PutType ==
  ASSUME NEW data \in Bytes, NEW n \in Nat
  PROVE  put(data, n) \in Bytes /\ put(data, n) = data \o digits(n) /\ put(<<>>, n) = digits(n)
<1>1. digits(n) \in Bytes
  BY DigitsType DEF Bytes
<1>2. data \o digits(n) \in Bytes /\ <<>> \o digits(n) = digits(n)
  BY <1>1, ConcatProperties, ConcatEmptySeq DEF Bytes
<1> QED BY <1>2 DEF put

\* There are such packets,
LEMMA BuildsExist ==
  ASSUME NEW msgs \in Seq(Bytes) PROVE \E e : Builds(e, msgs)
<1> DEFINE N == Len(msgs)
<1> DEFINE F(k, x) == (x \o digits(Len(msgs[k]))) \o msgs[k]
<1> DEFINE G == [p \in (1..N) \X Bytes |-> F(p[1], p[2])]
<1>1. N \in Nat /\ \A k \in 1..N : Len(msgs[k]) \in Nat /\ msgs[k] \in Bytes
  BY MessageLength
<1>2. ASSUME NEW k \in 1..N, NEW x \in Bytes PROVE F(k, x) \in Bytes
  <2>1. digits(Len(msgs[k])) \in Bytes
    BY <1>1, DigitsType DEF Bytes
  <2>2. x \o digits(Len(msgs[k])) \in Bytes
    BY <2>1, ConcatProperties DEF Bytes
  <2> QED BY <1>1, <2>2, ConcatProperties DEF Bytes
<1> HIDE DEF F
<1>3. G \in [(1..N) \X Bytes -> Bytes] /\ \A k \in 1..N, x \in Bytes : G[<<k, x>>] = F(k, x)
  BY <1>2
<1> HIDE DEF G
<1>4. digits(N) \in Bytes
  BY <1>1, DigitsType DEF Bytes
<1>5. PICK f \in [0..N -> Bytes] : Solves(f, N, digits(N), G)
  BY <1>1, <1>3, <1>4, RecursionSolved
<1>6. ASSUME NEW k \in 1..N PROVE f[k] = F(k, f[k - 1])
  <2>1. k - 1 \in 0..N
    BY <1>1
  <2>2. f[k - 1] \in Bytes /\ f[k] = G[<<k, f[k - 1]>>]
    BY <1>5, <2>1 DEF Solves
  <2> QED BY <1>3, <2>2
<1>7. Builds(f, msgs)
  BY <1>5, <1>6 DEF Builds, Solves, F
<1> QED BY <1>7

\* and the last of them is what encode makes.
LEMMA EncodeIs ==
  ASSUME NEW msgs \in Seq(Bytes), NEW e, Builds(e, msgs) PROVE encode(msgs) = e[Len(msgs)]
<1> DEFINE N == Len(msgs)
<1> DEFINE Eqn(f) ==
      f = [i \in 0..N |-> IF i = 0 THEN put(<<>>, N) ELSE put(f[i - 1], Len(msgs[i])) \o msgs[i]]
<1> DEFINE c == CHOOSE f : Eqn(f)
<1>1. N \in Nat /\ \A k \in 1..N : Len(msgs[k]) \in Nat
  BY MessageLength
<1>2. encode(msgs) = c[N]
  BY DEF encode
<1>3. e \in [0..N -> Bytes] /\ e[0] = put(<<>>, N)
  <2>1. <<>> \in Bytes
    BY DEF Bytes
  <2> QED BY <1>1, <2>1, PutType DEF Builds
<1>4. ASSUME NEW k \in 1..N PROVE e[k] = put(e[k - 1], Len(msgs[k])) \o msgs[k]
  <2>1. k - 1 \in 0..N
    BY <1>1
  <2>2. e[k - 1] \in Bytes
    BY <1>3, <2>1
  <2>3. put(e[k - 1], Len(msgs[k])) = e[k - 1] \o digits(Len(msgs[k]))
    BY DEF put
  <2> QED BY <2>3 DEF Builds
<1>5. Eqn(e)
  <2>1. ASSUME NEW i \in 0..N
        PROVE  e[i] = IF i = 0 THEN put(<<>>, N) ELSE put(e[i - 1], Len(msgs[i])) \o msgs[i]
    <3>1. i = 0 \/ i \in 1..N
      BY <1>1
    <3> QED BY <1>3, <1>4, <3>1
  <2>2. e = [i \in 0..N |-> e[i]]
    BY <1>3
  <2> QED BY <2>1, <2>2
<1>6. Eqn(c)
  <2> HIDE DEF Eqn
  <2> QED BY <1>5, Zenon
<1> DEFINE P == {i \in 0..N : c[i] = e[i]}
<1> HIDE DEF c, N
<1>7. 0 \in P
  BY <1>1, <1>3, <1>6
<1>8. ASSUME NEW i \in 0..(N - 1), i \in P PROVE i + 1 \in P
  <2>1. i + 1 \in 1..N /\ i + 1 \in 0..N /\ (i + 1) - 1 = i /\ i + 1 # 0
    BY <1>1
  <2>2. c[i + 1] = put(c[(i + 1) - 1], Len(msgs[i + 1])) \o msgs[i + 1]
    BY <1>6, <2>1
  <2>3. e[i + 1] = put(e[(i + 1) - 1], Len(msgs[i + 1])) \o msgs[i + 1]
    BY <1>4, <2>1
  <2>4. c[i] = e[i]
    BY <1>8
  <2> QED BY <2>1, <2>2, <2>3, <2>4
<1>9. N \in P
  <2> HIDE DEF P
  <2>1. 0..N \subseteq P
    BY <1>1, <1>7, <1>8, BoundedInduction
  <2> QED BY <1>1, <2>1
<1> QED BY <1>2, <1>9 DEF N

\* b goes on from a.
Extends(b, a) == Len(a) <= Len(b) /\ \A i \in 1..Len(a) : b[i] = a[i]

\* m stands in b after its first n bytes.
Holds(b, n, m) == n + Len(m) <= Len(b) /\ \A i \in 1..Len(m) : b[n + i] = m[i]

\* A message is put after the packet so far, its length before it.
LEMMA BuildStep ==
  ASSUME NEW a \in Bytes, NEW d \in Bytes, NEW m \in Bytes
  PROVE  LET b == (a \o d) \o m
         IN  /\ b \in Bytes /\ Len(b) = Len(a) + Len(d) + Len(m) /\ Extends(b, a)
             /\ Holds(b, Len(a), d) /\ Holds(b, Len(a) + Len(d), m)
<1> DEFINE ad == a \o d
<1> DEFINE b == ad \o m
<1>0. Len(a) \in Nat /\ Len(d) \in Nat /\ Len(m) \in Nat
  BY LenProperties DEF Bytes
<1>1. /\ ad \in Bytes /\ Len(ad) = Len(a) + Len(d)
      /\ \A i \in 1..(Len(a) + Len(d)) : ad[i] = IF i <= Len(a) THEN a[i] ELSE d[i - Len(a)]
  BY ConcatProperties DEF Bytes
<1> HIDE DEF ad
<1>2. /\ b \in Bytes /\ Len(b) = Len(ad) + Len(m)
      /\ \A i \in 1..(Len(ad) + Len(m)) : b[i] = IF i <= Len(ad) THEN ad[i] ELSE m[i - Len(ad)]
  <2>1. ad \in Seq(Nat) /\ m \in Seq(Nat)
    BY <1>1 DEF Bytes
  <2> QED BY <2>1, ConcatProperties DEF Bytes
<1> HIDE DEF b
<1>3. Extends(b, a)
  BY <1>0, <1>1, <1>2 DEF Extends
<1>4. Holds(b, Len(a), d)
  <2>1. ASSUME NEW i \in 1..Len(d) PROVE b[Len(a) + i] = d[i]
    <3>1. /\ Len(a) + i \in 1..(Len(a) + Len(d)) /\ Len(a) + i \in 1..(Len(ad) + Len(m))
          /\ Len(a) + i <= Len(ad) /\ ~(Len(a) + i <= Len(a)) /\ (Len(a) + i) - Len(a) = i
      BY <1>0, <1>1
    <3> QED BY <1>1, <1>2, <3>1
  <2> QED BY <1>0, <1>1, <1>2, <2>1 DEF Holds
<1>5. Holds(b, Len(a) + Len(d), m)
  <2>1. ASSUME NEW i \in 1..Len(m) PROVE b[(Len(a) + Len(d)) + i] = m[i]
    <3>1. /\ Len(ad) + i \in 1..(Len(ad) + Len(m)) /\ ~(Len(ad) + i <= Len(ad)) /\ (Len(ad) + i) - Len(ad) = i
      BY <1>0, <1>1
    <3> QED BY <1>1, <1>2, <3>1
  <2> QED BY <1>0, <1>1, <1>2, <2>1 DEF Holds
<1>6. Len(b) = Len(a) + Len(d) + Len(m)
  BY <1>0, <1>1, <1>2
<1> QED BY <1>2, <1>3, <1>4, <1>5, <1>6 DEF b, ad

\* What was put stays where it is.
LEMMA BuildExtends ==
  ASSUME NEW msgs \in Seq(Bytes), NEW e, Builds(e, msgs), NEW j \in 0..Len(msgs)
  PROVE  Extends(e[Len(msgs)], e[j])
<1> DEFINE N == Len(msgs)
<1> DEFINE P == {k \in 0..N : k >= j => Extends(e[k], e[j])}
<1>1. N \in Nat /\ \A k \in 1..N : Len(msgs[k]) \in Nat /\ msgs[k] \in Bytes
  BY MessageLength
<1>2. \A k \in 0..N : e[k] \in Bytes /\ Len(e[k]) \in Nat
  <2>1. \A k \in 0..N : e[k] \in Bytes
    BY DEF Builds
  <2> QED BY <2>1, LenProperties DEF Bytes
<1>3. Extends(e[j], e[j])
  BY <1>2 DEF Extends
<1>4. 0 \in P
  BY <1>1, <1>3
<1>5. ASSUME NEW k \in 0..(N - 1), k \in P PROVE k + 1 \in P
  <2>1. k + 1 \in 1..N /\ k \in 0..N /\ (k + 1) - 1 = k /\ k + 1 \in 0..N
    BY <1>1
  <2>2. e[k + 1] = (e[k] \o digits(Len(msgs[k + 1]))) \o msgs[k + 1]
    BY <2>1 DEF Builds
  <2>3. Extends(e[k + 1], e[k])
    <3>1. digits(Len(msgs[k + 1])) \in Bytes
      BY <1>1, <2>1, DigitsType DEF Bytes
    <3> QED BY <1>1, <1>2, <2>1, <2>2, <3>1, BuildStep
  <2>4. CASE k >= j
    <3>1. Extends(e[k], e[j])
      BY <1>5, <2>4
    <3>2. Extends(e[k + 1], e[j])
      BY <1>2, <2>1, <2>3, <3>1 DEF Extends
    <3> QED BY <2>1, <3>2
  <2>5. CASE k < j
    <3>1. k + 1 >= j => k + 1 = j
      BY <1>1, <2>5
    <3> QED BY <1>3, <2>1, <3>1
  <2> QED BY <1>1, <2>4, <2>5
<1>6. N \in P
  <2> HIDE DEF P, N
  <2>1. 0..N \subseteq P
    BY <1>1, <1>4, <1>5, BoundedInduction
  <2> QED BY <1>1, <2>1
<1> QED BY <1>1, <1>6

\* What is left of a packet after its first n bytes.
Skip(d, n) == SubSeq(d, n + 1, Len(d))

\* What is left after n bytes.
LEMMA SkipType ==
  ASSUME NEW d \in Bytes, NEW n \in 0..Len(d)
  PROVE  /\ Skip(d, n) \in Bytes /\ Len(Skip(d, n)) = Len(d) - n
         /\ \A i \in 1..(Len(d) - n) : Skip(d, n)[i] = d[n + i]
<1>1. Len(d) \in Nat /\ \A i \in 1..Len(d) : d[i] \in Nat
  BY LenProperties, ElementOfSeq DEF Bytes
<1>2. n + 1 \in Int /\ Len(d) \in Int /\ \A i \in (n + 1)..Len(d) : d[i] \in Nat
  BY <1>1
<1>3. /\ Skip(d, n) \in Seq(Nat)
      /\ Len(Skip(d, n)) = IF n + 1 <= Len(d) THEN Len(d) - (n + 1) + 1 ELSE 0
      /\ \A i \in 1..(Len(d) - (n + 1) + 1) : Skip(d, n)[i] = d[(n + 1) + i - 1]
  BY <1>2, SubSeqProperties DEF Skip
<1>4. Len(Skip(d, n)) = Len(d) - n
  BY <1>1, <1>3
<1>5. ASSUME NEW i \in 1..(Len(d) - n) PROVE Skip(d, n)[i] = d[n + i]
  <2>1. i \in 1..(Len(d) - (n + 1) + 1) /\ (n + 1) + i - 1 = n + i
    BY <1>1
  <2> QED BY <1>3, <2>1
<1> QED BY <1>3, <1>4, <1>5 DEF Bytes

\* Skipping twice.
LEMMA SkipSkip ==
  ASSUME NEW d \in Bytes, NEW n \in 0..Len(d), NEW k \in 0..(Len(d) - n)
  PROVE  Skip(Skip(d, n), k) = Skip(d, n + k)
<1> DEFINE a == Skip(d, n)
<1> DEFINE b == Skip(a, k)
<1> DEFINE c == Skip(d, n + k)
<1>0. Len(d) \in Nat /\ n + k \in 0..Len(d)
  BY LenProperties DEF Bytes
<1>1. a \in Bytes /\ Len(a) = Len(d) - n /\ \A i \in 1..(Len(d) - n) : a[i] = d[n + i]
  BY SkipType
<1> HIDE DEF a
<1>2. b \in Bytes /\ Len(b) = Len(a) - k /\ \A i \in 1..(Len(a) - k) : b[i] = a[k + i]
  BY <1>0, <1>1, SkipType
<1>3. c \in Bytes /\ Len(c) = Len(d) - (n + k) /\ \A i \in 1..(Len(d) - (n + k)) : c[i] = d[(n + k) + i]
  BY <1>0, SkipType
<1> HIDE DEF b, c
<1>4. Len(b) = Len(c)
  BY <1>0, <1>1, <1>2, <1>3
<1>5. ASSUME NEW i \in 1..Len(b) PROVE b[i] = c[i]
  <2>1. i \in 1..(Len(a) - k) /\ k + i \in 1..(Len(d) - n) /\ n + (k + i) = (n + k) + i /\ i \in 1..(Len(d) - (n + k))
    BY <1>0, <1>1, <1>2
  <2> QED BY <1>1, <1>2, <1>3, <2>1
<1>6. b = c
  BY <1>2, <1>3, <1>4, <1>5, SeqEqual DEF Bytes
<1> QED BY <1>6 DEF a, b, c

\* Reading what stands in a packet.
LEMMA TakeHeld ==
  ASSUME NEW d \in Bytes, NEW n \in 0..Len(d), NEW m \in Bytes, Holds(d, n, m)
  PROVE  SubSeq(Skip(d, n), 1, Len(m)) = m
<1> DEFINE a == Skip(d, n)
<1> DEFINE b == SubSeq(a, 1, Len(m))
<1>0. Len(d) \in Nat /\ Len(m) \in Nat /\ Len(m) <= Len(d) - n
  BY LenProperties DEF Bytes, Holds
<1>1. a \in Seq(Nat) /\ Len(a) = Len(d) - n /\ \A i \in 1..(Len(d) - n) : a[i] = d[n + i]
  BY SkipType DEF Bytes
<1> HIDE DEF a
<1>2. \A i \in 1..Len(m) : a[i] \in Nat
  BY <1>0, <1>1, ElementOfSeq
<1>3. b \in Seq(Nat) /\ Len(b) = Len(m) /\ \A i \in 1..Len(m) : b[i] = a[i]
  BY <1>0, <1>2, SubSeqProperties
<1> HIDE DEF b
<1>4. ASSUME NEW i \in 1..Len(m) PROVE b[i] = m[i]
  <2>1. i \in 1..(Len(d) - n)
    BY <1>0
  <2>2. a[i] = d[n + i] /\ d[n + i] = m[i] /\ b[i] = a[i]
    BY <1>1, <1>3, <2>1 DEF Holds
  <2> QED BY <2>2
<1>5. b = m
  BY <1>3, <1>4, SeqEqual DEF Bytes
<1> QED BY <1>5 DEF a, b

\* The sizes of the first messages only grow.
LEMMA CountsGrow ==
  ASSUME NEW msgs \in Seq(Bytes), NEW t, Counts(t, msgs), NEW j \in 0..Len(msgs)
  PROVE  t[j] <= t[Len(msgs)]
<1> DEFINE N == Len(msgs)
<1> DEFINE P == {k \in 0..N : k >= j => t[j] <= t[k]}
<1>1. N \in Nat /\ \A k \in 1..N : Len(msgs[k]) \in Nat
  BY MessageLength
<1>2. (\A k \in 0..N : t[k] \in Nat) /\ \A k \in 1..N : t[k] = t[k - 1] + Len(msgs[k])
  BY DEF Counts
<1>3. 0 \in P
  BY <1>1, <1>2
<1>4. ASSUME NEW k \in 0..(N - 1), k \in P PROVE k + 1 \in P
  <2>1. k + 1 \in 1..N /\ k \in 0..N /\ (k + 1) - 1 = k /\ k + 1 \in 0..N
    BY <1>1
  <2>2. t[k + 1] = t[k] + Len(msgs[k + 1]) /\ Len(msgs[k + 1]) \in Nat /\ t[k] \in Nat /\ t[j] \in Nat
    BY <1>1, <1>2, <2>1
  <2>3. k + 1 >= j => k + 1 = j \/ k >= j
    BY <1>1
  <2>4. k + 1 >= j => t[j] <= t[k + 1]
    BY <1>4, <2>2, <2>3
  <2> QED BY <2>1, <2>4
<1>5. N \in P
  <2> HIDE DEF P, N
  <2>1. 0..N \subseteq P
    BY <1>1, <1>3, <1>4, BoundedInduction
  <2> QED BY <1>1, <2>1
<1> QED BY <1>1, <1>5

\* The decoder after k messages of the packet e ends in.
After(e, msgs, k) ==
  [ok |-> TRUE, data |-> Skip(e[Len(msgs)], Len(e[k])), msgs |-> SubSeq(msgs, 1, k)]

\* Where the k-th message and its length are in the packet.
LEMMA MessagePlace ==
  ASSUME NEW msgs \in Seq(Bytes), NEW e, Builds(e, msgs), NEW k \in 1..Len(msgs)
  PROVE  LET d == e[Len(msgs)]
             h == digits(Len(msgs[k]))
         IN  /\ d \in Bytes /\ Len(e[k - 1]) \in 0..Len(d) /\ Len(e[k]) \in 0..Len(d)
             /\ Len(e[k]) = Len(e[k - 1]) + Width + Len(msgs[k])
             /\ h \in Bytes /\ Len(h) = Width
             /\ Holds(d, Len(e[k - 1]), h) /\ Holds(d, Len(e[k - 1]) + Width, msgs[k])
<1> DEFINE d == e[Len(msgs)]
<1> DEFINE h == digits(Len(msgs[k]))
<1> DEFINE a == e[k - 1]
<1> DEFINE b == e[k]
<1> DEFINE m == msgs[k]
<1>0. Len(msgs) \in Nat /\ m \in Bytes /\ Len(m) \in Nat /\ k - 1 \in 0..Len(msgs) /\ k \in 0..Len(msgs) /\ Len(msgs) \in 0..Len(msgs)
  BY MessageLength
<1>1. h \in Bytes /\ Len(h) = Width
  BY <1>0, DigitsType DEF Bytes
<1>2. a \in Bytes /\ d \in Bytes /\ b = (a \o h) \o m
  BY <1>0 DEF Builds
<1>3. Extends(d, b)
  BY <1>0, BuildExtends
<1> HIDE DEF d, h, a, b, m
<1>4. /\ b \in Bytes /\ Len(b) = Len(a) + Len(h) + Len(m)
      /\ Holds(b, Len(a), h) /\ Holds(b, Len(a) + Len(h), m)
  BY <1>0, <1>1, <1>2, BuildStep
<1>5. Len(a) \in Nat /\ Len(b) \in Nat /\ Len(d) \in Nat /\ Width \in Nat
  BY <1>2, <1>4, FramingAssumption, LenProperties DEF Bytes
<1>6. Len(a) \in 0..Len(d) /\ Len(b) \in 0..Len(d) /\ Len(b) = Len(a) + Width + Len(m)
  BY <1>0, <1>1, <1>3, <1>4, <1>5 DEF Extends
<1>7. Holds(d, Len(a), h)
  <2>1. ASSUME NEW i \in 1..Len(h) PROVE d[Len(a) + i] = h[i]
    <3>1. Len(a) + i \in 1..Len(b)
      BY <1>0, <1>1, <1>4, <1>5
    <3> QED BY <1>3, <1>4, <3>1 DEF Extends, Holds
  <2> QED BY <1>0, <1>1, <1>6, <2>1 DEF Holds
<1>8. Holds(d, Len(a) + Width, m)
  <2>1. ASSUME NEW i \in 1..Len(m) PROVE d[(Len(a) + Width) + i] = m[i]
    <3>1. (Len(a) + Width) + i \in 1..Len(b)
      BY <1>0, <1>1, <1>4, <1>5
    <3>2. b[(Len(a) + Width) + i] = m[i]
      BY <1>1, <1>4 DEF Holds
    <3> QED BY <1>3, <3>1, <3>2 DEF Extends
  <2> QED BY <1>0, <1>1, <1>5, <1>6, <2>1 DEF Holds
<1> QED BY <1>1, <1>2, <1>6, <1>7, <1>8 DEF d, h, a, b, m

\* The decoder reads the next message of a batch within the limits.
LEMMA MessageReads ==
  ASSUME NEW msgs \in Seq(Bytes), NEW e, Builds(e, msgs), bytes(msgs) <= max_bytes,
         NEW k \in 1..Len(msgs)
  PROVE  Message(After(e, msgs, k - 1)) = After(e, msgs, k)
<1> DEFINE d == e[Len(msgs)]
<1> DEFINE m == msgs[k]
<1> DEFINE h == digits(Len(m))
<1> DEFINE n == Len(e[k - 1])
<1> DEFINE x == Skip(d, n)
<1> DEFINE r == After(e, msgs, k - 1)
<1> DEFINE left == rest(x)
<1>0. Len(msgs) \in Nat /\ m \in Bytes /\ Len(m) \in Nat /\ k - 1 \in 0..Len(msgs) /\ k \in 0..Len(msgs) /\ Width \in Nat
  BY MessageLength, FramingAssumption
<1>1. /\ d \in Bytes /\ n \in 0..Len(d) /\ Len(e[k]) \in 0..Len(d)
      /\ Len(e[k]) = n + Width + Len(m) /\ h \in Bytes /\ Len(h) = Width
      /\ Holds(d, n, h) /\ Holds(d, n + Width, m)
  BY MessagePlace
<1>2. r.ok = TRUE /\ r.data = x /\ r.msgs = SubSeq(msgs, 1, k - 1)
  BY DEF After
<1>3. PICK t : Counts(t, msgs)
  BY CountsExist
<1>4. /\ SubSeq(msgs, 1, k - 1) \in Seq(Bytes) /\ bytes(SubSeq(msgs, 1, k - 1)) = t[k - 1]
      /\ bytes(msgs) = t[Len(msgs)] /\ t[k] = t[k - 1] + Len(m) /\ t[k - 1] \in Nat /\ t[k] \in Nat
      /\ t[Len(msgs)] \in Nat
  <2>1. t[k] = t[k - 1] + Len(m) /\ t[k - 1] \in Nat /\ t[k] \in Nat /\ t[Len(msgs)] \in Nat
    <3>1. t \in [0..Len(msgs) -> Nat] /\ t[k] = t[k - 1] + Len(m)
      BY <1>3 DEF Counts
    <3>2. Len(msgs) \in 0..Len(msgs)
      BY <1>0
    <3> QED BY <1>0, <3>1, <3>2
  <2> QED BY <1>0, <1>3, <2>1, BytesIs, BytesOfPrefix
<1>5. max_bytes \in Nat /\ Representable(max_bytes)
  BY CodecAssumption DEF Representable
<1>6. t[k] <= max_bytes
  <2>1. t[k] <= t[Len(msgs)]
    BY <1>0, <1>3, CountsGrow
  <2> QED BY <1>4, <1>5, <2>1
<1>7. Representable(Len(m))
  <2>1. Len(m) <= max_bytes
    BY <1>0, <1>4, <1>5, <1>6
  <2> QED BY <1>0, <1>5, <2>1, RepresentableBelow
<1> HIDE DEF d, m, h, n, x, r
<1>8. x \in Bytes /\ Len(x) = Len(d) - n
  BY <1>1, SkipType DEF x
<1>9. Len(d) \in Nat /\ Len(d) - n >= Width + Len(m)
  BY <1>0, <1>1, LenProperties DEF Bytes
<1>10. ~Truncated(x)
  BY <1>0, <1>1, <1>8, <1>9 DEF Truncated
<1>11. get(x) = Len(m)
  <2>1. SubSeq(x, 1, Width) = h
    BY <1>1, TakeHeld DEF x
  <2>2. number(h) = Len(m)
    BY <1>7, HeaderRoundTrip DEF h
  <2> QED BY <2>1, <2>2 DEF get
<1>12. left = Skip(d, n + Width) /\ n + Width \in 0..Len(d)
  <2>1. left = Skip(x, Width)
    BY DEF rest, Skip
  <2>2. Width \in 0..(Len(d) - n)
    BY <1>0, <1>1, <1>9
  <2>3. Skip(x, Width) = Skip(d, n + Width)
    BY <1>1, <2>2, SkipSkip DEF x
  <2> QED BY <1>0, <1>1, <1>9, <2>1, <2>3
<1> HIDE DEF left
<1>13. left \in Bytes /\ Len(left) = Len(d) - (n + Width)
  BY <1>1, <1>12, SkipType
<1>14. ~(Len(m) > Len(left))
  BY <1>0, <1>1, <1>9, <1>13
<1>15. ~TooLong(Len(m), r.msgs)
  BY <1>0, <1>2, <1>4, <1>5, <1>6 DEF TooLong
<1>16. SubSeq(left, 1, Len(m)) = m
  BY <1>0, <1>1, <1>12, TakeHeld
<1>17. SubSeq(left, Len(m) + 1, Len(left)) = Skip(d, Len(e[k]))
  <2>1. Len(m) \in 0..(Len(d) - (n + Width)) /\ (n + Width) + Len(m) = Len(e[k])
    BY <1>0, <1>1, <1>9
  <2>2. Skip(left, Len(m)) = Skip(d, (n + Width) + Len(m))
    BY <1>1, <1>12, <2>1, SkipSkip
  <2> QED BY <2>1, <2>2 DEF Skip
<1>18. Append(r.msgs, m) = SubSeq(msgs, 1, k)
  <2>1. \A i \in 1..Len(msgs) : msgs[i] \in Bytes
    BY MessageLength
  <2>2. SubSeq(msgs, 1, k) \in Seq(Bytes) /\ Len(SubSeq(msgs, 1, k)) = k /\ \A i \in 1..k : SubSeq(msgs, 1, k)[i] = msgs[i]
    BY <1>0, <2>1, SubSeqProperties
  <2>3. /\ Len(r.msgs) = k - 1 /\ \A i \in 1..(k - 1) : r.msgs[i] = msgs[i]
    BY <1>0, <1>2, <2>1, SubSeqProperties
  <2>4. /\ Append(r.msgs, m) \in Seq(Bytes) /\ Len(Append(r.msgs, m)) = k
        /\ \A i \in 1..(k - 1) : Append(r.msgs, m)[i] = msgs[i]
        /\ Append(r.msgs, m)[k] = m
    BY <1>0, <1>2, <1>4, <2>3, AppendProperties
  <2>5. ASSUME NEW i \in 1..k PROVE Append(r.msgs, m)[i] = SubSeq(msgs, 1, k)[i]
    <3>1. i = k \/ i \in 1..(k - 1)
      BY <1>0
    <3> QED BY <2>2, <2>4, <3>1 DEF m
  <2> QED BY <2>2, <2>4, <2>5, SeqEqual
<1>19. Message(r) = [ok |-> TRUE, data |-> SubSeq(left, Len(m) + 1, Len(left)), msgs |-> Append(r.msgs, SubSeq(left, 1, Len(m)))]
  BY <1>2, <1>10, <1>11, <1>14, <1>15 DEF Message, left
<1> QED BY <1>16, <1>17, <1>18, <1>19 DEF After, r, d

\* A batch within the limits of a controller queue is decoded as what was
\* encoded (encode and decode of controller_protocol.hpp), whatever bytes its
\* messages hold.
THEOREM BatchRoundTrip ==
  ASSUME NEW msgs \in Seq(Bytes), Len(msgs) <= max_messages, bytes(msgs) <= max_bytes
  PROVE  decode(encode(msgs)).ok /\ decode(encode(msgs)).msgs = msgs
<1> DEFINE N == Len(msgs)
<1> DEFINE d == encode(msgs)
<1>0. N \in Nat /\ Width \in Nat /\ Representable(max_messages) /\ max_messages \in Nat
  BY MessageLength, FramingAssumption, CodecAssumption DEF Representable
<1>1. PICK e : Builds(e, msgs)
  BY BuildsExist
<1>2. d = e[N] /\ d \in Bytes /\ e[0] = digits(N) /\ Len(d) \in Nat
  <2>1. d = e[N]
    BY <1>1, EncodeIs
  <2>2. e[N] \in Bytes /\ e[0] = digits(N)
    BY <1>0, <1>1 DEF Builds
  <2> QED BY <2>1, <2>2, LenProperties DEF Bytes
<1>3. digits(N) \in Bytes /\ Len(digits(N)) = Width
  BY <1>0, DigitsType DEF Bytes
<1>4. Extends(d, digits(N))
  <2>1. 0 \in 0..Len(msgs)
    BY <1>0
  <2> QED BY <1>1, <1>2, <2>1, BuildExtends
<1> HIDE DEF d
<1>5. Holds(d, 0, digits(N)) /\ 0 \in 0..Len(d) /\ Width \in 0..Len(d)
  BY <1>0, <1>2, <1>3, <1>4 DEF Extends, Holds
<1>6. Skip(d, 0) = d
  <2>1. Skip(d, 0) = SubSeq(d, 1, Len(d))
    BY DEF Skip
  <2> QED BY <1>2, <2>1, SubSeqFull DEF Bytes
<1>7. ~Truncated(d)
  BY <1>0, <1>2, <1>5 DEF Truncated
<1>8. get(d) = N
  <2>1. SubSeq(d, 1, Width) = digits(N)
    BY <1>2, <1>3, <1>5, <1>6, TakeHeld
  <2>2. Representable(N)
    BY <1>0, RepresentableBelow
  <2> QED BY <2>1, <2>2, HeaderRoundTrip DEF get
<1>9. rest(d) = Skip(d, Width)
  BY DEF rest, Skip
<1> DEFINE First == [ok |-> TRUE, data |-> rest(d), msgs |-> <<>>]
<1> DEFINE Eqn(f) ==
      f = [n \in 0..N |-> IF n = 0 THEN First ELSE LET before == f[n - 1] IN Message(before)]
<1> DEFINE v == [n \in 0..N |-> After(e, msgs, n)]
<1> DEFINE c == CHOOSE f : Eqn(f)
<1>10. v[0] = First
  <2>1. SubSeq(msgs, 1, 0) = <<>>
    BY SubSeqEmpty
  <2>2. Skip(e[Len(msgs)], Len(e[0])) = rest(d)
    BY <1>2, <1>3, <1>9
  <2>3. After(e, msgs, 0) = First
    BY <2>1, <2>2 DEF After
  <2> QED BY <1>0, <2>3
<1>11. ASSUME NEW n \in 1..N PROVE v[n] = Message(v[n - 1])
  <2>1. n \in 0..N /\ n - 1 \in 0..N
    BY <1>0
  <2>2. v[n] = After(e, msgs, n) /\ v[n - 1] = After(e, msgs, n - 1)
    BY <2>1
  <2> QED BY <1>1, <2>2, MessageReads
<1> HIDE DEF First
<1>12. Eqn(v)
  <2>1. v = [n \in 0..N |-> v[n]]
    OBVIOUS
  <2> HIDE DEF v
  <2>2. ASSUME NEW n \in 0..N PROVE v[n] = IF n = 0 THEN First ELSE LET before == v[n - 1] IN Message(before)
    <3>1. n = 0 \/ n \in 1..N
      BY <1>0
    <3> QED BY <1>10, <1>11, <3>1
  <2> QED BY <2>1, <2>2
<1>13. Eqn(c)
  <2> HIDE DEF Eqn
  <2> QED BY <1>12, Zenon
<1>14. decode(d) = IF c[N].data # <<>> \/ N > max_messages THEN Refused ELSE c[N]
  BY <1>7, <1>8 DEF decode, First
<1> DEFINE P == {n \in 0..N : c[n] = v[n]}
<1> HIDE DEF c, N
<1>15. 0 \in P
  BY <1>0, <1>10, <1>13
<1>16. ASSUME NEW n \in 0..(N - 1), n \in P PROVE n + 1 \in P
  <2>1. n + 1 \in 1..N /\ n + 1 \in 0..N /\ (n + 1) - 1 = n /\ n + 1 # 0
    BY <1>0
  <2> HIDE DEF v
  <2>2. c[n + 1] = Message(c[(n + 1) - 1])
    BY <1>13, <2>1
  <2>3. v[n + 1] = Message(v[(n + 1) - 1])
    BY <1>11, <2>1
  <2>4. c[n] = v[n]
    BY <1>16
  <2> QED BY <2>1, <2>2, <2>3, <2>4
<1>17. c[N] = After(e, msgs, N)
  <2>1. N \in P
    <3> HIDE DEF P
    <3>1. 0..N \subseteq P
      BY <1>0, <1>15, <1>16, BoundedInduction
    <3> QED BY <1>0, <3>1
  <2> QED BY <1>0, <2>1
<1>18. c[N].data = <<>> /\ c[N].ok = TRUE /\ c[N].msgs = msgs
  <2>1. Skip(d, Len(d)) = <<>>
    BY <1>2, SubSeqEmpty DEF Skip
  <2>2. SubSeq(msgs, 1, Len(msgs)) = msgs
    BY SubSeqFull
  <2> QED BY <1>2, <1>17, <2>1, <2>2 DEF After, N
<1> QED BY <1>0, <1>14, <1>18 DEF d, N

-----------------------------------------------------------------------------
(* Frames.                                                                 *)

\* The messages of the bridges, and their frames.
Parcels == [key : Seq(Nat), data : Seq(Nat)]
Framed  == {Frame(m) : m \in Parcels}

\* A frame holds its message, whatever key and payload look like.
LEMMA FrameRoundTrip ==
  ASSUME NEW m \in Parcels PROVE Frame(m) \in Bytes /\ Unframe(Frame(m)) = m
<1> DEFINE k == m.key
<1> DEFINE d == m.data
<1> DEFINE l == <<Len(k)>>
<1> DEFINE f == Frame(m)
<1>0. k \in Bytes /\ d \in Bytes /\ m = [key |-> k, data |-> d]
  BY DEF Parcels, Bytes
<1>1. Len(k) \in Nat /\ Len(d) \in Nat
  BY <1>0, LenProperties DEF Bytes
<1>2. l \in Bytes /\ Len(l) = 1 /\ l[1] = Len(k)
  BY <1>1 DEF Bytes
<1>3. f = (l \o k) \o d
  BY DEF Frame
<1> HIDE DEF k, d, l, f
<1>4. f \in Bytes /\ Len(f) = Len(l) + Len(k) + Len(d) /\ Extends(f, l)
      /\ Holds(f, Len(l), k) /\ Holds(f, Len(l) + Len(k), d)
  BY <1>0, <1>2, <1>3, BuildStep
<1>5. f[1] = Len(k)
  BY <1>2, <1>4 DEF Extends
<1>6. SubSeq(f, 2, 1 + Len(k)) = k
  <2>1. \A i \in 2..(1 + Len(k)) : f[i] \in Nat
    BY <1>1, <1>2, <1>4, ElementOfSeq DEF Bytes
  <2>2. /\ SubSeq(f, 2, 1 + Len(k)) \in Seq(Nat) /\ Len(SubSeq(f, 2, 1 + Len(k))) = Len(k)
        /\ \A i \in 1..Len(k) : SubSeq(f, 2, 1 + Len(k))[i] = f[1 + i]
    BY <1>1, <2>1, SubSeqProperties
  <2>3. \A i \in 1..Len(k) : f[1 + i] = k[i]
    BY <1>2, <1>4 DEF Holds
  <2> QED BY <1>0, <2>2, <2>3, SeqEqual DEF Bytes
<1>7. SubSeq(f, 2 + Len(k), Len(f)) = d
  <2>1. 1 + Len(k) \in 0..Len(f) /\ Len(f) - (1 + Len(k)) = Len(d)
    BY <1>1, <1>2, <1>4
  <2>2. SubSeq(f, 2 + Len(k), Len(f)) = Skip(f, 1 + Len(k))
    <3>1. (1 + Len(k)) + 1 = 2 + Len(k)
      BY <1>1
    <3> QED BY <3>1 DEF Skip
  <2>3. Skip(f, 1 + Len(k)) \in Bytes /\ Len(Skip(f, 1 + Len(k))) = Len(d) /\ \A i \in 1..Len(d) : Skip(f, 1 + Len(k))[i] = f[(1 + Len(k)) + i]
    BY <1>4, <2>1, SkipType
  <2>4. \A i \in 1..Len(d) : f[(1 + Len(k)) + i] = d[i]
    BY <1>2, <1>4 DEF Holds
  <2> QED BY <1>0, <2>2, <2>3, <2>4, SeqEqual DEF Bytes
<1>8. Unframe(f) = m
  BY <1>0, <1>5, <1>6, <1>7 DEF Unframe
<1> QED BY <1>4, <1>8 DEF f

\* The messages in a queue of frames.
Shown(w) == [i \in DOMAIN w |-> Unframe(w[i])]

\* Frames are bytes, and what they hold are messages.
LEMMA FramedType ==
  ASSUME NEW f \in Framed PROVE f \in Bytes /\ Unframe(f) \in Parcels
<1>1. PICK m \in Parcels : f = Frame(m)
  BY DEF Framed
<1> QED BY <1>1, FrameRoundTrip

\* A queue of frames is one of messages to the controllers.
LEMMA FramedSeq == ASSUME NEW w \in Seq(Framed) PROVE w \in Seq(Bytes)
<1>1. Framed \subseteq Bytes
  BY FramedType
<1> QED BY <1>1, SeqMonotonic

\* What frames show are messages, one each.
LEMMA ShownType ==
  ASSUME NEW w \in Seq(Framed)
  PROVE  /\ Len(w) \in Nat /\ Shown(w) \in Seq(Parcels) /\ Len(Shown(w)) = Len(w)
         /\ \A i \in 1..Len(w) : Shown(w)[i] = Unframe(w[i])
<1>1. Len(w) \in Nat /\ DOMAIN w = 1..Len(w) /\ \A i \in 1..Len(w) : Unframe(w[i]) \in Parcels
  BY LenProperties, ElementOfSeq, FramedType
<1>2. Shown(w) \in [1..Len(w) -> Parcels]
  BY <1>1 DEF Shown
<1> QED BY <1>1, <1>2 DEF Shown

\* Queue after queue.
LEMMA ShownConcat ==
  ASSUME NEW v \in Seq(Framed), NEW w \in Seq(Framed)
  PROVE  v \o w \in Seq(Framed) /\ Shown(v \o w) = Shown(v) \o Shown(w)
<1> DEFINE x == v \o w
<1> DEFINE a == Shown(v)
<1> DEFINE b == Shown(w)
<1>1. /\ x \in Seq(Framed) /\ Len(x) = Len(v) + Len(w)
      /\ \A i \in 1..(Len(v) + Len(w)) : x[i] = IF i <= Len(v) THEN v[i] ELSE w[i - Len(v)]
  BY ConcatProperties
<1> HIDE DEF x
<1>2. /\ a \in Seq(Parcels) /\ Len(a) = Len(v) /\ Len(v) \in Nat
      /\ \A i \in 1..Len(v) : a[i] = Unframe(v[i])
  BY ShownType
<1>3. /\ b \in Seq(Parcels) /\ Len(b) = Len(w) /\ Len(w) \in Nat
      /\ \A i \in 1..Len(w) : b[i] = Unframe(w[i])
  BY ShownType
<1>4. /\ Shown(x) \in Seq(Parcels) /\ Len(Shown(x)) = Len(x)
      /\ \A i \in 1..Len(x) : Shown(x)[i] = Unframe(x[i])
  BY <1>1, ShownType
<1> HIDE DEF a, b
<1>5. /\ a \o b \in Seq(Parcels) /\ Len(a \o b) = Len(a) + Len(b)
      /\ \A i \in 1..(Len(a) + Len(b)) : (a \o b)[i] = IF i <= Len(a) THEN a[i] ELSE b[i - Len(a)]
  <2>1. a \in Seq(Parcels) /\ b \in Seq(Parcels)
    BY <1>2, <1>3
  <2> QED BY <2>1, ConcatProperties, Zenon
<1>6. ASSUME NEW i \in 1..Len(x) PROVE Shown(x)[i] = (a \o b)[i]
  <2>1. CASE i <= Len(v)
    BY <1>1, <1>2, <1>3, <1>4, <1>5, <2>1
  <2>2. CASE ~(i <= Len(v))
    <3>1. i - Len(v) \in 1..Len(w)
      BY <1>1, <1>2, <1>3, <2>2
    <3> QED BY <1>1, <1>2, <1>3, <1>4, <1>5, <2>2, <3>1
  <2> QED BY <2>1, <2>2
<1>7. Shown(x) = a \o b
  <2>1. Len(Shown(x)) = Len(a \o b)
    BY <1>1, <1>2, <1>3, <1>4, <1>5
  <2>2. \A i \in 1..Len(Shown(x)) : Shown(x)[i] = (a \o b)[i]
    BY <1>4, <1>6
  <2>3. Shown(x) \in Seq(Parcels) /\ a \o b \in Seq(Parcels)
    BY <1>4, <1>5
  <2> QED BY <2>1, <2>2, <2>3, SeqEqual, Zenon
<1> QED BY <1>1, <1>7 DEF x, a, b

\* A queue of one frame, or of none.
LEMMA ShownOne ==
  ASSUME NEW f \in Framed
  PROVE  <<f>> \in Seq(Framed) /\ Shown(<<f>>) = <<Unframe(f)>> /\ Shown(<<>>) = <<>>
<1>1. <<f>> \in Seq(Framed) /\ Len(<<f>>) = 1 /\ <<f>>[1] = f /\ <<>> \in Seq(Framed) /\ Len(<<>>) = 0
  OBVIOUS
<1>2. Shown(<<f>>) \in Seq(Parcels) /\ Len(Shown(<<f>>)) = 1 /\ Shown(<<f>>)[1] = Unframe(f)
  <2>1. /\ Shown(<<f>>) \in Seq(Parcels) /\ Len(Shown(<<f>>)) = Len(<<f>>)
        /\ \A i \in 1..Len(<<f>>) : Shown(<<f>>)[i] = Unframe(<<f>>[i])
    BY <1>1, ShownType, Zenon
  <2> QED BY <1>1, <2>1
<1>3. Shown(<<>>) \in Seq(Parcels) /\ Len(Shown(<<>>)) = 0
  BY <1>1, ShownType
<1>4. Unframe(f) \in Parcels
  BY FramedType
<1>5. Shown(<<>>) = <<>>
  BY <1>3
<1>6. Shown(<<f>>) = <<Unframe(f)>>
  <2>1. <<Unframe(f)>> \in Seq(Parcels) /\ Len(<<Unframe(f)>>) = 1 /\ <<Unframe(f)>>[1] = Unframe(f)
    BY <1>4
  <2>2. \A i \in 1..1 : Shown(<<f>>)[i] = <<Unframe(f)>>[i]
    BY <1>2
  <2>3. Len(Shown(<<f>>)) = Len(<<Unframe(f)>>) /\ \A i \in 1..Len(Shown(<<f>>)) : Shown(<<f>>)[i] = <<Unframe(f)>>[i]
    BY <1>2, <2>1, <2>2
  <2> QED BY <1>2, <2>1, <2>3, SeqEqual, Zenon
<1> QED BY <1>1, <1>5, <1>6

\* The first frame of a queue is published.
LEMMA ShownShift ==
  ASSUME NEW p \in Seq(Parcels), NEW f \in Framed, NEW t \in Seq(Framed)
  PROVE  /\ Append(p, Unframe(f)) \in Seq(Parcels)
         /\ Append(p, Unframe(f)) \o Shown(t) = p \o Shown(<<f>> \o t)
<1> DEFINE u == <<Unframe(f)>>
<1>1. u \in Seq(Parcels) /\ Unframe(f) \in Parcels
  BY FramedType
<1>2. Append(p, Unframe(f)) = p \o u /\ Append(p, Unframe(f)) \in Seq(Parcels)
  BY <1>1, AppendIsConcat, AppendProperties
<1>3. Shown(<<f>> \o t) = u \o Shown(t)
  BY ShownOne, ShownConcat
<1>4. Shown(t) \in Seq(Parcels)
  BY ShownType
<1> HIDE DEF u
<1>5. (p \o u) \o Shown(t) = p \o (u \o Shown(t))
  BY <1>1, <1>4, ConcatAssociative
<1> QED BY <1>2, <1>3, <1>5

\* A frame is queued.
LEMMA ShownPush ==
  ASSUME NEW p \in Seq(Parcels), NEW w \in Seq(Framed), NEW f \in Framed
  PROVE  p \o Shown(Append(w, f)) = Append(p \o Shown(w), Unframe(f))
<1> DEFINE u == <<Unframe(f)>>
<1>1. u \in Seq(Parcels) /\ Unframe(f) \in Parcels
  BY FramedType
<1>2. Append(w, f) = w \o <<f>>
  BY AppendIsConcat
<1>3. Shown(w \o <<f>>) = Shown(w) \o u
  BY ShownOne, ShownConcat
<1>4. Shown(w) \in Seq(Parcels)
  BY ShownType
<1>5. p \o Shown(w) \in Seq(Parcels)
  BY <1>4, ConcatProperties
<1>6. Append(p \o Shown(w), Unframe(f)) = (p \o Shown(w)) \o u
  BY <1>1, <1>5, AppendIsConcat
<1> HIDE DEF u
<1>7. (p \o Shown(w)) \o u = p \o (Shown(w) \o u)
  BY <1>1, <1>4, ConcatAssociative
<1> QED BY <1>2, <1>3, <1>6, <1>7

\* A queue is its first element and the others.
LEMMA HeadAndTail ==
  ASSUME NEW S, NEW w \in Seq(S), w # <<>>
  PROVE  Head(w) \in S /\ Tail(w) \in Seq(S) /\ w = <<Head(w)>> \o Tail(w)
<1> DEFINE h == <<Head(w)>>
<1>1. /\ Head(w) \in S /\ Tail(w) \in Seq(S) /\ Len(Tail(w)) = Len(w) - 1
      /\ \A i \in 1..Len(Tail(w)) : Tail(w)[i] = w[i + 1]
  BY HeadTailProperties
<1>2. h \in Seq(S) /\ Len(h) = 1 /\ h[1] = w[1] /\ Len(w) \in Nat /\ Len(w) > 0
  BY <1>1, EmptySeq, LenProperties
<1> HIDE DEF h
<1>3. /\ h \o Tail(w) \in Seq(S) /\ Len(h \o Tail(w)) = Len(h) + Len(Tail(w))
      /\ \A i \in 1..(Len(h) + Len(Tail(w))) :
           (h \o Tail(w))[i] = IF i <= Len(h) THEN h[i] ELSE Tail(w)[i - Len(h)]
  <2>1. h \in Seq(S) /\ Tail(w) \in Seq(S)
    BY <1>1, <1>2
  <2> HIDE DEF h
  <2> QED BY <2>1, ConcatProperties
<1>4. ASSUME NEW i \in 1..Len(w) PROVE w[i] = (h \o Tail(w))[i]
  <2>1. i = 1 \/ i - 1 \in 1..Len(Tail(w))
    BY <1>1, <1>2
  <2>2. i \in 1..(Len(h) + Len(Tail(w)))
    BY <1>1, <1>2
  <2>3. CASE i = 1
    BY <1>2, <1>3, <2>2, <2>3
  <2>4. CASE i - 1 \in 1..Len(Tail(w))
    <3>1. ~(i <= Len(h)) /\ i - Len(h) = i - 1 /\ (i - 1) + 1 = i
      BY <1>2, <2>4
    <3> QED BY <1>1, <1>3, <2>2, <2>4, <3>1
  <2> QED BY <2>1, <2>3, <2>4
<1>5. Len(w) = Len(h \o Tail(w))
  BY <1>1, <1>2, <1>3
<1>6. w = h \o Tail(w)
  BY <1>3, <1>4, <1>5, SeqEqual, Zenon
<1> QED BY <1>1, <1>6 DEF h

-----------------------------------------------------------------------------
(* What flows from one side to the other.                                  *)

\* b goes on from a, as a concatenation.
Continues(b, a) == \E r \in Seq(Parcels) : b = a \o r

\* p is published, the frames w are past the sending bridge and o still in it,
\* and the messages a have arrived; fs and fo tell whether the sending and the
\* receiving bridge have failed.
Flows(p, w, o, a, fs, fo) ==
  /\ p \in Seq(Parcels) /\ w \in Seq(Framed) /\ o \in Seq(Framed) /\ a \in Seq(Parcels)
  /\ ~fs /\ ~fo => a = p \o Shown(w \o o)
  /\ ~fo => Continues(a, p \o Shown(w))
  /\ Continues(a, p)

\* Going on twice.
LEMMA ContinuesTwice ==
  ASSUME NEW a \in Seq(Parcels), NEW b \in Seq(Parcels), NEW c, Continues(c, a \o b)
  PROVE  Continues(c, a)
<1>1. PICK r \in Seq(Parcels) : c = (a \o b) \o r
  BY DEF Continues
<1>2. (a \o b) \o r = a \o (b \o r)
  BY ConcatAssociative
<1>3. b \o r \in Seq(Parcels)
  BY ConcatProperties
<1> QED BY <1>1, <1>2, <1>3 DEF Continues

\* Going on by one more.
LEMMA ContinuesAppend ==
  ASSUME NEW a \in Seq(Parcels), NEW b, Continues(b, a), NEW m \in Parcels
  PROVE  Continues(Append(b, m), a)
<1>1. PICK r \in Seq(Parcels) : b = a \o r
  BY DEF Continues
<1>2. a \o r \in Seq(Parcels) /\ <<m>> \in Seq(Parcels)
  BY ConcatProperties
<1>3. Append(b, m) = (a \o r) \o <<m>>
  BY <1>1, <1>2, AppendIsConcat
<1>4. (a \o r) \o <<m>> = a \o (r \o <<m>>)
  BY <1>2, ConcatAssociative
<1>5. r \o <<m>> \in Seq(Parcels)
  BY <1>2, ConcatProperties
<1> QED BY <1>3, <1>4, <1>5 DEF Continues

\* While no bridge has failed, the last case of Flows follows from the first.
LEMMA FlowsWhole ==
  ASSUME NEW p \in Seq(Parcels), NEW w \in Seq(Framed), NEW o \in Seq(Framed),
         NEW a \in Seq(Parcels), a = p \o Shown(w \o o), NEW fs, NEW fo
  PROVE  Flows(p, w, o, a, fs, fo)
<1>1. Shown(w) \in Seq(Parcels) /\ Shown(o) \in Seq(Parcels) /\ Shown(w \o o) = Shown(w) \o Shown(o)
  BY ShownType, ShownConcat
<1>2. p \o (Shown(w) \o Shown(o)) = (p \o Shown(w)) \o Shown(o)
  BY <1>1, ConcatAssociative
<1>3. Continues(a, p \o Shown(w))
  BY <1>1, <1>2 DEF Continues
<1>4. Continues(a, p)
  BY <1>1, <1>3, ContinuesTwice
<1> QED BY <1>3, <1>4 DEF Flows

\* Deliver publishes the first frame.
LEMMA FlowsDeliver ==
  ASSUME NEW p, NEW f \in Framed, NEW t \in Seq(Framed), NEW o, NEW a, NEW fs,
         Flows(p, <<f>> \o t, o, a, fs, FALSE)
  PROVE  Flows(Append(p, Unframe(f)), t, o, a, fs, FALSE)
<1> DEFINE w == <<f>> \o t
<1> DEFINE q == Append(p, Unframe(f))
<1>0. p \in Seq(Parcels) /\ w \in Seq(Framed) /\ o \in Seq(Framed) /\ a \in Seq(Parcels)
  BY DEF Flows
<1>2. q \in Seq(Parcels) /\ q \o Shown(t) = p \o Shown(w)
  BY <1>0, ShownShift
<1>3. q \o Shown(t \o o) = p \o Shown(w \o o)
  <2>1. <<f>> \in Seq(Framed) /\ t \o o \in Seq(Framed)
    BY <1>0, ConcatProperties
  <2>2. w \o o = <<f>> \o (t \o o)
    BY <1>0, <2>1, ConcatAssociative
  <2> DEFINE x == t \o o
  <2>3. x \in Seq(Framed) /\ w \o o = <<f>> \o x
    BY <2>1, <2>2
  <2> HIDE DEF x
  <2>4. q \o Shown(x) = p \o Shown(<<f>> \o x)
    BY <1>0, <2>3, ShownShift
  <2> QED BY <2>3, <2>4 DEF x
<1> HIDE DEF q
<1>4. Continues(a, q \o Shown(t))
  BY <1>2 DEF Flows
<1>5. Continues(a, q)
  <2>1. Shown(t) \in Seq(Parcels)
    BY ShownType
  <2> QED BY <1>2, <1>4, <2>1, ContinuesTwice
<1>6. ~fs => a = q \o Shown(t \o o)
  BY <1>3 DEF Flows
<1>7. Flows(q, t, o, a, fs, FALSE)
  BY <1>0, <1>2, <1>4, <1>5, <1>6 DEF Flows
<1> QED BY <1>7 DEF q

\* A callback frames a message it accepts.
LEMMA FlowsAccept ==
  ASSUME NEW p, NEW w, NEW o, NEW a, NEW fo, NEW fs, Flows(p, w, o, a, fs, fo), NEW m \in Parcels
  PROVE  Flows(p, w, Append(o, Frame(m)), Append(a, m), fs, fo)
<1> DEFINE f == Frame(m)
<1>0. p \in Seq(Parcels) /\ w \in Seq(Framed) /\ o \in Seq(Framed) /\ a \in Seq(Parcels)
  BY DEF Flows
<1>1. f \in Framed /\ Unframe(f) = m
  BY FrameRoundTrip DEF Framed
<1> HIDE DEF f
<1>2. Append(o, f) \in Seq(Framed) /\ Append(a, m) \in Seq(Parcels)
  BY <1>0, <1>1, AppendProperties
<1>3. w \o Append(o, f) = Append(w \o o, f) /\ w \o o \in Seq(Framed)
  <2>1. <<f>> \in Seq(Framed) /\ w \o o \in Seq(Framed)
    BY <1>0, <1>1, ConcatProperties
  <2>2. Append(o, f) = o \o <<f>> /\ Append(w \o o, f) = (w \o o) \o <<f>>
    BY <1>0, <1>1, <2>1, AppendIsConcat
  <2>3. (w \o o) \o <<f>> = w \o (o \o <<f>>)
    BY <1>0, <2>1, ConcatAssociative
  <2> QED BY <2>1, <2>2, <2>3
<1>4. p \o Shown(w \o Append(o, f)) = Append(p \o Shown(w \o o), m)
  <2> DEFINE x == w \o o
  <2>1. x \in Seq(Framed) /\ w \o Append(o, f) = Append(x, f)
    BY <1>3
  <2> HIDE DEF x
  <2>2. p \o Shown(Append(x, f)) = Append(p \o Shown(x), Unframe(f))
    BY <1>0, <1>1, <2>1, ShownPush
  <2> QED BY <1>1, <2>1, <2>2 DEF x
<1>5. ~fs /\ ~fo => Append(a, m) = p \o Shown(w \o Append(o, f))
  BY <1>4 DEF Flows
<1>6. ~fo => Continues(Append(a, m), p \o Shown(w))
  <2>1. p \o Shown(w) \in Seq(Parcels)
    BY <1>0, ShownType, ConcatProperties
  <2> QED BY <2>1, ContinuesAppend DEF Flows
<1>7. Continues(Append(a, m), p)
  BY <1>0, ContinuesAppend DEF Flows
<1>8. Flows(p, w, Append(o, f), Append(a, m), fs, fo)
  BY <1>0, <1>2, <1>5, <1>6, <1>7 DEF Flows
<1> QED BY <1>8 DEF f

\* One that refuses a message has failed.
LEMMA FlowsRefuse ==
  ASSUME NEW p, NEW w, NEW o, NEW a, NEW fs, NEW fo, Flows(p, w, o, a, fs, fo), NEW m \in Parcels
  PROVE  Flows(p, w, o, Append(a, m), TRUE, fo)
<1>0. p \in Seq(Parcels) /\ w \in Seq(Framed) /\ o \in Seq(Framed) /\ a \in Seq(Parcels)
  BY DEF Flows
<1>1. Append(a, m) \in Seq(Parcels)
  BY <1>0, AppendProperties
<1>2. ~fo => Continues(Append(a, m), p \o Shown(w))
  <2>1. p \o Shown(w) \in Seq(Parcels)
    BY <1>0, ShownType, ConcatProperties
  <2> QED BY <2>1, ContinuesAppend DEF Flows
<1>3. Continues(Append(a, m), p)
  BY <1>0, ContinuesAppend DEF Flows
<1> QED BY <1>0, <1>1, <1>2, <1>3 DEF Flows

\* The controller takes a frame of a bridge that has not failed.
LEMMA FlowsDrain ==
  ASSUME NEW p, NEW w, NEW o, NEW a, NEW fo, Flows(p, w, o, a, FALSE, fo), o # <<>>
  PROVE  Flows(p, Append(w, Head(o)), Tail(o), a, FALSE, fo)
<1> DEFINE f == Head(o)
<1> DEFINE t == Tail(o)
<1>0. p \in Seq(Parcels) /\ w \in Seq(Framed) /\ o \in Seq(Framed) /\ a \in Seq(Parcels)
  BY DEF Flows
<1>1. f \in Framed /\ t \in Seq(Framed) /\ o = <<f>> \o t
  BY <1>0, HeadAndTail
<1> HIDE DEF f, t
<1>2. Append(w, f) \in Seq(Framed)
  BY <1>0, <1>1, AppendProperties
<1>3. Append(w, f) \o t = w \o o
  <2>1. <<f>> \in Seq(Framed)
    BY <1>1
  <2>2. Append(w, f) = w \o <<f>>
    BY <1>0, <1>1, AppendIsConcat
  <2>3. (w \o <<f>>) \o t = w \o (<<f>> \o t)
    BY <1>0, <1>1, <2>1, ConcatAssociative
  <2> QED BY <1>1, <2>2, <2>3
<1>4. CASE fo
  BY <1>0, <1>1, <1>2, <1>4 DEF Flows, f, t
<1>5. CASE ~fo
  <2>1. a = p \o Shown(Append(w, f) \o t)
    BY <1>3, <1>5 DEF Flows
  <2> QED BY <1>0, <1>1, <1>2, <2>1, FlowsWhole DEF f, t
<1> QED BY <1>4, <1>5

\* Nothing is published after a failure of the receiving bridge, and only what
\* has left it after one of the sending bridge.
LEMMA FlowsFail ==
  ASSUME NEW p, NEW w, NEW o, NEW a, NEW fs, NEW fo, Flows(p, w, o, a, fs, fo),
         NEW v \in Seq(Framed), NEW x \in Seq(Framed)
  PROVE  Flows(p, v, x, a, fs, TRUE) /\ Flows(p, w, x, a, TRUE, fo)
BY DEF Flows

\* Joining frames.
LEMMA FramesJoin ==
  ASSUME NEW a \in Seq(Framed), NEW b \in Seq(Framed), NEW c \in Seq(Framed)
  PROVE  a \o b \in Seq(Framed) /\ (a \o b) \o c = a \o (b \o c)
BY ConcatProperties, ConcatAssociative

\* What has left the sending bridge, one controller after the other.
Route(r, b, s) == (r \o b) \o s

\* The route consists of frames.
LEMMA RouteType ==
  ASSUME NEW r \in Seq(Framed), NEW b \in Seq(Framed), NEW s \in Seq(Framed)
  PROVE  Route(r, b, s) \in Seq(Framed)
<1>1. r \o b \in Seq(Framed)
  BY ConcatProperties
<1> QED BY <1>1, ConcatProperties DEF Route

\* The first frame of the route.
LEMMA RouteHead ==
  ASSUME NEW r \in Seq(Framed), NEW b \in Seq(Framed), NEW s \in Seq(Framed), r # <<>>
  PROVE  /\ Route(Tail(r), b, s) \in Seq(Framed)
         /\ Route(r, b, s) = <<Head(r)>> \o Route(Tail(r), b, s)
<1> DEFINE h == <<Head(r)>>
<1> DEFINE t == Tail(r)
<1>1. Head(r) \in Framed /\ t \in Seq(Framed) /\ r = h \o t
  BY HeadAndTail
<1>2. h \in Seq(Framed) /\ t \in Seq(Framed)
  BY <1>1
<1> HIDE DEF h, t
<1>3. t \o b \in Seq(Framed)
  BY <1>2, ConcatProperties
<1>4. (t \o b) \o s \in Seq(Framed)
  BY <1>3, ConcatProperties
<1>5. (h \o t) \o b = h \o (t \o b)
  BY <1>2, FramesJoin
<1>6. (h \o (t \o b)) \o s = h \o ((t \o b) \o s)
  <2> DEFINE y == t \o b
  <2>1. y \in Seq(Framed)
    BY <1>3
  <2> HIDE DEF y
  <2>2. (h \o y) \o s = h \o (y \o s)
    <3>1. h \in Seq(Framed) /\ y \in Seq(Framed) /\ s \in Seq(Framed)
      BY <1>2, <2>1
    <3> QED BY ONLY <3>1, FramesJoin
  <2> QED BY <2>2 DEF y
<1>7. (r \o b) \o s = h \o ((t \o b) \o s)
  BY <1>1, <1>5, <1>6
<1> QED BY <1>1, <1>4, <1>7 DEF Route, h, t

\* A frame that joins the route.
LEMMA RouteAppend ==
  ASSUME NEW r \in Seq(Framed), NEW b \in Seq(Framed), NEW s \in Seq(Framed), NEW f \in Framed
  PROVE  Route(r, b, Append(s, f)) = Append(Route(r, b, s), f)
<1> DEFINE x == r \o b
<1>1. x \in Seq(Framed) /\ <<f>> \in Seq(Framed)
  BY ConcatProperties
<1> HIDE DEF x
<1>2. Append(s, f) = s \o <<f>> /\ x \o s \in Seq(Framed)
  BY <1>1, AppendIsConcat, ConcatProperties
<1>3. Append(x \o s, f) = (x \o s) \o <<f>>
  BY <1>2, AppendIsConcat
<1>4. (x \o s) \o <<f>> = x \o (s \o <<f>>)
  BY <1>1, FramesJoin
<1> QED BY <1>2, <1>3, <1>4 DEF Route, x

\* Handing frames from one controller to the next leaves the route as it is.
LEMMA RouteMoves ==
  ASSUME NEW r \in Seq(Framed), NEW b \in Seq(Framed), NEW s \in Seq(Framed)
  PROVE  /\ Route(r, b \o s, <<>>) = Route(r, b, s)
         /\ Route(r \o b, <<>>, s) = Route(r, b, s)
         /\ Route(r \o s, <<>>, <<>>) = Route(r, <<>>, s)
<1>1. r \o b \in Seq(Framed) /\ r \o s \in Seq(Framed) /\ b \o s \in Seq(Framed) /\ Route(r, b, s) \in Seq(Framed)
  BY ConcatProperties, RouteType
<1>2. Route(r, b \o s, <<>>) = Route(r, b, s)
  <2>1. r \o (b \o s) = (r \o b) \o s
    BY FramesJoin
  <2>2. (r \o (b \o s)) \o <<>> = r \o (b \o s)
    <3>1. r \o (b \o s) \in Seq(Framed)
      BY <1>1, <2>1 DEF Route
    <3> QED BY <3>1, ConcatEmptySeq
  <2> QED BY <2>1, <2>2 DEF Route
<1>3. Route(r \o b, <<>>, s) = Route(r, b, s)
  BY <1>1, ConcatEmptySeq DEF Route
<1>4. Route(r \o s, <<>>, <<>>) = Route(r, <<>>, s)
  BY <1>1, ConcatEmptySeq DEF Route
<1> QED BY <1>2, <1>3, <1>4

-----------------------------------------------------------------------------
(* The inductive invariant of the bridges.                                 *)

BridgePhases == {"step", "deliver", "pump", "drain", "sent", "failed"}

BridgeShape ==
  /\ phase \in [Sides -> BridgePhases]
  /\ outgoing \in [Sides -> Seq(Framed)] /\ submitted \in [Sides -> Seq(Framed)]
  /\ ready \in [Sides -> Seq(Framed)] /\ incoming \in Seq(Framed)
  /\ arrived \in [Sides -> Seq(Parcels)] /\ published \in [Sides -> Seq(Parcels)]

\* A controller's queue is within the limits of a batch.
InLimits(queue) == Len(queue) <= max_messages /\ bytes(queue) <= max_bytes

Between(s) == IF s = "guest" THEN incoming ELSE <<>>

Flow(s) ==
  Flows(published[Other(s)], Route(ready[Other(s)], Between(s), submitted[s]),
        outgoing[s], arrived[s], phase[s] = "failed", phase[Other(s)] = "failed")

BridgeInv == BridgeShape /\ \A s \in Sides : InLimits(submitted[s]) /\ Flow(s)

\* There are two sides.
LEMMA OtherSide ==
  ASSUME NEW s \in Sides
  PROVE  /\ Other(s) \in Sides /\ Other(Other(s)) = s /\ s # Other(s)
         /\ \A x \in Sides : x = s \/ x = Other(s)
BY DEF Sides, Other

\* Initially nothing has arrived.
LEMMA BridgeInit_Inv == BridgeInit => BridgeInv
<1> SUFFICES ASSUME BridgeInit PROVE BridgeInv
  OBVIOUS
<1>1. BridgeShape
  BY DEF BridgeInit, BridgeShape, BridgePhases, Sides
<1>2. ASSUME NEW s \in Sides PROVE InLimits(submitted[s]) /\ Flow(s)
  <2>0. Other(s) \in Sides
    BY OtherSide
  <2>1. submitted[s] = <<>> /\ outgoing[s] = <<>> /\ ready[Other(s)] = <<>> /\ Between(s) = <<>> /\ published[Other(s)] = <<>> /\ arrived[s] = <<>>
    BY <2>0 DEF BridgeInit, Between
  <2>2. InLimits(<<>>)
    <3>1. [key |-> <<>>, data |-> <<>>] \in Parcels
      BY DEF Parcels
    <3>2. <<>> \in Bytes
      BY DEF Bytes
    <3>3. bytes(<<>>) = 0 /\ max_messages \in Nat /\ max_bytes \in Nat
      BY <3>2, BytesOfOne, CodecAssumption DEF Representable
    <3> QED BY <3>3 DEF InLimits
  <2>3. <<>> \in Seq(Framed) /\ <<>> \in Seq(Parcels) /\ Route(<<>>, <<>>, <<>>) = <<>> /\ <<>> \o <<>> = <<>>
    BY DEF Route
  <2>4. Shown(<<>>) = <<>>
    <3>1. Shown(<<>>) \in Seq(Parcels) /\ Len(Shown(<<>>)) = Len(<<>>)
      BY <2>3, ShownType, Zenon
    <3>2. Len(<<>>) = 0
      OBVIOUS
    <3> QED BY <3>1, <3>2, EmptySeq
  <2>5. Flows(<<>>, <<>>, <<>>, <<>>, phase[s] = "failed", phase[Other(s)] = "failed")
    BY <2>3, <2>4, FlowsWhole
  <2> QED BY <2>1, <2>2, <2>3, <2>5 DEF Flow
<1> QED BY <1>1, <1>2 DEF BridgeInv

\* Both directions, the one into a side and the one out of it.
LEMMA BothFlows ==
  ASSUME NEW s \in Sides, Flow(s)', Flow(Other(s))' PROVE \A x \in Sides : Flow(x)'
BY OtherSide

\* A direction nothing moves in, though a bridge may fail.
LEMMA FlowKept ==
  ASSUME NEW s \in Sides, Flow(s), published'[Other(s)] = published[Other(s)],
         Route(ready[Other(s)], Between(s), submitted[s])' = Route(ready[Other(s)], Between(s), submitted[s]),
         outgoing'[s] = outgoing[s], arrived'[s] = arrived[s],
         phase[s] = "failed" => phase'[s] = "failed",
         phase[Other(s)] = "failed" => phase'[Other(s)] = "failed"
  PROVE  Flow(s)'
BY DEF Flow, Flows

\* The bridge at its receiving end fails.
LEMMA FlowEnds ==
  ASSUME NEW s \in Sides, Flow(s), published'[Other(s)] = published[Other(s)],
         Route(ready[Other(s)], Between(s), submitted[s])' \in Seq(Framed),
         outgoing'[s] = outgoing[s], arrived'[s] = arrived[s], phase'[Other(s)] = "failed"
  PROVE  Flow(s)'
BY DEF Flow, Flows

\* The frames of a direction are frames.
LEMMA RouteShape ==
  ASSUME BridgeShape, NEW s \in Sides
  PROVE  /\ Route(ready[Other(s)], Between(s), submitted[s]) \in Seq(Framed)
         /\ Between(s) \in Seq(Framed) /\ ready[Other(s)] \in Seq(Framed) /\ submitted[s] \in Seq(Framed)
<1>1. Between(s) \in Seq(Framed) /\ ready[Other(s)] \in Seq(Framed) /\ submitted[s] \in Seq(Framed)
  BY OtherSide DEF BridgeShape, Between
<1> QED BY <1>1, RouteType

\* A received frame is published, or ends the bridge.
LEMMA DeliverInv ==
  ASSUME BridgeInv, NEW x \in Sides, Deliver(x) PROVE BridgeInv'
<1> DEFINE s == Other(x)
<1> DEFINE f == Head(ready[x])
<1> DEFINE m == Unframe(f)
<1>0. BridgeShape /\ (\A y \in Sides : InLimits(submitted[y]) /\ Flow(y)) /\ s \in Sides /\ Other(s) = x /\ s # x
  BY OtherSide DEF BridgeInv
<1>1. /\ phase[x] = "deliver" /\ ready[x] # <<>> /\ ready' = [ready EXCEPT ![x] = Tail(@)]
      /\ UNCHANGED <<outgoing, submitted, incoming, arrived>>
  BY DEF Deliver, Pop
<1>2. ready[x] \in Seq(Framed) /\ f \in Framed /\ Tail(ready[x]) \in Seq(Framed) /\ m \in Parcels
  <2>1. ready[x] \in Seq(Framed)
    BY <1>0 DEF BridgeShape
  <2> QED BY <1>1, <2>1, HeadAndTail, FramedType
<1>3. \/ published' = [published EXCEPT ![x] = Append(@, m)] /\ phase' = phase
      \/ published' = published /\ phase' = [phase EXCEPT ![x] = "failed"]
  BY DEF Deliver, Add, Goto
<1> HIDE DEF s, f, m
<1>4. ready'[x] = Tail(ready[x]) /\ ready'[s] = ready[s] /\ ready' \in [Sides -> Seq(Framed)]
  BY <1>0, <1>1, <1>2 DEF BridgeShape
<1>5. BridgeShape'
  <2>1. published' \in [Sides -> Seq(Parcels)]
    <3>1. published \in [Sides -> Seq(Parcels)] /\ Append(published[x], m) \in Seq(Parcels)
      BY <1>0, <1>2, AppendProperties DEF BridgeShape
    <3> QED BY <1>3, <3>1
  <2>2. phase' \in [Sides -> BridgePhases]
    BY <1>0, <1>3 DEF BridgeShape, BridgePhases
  <2> QED BY <1>0, <1>1, <1>4, <2>1, <2>2 DEF BridgeShape
<1>6. \A y \in Sides : InLimits(submitted[y])'
  BY <1>0, <1>1 DEF InLimits
<1>7. Flow(x)'
  <2>1. published'[s] = published[s]
    BY <1>0, <1>3 DEF BridgeShape
  <2>2. phase'[s] = phase[s] /\ (phase[x] = "failed" => phase'[x] = "failed")
    BY <1>0, <1>1, <1>3 DEF BridgeShape
  <2>3. Route(ready[s], Between(x), submitted[x])' = Route(ready[s], Between(x), submitted[x])
    BY <1>1, <1>4 DEF Route, Between
  <2> QED BY <1>0, <1>1, <2>1, <2>2, <2>3, FlowKept DEF s
<1>8. Flow(s)'
  <2> DEFINE t == Route(Tail(ready[x]), Between(s), submitted[s])
  <2>1. t \in Seq(Framed) /\ Route(ready[x], Between(s), submitted[s]) = <<f>> \o t
    <3>1. ready[x] \in Seq(Framed) /\ Between(s) \in Seq(Framed) /\ submitted[s] \in Seq(Framed)
      BY <1>0, RouteShape
    <3> QED BY <1>1, <3>1, RouteHead DEF f
  <2>2. Route(ready[x], Between(s), submitted[s])' = t
    BY <1>1, <1>4 DEF Route, Between
  <2> HIDE DEF t
  <2>3. CASE published' = [published EXCEPT ![x] = Append(@, m)] /\ phase' = phase
    <3>1. Flows(published[x], <<f>> \o t, outgoing[s], arrived[s], phase[s] = "failed", FALSE)
      BY <1>0, <1>1, <2>1 DEF Flow
    <3>2. Flows(Append(published[x], m), t, outgoing[s], arrived[s], phase[s] = "failed", FALSE)
      BY <1>2, <2>1, <3>1, FlowsDeliver DEF m
    <3>3. published'[x] = Append(published[x], m)
      BY <1>0, <2>3 DEF BridgeShape
    <3> QED BY <1>0, <1>1, <2>2, <2>3, <3>2, <3>3 DEF Flow
  <2>4. CASE published' = published /\ phase' = [phase EXCEPT ![x] = "failed"]
    <3>1. phase'[x] = "failed"
      BY <1>0, <2>4 DEF BridgeShape
    <3> QED BY <1>0, <1>1, <2>1, <2>2, <2>4, <3>1, FlowEnds
  <2> QED BY <1>3, <2>3, <2>4
<1>9. \A y \in Sides : Flow(y)'
  BY <1>7, <1>8, BothFlows DEF s
<1> QED BY <1>5, <1>6, <1>9 DEF BridgeInv

\* Only the phase of one bridge changes, and it does not fail.
LEMMA PhaseInv ==
  ASSUME BridgeInv, NEW x \in Sides, NEW p \in BridgePhases, phase' = [phase EXCEPT ![x] = p],
         phase[x] # "failed",
         UNCHANGED <<outgoing, submitted, incoming, ready, arrived, published>>
  PROVE  BridgeInv'
<1>0. BridgeShape /\ \A y \in Sides : InLimits(submitted[y]) /\ Flow(y)
  BY DEF BridgeInv
<1>1. BridgeShape'
  BY <1>0 DEF BridgeShape
<1>2. \A y \in Sides : InLimits(submitted[y])'
  BY <1>0 DEF InLimits
<1>3. ASSUME NEW y \in Sides PROVE Flow(y)'
  <2>1. Other(y) \in Sides
    BY OtherSide
  <2>2. (phase[y] = "failed" => phase'[y] = "failed") /\ (phase[Other(y)] = "failed" => phase'[Other(y)] = "failed")
    BY <1>0, <2>1 DEF BridgeShape
  <2>3. Route(ready[Other(y)], Between(y), submitted[y])' = Route(ready[Other(y)], Between(y), submitted[y])
    BY DEF Route, Between
  <2> QED BY <1>0, <2>2, <2>3, FlowKept
<1> QED BY <1>1, <1>2, <1>3 DEF BridgeInv

\* A callback frames a message, or ends the bridge.
LEMMA CallbackInv ==
  ASSUME BridgeInv, NEW s \in Sides, NEW k \in Routes[s], NEW d \in Payloads,
         Callback(s, [key |-> k, data |-> d])
  PROVE  BridgeInv'
<1> DEFINE x == Other(s)
<1> DEFINE m == [key |-> k, data |-> d]
<1>0. BridgeShape /\ (\A y \in Sides : InLimits(submitted[y]) /\ Flow(y)) /\ x \in Sides /\ Other(x) = s /\ s # x
  BY OtherSide DEF BridgeInv
<1>1. /\ phase[s] = "pump" /\ arrived' = [arrived EXCEPT ![s] = Append(@, m)]
      /\ UNCHANGED <<submitted, incoming, ready, published>>
  BY DEF Callback, CallbackElse, Add
<1>2. \/ outgoing' = [outgoing EXCEPT ![s] = Append(@, Frame(m))] /\ phase' = phase
      \/ outgoing' = outgoing /\ phase' = [phase EXCEPT ![s] = "failed"]
  BY DEF Callback, CallbackElse, Add
<1>3. m \in Parcels
  BY BridgeAssumption DEF Parcels
<1> HIDE DEF x, m
<1>4. Frame(m) \in Framed
  BY <1>3 DEF Framed
<1>5. arrived'[s] = Append(arrived[s], m) /\ arrived'[x] = arrived[x] /\ arrived' \in [Sides -> Seq(Parcels)]
  <2>1. Append(arrived[s], m) \in Seq(Parcels)
    BY <1>0, <1>3, AppendProperties DEF BridgeShape
  <2> QED BY <1>0, <1>1, <2>1 DEF BridgeShape
<1>6. outgoing'[x] = outgoing[x] /\ outgoing' \in [Sides -> Seq(Framed)]
  <2>1. Append(outgoing[s], Frame(m)) \in Seq(Framed)
    BY <1>0, <1>4, AppendProperties DEF BridgeShape
  <2> QED BY <1>0, <1>2, <2>1 DEF BridgeShape
<1>7. BridgeShape'
  <2>1. phase' \in [Sides -> BridgePhases]
    BY <1>0, <1>2 DEF BridgeShape, BridgePhases
  <2> QED BY <1>0, <1>1, <1>5, <1>6, <2>1 DEF BridgeShape
<1>8. \A y \in Sides : InLimits(submitted[y])'
  BY <1>0, <1>1 DEF InLimits
<1>9. \A y \in Sides : Route(ready[Other(y)], Between(y), submitted[y])' = Route(ready[Other(y)], Between(y), submitted[y])
  BY <1>1 DEF Route, Between
<1>10. Flow(x)'
  <2>1. (phase[x] = "failed" => phase'[x] = "failed") /\ (phase[s] = "failed" => phase'[s] = "failed")
    BY <1>0, <1>1, <1>2 DEF BridgeShape
  <2> QED BY <1>0, <1>1, <1>5, <1>6, <1>9, <2>1, FlowKept
<1>11. Flow(s)'
  <2> DEFINE w == Route(ready[x], Between(s), submitted[s])
  <2>0. w' = w /\ Flows(published[x], w, outgoing[s], arrived[s], FALSE, phase[x] = "failed")
    BY <1>0, <1>1, <1>9 DEF Flow, x
  <2>1. CASE outgoing' = [outgoing EXCEPT ![s] = Append(@, Frame(m))] /\ phase' = phase
    <3>1. outgoing'[s] = Append(outgoing[s], Frame(m))
      BY <1>0, <2>1 DEF BridgeShape
    <3>2. Flows(published[x], w, outgoing'[s], arrived'[s], FALSE, phase[x] = "failed")
      <4> HIDE DEF w
      <4>1. Flows(published[x], w, Append(outgoing[s], Frame(m)), Append(arrived[s], m), FALSE, phase[x] = "failed")
        BY <1>3, <2>0, FlowsAccept, Zenon
      <4> QED BY <1>5, <3>1, <4>1
    <3> QED BY <1>1, <2>0, <2>1, <3>2 DEF Flow, x
  <2>2. CASE outgoing' = outgoing /\ phase' = [phase EXCEPT ![s] = "failed"]
    <3>1. phase'[s] = "failed" /\ phase'[x] = phase[x]
      BY <1>0, <2>2 DEF BridgeShape
    <3>2. Flows(published[x], w, outgoing[s], arrived'[s], TRUE, phase[x] = "failed")
      <4> HIDE DEF w
      <4>1. Flows(published[x], w, outgoing[s], Append(arrived[s], m), TRUE, phase[x] = "failed")
        BY <1>3, <2>0, FlowsRefuse, Zenon
      <4> QED BY <1>5, <4>1
    <3> QED BY <1>1, <2>0, <2>2, <3>1, <3>2 DEF Flow, x
  <2> QED BY <1>2, <2>1, <2>2
<1>12. \A y \in Sides : Flow(y)'
  BY <1>10, <1>11, BothFlows DEF x
<1> QED BY <1>7, <1>8, <1>12 DEF BridgeInv

\* The controller takes a frame, or ends the bridge.
LEMMA DrainInv ==
  ASSUME BridgeInv, NEW s \in Sides, Drain(s) PROVE BridgeInv'
<1> DEFINE x == Other(s)
<1> DEFINE f == Head(outgoing[s])
<1>0. BridgeShape /\ (\A y \in Sides : InLimits(submitted[y]) /\ Flow(y)) /\ x \in Sides /\ Other(x) = s /\ s # x
  BY OtherSide DEF BridgeInv
<1>1. /\ phase[s] = "drain" /\ outgoing[s] # <<>> /\ outgoing' = [outgoing EXCEPT ![s] = Tail(@)]
      /\ UNCHANGED <<incoming, ready, arrived, published>>
  BY DEF Drain, Pop
<1>2. \/ /\ Fits(submitted[s], <<f>>) /\ phase' = phase
         /\ submitted' = [submitted EXCEPT ![s] = Append(@, f)]
      \/ submitted' = submitted /\ phase' = [phase EXCEPT ![s] = "failed"]
  BY DEF Drain, Add, Goto
<1>3. outgoing[s] \in Seq(Framed) /\ f \in Framed /\ Tail(outgoing[s]) \in Seq(Framed) /\ submitted[s] \in Seq(Framed)
  <2>1. outgoing[s] \in Seq(Framed) /\ submitted[s] \in Seq(Framed)
    BY <1>0 DEF BridgeShape
  <2> QED BY <1>1, <2>1, HeadAndTail
<1> HIDE DEF x
<1>4. outgoing'[s] = Tail(outgoing[s]) /\ outgoing'[x] = outgoing[x] /\ outgoing' \in [Sides -> Seq(Framed)]
  BY <1>0, <1>1, <1>3 DEF BridgeShape
<1> HIDE DEF f
<1>5. submitted'[x] = submitted[x] /\ submitted' \in [Sides -> Seq(Framed)]
  <2>1. Append(submitted[s], f) \in Seq(Framed)
    BY <1>3, AppendProperties
  <2> QED BY <1>0, <1>2, <2>1 DEF BridgeShape
<1>6. BridgeShape'
  <2>1. phase' \in [Sides -> BridgePhases]
    BY <1>0, <1>2 DEF BridgeShape, BridgePhases
  <2> QED BY <1>0, <1>1, <1>4, <1>5, <2>1 DEF BridgeShape
<1>7. InLimits(submitted'[s])
  <2>1. CASE Fits(submitted[s], <<f>>) /\ submitted' = [submitted EXCEPT ![s] = Append(@, f)]
    <3>1. submitted'[s] = Append(submitted[s], f)
      BY <1>0, <2>1 DEF BridgeShape
    <3>2. submitted[s] \in Seq(Bytes) /\ f \in Bytes
      BY <1>3, FramedSeq, FramedType
    <3>3. bytes(Append(submitted[s], f)) = bytes(submitted[s]) + Len(f) /\ bytes(<<f>>) = Len(f)
      BY <3>2, BytesAppend, BytesOfOne
    <3>4. Len(Append(submitted[s], f)) = Len(submitted[s]) + 1 /\ Len(<<f>>) = 1
      BY <1>3, AppendProperties
    <3> QED BY <2>1, <3>1, <3>3, <3>4 DEF Fits, InLimits
  <2>2. CASE submitted' = submitted
    BY <1>0, <2>2
  <2> QED BY <1>2, <2>1, <2>2
<1>8. \A y \in Sides : InLimits(submitted[y])'
  <2>1. InLimits(submitted[s])' /\ InLimits(submitted[x])'
    BY <1>0, <1>5, <1>7 DEF InLimits
  <2> QED BY <2>1, OtherSide DEF x
<1>9. Flow(x)'
  <2>1. Route(ready[s], Between(x), submitted[x])' = Route(ready[s], Between(x), submitted[x])
    BY <1>1, <1>5 DEF Route, Between
  <2>2. phase'[x] = phase[x] /\ (phase[s] = "failed" => phase'[s] = "failed")
    BY <1>0, <1>1, <1>2 DEF BridgeShape
  <2> QED BY <1>0, <1>1, <1>4, <2>1, <2>2, FlowKept
<1>10. Flow(s)'
  <2> DEFINE w == Route(ready[x], Between(s), submitted[s])
  <2>0. Flows(published[x], w, outgoing[s], arrived[s], FALSE, phase[x] = "failed") /\ w \in Seq(Framed)
    BY <1>0, <1>1, RouteShape DEF Flow, x
  <2>1. CASE /\ phase' = phase
             /\ submitted' = [submitted EXCEPT ![s] = Append(@, f)]
    <3>1. submitted'[s] = Append(submitted[s], f) /\ ready' = ready /\ Between(s)' = Between(s)
      BY <1>0, <1>1, <2>1 DEF BridgeShape, Between
    <3>2. w' = Append(w, f)
      <4>1. Route(ready[x], Between(s), Append(submitted[s], f)) = Append(w, f)
        <5>1. ready[x] \in Seq(Framed) /\ Between(s) \in Seq(Framed)
          BY <1>0, RouteShape DEF x
        <5> QED BY <1>3, <5>1, RouteAppend
      <4> QED BY <3>1, <4>1 DEF Route
    <3>3. Flows(published[x], Append(w, f), Tail(outgoing[s]), arrived[s], FALSE, phase[x] = "failed")
      <4> HIDE DEF w
      <4> QED BY <1>1, <2>0, FlowsDrain, Zenon DEF f
    <3> QED BY <1>1, <1>4, <2>1, <3>2, <3>3 DEF Flow, x
  <2>2. CASE submitted' = submitted /\ phase' = [phase EXCEPT ![s] = "failed"]
    <3>1. phase'[s] = "failed" /\ phase'[x] = phase[x]
      BY <1>0, <2>2 DEF BridgeShape
    <3>2. w' = w
      BY <1>1, <2>2 DEF Route, Between
    <3>3. Flows(published[x], w, Tail(outgoing[s]), arrived[s], TRUE, phase[x] = "failed")
      <4> HIDE DEF w
      <4> QED BY <1>3, <2>0, FlowsFail, Zenon
    <3> QED BY <1>1, <1>4, <3>1, <3>2, <3>3 DEF Flow, x
  <2> QED BY <1>2, <2>1, <2>2
<1>11. \A y \in Sides : Flow(y)'
  BY <1>9, <1>10, BothFlows DEF x
<1> QED BY <1>6, <1>8, <1>11 DEF BridgeInv

\* A controller's queue arrives as it was submitted.
LEMMA QueueRoundTrip ==
  ASSUME BridgeInv, NEW s \in Sides
  PROVE  decode(encode(submitted[s])).ok /\ decode(encode(submitted[s])).msgs = submitted[s]
<1>1. submitted[s] \in Seq(Bytes)
  BY FramedSeq DEF BridgeInv, BridgeShape
<1> QED BY <1>1, BatchRoundTrip DEF BridgeInv, InLimits

\* An empty queue is within the limits.
LEMMA EmptyInLimits == InLimits(<<>>)
<1>1. <<>> \in Bytes
  BY DEF Bytes
<1>2. bytes(<<>>) = 0 /\ max_messages \in Nat /\ max_bytes \in Nat
  BY <1>1, BytesOfOne, CodecAssumption DEF Representable
<1> QED BY <1>2 DEF InLimits

\* The guest's batch is received by the host's controller, or ends it.
LEMMA SendInv ==
  ASSUME BridgeInv, Send PROVE BridgeInv'
<1> DEFINE q == submitted["guest"]
<1>0. BridgeShape /\ (\A y \in Sides : InLimits(submitted[y]) /\ Flow(y)) /\ "host" \in Sides /\ "guest" \in Sides
  BY DEF BridgeInv, Sides
<1>1. /\ phase["guest"] = "step" /\ submitted' = [submitted EXCEPT !["guest"] = <<>>]
      /\ UNCHANGED <<outgoing, ready, arrived, published>>
  BY DEF Send
<1>2. \/ incoming' = incoming \o q /\ phase' = [phase EXCEPT !["guest"] = "sent"]
      \/ incoming' = incoming /\ phase' = [phase EXCEPT !["guest"] = "sent", !["host"] = "failed"]
  <2>1. decode(encode(q)).ok /\ decode(encode(q)).msgs = q
    BY <1>0, QueueRoundTrip
  <2> HIDE DEF q
  <2>2. CASE Fits(incoming, q)
    BY <1>0, <2>1, <2>2 DEF Send, BridgeShape, q
  <2>3. CASE ~Fits(incoming, q)
    BY <1>0, <2>1, <2>3 DEF Send, BridgeShape, q
  <2> QED BY <2>2, <2>3
<1>3. q \in Seq(Framed) /\ incoming \in Seq(Framed)
  BY <1>0 DEF BridgeShape
<1>4. /\ submitted'["guest"] = <<>> /\ submitted'["host"] = submitted["host"]
      /\ submitted' \in [Sides -> Seq(Framed)]
  BY <1>0, <1>1 DEF BridgeShape
<1>5. incoming' \in Seq(Framed)
  BY <1>2, <1>3, ConcatProperties
<1>6. phase'["guest"] = "sent" /\ (phase["host"] = "failed" => phase'["host"] = "failed")
      /\ phase' \in [Sides -> BridgePhases]
  BY <1>0, <1>2 DEF BridgeShape, BridgePhases
<1>7. BridgeShape'
  BY <1>0, <1>1, <1>4, <1>5, <1>6 DEF BridgeShape
<1>8. \A y \in Sides : InLimits(submitted[y])'
  <2>1. InLimits(submitted'["guest"]) /\ InLimits(submitted'["host"])
    BY <1>0, <1>4, EmptyInLimits
  <2> QED BY <2>1 DEF Sides, InLimits
<1>9. Other("guest") = "host" /\ Other("host") = "guest"
  BY DEF Other
<1>10. Flow("host")'
  <2>1. Route(ready["guest"], Between("host"), submitted["host"])' = Route(ready["guest"], Between("host"), submitted["host"])
    BY <1>1, <1>4 DEF Route, Between
  <2>2. phase["guest"] = "failed" => phase'["guest"] = "failed"
    BY <1>1
  <2> QED BY <1>0, <1>1, <1>6, <1>9, <2>1, <2>2, FlowKept
<1>11. Flow("guest")'
  <2>1. CASE incoming' = incoming \o q /\ phase' = [phase EXCEPT !["guest"] = "sent"]
    <3>1. Route(ready["host"], incoming \o q, <<>>) = Route(ready["host"], incoming, q)
      <4>1. ready["host"] \in Seq(Framed)
        BY <1>0 DEF BridgeShape
      <4> QED BY <1>3, <4>1, RouteMoves
    <3>2. Route(ready["host"], Between("guest"), submitted["guest"])' = Route(ready["host"], Between("guest"), submitted["guest"])
      BY <1>1, <1>4, <2>1, <3>1 DEF Route, Between
    <3>3. phase["guest"] = "failed" => phase'["guest"] = "failed"
      BY <1>1
    <3> QED BY <1>0, <1>1, <1>6, <1>9, <3>2, <3>3, FlowKept
  <2>2. CASE incoming' = incoming /\ phase' = [phase EXCEPT !["guest"] = "sent", !["host"] = "failed"]
    <3>1. phase'["host"] = "failed"
      BY <1>0, <2>2 DEF BridgeShape
    <3>2. Route(ready["host"], Between("guest"), submitted["guest"])' \in Seq(Framed)
      <4>1. ready'["host"] \in Seq(Framed) /\ Between("guest")' \in Seq(Framed) /\ submitted'["guest"] \in Seq(Framed)
        BY <1>0, <1>7 DEF BridgeShape, Between
      <4> QED BY <4>1, RouteType
    <3> QED BY <1>0, <1>1, <1>9, <3>1, <3>2, FlowEnds
  <2> QED BY <1>2, <2>1, <2>2
<1>12. \A y \in Sides : Flow(y)'
  BY <1>10, <1>11 DEF Sides
<1> QED BY <1>7, <1>8, <1>12 DEF BridgeInv

\* The guest receives what the host's controller has queued, or ends.
LEMMA ReplyInv ==
  ASSUME BridgeInv, Reply PROVE BridgeInv'
<1> DEFINE q == submitted["host"]
<1>0. BridgeShape /\ (\A y \in Sides : InLimits(submitted[y]) /\ Flow(y)) /\ "host" \in Sides /\ "guest" \in Sides
  BY DEF BridgeInv, Sides
<1>1. /\ phase["guest"] = "sent" /\ submitted' = [submitted EXCEPT !["host"] = <<>>]
      /\ UNCHANGED <<outgoing, incoming, arrived, published>>
  BY DEF Reply
<1>2. \/ ready' = [ready EXCEPT !["guest"] = @ \o q] /\ phase' = [phase EXCEPT !["guest"] = "deliver"]
      \/ ready' = ready /\ phase' = [phase EXCEPT !["guest"] = "failed"]
  <2>1. decode(encode(q)).ok /\ decode(encode(q)).msgs = q
    BY <1>0, QueueRoundTrip
  <2> HIDE DEF q
  <2> QED BY <2>1 DEF Reply, Goto, q
<1>3. q \in Seq(Framed) /\ ready["guest"] \in Seq(Framed) /\ ready["guest"] \o q \in Seq(Framed)
  <2>1. q \in Seq(Framed) /\ ready["guest"] \in Seq(Framed)
    BY <1>0 DEF BridgeShape
  <2> HIDE DEF q
  <2> QED BY <2>1, ConcatProperties
<1>4. /\ submitted'["host"] = <<>> /\ submitted'["guest"] = submitted["guest"]
      /\ submitted' \in [Sides -> Seq(Framed)]
  BY <1>0, <1>1 DEF BridgeShape
<1>5. ready' \in [Sides -> Seq(Framed)] /\ ready'["host"] = ready["host"]
  <2> HIDE DEF q
  <2> QED BY <1>0, <1>2, <1>3 DEF BridgeShape
<1>6. phase'["host"] = phase["host"] /\ phase' \in [Sides -> BridgePhases]
  BY <1>0, <1>2 DEF BridgeShape, BridgePhases
<1>7. BridgeShape'
  BY <1>0, <1>1, <1>4, <1>5, <1>6 DEF BridgeShape
<1>8. \A y \in Sides : InLimits(submitted[y])'
  <2>1. InLimits(submitted'["guest"]) /\ InLimits(submitted'["host"])
    BY <1>0, <1>4, EmptyInLimits
  <2> QED BY <2>1 DEF Sides, InLimits
<1>9. Other("guest") = "host" /\ Other("host") = "guest" /\ Between("host") = <<>> /\ Between("host")' = <<>>
  BY DEF Other, Between
<1>10. Flow("guest")'
  <2>1. Route(ready["host"], Between("guest"), submitted["guest"])' = Route(ready["host"], Between("guest"), submitted["guest"])
    BY <1>1, <1>4, <1>5 DEF Route, Between
  <2>2. phase["guest"] = "failed" => phase'["guest"] = "failed"
    BY <1>1
  <2> QED BY <1>0, <1>1, <1>6, <1>9, <2>1, <2>2, FlowKept
<1>11. Flow("host")'
  <2>1. CASE ready' = [ready EXCEPT !["guest"] = @ \o q] /\ phase' = [phase EXCEPT !["guest"] = "deliver"]
    <3> HIDE DEF q
    <3>1. Route(ready["guest"] \o q, <<>>, <<>>) = Route(ready["guest"], <<>>, q)
      <4>1. <<>> \in Seq(Framed)
        OBVIOUS
      <4> QED BY <1>3, <4>1, RouteMoves
    <3>2. ready'["guest"] = ready["guest"] \o q
      BY <1>0, <2>1 DEF BridgeShape
    <3>3. Route(ready["guest"], Between("host"), submitted["host"])' = Route(ready["guest"], Between("host"), submitted["host"])
      BY <1>4, <1>9, <3>1, <3>2 DEF Route, q
    <3>4. phase["guest"] = "failed" => phase'["guest"] = "failed"
      BY <1>1
    <3> QED BY <1>0, <1>1, <1>6, <1>9, <3>3, <3>4, FlowKept
  <2>2. CASE ready' = ready /\ phase' = [phase EXCEPT !["guest"] = "failed"]
    <3>1. phase'["guest"] = "failed"
      BY <1>0, <2>2 DEF BridgeShape
    <3>2. Route(ready["guest"], Between("host"), submitted["host"])' \in Seq(Framed)
      <4>1. ready'["guest"] \in Seq(Framed) /\ Between("host")' \in Seq(Framed) /\ submitted'["host"] \in Seq(Framed)
        BY <1>0, <1>5, <1>4, <1>9
      <4> QED BY <4>1, RouteType
    <3> QED BY <1>0, <1>1, <1>9, <3>1, <3>2, FlowEnds
  <2> QED BY <1>2, <2>1, <2>2
<1>12. \A y \in Sides : Flow(y)'
  BY <1>10, <1>11 DEF Sides
<1> QED BY <1>7, <1>8, <1>12 DEF BridgeInv

\* At a step what the host's controller received becomes available.
LEMMA StepInv ==
  ASSUME BridgeInv, Step PROVE BridgeInv'
<1>0. BridgeShape /\ (\A y \in Sides : InLimits(submitted[y]) /\ Flow(y)) /\ "host" \in Sides /\ "guest" \in Sides
  BY DEF BridgeInv, Sides
<1>1. /\ phase["host"] = "step" /\ phase' = [phase EXCEPT !["host"] = "deliver"]
      /\ ready' = [ready EXCEPT !["host"] = ready["host"] \o incoming] /\ incoming' = <<>>
      /\ UNCHANGED <<outgoing, submitted, arrived, published>>
  BY DEF Step, StepTaking, Goto
<1>2. ready["host"] \in Seq(Framed) /\ incoming \in Seq(Framed) /\ ready["host"] \o incoming \in Seq(Framed)
  <2>1. ready["host"] \in Seq(Framed) /\ incoming \in Seq(Framed)
    BY <1>0 DEF BridgeShape
  <2> QED BY <2>1, ConcatProperties
<1>3. /\ ready' \in [Sides -> Seq(Framed)] /\ ready'["guest"] = ready["guest"]
      /\ ready'["host"] = ready["host"] \o incoming
  BY <1>0, <1>1, <1>2 DEF BridgeShape
<1>4. /\ phase'["guest"] = phase["guest"] /\ phase' \in [Sides -> BridgePhases]
      /\ phase["host"] = "failed" => phase'["host"] = "failed"
  BY <1>0, <1>1 DEF BridgeShape, BridgePhases
<1>5. BridgeShape'
  BY <1>0, <1>1, <1>3, <1>4 DEF BridgeShape
<1>6. \A y \in Sides : InLimits(submitted[y])'
  BY <1>0, <1>1 DEF InLimits
<1>7. Other("guest") = "host" /\ Other("host") = "guest"
  BY DEF Other
<1>8. Flow("host")'
  <2>1. Route(ready["guest"], Between("host"), submitted["host"])' = Route(ready["guest"], Between("host"), submitted["host"])
    BY <1>1, <1>3 DEF Route, Between
  <2> QED BY <1>0, <1>1, <1>4, <1>7, <2>1, FlowKept
<1>9. Flow("guest")'
  <2>1. submitted["guest"] \in Seq(Framed)
    BY <1>0 DEF BridgeShape
  <2>2. Route(ready["host"] \o incoming, <<>>, submitted["guest"]) = Route(ready["host"], incoming, submitted["guest"])
    BY <1>2, <2>1, RouteMoves
  <2>3. Route(ready["host"], Between("guest"), submitted["guest"])' = Route(ready["host"], Between("guest"), submitted["guest"])
    BY <1>1, <1>3, <2>2 DEF Route, Between
  <2> QED BY <1>0, <1>1, <1>4, <1>7, <2>3, FlowKept
<1>10. \A y \in Sides : Flow(y)'
  BY <1>8, <1>9 DEF Sides
<1> QED BY <1>5, <1>6, <1>10 DEF BridgeInv

\* The loop's phases pass without touching a queue.
LEMMA LoopInv ==
  ASSUME BridgeInv, NEW s \in Sides, Loop(s) PROVE BridgeInv'
<1>1. CASE Deliver(s)
  BY <1>1, DeliverInv
<1>2. CASE DeliveredAll(s)
  BY <1>2, PhaseInv DEF DeliveredAll, Goto, BridgePhases
<1>3. CASE Pumped(s)
  BY <1>3, PhaseInv DEF Pumped, Goto, BridgePhases
<1>4. CASE Drain(s)
  BY <1>4, DrainInv
<1>5. CASE Drained(s)
  <2>1. \E p \in BridgePhases : phase' = [phase EXCEPT ![s] = p]
    BY <1>5 DEF Drained, Goto, BridgePhases
  <2>2. phase[s] # "failed" /\ UNCHANGED <<outgoing, submitted, incoming, ready, arrived, published>>
    BY <1>5 DEF Drained
  <2> QED BY <2>1, <2>2, PhaseInv
<1> QED BY <1>1, <1>2, <1>3, <1>4, <1>5 DEF Loop

\* Every step of bridges and controllers keeps the invariant.
LEMMA BridgeInvStep ==
  ASSUME BridgeInv, [BridgeNext]_bridgeVars PROVE BridgeInv'
<1>1. CASE Send
  BY <1>1, SendInv
<1>2. CASE Reply
  BY <1>2, ReplyInv
<1>3. CASE Step
  BY <1>3, StepInv
<1>4. ASSUME NEW s \in Sides, Loop(s) PROVE BridgeInv'
  BY <1>4, LoopInv
<1>5. ASSUME NEW s \in Sides, NEW k \in Routes[s], NEW d \in Payloads, Callback(s, [key |-> k, data |-> d])
      PROVE  BridgeInv'
  BY <1>5, CallbackInv
<1>6. CASE UNCHANGED bridgeVars
  BY <1>6 DEF bridgeVars, BridgeInv, BridgeShape, InLimits, Flow, Between
<1> QED BY <1>1, <1>2, <1>3, <1>4, <1>5, <1>6 DEF BridgeNext

\* In every state of the invariant nothing is lost silently: the route and the
\* sending bridge hold what is in flight.
LEMMA NothingLost ==
  ASSUME BridgeInv PROVE NoSilentLoss
<1> SUFFICES ASSUME NEW s \in Sides
             PROVE  /\ IsPrefix(published[Other(s)], arrived[s])
                    /\ ~Failed => published[Other(s)] \o Shown(InFlight(s)) = arrived[s]
  BY Zenon DEF NoSilentLoss, Shown
<1> DEFINE p == published[Other(s)]
<1> DEFINE a == arrived[s]
<1>1. Flow(s) /\ BridgeShape /\ Other(s) \in Sides
  BY OtherSide DEF BridgeInv
<1>2. p \in Seq(Parcels) /\ a \in Seq(Parcels) /\ Continues(a, p)
  BY <1>1 DEF Flow, Flows
<1>3. IsPrefix(p, a)
  <2> HIDE DEF p, a
  <2>1. PICK r \in Seq(Parcels) : a = p \o r
    BY <1>2 DEF Continues
  <2>2. Len(a) = Len(p) + Len(r) /\ Len(p) \in Nat /\ Len(r) \in Nat /\ \A i \in 1 .. Len(p) : a[i] = p[i]
    BY <1>2, <2>1, ConcatProperties
  <2>3. SubSeq(a, 1, Len(p)) \in Seq(Parcels) /\ Len(SubSeq(a, 1, Len(p))) = Len(p)
        /\ \A i \in 1 .. Len(p) : SubSeq(a, 1, Len(p))[i] = a[i]
    BY <1>2, <2>2
  <2>4. p = SubSeq(a, 1, Len(p))
    BY <1>2, <2>2, <2>3, SeqEqual
  <2> QED BY <2>2, <2>4 DEF IsPrefix
<1>4. InFlight(s) = Route(ready[Other(s)], Between(s), submitted[s]) \o outgoing[s]
  BY QueueRoundTrip DEF InFlight, Route, Between
<1>5. ~Failed => a = p \o Shown(InFlight(s))
  BY <1>1, <1>4 DEF Failed, Flow, Flows
<1> QED BY <1>3, <1>5

\* As long as no bridge has failed, every message a callback was given has been
\* published on the other side or is on its way there, in order, and after a
\* failure what was published is a prefix of what arrived: for every set of
\* routes and payloads and every limit of bridges and controllers.
THEOREM BridgeLosesNothing == BridgeSpec => []NoSilentLoss
<1>1. BridgeInit => BridgeInv
  BY BridgeInit_Inv
<1>2. BridgeInv /\ [BridgeNext]_bridgeVars => BridgeInv'
  BY BridgeInvStep
<1>3. BridgeInv => NoSilentLoss
  BY NothingLost
<1> QED BY <1>1, <1>2, <1>3, PTL DEF BridgeSpec

-----------------------------------------------------------------------------
(* The inductive invariant of the transport.  An exchange goes through     *)
(* seven stages; the host may end in each, and the guest then goes no      *)
(* further than what it was sent.                                          *)

Ended == {"failed", "gone"}

Quiet(d) == sent[d] = got[d]
Pending(d, m) == sent[d] = Append(got[d], m)

\* Nothing that the guest could take for the n bytes it waits for.
Short(n) == connection # "none" => Len(packet) < n

\* Nothing that the host could take for a packet.
NoneQueued == hpc \notin Ended => backlog = <<>>

\* A packet in the backlog, and one gem5 died in.
Full(p) == [len |-> Len(p), bytes |-> p]
Torn(p, q) == gem5 # "up" /\ q.len = Len(p) /\ Len(q.bytes) < Len(p)

\* What the guest has written and the host not yet read.
Queued ==
  LET h == digits(Len(gdata))
  IN  /\ hpc = "recvHeader" =>
           /\ gpc = "sendHeader" => backlog = <<>> \/ \E q : Torn(h, q) /\ backlog = <<q>>
           /\ gpc = "sendBody" => \/ backlog = <<Full(h)>>
                                  \/ \E q : Torn(gdata, q) /\ backlog = <<Full(h), q>>
           /\ gpc = "recvHeader" =>
                backlog = IF gdata = <<>> THEN <<Full(h)>> ELSE <<Full(h), Full(gdata)>>
      /\ hpc = "recvBody" =>
           /\ hsize = Len(gdata) /\ gdata # <<>> /\ gpc # "sendHeader"
           /\ gpc = "sendBody" => backlog = <<>> \/ \E q : Torn(gdata, q) /\ backlog = <<q>>
           /\ gpc = "recvHeader" => backlog = <<Full(gdata)>>

Resting ==
  /\ gpc = "idle" /\ hpc \in {"recvHeader"} \cup Ended /\ connection = "none" /\ NoneQueued
  /\ Quiet("g2h") /\ Quiet("h2g")

Asking ==
  /\ gpc \in {"sendHeader", "sendBody", "recvHeader"}
  /\ hpc \in {"recvHeader", "recvBody"} \cup Ended
  /\ gpc = "sendBody" => gdata # <<>>
  /\ gpc # "recvHeader" => connection = "none"
  /\ Short(Width) /\ Queued /\ Pending("g2h", gdata) /\ Quiet("h2g")

Asked ==
  /\ gpc = "recvHeader" /\ hpc \in {"idle"} \cup Ended /\ Short(Width) /\ NoneQueued
  /\ Quiet("g2h") /\ Quiet("h2g")

Answering ==
  /\ gpc = "recvHeader" /\ hpc \in {"sendHeader"} \cup Ended /\ Short(Width) /\ NoneQueued
  /\ Quiet("g2h") /\ Pending("h2g", hdata)

HeaderSent ==
  /\ gpc = "recvHeader" /\ hpc \in {IF hdata = <<>> THEN "recvHeader" ELSE "sendBody"} \cup Ended
  /\ connection = "closed" /\ packet = digits(Len(hdata)) /\ NoneQueued
  /\ Quiet("g2h") /\ Pending("h2g", hdata)

HeaderTaken ==
  /\ gpc = "recvBody" /\ hpc \in {"sendBody"} \cup Ended /\ Short(gsize) /\ NoneQueued
  /\ hdata # <<>> /\ gsize = Len(hdata) /\ Quiet("g2h") /\ Pending("h2g", hdata)

BodySent ==
  /\ gpc = "recvBody" /\ hpc \in {"recvHeader"} \cup Ended /\ NoneQueued
  /\ connection = "closed" /\ packet = hdata
  /\ hdata # <<>> /\ gsize = Len(hdata) /\ Quiet("g2h") /\ Pending("h2g", hdata)

TransportShape ==
  /\ gdata \in Messages /\ hdata \in Messages
  /\ connection \in {"none", "open", "closed"} /\ packet \in Seq(Nat)
  /\ sent \in [Directions -> Seq(Messages)] /\ got \in [Directions -> Seq(Messages)]

LinkInv ==
  /\ TransportShape
  /\ Resting \/ Asking \/ Asked \/ Answering \/ HeaderSent \/ HeaderTaken \/ BodySent

\* A message fits in a packet, and its length in a header.
LEMMA MessageFits ==
  ASSUME NEW m \in Messages
  PROVE  /\ m \in Seq(Nat) /\ Len(m) \in Nat /\ Len(m) <= MaxSize /\ (m = <<>> <=> Len(m) = 0)
         /\ SubSeq(m, 1, Len(m)) = m
         /\ digits(Len(m)) \in Seq(Nat) /\ Len(digits(Len(m))) = Width
         /\ SubSeq(digits(Len(m)), 1, Width) = digits(Len(m))
         /\ number(digits(Len(m))) = Len(m)
<1>0. Base \in Nat /\ Width \in Nat /\ Representable(MaxSize) /\ MaxSize \in Nat
  BY FramingAssumption, TransportAssumption DEF Representable
<1>1. PICK n \in 0..MaxSize : m \in [1..n -> 0..(Base - 1)]
  BY DEF Messages
<1>2. n \in Nat /\ n <= MaxSize /\ \A i \in 1..n : m[i] \in Nat
  BY <1>0, <1>1
<1>3. m \in Seq(Nat) /\ Len(m) = n
  BY <1>1, <1>2
<1>4. m = <<>> <=> Len(m) = 0
  BY <1>3
<1>5. digits(n) \in Seq(Nat) /\ Len(digits(n)) = Width
  BY <1>2, DigitsType
<1>6. ASSUME NEW q \in Seq(Nat) PROVE SubSeq(q, 1, Len(q)) = q
  BY <1>6
<1>7. number(digits(n)) = n
  <2>1. Representable(n)
    BY <1>0, <1>2, RepresentableBelow
  <2> QED BY <2>1, HeaderRoundTrip
<1>8. SubSeq(m, 1, Len(m)) = m
  BY <1>3, <1>6
<1>9. SubSeq(digits(n), 1, Width) = digits(n)
  BY <1>5, <1>6
<1> QED BY <1>2, <1>3, <1>4, <1>5, <1>7, <1>8, <1>9

\* The empty message is one.
LEMMA EmptyMessage == <<>> \in Messages
<1>1. MaxSize \in Nat
  BY TransportAssumption DEF Representable
<1>2. <<>> \in [1..0 -> 0..(Base - 1)]
  OBVIOUS
<1> QED BY <1>1, <1>2 DEF Messages

\* Nothing is sent at first.
LEMMA TransportInit_Inv ==
  TransportInit => LinkInv /\ Link!Init
<1> SUFFICES ASSUME TransportInit PROVE LinkInv /\ Link!Init
  OBVIOUS
<1>1. TransportShape
  BY EmptyMessage DEF TransportInit, TransportShape
<1>2. Resting
  BY DEF TransportInit, Resting, NoneQueued, Quiet, Directions
<1> QED BY <1>1, <1>2 DEF LinkInv, TransportInit, Link!Init

\* A step that leaves the histories alone is a stutter of the link.
LinkStep == [Link!Next]_<<sent, got>>

\* A message that a side starts to send when the one before it was received.
LEMMA SendMaps ==
  ASSUME TransportShape, NEW d \in Directions, NEW m \in Messages, Quiet(d), Sends(d, m), got' = got
  PROVE  /\ LinkStep /\ Pending(d, m)' /\ sent' \in [Directions -> Seq(Messages)]
         /\ \A e \in Directions \ {d} : sent'[e] = sent[e]
<1>1. sent'[d] = Append(sent[d], m) /\ \A e \in Directions \ {d} : sent'[e] = sent[e]
  BY DEF TransportShape, Sends
<1>2. Pending(d, m)'
  BY <1>1 DEF Pending, Quiet
<1>3. sent' \in [Directions -> Seq(Messages)]
  BY DEF TransportShape, Sends
<1>4. Link!Send(d, m)
  BY DEF Sends, Quiet, Link!Send
<1> QED BY <1>1, <1>2, <1>3, <1>4 DEF LinkStep, Link!Next

\* A message that a side has received whole.
LEMMA ReceiveMaps ==
  ASSUME TransportShape, NEW d \in Directions, NEW m \in Messages, Pending(d, m), Gets(d, m), sent' = sent
  PROVE  /\ LinkStep /\ Quiet(d)' /\ got' \in [Directions -> Seq(Messages)]
         /\ \A e \in Directions \ {d} : got'[e] = got[e]
<1>1. got'[d] = Append(got[d], m) /\ \A e \in Directions \ {d} : got'[e] = got[e]
  BY DEF TransportShape, Gets
<1>2. Quiet(d)'
  BY <1>1 DEF Pending, Quiet
<1>3. got' \in [Directions -> Seq(Messages)]
  BY DEF TransportShape, Gets
<1>4. got[d] \in Seq(Messages) /\ sent[d] = Append(got[d], m)
  BY DEF TransportShape, Pending
<1>5. Len(sent[d]) = Len(got[d]) + 1 /\ Len(got[d]) \in Nat /\ sent[d][Len(got[d]) + 1] = m
  BY <1>4, AppendProperties
<1>6. Link!Receive(d)
  BY <1>5 DEF Gets, Link!Receive
<1> QED BY <1>1, <1>2, <1>3, <1>6 DEF LinkStep, Link!Next

\* What the guest waits for is at least one byte.
LEMMA WantsBytes ==
  Width \in Nat /\ Width > 0
BY FramingAssumption

\* The guest asks once it has the answer to what it asked before.
LEMMA GuestSendMaps ==
  ASSUME LinkInv, NEW m \in Messages, GuestSend(m) PROVE LinkInv' /\ LinkStep
<1>1. /\ gpc = "idle" /\ gpc' = "sendHeader" /\ gdata' = m /\ Sends("g2h", m)
      /\ UNCHANGED <<backlog, connection, packet, hpc, hdata, got>>
  BY DEF GuestSend, hostVars
<1>2. TransportShape /\ Resting
  BY <1>1 DEF LinkInv, Asking, Asked, Answering, HeaderSent, HeaderTaken, BodySent
<1>3. /\ LinkStep /\ Pending("g2h", m)' /\ sent' \in [Directions -> Seq(Messages)]
      /\ sent'["h2g"] = sent["h2g"]
  BY <1>1, <1>2, SendMaps DEF Resting, Directions
<1>4. TransportShape'
  BY <1>1, <1>2, <1>3 DEF TransportShape
<1>5. Asking'
  <2>1. Pending("g2h", gdata)' /\ Quiet("h2g")'
    BY <1>1, <1>2, <1>3 DEF Pending, Quiet, Resting
  <2>2. Queued' /\ Short(Width)'
    BY <1>1, <1>2 DEF Queued, Short, Resting, NoneQueued, Ended
  <2> QED BY <1>1, <1>2, <2>1, <2>2 DEF Asking, Resting
<1> QED BY <1>3, <1>4, <1>5 DEF LinkInv

\* What is queued stays so, also when gem5 ends.
LEMMA QueuedKept ==
  ASSUME Queued, gem5' = gem5 \/ gem5' # "up", UNCHANGED <<gpc, gdata, backlog, hpc, hsize>>
  PROVE  Queued'
<1> DEFINE h == digits(Len(gdata))
<1>1. h' = h /\ Full(h)' = Full(h) /\ Full(gdata)' = Full(gdata)
  BY DEF Full
<1>2. ASSUME NEW p, NEW q, Torn(p, q) PROVE gem5' # "up" /\ q.len = Len(p) /\ Len(q.bytes) < Len(p)
  BY <1>2 DEF Torn
<1> HIDE DEF h
<1>3. \A q : (Torn(h, q) => Torn(h, q)') /\ (Torn(gdata, q) => Torn(gdata, q)')
  BY <1>1, <1>2 DEF Torn
<1>4. hpc' = "recvHeader" =>
        /\ gpc' = "sendHeader" => backlog' = <<>> \/ \E q : Torn(h, q)' /\ backlog' = <<q>>
        /\ gpc' = "sendBody" => \/ backlog' = <<Full(h)'>>
                                \/ \E q : Torn(gdata, q)' /\ backlog' = <<Full(h)', q>>
        /\ gpc' = "recvHeader" =>
             backlog' = IF gdata' = <<>> THEN <<Full(h)'>> ELSE <<Full(h)', Full(gdata)'>>
  BY <1>1, <1>3 DEF Queued, h
<1>5. hpc' = "recvBody" =>
        /\ hsize' = Len(gdata') /\ gdata' # <<>> /\ gpc' # "sendHeader"
        /\ gpc' = "sendBody" => backlog' = <<>> \/ \E q : Torn(gdata, q)' /\ backlog' = <<q>>
        /\ gpc' = "recvHeader" => backlog' = <<Full(gdata)'>>
  BY <1>1, <1>3 DEF Queued
<1> QED BY <1>4, <1>5 DEF Queued, h

\* A packet behind another.
LEMMA AppendToOne ==
  ASSUME NEW a, NEW b PROVE Append(<<a>>, b) = <<a, b>> /\ Append(<<>>, b) = <<b>>
<1> DEFINE S == {a, b}
<1> DEFINE s == Append(<<a>>, b)
<1> DEFINE t == <<a, b>>
<1>1. <<a>> \in Seq(S) /\ Len(<<a>>) = 1 /\ a \in S /\ b \in S /\ <<a>>[1] = a
  OBVIOUS
<1>2. t \in Seq(S) /\ Len(t) = 2 /\ t[1] = a /\ t[2] = b
  OBVIOUS
<1>3. s \in Seq(S) /\ Len(s) = 2 /\ s[1] = a /\ s[2] = b
  <2> HIDE DEF S
  <2>1. ASSUME NEW q \in Seq(S), Len(q) = 1
        PROVE  /\ Append(q, b) \in Seq(S) /\ Len(Append(q, b)) = 2
               /\ Append(q, b)[1] = q[1] /\ Append(q, b)[2] = b
    <3>1. b \in S
      BY <1>1
    <3>2. /\ Append(q, b) \in Seq(S) /\ Len(Append(q, b)) = Len(q) + 1
          /\ Append(q, b)[Len(q) + 1] = b /\ \A i \in 1 .. Len(q) : Append(q, b)[i] = q[i]
      BY ONLY <3>1, q \in Seq(S), AppendProperties
    <3> QED BY <2>1, <3>2
  <2> QED BY <1>1, <2>1
<1>4. Append(<<>>, b) = <<b>>
  OBVIOUS
<1>5. s = t
  <2> HIDE DEF S, s, t
  <2>1. \A i \in 1 .. Len(s) : s[i] = t[i]
    BY <1>2, <1>3
  <2> QED BY <1>2, <1>3, <2>1, SeqEqual
<1> QED BY <1>4, <1>5

\* A packet taken from in front of another.
LEMMA TailOfTwo ==
  ASSUME NEW a, NEW b PROVE Tail(<<a, b>>) = <<b>> /\ Tail(<<a>>) = <<>>
OBVIOUS

\* gem5 queues the next packet of the message the guest sends.
LEMMA chimaeraSendMaps ==
  ASSUME LinkInv, chimaeraSend PROVE LinkInv' /\ LinkStep
<1> DEFINE p == Packet(gpc, gdata)
<1> DEFINE h == digits(Len(gdata))
<1>1. /\ gem5 = "up" /\ gpc \in {"sendHeader", "sendBody"} /\ gpc' = AfterPacket(gpc, gdata)
      /\ backlog' = Append(backlog, [len |-> Len(p), bytes |-> SubSeq(p, 1, Len(p))])
      /\ UNCHANGED <<gdata, gem5, connection, packet, hpc, hdata, hsize, sent, got>>
  BY DEF chimaeraSend, hostVars, Writes
<1>2. TransportShape /\ Asking
  BY <1>1 DEF LinkInv, Resting, Asked, Answering, HeaderSent, HeaderTaken, BodySent
<1>3. SubSeq(p, 1, Len(p)) = p
  BY <1>2, MessageFits DEF Packet, TransportShape
<1>4. backlog' = Append(backlog, Full(p))
  BY <1>1, <1>3 DEF Full
<1>5. TransportShape' /\ LinkStep
  BY <1>1, <1>2 DEF TransportShape, LinkStep
<1>6. gpc' \in {"sendBody", "recvHeader"} /\ (gpc' = "sendBody" => gdata' # <<>>) /\ connection' = "none"
  BY <1>1, <1>2 DEF AfterPacket, Asking
<1>7. Queued'
  <2>1. CASE gpc = "sendHeader"
    <3>1. p = h /\ (gpc' = "sendBody" <=> gdata # <<>>)
      BY <1>1, <2>1 DEF Packet, AfterPacket
    <3>2. hpc # "recvBody" /\ (hpc = "recvHeader" => backlog = <<>>)
      BY <1>1, <1>2, <2>1 DEF Asking, Queued, Torn
    <3>3. hpc = "recvHeader" => backlog' = <<Full(h)>>
      BY <1>4, <3>1, <3>2
    <3> QED BY <1>1, <1>6, <3>1, <3>2, <3>3 DEF Queued
  <2>2. CASE gpc = "sendBody"
    <3>1. p = gdata /\ gpc' = "recvHeader" /\ gdata # <<>>
      BY <1>1, <1>2, <2>2 DEF Packet, AfterPacket, Asking
    <3>2. /\ hpc = "recvHeader" => backlog = <<Full(h)>>
          /\ hpc = "recvBody" => backlog = <<>> /\ hsize = Len(gdata)
      BY <1>1, <1>2, <2>2 DEF Asking, Queued, Torn
    <3>3. /\ hpc = "recvHeader" => backlog' = <<Full(h), Full(gdata)>>
          /\ hpc = "recvBody" => backlog' = <<Full(gdata)>>
      <4> HIDE DEF p, h
      <4> QED BY <1>4, <3>1, <3>2, AppendToOne
    <3> QED BY <1>1, <3>1, <3>2, <3>3 DEF Queued
  <2> QED BY <1>1, <2>1, <2>2
<1>8. Pending("g2h", gdata)' /\ Quiet("h2g")' /\ Short(Width)' /\ hpc' \in {"recvHeader", "recvBody"} \cup Ended
  BY <1>1, <1>2, <1>6 DEF Asking, Pending, Quiet, Short
<1>9. Asking'
  BY <1>6, <1>7, <1>8 DEF Asking
<1> QED BY <1>5, <1>9 DEF LinkInv

\* gem5 waits on an empty connection for what the guest asks for.
LEMMA chimaeraRecvMaps ==
  ASSUME LinkInv, chimaeraRecv PROVE LinkInv' /\ LinkStep
<1>1. /\ gpc \in {"recvHeader", "recvBody"} /\ connection = "none"
      /\ connection' = "open" /\ packet' = <<>>
      /\ UNCHANGED <<gpc, gdata, gsize, gem5, backlog, hpc, hdata, hsize, sent, got>>
  BY DEF chimaeraRecv, hostVars, guestVars
<1>2. TransportShape /\ (Asking \/ Asked \/ Answering \/ HeaderTaken)
  BY <1>1 DEF LinkInv, Resting, HeaderSent, BodySent
<1>3. TransportShape' /\ LinkStep
  BY <1>1, <1>2 DEF TransportShape, LinkStep
<1>4. Short(Width)' /\ (NoneQueued => NoneQueued') /\ (Queued => Queued')
  <2>1. Short(Width)'
    BY <1>1, WantsBytes DEF Short
  <2>2. NoneQueued => NoneQueued'
    BY <1>1 DEF NoneQueued
  <2>3. Queued => Queued'
    BY <1>1, QueuedKept
  <2> QED BY <2>1, <2>2, <2>3
<1>5. /\ \A d \in Directions : Quiet(d) => Quiet(d)'
      /\ Pending("g2h", gdata) => Pending("g2h", gdata)'
      /\ Pending("h2g", hdata) => Pending("h2g", hdata)'
  BY <1>1 DEF Quiet, Pending
<1>6. CASE Asking
  <2>1. Asking'
    BY <1>1, <1>4, <1>5, <1>6 DEF Asking, Directions
  <2> QED BY <1>3, <2>1 DEF LinkInv
<1>7. CASE Asked
  <2>1. Asked'
    BY <1>1, <1>4, <1>5, <1>7 DEF Asked, Directions
  <2> QED BY <1>3, <2>1 DEF LinkInv
<1>8. CASE Answering
  <2>1. Answering'
    BY <1>1, <1>4, <1>5, <1>8 DEF Answering, Directions
  <2> QED BY <1>3, <2>1 DEF LinkInv
<1>9. CASE HeaderTaken
  <2>1. gsize \in Nat /\ gsize > 0
    BY <1>2, <1>9, MessageFits DEF HeaderTaken, TransportShape
  <2>2. Short(gsize)'
    BY <1>1, <2>1 DEF Short
  <2>3. HeaderTaken'
    BY <1>1, <1>4, <1>5, <1>9, <2>2 DEF HeaderTaken, Directions
  <2> QED BY <1>3, <2>3 DEF LinkInv
<1> QED BY <1>2, <1>6, <1>7, <1>8, <1>9

\* The guest takes a header for a header and a body for a body.
LEMMA GuestTakesMaps ==
  ASSUME LinkInv, GuestTakes PROVE LinkInv' /\ LinkStep
<1> DEFINE taken == SubSeq(packet, 1, Want)
<1> DEFINE size == number(taken)
<1>1. /\ gpc \in {"recvHeader", "recvBody"} /\ connection # "none" /\ Len(packet) >= Want
      /\ connection' = "none"
      /\ UNCHANGED <<gdata, backlog, packet, hpc, hdata, sent>>
  BY DEF GuestTakes, hostVars
<1>2. IF gpc = "recvHeader" /\ size > 0
      THEN gpc' = "recvBody" /\ gsize' = size /\ got' = got
      ELSE gpc' = "idle" /\ Gets("h2g", IF gpc = "recvHeader" THEN <<>> ELSE taken)
  BY DEF GuestTakes
<1>3. TransportShape /\ (HeaderSent \/ BodySent)
  <2>0. TransportShape /\ Len(packet) \in Nat /\ Width \in Nat
    BY WantsBytes DEF LinkInv, TransportShape
  <2>1. CASE gpc = "recvHeader"
    <3>1. ~Short(Width)
      BY <1>1, <2>0, <2>1 DEF Short, Want
    <3> QED BY <2>0, <2>1, <3>1 DEF LinkInv, Resting, Asking, Asked, Answering, HeaderTaken
  <2>2. CASE gpc = "recvBody"
    <3>1. CASE HeaderTaken
      <4>1. gsize \in Nat
        BY <2>0, <3>1, MessageFits DEF HeaderTaken, TransportShape
      <4> QED BY <1>1, <2>0, <2>2, <3>1, <4>1 DEF Short, Want, HeaderTaken
    <3> QED BY <2>0, <2>2, <3>1 DEF LinkInv, Resting, Asking, Asked, Answering
  <2> QED BY <1>1, <2>1, <2>2
<1>4. hdata \in Messages /\ Quiet("g2h") /\ Pending("h2g", hdata)
  BY <1>3 DEF TransportShape, HeaderSent, BodySent
<1>5. ASSUME gpc' = "idle", Gets("h2g", hdata), hpc \in {"recvHeader"} \cup Ended, NoneQueued
      PROVE  LinkInv' /\ LinkStep
  <2>1. /\ LinkStep /\ Quiet("h2g")' /\ got' \in [Directions -> Seq(Messages)]
        /\ got'["g2h"] = got["g2h"]
    BY <1>1, <1>3, <1>4, <1>5, ReceiveMaps DEF Directions
  <2>2. TransportShape'
    BY <1>1, <1>3, <2>1 DEF TransportShape
  <2>3. Resting'
    BY <1>1, <1>4, <1>5, <2>1 DEF Resting, NoneQueued, Quiet
  <2> QED BY <2>1, <2>2, <2>3 DEF LinkInv
<1>6. CASE HeaderSent
  <2>1. gpc = "recvHeader" /\ taken = digits(Len(hdata)) /\ size = Len(hdata)
    BY <1>4, <1>6, MessageFits DEF HeaderSent, Want
  <2> HIDE DEF size, taken
  <2>2. CASE hdata = <<>>
    <3>1. size = 0
      BY <1>4, <2>1, <2>2, MessageFits
    <3>2. gpc' = "idle" /\ Gets("h2g", hdata)
      BY <1>2, <2>1, <2>2, <3>1
    <3> QED BY <1>5, <1>6, <2>2, <3>2 DEF HeaderSent
  <2>3. CASE hdata # <<>>
    <3>1. size \in Nat /\ size > 0
      BY <1>4, <2>1, <2>3, MessageFits
    <3>2. gpc' = "recvBody" /\ gsize' = Len(hdata) /\ got' = got
      BY <1>2, <2>1, <3>1
    <3>3. TransportShape' /\ LinkStep
      BY <1>1, <1>3, <3>2 DEF TransportShape, LinkStep
    <3>4. HeaderTaken'
      BY <1>1, <1>6, <2>3, <3>2 DEF HeaderSent, HeaderTaken, Short, NoneQueued, Quiet, Pending
    <3> QED BY <3>3, <3>4 DEF LinkInv
  <2> QED BY <2>2, <2>3
<1>7. CASE BodySent
  <2>1. gpc = "recvBody" /\ taken = hdata
    BY <1>4, <1>7, MessageFits DEF BodySent, Want
  <2> HIDE DEF size, taken
  <2>2. gpc' = "idle" /\ Gets("h2g", hdata)
    BY <1>2, <2>1
  <2> QED BY <1>5, <1>7, <2>2 DEF BodySent
<1> QED BY <1>3, <1>6, <1>7

\* gem5 gives up a connection only when it holds less than it waits for.
LEMMA PanicsMaps ==
  ASSUME LinkInv, Panics PROVE LinkInv' /\ LinkStep
<1>1. /\ gem5' # "up" /\ connection' = "none"
      /\ connection = "none" \/ (connection = "closed" /\ Len(packet) < Want)
      /\ UNCHANGED <<gpc, gdata, gsize, backlog, packet, hpc, hdata, hsize, sent, got>>
  BY DEF Panics, hostVars
<1>2. TransportShape /\ Len(packet) \in Nat
  BY DEF LinkInv, TransportShape
<1>3. TransportShape' /\ LinkStep
  BY <1>1, <1>2 DEF TransportShape, LinkStep
<1>4. /\ \A n : Short(n)'
      /\ NoneQueued => NoneQueued'
      /\ Queued => Queued'
      /\ \A d \in Directions : Quiet(d) => Quiet(d)'
      /\ Pending("g2h", gdata) => Pending("g2h", gdata)'
      /\ Pending("h2g", hdata) => Pending("h2g", hdata)'
  <2>1. \A n : Short(n)'
    BY <1>1 DEF Short
  <2>2. Queued => Queued'
    BY <1>1, QueuedKept
  <2> QED BY <1>1, <2>1, <2>2 DEF NoneQueued, Quiet, Pending
<1>5. CASE Resting
  BY <1>1, <1>3, <1>4, <1>5 DEF LinkInv, Resting, Directions
<1>6. CASE Asking
  BY <1>1, <1>3, <1>4, <1>6 DEF LinkInv, Asking, Directions
<1>7. CASE Asked
  BY <1>1, <1>3, <1>4, <1>7 DEF LinkInv, Asked, Directions
<1>8. CASE Answering
  BY <1>1, <1>3, <1>4, <1>8 DEF LinkInv, Answering, Directions
<1>9. CASE HeaderSent
  <2>1. Len(packet) = Width /\ Want = Width /\ Width \in Nat
    BY <1>2, <1>9, MessageFits, WantsBytes DEF HeaderSent, Want, TransportShape
  <2> QED BY <1>1, <1>9, <2>1 DEF HeaderSent
<1>10. CASE HeaderTaken
  BY <1>1, <1>3, <1>4, <1>10 DEF LinkInv, HeaderTaken, Directions
<1>11. CASE BodySent
  <2>1. Len(packet) = Want
    BY <1>11 DEF BodySent, Want
  <2> QED BY <1>1, <1>2, <1>11, <2>1 DEF BodySent
<1> QED BY <1>5, <1>6, <1>7, <1>8, <1>9, <1>10, <1>11 DEF LinkInv

\* A step that changes nothing but gem5 or whether the host is cancelled.
LEMMA StageKept ==
  ASSUME LinkInv, gem5' = gem5 \/ gem5' # "up",
         UNCHANGED <<gpc, gdata, gsize, backlog, connection, packet, hpc, hdata, hsize, sent, got>>
  PROVE  LinkInv' /\ LinkStep
<1>1. TransportShape' /\ LinkStep
  BY DEF LinkInv, TransportShape, LinkStep
<1>2. /\ \A n : Short(n) => Short(n)'
      /\ NoneQueued => NoneQueued'
      /\ \A d \in Directions : Quiet(d) => Quiet(d)'
      /\ Pending("g2h", gdata) => Pending("g2h", gdata)'
      /\ Pending("h2g", hdata) => Pending("h2g", hdata)'
  BY DEF Short, NoneQueued, Quiet, Pending
<1>3. Queued => Queued'
  BY QueuedKept
<1>4. CASE Resting
  BY <1>1, <1>2, <1>4 DEF LinkInv, Resting, Directions
<1>5. CASE Asking
  BY <1>1, <1>2, <1>3, <1>5 DEF LinkInv, Asking, Directions
<1>6. CASE Asked
  BY <1>1, <1>2, <1>6 DEF LinkInv, Asked, Directions
<1>7. CASE Answering
  BY <1>1, <1>2, <1>7 DEF LinkInv, Answering, Directions
<1>8. CASE HeaderSent
  BY <1>1, <1>2, <1>8 DEF LinkInv, HeaderSent, Directions
<1>9. CASE HeaderTaken
  BY <1>1, <1>2, <1>9 DEF LinkInv, HeaderTaken, Directions
<1>10. CASE BodySent
  BY <1>1, <1>2, <1>10 DEF LinkInv, BodySent, Directions
<1> QED BY <1>4, <1>5, <1>6, <1>7, <1>8, <1>9, <1>10 DEF LinkInv

\* gem5 is killed, at most in the middle of a packet the host can tell is torn.
LEMMA DiesMaps ==
  ASSUME LinkInv, Dies PROVE LinkInv' /\ LinkStep
<1> DEFINE p == Packet(gpc, gdata)
<1> DEFINE h == digits(Len(gdata))
<1>1. /\ gem5 = "up" /\ gem5' = "dead"
      /\ UNCHANGED <<gpc, gdata, gsize, connection, packet, hpc, hdata, hsize, sent, got>>
  BY DEF Dies, hostVars
<1>2. CASE UNCHANGED backlog
  BY <1>1, <1>2, StageKept
<1>3. CASE gpc \in {"sendHeader", "sendBody"} /\ \E n \in 0..(Len(p) - 1) : Writes(p, n)
  <2>1. PICK n \in 0..(Len(p) - 1) : Writes(p, n)
    BY <1>3
  <2>2. TransportShape /\ Asking
    BY <1>3 DEF LinkInv, Resting, Asked, Answering, HeaderSent, HeaderTaken, BodySent
  <2>3. TransportShape' /\ LinkStep
    BY <1>1, <2>2 DEF TransportShape, LinkStep
  <2>4. PICK q : backlog' = Append(backlog, q) /\ q.len = Len(p) /\ Len(q.bytes) < Len(p)
    <3>1. p \in Seq(Nat) /\ Len(p) \in Nat
      BY <2>2, MessageFits, WantsBytes DEF Packet, TransportShape
    <3>2. n \in Nat /\ n < Len(p)
      BY <3>1
    <3> HIDE DEF p
    <3>3. Len(SubSeq(p, 1, n)) = n
      BY <3>1, <3>2
    <3> QED BY <2>1, <3>2, <3>3 DEF Writes
  <2>5. Queued'
    <3>1. CASE gpc = "sendHeader"
      <4>1. p = h
        BY <3>1 DEF Packet
      <4>2. hpc # "recvBody" /\ (hpc = "recvHeader" => backlog = <<>>)
        BY <1>1, <2>2, <3>1 DEF Asking, Queued, Torn
      <4>3. hpc = "recvHeader" => backlog' = <<q>>
        BY <2>4, <4>2
      <4>4. Torn(h, q)'
        BY <1>1, <2>4, <4>1 DEF Torn
      <4> QED BY <1>1, <3>1, <4>2, <4>3, <4>4 DEF Queued
    <3>2. CASE gpc = "sendBody"
      <4>1. p = gdata /\ gdata # <<>>
        BY <2>2, <3>2 DEF Packet, Asking
      <4>2. /\ hpc = "recvHeader" => backlog = <<Full(h)>>
            /\ hpc = "recvBody" => backlog = <<>> /\ hsize = Len(gdata)
        BY <1>1, <2>2, <3>2 DEF Asking, Queued, Torn
      <4>3. /\ hpc = "recvHeader" => backlog' = <<Full(h), q>>
            /\ hpc = "recvBody" => backlog' = <<q>>
        BY <2>4, <4>2, AppendToOne
      <4>4. Torn(gdata, q)'
        BY <1>1, <2>4, <4>1 DEF Torn
      <4> QED BY <1>1, <3>2, <4>1, <4>2, <4>3, <4>4 DEF Queued
    <3> QED BY <1>3, <3>1, <3>2
  <2>6. Asking'
    BY <1>1, <2>2, <2>5 DEF Asking, Short, Pending, Quiet
  <2> QED BY <2>3, <2>6 DEF LinkInv
<1> QED BY <1>2, <1>3 DEF Dies

\* The host ends; what it has sent of a packet is not all of it.
LEMMA HostEnds ==
  ASSUME LinkInv, hpc' \in Ended, packet' \in Seq(Nat),
         UNCHANGED <<gpc, gdata, gsize, hdata, sent, got>>,
         \/ UNCHANGED <<connection, packet>>
         \/ connection = "open" /\ connection' = "closed" /\ Len(packet') < Want
  PROVE  LinkInv' /\ LinkStep
<1>1. TransportShape' /\ LinkStep
  BY DEF LinkInv, TransportShape, LinkStep
<1>2. /\ NoneQueued' /\ Queued'
      /\ \A d \in Directions : Quiet(d) => Quiet(d)'
      /\ Pending("g2h", gdata) => Pending("g2h", gdata)'
      /\ Pending("h2g", hdata) => Pending("h2g", hdata)'
  BY DEF Ended, NoneQueued, Queued, Quiet, Pending
<1>3. connection' = "none" <=> connection = "none"
  OBVIOUS
<1>4. gpc = "recvHeader" /\ Short(Width) => Short(Width)'
  BY DEF Short, Want
<1>5. gpc = "recvBody" /\ Short(gsize) => Short(gsize)'
  BY DEF Short, Want
<1>6. CASE Resting
  BY <1>1, <1>2, <1>3, <1>6 DEF LinkInv, Resting, Directions
<1>7. CASE Asking
  <2>1. Short(Width)'
    BY <1>3, <1>4, <1>7 DEF Asking, Short
  <2> QED BY <1>1, <1>2, <1>3, <1>7, <2>1 DEF LinkInv, Asking, Directions
<1>8. CASE Asked
  BY <1>1, <1>2, <1>4, <1>8 DEF LinkInv, Asked, Directions
<1>9. CASE Answering
  BY <1>1, <1>2, <1>4, <1>9 DEF LinkInv, Answering, Directions
<1>10. CASE HeaderSent
  BY <1>1, <1>2, <1>10 DEF LinkInv, HeaderSent, Directions
<1>11. CASE HeaderTaken
  BY <1>1, <1>2, <1>5, <1>11 DEF LinkInv, HeaderTaken, Directions
<1>12. CASE BodySent
  BY <1>1, <1>2, <1>12 DEF LinkInv, BodySent, Directions
<1> QED BY <1>6, <1>7, <1>8, <1>9, <1>10, <1>11, <1>12 DEF LinkInv

\* The host fails on what it reads, at any point of a receive.
LEMMA ReceiveFails ==
  ASSUME LinkInv, NEW error, Fail(error), UNCHANGED <<gpc, gdata, gsize, connection, packet>>
  PROVE  LinkInv' /\ LinkStep
BY HostEnds DEF Fail, Ended, LinkInv, TransportShape

\* The host takes the last packet of the guest's message.
LEMMA ReceivedMaps ==
  ASSUME LinkInv, Asking, gpc = "recvHeader", hpc \in {"recvHeader", "recvBody"}, backlog' = <<>>,
         Received(gdata), UNCHANGED <<gpc, gdata, gsize, connection, packet>>
  PROVE  LinkInv' /\ LinkStep
<1>0. TransportShape
  BY DEF LinkInv
<1>1. hpc' = "idle" /\ Gets("g2h", gdata) /\ hdata' = hdata /\ sent' = sent
  BY DEF Received
<1>2. gdata \in Messages /\ Pending("g2h", gdata) /\ "g2h" \in Directions
  BY <1>0 DEF TransportShape, Asking, Directions
<1>3. /\ LinkStep /\ Quiet("g2h")' /\ got' \in [Directions -> Seq(Messages)]
      /\ got'["h2g"] = got["h2g"]
  BY <1>0, <1>1, <1>2, ReceiveMaps DEF Directions
<1>4. TransportShape'
  BY <1>0, <1>1, <1>3 DEF TransportShape
<1>5. Asked'
  BY <1>1, <1>3 DEF Asking, Asked, Short, NoneQueued, Quiet
<1> QED BY <1>3, <1>4, <1>5 DEF LinkInv

\* The host takes a header for a header and a body for a body, and a torn
\* packet for neither.
LEMMA HostReceivesMaps ==
  ASSUME LinkInv, HostReceives PROVE LinkInv' /\ LinkStep
<1> DEFINE p == Head(backlog)
<1> DEFINE h == digits(Len(gdata))
<1> DEFINE want == IF hpc = "recvHeader" THEN Width ELSE hsize
<1>1. /\ hpc \in {"recvHeader", "recvBody"} /\ backlog # <<>> /\ backlog' = Tail(backlog)
      /\ UNCHANGED <<gpc, gdata, gsize, gem5, connection, packet>>
  BY DEF HostReceives, guestVars
<1>2. \/ \E error : Fail(error)
      \/ /\ p.len = want /\ ~Incomplete(p, want)
         /\ \/ hpc = "recvBody" /\ Received(p.bytes)
            \/ /\ hpc = "recvHeader" /\ ~HasBody(number(p.bytes)) /\ Received(<<>>)
            \/ /\ hpc = "recvHeader" /\ HasBody(number(p.bytes))
               /\ hpc' = "recvBody" /\ hsize' = number(p.bytes) /\ UNCHANGED <<hdata, sent, got>>
  BY DEF HostReceives
<1>3. TransportShape /\ Asking
  BY <1>1 DEF LinkInv, Resting, Asked, Answering, HeaderSent, HeaderTaken, BodySent, NoneQueued, Ended
<1>4. /\ gdata \in Messages /\ Len(h) = Width /\ number(h) = Len(gdata) /\ Len(gdata) \in Nat
      /\ (gdata = <<>> <=> Len(gdata) = 0) /\ Width \in Nat
  BY <1>3, MessageFits, WantsBytes DEF TransportShape
<1>5. CASE \E error : Fail(error)
  BY <1>1, <1>5, ReceiveFails
<1>6. CASE /\ p.len = want /\ ~Incomplete(p, want) /\ hpc = "recvBody" /\ Received(p.bytes)
  <2>1. hsize = Len(gdata) /\ gpc \in {"sendBody", "recvHeader"} /\ want = Len(gdata)
    BY <1>3, <1>6 DEF Asking, Queued
  <2>2. gpc = "recvHeader"
    <3> SUFFICES ASSUME gpc = "sendBody" PROVE FALSE
      BY <2>1
    <3>1. PICK q : Torn(gdata, q) /\ backlog = <<q>>
      BY <1>1, <1>3, <1>6 DEF Asking, Queued
    <3>2. p = q
      BY <3>1
    <3> QED BY <1>6, <2>1, <3>1, <3>2 DEF Torn, Incomplete
  <2>3. backlog = <<Full(gdata)>>
    BY <1>3, <1>6, <2>2 DEF Asking, Queued
  <2>4. p.bytes = gdata /\ backlog' = <<>>
    BY <1>1, <2>3 DEF Full
  <2> QED BY <1>1, <1>3, <1>6, <2>2, <2>4, ReceivedMaps
<1>7. CASE /\ p.len = want /\ ~Incomplete(p, want) /\ hpc = "recvHeader"
  <2>1. gpc \in {"sendBody", "recvHeader"}
    <3> SUFFICES ASSUME gpc = "sendHeader" PROVE FALSE
      BY <1>3 DEF Asking
    <3>1. PICK q : Torn(h, q) /\ backlog = <<q>>
      BY <1>1, <1>3, <1>7 DEF Asking, Queued
    <3>2. p = q
      BY <3>1
    <3> QED BY <1>4, <1>7, <3>1, <3>2 DEF Torn, Incomplete
  <2>2. /\ gpc = "recvHeader" /\ gdata = <<>> => backlog = <<Full(h)>>
        /\ gpc = "recvHeader" /\ gdata # <<>> => backlog = <<Full(h), Full(gdata)>>
        /\ gpc = "sendBody" => /\ gdata # <<>>
                               /\ \/ backlog = <<Full(h)>>
                                  \/ \E q : Torn(gdata, q) /\ backlog = <<Full(h), q>>
    BY <1>3, <1>7 DEF Asking, Queued
  <2> HIDE DEF h
  <2>3. /\ gpc = "recvHeader" /\ gdata = <<>> => backlog' = <<>>
        /\ gpc = "recvHeader" /\ gdata # <<>> => backlog' = <<Full(gdata)>>
        /\ gpc = "sendBody" => backlog' = <<>> \/ \E q : Torn(gdata, q) /\ backlog' = <<q>>
    <3>0. backlog' = Tail(backlog)
      BY <1>1
    <3>1. CASE backlog = <<Full(h)>>
      <4>1. backlog' = <<>>
        BY <3>0, <3>1, TailOfTwo
      <4>2. gpc = "recvHeader" => gdata = <<>>
        BY <2>2, <3>1
      <4> QED BY <2>1, <4>1, <4>2
    <3>2. CASE gpc = "recvHeader" /\ backlog = <<Full(h), Full(gdata)>>
      <4>1. backlog' = <<Full(gdata)>>
        BY <3>0, <3>2, TailOfTwo
      <4>2. gdata # <<>>
        BY <2>2, <3>2
      <4> QED BY <3>2, <4>1, <4>2
    <3>3. CASE gpc = "sendBody" /\ \E q : Torn(gdata, q) /\ backlog = <<Full(h), q>>
      <4>1. PICK q : Torn(gdata, q) /\ backlog = <<Full(h), q>>
        BY <3>3
      <4>2. backlog' = <<q>>
        BY <3>0, <4>1, TailOfTwo
      <4> QED BY <3>3, <4>1, <4>2
    <3> QED BY <2>1, <2>2, <3>1, <3>2, <3>3, Zenon
  <2>4. p = Full(h)
    BY <2>1, <2>2
  <2>5. number(p.bytes) = Len(gdata)
    BY <1>4, <2>4 DEF Full
  <2> HIDE DEF p
  <2>6. CASE ~HasBody(number(p.bytes)) /\ Received(<<>>)
    <3>1. gdata = <<>>
      BY <1>4, <2>5, <2>6 DEF HasBody
    <3>2. gpc = "recvHeader" /\ backlog' = <<>>
      BY <2>1, <2>2, <2>3, <3>1
    <3> QED BY <1>1, <1>3, <2>6, <3>1, <3>2, ReceivedMaps
  <2>7. CASE /\ HasBody(number(p.bytes))
             /\ hpc' = "recvBody" /\ hsize' = number(p.bytes) /\ UNCHANGED <<hdata, sent, got>>
    <3>1. gdata # <<>>
      BY <1>4, <2>5, <2>7 DEF HasBody
    <3>2. Queued'
      BY <1>1, <2>1, <2>3, <2>5, <2>7, <3>1 DEF Queued, Torn
    <3>3. Asking'
      BY <1>1, <1>3, <2>7, <3>2 DEF Asking, Short, Pending, Quiet
    <3>4. TransportShape' /\ LinkStep
      BY <1>1, <1>3, <2>7 DEF TransportShape, LinkStep
    <3> QED BY <3>3, <3>4 DEF LinkInv
  <2> QED BY <1>2, <1>5, <1>7, <2>6, <2>7
<1> QED BY <1>2, <1>5, <1>6, <1>7

\* The host answers once it has received.
LEMMA HostSendMaps ==
  ASSUME LinkInv, NEW m \in Messages, HostSend(m) PROVE LinkInv' /\ LinkStep
<1>1. /\ hpc = "idle" /\ hpc' = "sendHeader" /\ hdata' = m /\ Sends("h2g", m)
      /\ UNCHANGED <<gpc, gdata, gsize, backlog, connection, packet, got>>
  BY DEF HostSend, guestVars
<1>2. TransportShape /\ Asked
  BY <1>1 DEF LinkInv, Resting, Asking, Answering, HeaderSent, HeaderTaken, BodySent, Ended
<1>3. /\ LinkStep /\ Pending("h2g", m)' /\ sent' \in [Directions -> Seq(Messages)]
      /\ sent'["g2h"] = sent["g2h"]
  BY <1>1, <1>2, SendMaps DEF Asked, Directions
<1>4. TransportShape'
  BY <1>1, <1>2, <1>3 DEF TransportShape
<1>5. Answering'
  BY <1>1, <1>2, <1>3 DEF Asked, Answering, Short, NoneQueued, Pending, Quiet, Ended
<1> QED BY <1>3, <1>4, <1>5 DEF LinkInv

\* Where the host is in its reply when gem5 waits for a packet.
LEMMA WhichPacket ==
  ASSUME LinkInv, hpc \in {"sendHeader", "sendBody"}, connection = "open"
  PROVE  /\ TransportShape /\ (hpc = "sendHeader" => Answering) /\ (hpc = "sendBody" => HeaderTaken)
         /\ Packet(hpc, hdata) \in Seq(Nat) /\ Len(Packet(hpc, hdata)) = Want /\ Want \in Nat
         /\ Len(packet) < Want
<1>1. TransportShape
  BY DEF LinkInv
<1>2. (hpc = "sendHeader" => Answering) /\ (hpc = "sendBody" => HeaderTaken)
  BY DEF LinkInv, Resting, Asking, Asked, Answering, HeaderSent, HeaderTaken, BodySent, Ended
<1>3. /\ hdata \in Seq(Nat) /\ Len(hdata) \in Nat /\ digits(Len(hdata)) \in Seq(Nat)
      /\ Len(digits(Len(hdata))) = Width /\ Width \in Nat
  BY <1>1, MessageFits, WantsBytes DEF TransportShape
<1>4. CASE hpc = "sendHeader"
  BY <1>1, <1>2, <1>3, <1>4 DEF Answering, Want, Packet, Short
<1>5. CASE hpc = "sendBody"
  BY <1>1, <1>2, <1>3, <1>5 DEF HeaderTaken, Want, Packet, Short
<1> QED BY <1>4, <1>5

\* A packet of the answer goes to a guest that waits for it.
LEMMA SendPacketMaps ==
  ASSUME LinkInv, SendPacket PROVE LinkInv' /\ LinkStep
<1>1. /\ hpc \in {"sendHeader", "sendBody"} /\ connection = "open" /\ connection' = "closed"
      /\ UNCHANGED <<gpc, gdata, gsize, gem5, backlog>>
  BY DEF SendPacket, guestVars
<1>2. \/ /\ packet' = Packet(hpc, hdata) /\ hpc' = AfterPacket(hpc, hdata)
         /\ UNCHANGED <<hdata, hsize, sent, got>>
      \/ Fail("io") /\ packet' = packet
  BY DEF SendPacket
<1>3. /\ TransportShape /\ (hpc = "sendHeader" => Answering) /\ (hpc = "sendBody" => HeaderTaken)
      /\ Packet(hpc, hdata) \in Seq(Nat) /\ Len(packet) < Want
  BY <1>1, WhichPacket
<1>4. CASE Fail("io") /\ packet' = packet
  BY <1>1, <1>3, <1>4, HostEnds DEF Fail, Ended, TransportShape
<1>5. CASE /\ packet' = Packet(hpc, hdata) /\ hpc' = AfterPacket(hpc, hdata)
           /\ UNCHANGED <<hdata, hsize, sent, got>>
  <2>1. TransportShape' /\ LinkStep
    BY <1>1, <1>3, <1>5 DEF TransportShape, LinkStep
  <2>2. CASE hpc = "sendHeader"
    <3>1. HeaderSent'
      BY <1>1, <1>3, <1>5, <2>2 DEF Answering, HeaderSent, Packet, AfterPacket, NoneQueued, Ended, Quiet, Pending
    <3> QED BY <2>1, <3>1 DEF LinkInv
  <2>3. CASE hpc = "sendBody"
    <3>1. BodySent'
      BY <1>1, <1>3, <1>5, <2>3 DEF HeaderTaken, BodySent, Packet, AfterPacket, NoneQueued, Ended, Quiet, Pending
    <3> QED BY <2>1, <3>1 DEF LinkInv
  <2> QED BY <1>1, <2>2, <2>3
<1> QED BY <1>2, <1>4, <1>5

\* A cancelled host ends, at most in the middle of a packet the guest can tell
\* is not all.
LEMMA CancelsMaps ==
  ASSUME LinkInv, Cancels PROVE LinkInv' /\ LinkStep
<1> DEFINE p == Packet(hpc, hdata)
<1>1. Fail("cancelled") /\ UNCHANGED <<gpc, gdata, gsize, backlog>>
  BY DEF Cancels, CancelsIn, guestVars
<1>2. CASE UNCHANGED <<connection, packet>>
  BY <1>1, <1>2, ReceiveFails
<1>3. CASE /\ hpc \in {"sendHeader", "sendBody"} /\ connection = "open" /\ connection' = "closed"
           /\ \E n \in 0..(Len(p) - 1) : packet' = SubSeq(p, 1, n)
  <2>1. p \in Seq(Nat) /\ Len(p) = Want /\ Want \in Nat
    BY <1>3, WhichPacket
  <2>2. PICK n \in 0..(Len(p) - 1) : packet' = SubSeq(p, 1, n)
    BY <1>3
  <2> HIDE DEF p
  <2>3. packet' \in Seq(Nat) /\ Len(packet') < Want
    BY <2>1, <2>2
  <2> QED BY <1>1, <1>3, <2>3, HostEnds DEF Fail, Ended
<1> QED BY <1>2, <1>3 DEF Cancels, CancelsIn

\* What the host closes unsent is short of what the guest waits for.
LEMMA DestroyMaps ==
  ASSUME LinkInv, Destroy PROVE LinkInv' /\ LinkStep
<1>1. /\ hpc = "failed" /\ hpc' \in Ended /\ UNCHANGED <<gpc, gdata, gsize, packet, hdata, sent, got>>
      /\ connection' = IF connection = "open" THEN "closed" ELSE connection
  BY DEF Destroy, guestVars, Ended
<1>2. packet' \in Seq(Nat)
  BY <1>1 DEF LinkInv, TransportShape
<1>3. CASE connection = "open"
  <2>1. Len(packet) < Want
    BY <1>3 DEF LinkInv, Resting, Asking, Asked, Answering, HeaderSent, HeaderTaken, BodySent, Short, Want
  <2> QED BY <1>1, <1>2, <1>3, <2>1, HostEnds
<1>4. CASE connection # "open"
  BY <1>1, <1>2, <1>4, HostEnds
<1> QED BY <1>3, <1>4

\* Every step keeps the invariant and is a step of the link, or none.
LEMMA LinkInvStep ==
  ASSUME LinkInv, [TransportNext]_transportVars PROVE LinkInv' /\ LinkStep
<1>1. CASE Guest
  BY <1>1, chimaeraSendMaps, chimaeraRecvMaps, GuestTakesMaps, PanicsMaps DEF Guest
<1>2. CASE Host
  BY <1>2, HostReceivesMaps, SendPacketMaps, CancelsMaps, HostSendMaps DEF Host
<1>3. CASE Cancel
  BY <1>3, StageKept DEF Cancel, guestVars
<1>4. CASE Destroy
  BY <1>4, DestroyMaps
<1>5. CASE Dies
  BY <1>5, DiesMaps
<1>6. CASE \E m \in Messages : GuestSend(m)
  BY <1>6, GuestSendMaps
<1>7. CASE UNCHANGED transportVars
  BY <1>7, StageKept DEF transportVars, guestVars, hostVars
<1> QED BY <1>1, <1>2, <1>3, <1>4, <1>5, <1>6, <1>7 DEF TransportNext

\* Packets and connections implement the link that DataExchange relies on, for
\* every width of a header, every byte, every limit on a message that fits in
\* a header, and any number of exchanges: what is received is what was sent,
\* whole and in order, also when gem5 dies in a write or the host is cancelled.
THEOREM TransportImplementsLink == TransportSpec => LinkSpec
<1>1. TransportInit => LinkInv /\ Link!Init
  BY TransportInit_Inv
<1>2. LinkInv /\ [TransportNext]_transportVars => LinkInv' /\ [Link!Next]_<<sent, got>>
  BY LinkInvStep DEF LinkStep
<1> QED BY <1>1, <1>2, PTL DEF TransportSpec, LinkSpec, Link!Spec
=============================================================================
