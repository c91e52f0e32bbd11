------------------------------ MODULE Framing -------------------------------
(***************************************************************************)
(* Numbers as a fixed count of bytes, most significant first: the headers  *)
(* of the transport (encode and decode of framing.hpp) and the counts and  *)
(* sizes of a batch (put and get of controller_protocol.hpp).              *)
(***************************************************************************)
EXTENDS Integers, Sequences

CONSTANTS Base, Width   \* values of a byte; bytes of a number

ASSUME FramingAssumption == Base \in Nat \ {0, 1} /\ Width \in Nat \ {0}

\* What is left of n after each shift by a byte.
shifted(n) ==
  LET left[k \in 0..Width] == IF k = 0 THEN n ELSE left[k - 1] \div Base
  IN  left

\* Nothing is left of n after its bytes are shifted out.
Representable(n) == n \in Nat /\ shifted(n)[Width] = 0

digits(n) == [i \in 1..Width |-> shifted(n)[Width - i] % Base]

number(header) ==
  LET size[i \in 0..Width] == IF i = 0 THEN 0 ELSE size[i - 1] * Base + header[i]
  IN  size[Width]
=============================================================================
