-------------------------- MODULE ControllerQueues --------------------------
(***************************************************************************)
(* The two queues of gem5-transport/src/controller_protocol.hpp, as values *)
(* and operators on them.  The controllers own them: OutgoingQueue holds   *)
(* what the application submitted until a packet is prepared,              *)
(* ReceivedQueue holds decoded messages until the application takes them.  *)
(*                                                                         *)
(* A message is a record with an id (its position in the order of accepted *)
(* submissions) and a size in bytes; its contents play no role.  A queue   *)
(* operation that throws is one whose guard (Accepts...) is false: the     *)
(* caller then leaves the queue unchanged.                                 *)
(***************************************************************************)
EXTENDS Integers, Sequences, FiniteSets, Functions

CONSTANTS MaxMessages,  \* max_messages: 1024 in the code
          MaxBytes,     \* max_bytes: 32 MiB in the code
          NoKey         \* the empty coalescing key: plain FIFO

ASSUME LimitsAssumption == MaxMessages \in Nat \ {0} /\ MaxBytes \in Nat

\* bytes(batch): the payload of a batch.
Bytes(batch) == SumFunction([i \in DOMAIN batch |-> batch[i].size])

-----------------------------------------------------------------------------
(***************************************************************************)
(* OutgoingQueue: entries in submission order, each with its local key.    *)
(***************************************************************************)
EmptyOutgoing == [entries |-> <<>>, bytes |-> 0]

\* Fault: a keyed submission replaces every entry.
SameKeyAny(q, key) == {i \in DOMAIN q.entries : key # NoKey}

SameKey(q, key) ==
  {i \in DOMAIN q.entries : key # NoKey /\ q.entries[i].key = key}

\* The byte count once the pending entries of the same key are discounted.
BytesKept(q, key) ==
  q.bytes - SumFunctionOnSet([i \in DOMAIN q.entries |-> q.entries[i].data.size],
                             SameKey(q, key))

AcceptsSubmit(q, data, key) ==
  /\ Len(q.entries) - Cardinality(SameKey(q, key)) < MaxMessages
  /\ data.size <= MaxBytes - BytesKept(q, key)

\* std::erase_if: the entries outside drop, in their order.
Erased(entries, drop) ==
  LET kept  == DOMAIN entries \ drop
      order == CHOOSE f \in Bijection(1..Cardinality(kept), kept) :
                 \A a, b \in DOMAIN f : a < b => f[a] < f[b]
  IN  [n \in 1..Cardinality(kept) |-> entries[order[n]]]

Submitted(q, data, key) ==
  [entries |-> Append(Erased(q.entries, SameKey(q, key)), [data |-> data, key |-> key]),
   bytes   |-> BytesKept(q, key) + data.size]

\* drain() returns the payloads without their keys; the queue is then EmptyOutgoing.
Payloads(q) == [i \in 1..Len(q.entries) |-> q.entries[i].data]

-----------------------------------------------------------------------------
(***************************************************************************)
(* ReceivedQueue: a vector with a cursor.  take() advances the cursor      *)
(* instead of shifting; append() reclaims the consumed slots.              *)
(***************************************************************************)
EmptyReceived == [messages |-> <<>>, next |-> 0, bytes |-> 0]

\* What is left to take, in order.
Contents(q) == SubSeq(q.messages, q.next + 1, Len(q.messages))

\* bytes(source) throws on an oversized source; so does the check after it.
AcceptsAppend(q, source) ==
  /\ Len(q.messages) - q.next + Len(source) <= MaxMessages
  /\ Bytes(source) <= MaxBytes - q.bytes

\* Fault: the cursor is reset without reclaiming the consumed slots.
AppendedUncompacted(q, source) ==
  IF source = <<>> THEN q
  ELSE [messages |-> q.messages \o source, next |-> 0, bytes |-> q.bytes + Bytes(source)]

Appended(q, source) ==
  IF source = <<>>
  THEN q
  ELSE [messages |-> Contents(q) \o source,
        next     |-> 0,
        bytes    |-> q.bytes + Bytes(source)]

CanTake(q) == q.next # Len(q.messages)

NextMessage(q) == q.messages[q.next + 1]

\* Fault: the byte counter is not reduced.
TakenKeepingBytes(q) ==
  IF q.next + 1 = Len(q.messages)
  THEN [messages |-> <<>>, next |-> 0, bytes |-> q.bytes]
  ELSE [messages |-> q.messages, next |-> q.next + 1, bytes |-> q.bytes]

Taken(q) ==
  LET left == q.bytes - NextMessage(q).size
  IN  IF q.next + 1 = Len(q.messages)
      THEN [messages |-> <<>>, next |-> 0, bytes |-> left]
      ELSE [messages |-> q.messages, next |-> q.next + 1, bytes |-> left]
=============================================================================
