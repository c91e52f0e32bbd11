----------------------------- MODULE BatchCodec -----------------------------
(***************************************************************************)
(* A batch of messages as the bytes of one transport message               *)
(* (controller_protocol.hpp): every number is put as a fixed count of      *)
(* bytes, and the decoder refuses what no queue within its limits gave.    *)
(***************************************************************************)
EXTENDS Framing

CONSTANTS max_messages, max_bytes  \* limits of a batch and of a controller queue

ASSUME CodecAssumption == Representable(max_messages) /\ Representable(max_bytes)

put(data, n) == data \o digits(n)

\* get: the number at the front of the data, and what is left of it.
Truncated(data) == Len(data) < Width
get(data)  == number(SubSeq(data, 1, Width))
rest(data) == SubSeq(data, Width + 1, Len(data))

bytes(msgs) ==
  LET count[i \in 0..Len(msgs)] == IF i = 0 THEN 0 ELSE count[i - 1] + Len(msgs[i])
  IN  count[Len(msgs)]

encode(msgs) ==
  LET data[i \in 0..Len(msgs)] ==
        IF i = 0 THEN put(<<>>, Len(msgs)) ELSE put(data[i - 1], Len(msgs[i])) \o msgs[i]
  IN  data[Len(msgs)]

\* The decoder has a rest to read and messages read, unless it threw.
Refused == [ok |-> FALSE, data |-> <<>>, msgs |-> <<>>]

TooLong(size, msgs) == size > max_bytes - bytes(msgs)

Message(d) ==
  LET size == get(d.data)
      left == rest(d.data)
  IN  IF \/ ~d.ok \/ Truncated(d.data)
         \/ size > Len(left) \/ TooLong(size, d.msgs) THEN Refused
      ELSE [ok |-> TRUE, data |-> SubSeq(left, size + 1, Len(left)),
            msgs |-> Append(d.msgs, SubSeq(left, 1, size))]

decode(data) ==
  LET count == get(data)
      read[n \in 0..count] ==
        IF n = 0 THEN [ok |-> TRUE, data |-> rest(data), msgs |-> <<>>]
                 ELSE LET before == read[n - 1] IN Message(before)
      last  == read[count]
  IN  IF Truncated(data) \/ count > max_messages \/ last.data # <<>> THEN Refused ELSE last
=============================================================================
