--------------------------- MODULE CoalescingFifo ---------------------------
(***************************************************************************)
(* What one direction of a controller promises its applications: messages  *)
(* wait in submission order, a keyed message replaces the waiting one of   *)
(* its key and goes to the end, a whole batch moves to the receiver, and   *)
(* the receiver takes from the front.  No cursors, counters or limits.     *)
(***************************************************************************)
EXTENDS Sequences, Functions, Selection

CONSTANTS Data, Keys, NoKey

VARIABLES pending, delivered

fifoVars == <<pending, delivered>>

FifoInit == pending = <<>> /\ delivered = <<>>

Accept(data, key) ==
  LET stay == {entry \in Range(pending) : key = NoKey \/ entry.key # key}
  IN  /\ pending' = Append(Select(pending, stay), [data |-> data, key |-> key])
      /\ UNCHANGED delivered

\* A batch that does not fit is refused as a whole.
Move ==
  /\ pending' = <<>>
  /\ delivered' \in {delivered, delivered \o [i \in DOMAIN pending |-> pending[i].data]}

Deliver ==
  /\ delivered # <<>>
  /\ delivered' = Tail(delivered)
  /\ UNCHANGED pending

Detach == delivered' = <<>> /\ UNCHANGED pending

FifoNext ==
  \/ \E data \in Data, key \in Keys \cup {NoKey} : Accept(data, key)
  \/ Move \/ Deliver \/ Detach

FifoSpec == FifoInit /\ [][FifoNext]_fifoVars
=============================================================================
