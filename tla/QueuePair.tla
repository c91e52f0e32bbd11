----------------------------- MODULE QueuePair -----------------------------
(***************************************************************************)
(* One OutgoingQueue and the ReceivedQueue its batches go to, under every  *)
(* sequence of calls: the bookkeeping of ControllerQueues (cursor, byte    *)
(* counters, limits, replacement) against CoalescingFifo.                  *)
(***************************************************************************)
EXTENDS ControllerQueues

CONSTANTS Keys, Sizes,
          MaxCalls   \* bound: accepted submissions

ASSUME PairAssumption == Sizes \subseteq Nat /\ MaxCalls \in Nat

VARIABLES out, in, calls

vars == <<out, in, calls>>

Init == out = EmptyOutgoing /\ in = EmptyReceived /\ calls = 0

NewData(size) == [id |-> calls + 1, size |-> size]

Submit(size, key) ==
  /\ calls < MaxCalls
  /\ AcceptsSubmit(out, NewData(size), key)
  /\ out' = Submitted(out, NewData(size), key)
  /\ calls' = calls + 1
  /\ UNCHANGED in

\* drain() on one side, append() on the other; a refused batch is lost.
Transfer ==
  /\ out' = EmptyOutgoing
  /\ in' = IF AcceptsAppend(in, Payloads(out)) THEN Appended(in, Payloads(out)) ELSE in
  /\ UNCHANGED calls

Take == CanTake(in) /\ in' = Taken(in) /\ UNCHANGED <<out, calls>>

\* ReceivedQueue::drain, as StepCollect uses it.
Drain == in' = EmptyReceived /\ UNCHANGED <<out, calls>>

Next == (\E size \in Sizes, key \in Keys \cup {NoKey} : Submit(size, key)) \/ Transfer \/ Take \/ Drain

Spec == Init /\ [][Next]_vars
-----------------------------------------------------------------------------
\* After any history of calls, submit() refuses a message and append() a batch
\* exactly when the queue it would leave behind is over a limit: the byte
\* counters, which are updated by difference, always tell the bytes held, and
\* replacing an entry of a full queue is accepted.
ExactLimits ==
  LET Fits(batch) == Len(batch) <= MaxMessages /\ Bytes(batch) <= MaxBytes
  IN  /\ \A size \in Sizes, key \in Keys \cup {NoKey} :
           AcceptsSubmit(out, NewData(size), key)
             <=> Fits(Payloads(Submitted(out, NewData(size), key)))
      /\ AcceptsAppend(in, Payloads(out)) <=> Fits(Contents(in) \o Payloads(out))

\* The queues implement the plain first-in first-out pair with replacement.
Fifo == INSTANCE CoalescingFifo
          WITH pending <- out.entries, delivered <- Contents(in),
               Data <- [id : 1..MaxCalls, size : Sizes]

FifoOrder == Fifo!FifoSpec
=============================================================================
