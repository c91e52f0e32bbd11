------------------------- MODULE DataExchangeProofs -------------------------
(****************************************************************************)
(* The data path of DataExchange for every number of messages, keys and     *)
(* sizes and every queue limit: what a submission does to the pipe, the     *)
(* inductive invariant and the theorems.                                    *)
(****************************************************************************)
EXTENDS DataExchangeControl

-----------------------------------------------------------------------------
(* A submission adds to the pipe and takes out at most one pending message. *)

\* A message is identified by its position among the accepted ones.
Numbered ==
  \A d \in Directions : \A i \in 1..Len(submitted[d]) : submitted[d][i].data.id = i

\* The pipe holds accepted messages only.
Accounted ==
  \A d \in Directions : \A a \in 1..Len(Pipe[d]) :
    \E i \in 1..Len(submitted[d]) : Pipe[d][a] = submitted[d][i].data

\* A pending entry is an accepted one, and the only pending one of its key.
Pending ==
  \A d \in Directions :
    /\ \A a \in 1..Len(outgoing[d].entries) :
         \E i \in 1..Len(submitted[d]) : outgoing[d].entries[a] = submitted[d][i]
    /\ \A a, b \in 1..Len(outgoing[d].entries) :
         outgoing[d].entries[a].key = outgoing[d].entries[b].key
           => a = b \/ outgoing[d].entries[a].key = NoKey

\* What the pipe holds was accepted.
History == Numbered /\ Accounted /\ Pending

\* An ordered sequence stays ordered when it grows by a younger message.
LEMMA GrowsOrdered ==
  ASSUME NEW s, NEW r, NEW x, NEW lost, Grows(s, r, x, lost),
         \A a, b \in 1..Len(s) : a < b => s[a].id < s[b].id,
         \A a \in 1..Len(s) : s[a].id < x.id
  PROVE  \A a, b \in 1..Len(r) : a < b => r[a].id < r[b].id
<1>1. PICK n \in Nat : \E g \in [1..n -> 1..Len(s)] :
        /\ Len(r) = n + 1 /\ r[n + 1] = x
        /\ \A i \in 1..n : r[i] = s[g[i]]
        /\ \A i, j \in 1..n : i < j => g[i] < g[j]
  BY DEF Grows
<1>2. PICK g \in [1..n -> 1..Len(s)] :
        /\ Len(r) = n + 1 /\ r[n + 1] = x
        /\ \A i \in 1..n : r[i] = s[g[i]]
        /\ \A i, j \in 1..n : i < j => g[i] < g[j]
  BY <1>1, Zenon
<1>3. ASSUME NEW a \in 1..n + 1, NEW b \in 1..n + 1, a < b
      PROVE  r[a].id < r[b].id
  <2>1. a \in 1..n /\ r[a] = s[g[a]] /\ g[a] \in 1..Len(s)
    BY <1>2, <1>3
  <2>2. CASE b = n + 1
    BY <1>2, <2>1, <2>2
  <2>3. CASE b \in 1..n
    <3>1. g[b] \in 1..Len(s) /\ g[a] < g[b] /\ r[b] = s[g[b]]
      BY <1>2, <1>3, <2>1, <2>3
    <3> QED BY <2>1, <3>1
  <2> QED BY <2>2, <2>3
<1> QED BY <1>2, <1>3

\* What a growing sequence holds comes from before, or is new; what it held
\* stays, unless it is among the lost.
LEMMA GrowsElements ==
  ASSUME NEW s, NEW r, NEW x, NEW lost, Grows(s, r, x, lost)
  PROVE  /\ \A a \in 1..Len(r) : r[a] = x \/ \E b \in 1..Len(s) : r[a] = s[b]
         /\ \A b \in 1..Len(s) : s[b] \in lost \/ \E a \in 1..Len(r) : r[a] = s[b]
         /\ \E a \in 1..Len(r) : r[a] = x
<1>1. PICK n \in Nat : \E g \in [1..n -> 1..Len(s)] :
        /\ Len(r) = n + 1 /\ r[n + 1] = x
        /\ \A i \in 1..n : r[i] = s[g[i]]
        /\ \A k \in 1..Len(s) : (\E i \in 1..n : g[i] = k) \/ s[k] \in lost
  BY Zenon DEF Grows
<1>2. PICK g \in [1..n -> 1..Len(s)] :
        /\ Len(r) = n + 1 /\ r[n + 1] = x
        /\ \A i \in 1..n : r[i] = s[g[i]]
        /\ \A k \in 1..Len(s) : (\E i \in 1..n : g[i] = k) \/ s[k] \in lost
  BY <1>1
<1>3. ASSUME NEW a \in 1..n + 1 PROVE r[a] = x \/ \E b \in 1..Len(s) : r[a] = s[b]
  <2>1. a = n + 1 \/ a \in 1..n
    OBVIOUS
  <2>2. ASSUME a \in 1..n PROVE \E b \in 1..Len(s) : r[a] = s[b]
    BY <1>2, <2>2
  <2> QED BY <1>2, <2>1, <2>2
<1>4. ASSUME NEW b \in 1..Len(s), s[b] \notin lost PROVE \E a \in 1..n + 1 : r[a] = s[b]
  <2>1. PICK i \in 1..n : g[i] = b
    BY <1>2, <1>4
  <2> QED BY <1>2, <2>1
<1>5. n + 1 \in 1..n + 1
  OBVIOUS
<1> QED BY <1>2, <1>3, <1>4, <1>5

\* One submission in direction d.
Submits(d, size, key) ==
  /\ Submit(d, size, key)
  /\ UNCHANGED <<hostVars, workVars, guestVars, incoming, wire, taken, dropped, simVars>>

\* A submission is one by the host or by the guest, in its direction.
LEMMA SubmitPick ==
  ASSUME SubmitStep
  PROVE  \E d \in Directions, size \in Sizes, key \in Keys \cup {NoKey} : Submits(d, size, key)
<1>1. PICK size \in Sizes, key \in Keys \cup {NoKey} : HostSubmit(size, key) \/ GuestSubmit(size, key)
  BY DEF SubmitStep
<1>2. Submits("h2g", size, key) \/ Submits("g2h", size, key)
  BY <1>1 DEF Submits, HostSubmit, GuestSubmit
<1> QED BY <1>2 DEF Directions

\* At most one pending entry has the key of a submission.
LEMMA OneSameKey ==
  ASSUME TypeOK, Pending, NEW d \in Directions, NEW key
  PROVE  \/ SameKey(outgoing[d], key) = {}
         \/ \E k \in 1..Len(outgoing[d].entries) : SameKey(outgoing[d], key) = {k}
<1>1. DOMAIN outgoing[d].entries = 1..Len(outgoing[d].entries)
  BY TypeParts, LenProperties DEF OutgoingType
<1>2. \A a, b \in SameKey(outgoing[d], key) : a = b
  BY <1>1 DEF SameKey, Pending
<1>3. SameKey(outgoing[d], key) \subseteq 1..Len(outgoing[d].entries)
  BY <1>1 DEF SameKey
<1> QED BY <1>2, <1>3

\* The entry a submission adds.
NewEntry(d, size, key) == [data |-> [id |-> Len(submitted[d]) + 1, size |-> size], key |-> key]

\* What a submission does to its own direction and to the other one.
LEMMA SubmitEffect ==
  ASSUME TypeOK, Pending, NEW d \in Directions, NEW size \in Sizes, NEW key \in Keys \cup {NoKey},
         Submits(d, size, key)
  PROVE  /\ NewEntry(d, size, key) \in Entries
         /\ outgoing' = [outgoing EXCEPT ![d] = outgoing'[d]]
         /\ submitted' = [submitted EXCEPT ![d] = Append(submitted[d], NewEntry(d, size, key))]
         /\ outgoing'[d].entries \in Seq(Entries)
         /\ Grows(outgoing[d].entries, outgoing'[d].entries, NewEntry(d, size, key),
                  {outgoing[d].entries[k] : k \in SameKey(outgoing[d], key)})
         /\ KeyLast(outgoing'[d].entries, key)
<1> DEFINE new == NewEntry(d, size, key)
<1> DEFINE data == [id |-> Len(submitted[d]) + 1, size |-> size]
<1>0. OutgoingType /\ HistoryType
  BY TypeParts
<1>1. Len(submitted[d]) \in Nat
  BY <1>0, LenProperties DEF HistoryType
<1>2. data \in Messages
  BY <1>1 DEF Messages
<1>3. new = [data |-> data, key |-> key]
  BY DEF NewEntry
<1>4. /\ outgoing' = [outgoing EXCEPT ![d] = Submitted(outgoing[d], data, key)]
      /\ submitted' = [submitted EXCEPT ![d] = Append(submitted[d], new)]
  BY DEF Submits, Submit, NewEntry
<1> HIDE DEF data, new
<1>5. new \in Entries
  BY <1>2, <1>3 DEF Entries
<1>6. outgoing'[d] = Submitted(outgoing[d], data, key)
  BY <1>0, <1>4 DEF OutgoingType
<1>7. /\ Submitted(outgoing[d], data, key).entries \in Seq(Entries)
      /\ Grows(outgoing[d].entries, Submitted(outgoing[d], data, key).entries, new,
               {outgoing[d].entries[k] : k \in SameKey(outgoing[d], key)})
      /\ KeyLast(Submitted(outgoing[d], data, key).entries, key)
  <2>1. outgoing[d].entries \in Seq(Entries)
    BY <1>0 DEF OutgoingType
  <2>2. \/ SameKey(outgoing[d], key) = {}
        \/ \E k \in 1..Len(outgoing[d].entries) : SameKey(outgoing[d], key) = {k}
    BY OneSameKey, Zenon
  <2>3. [data |-> data, key |-> key] \in Entries
    BY <1>3, <1>5
  <2> QED BY <1>3, <2>1, <2>2, <2>3, SubmittedGrows, Zenon
<1> QED BY <1>4, <1>5, <1>6, <1>7, Zenon DEF new

\* Only a drain empties a sender's queue.
LEMMA QueuesShrink ==
  ASSUME TypeOK, Next, ~SubmitStep
  PROVE  /\ \/ outgoing' = outgoing
            \/ \E d \in Directions : outgoing' = [outgoing EXCEPT ![d] = EmptyOutgoing]
         /\ \A d \in Directions : outgoing'[d] = outgoing[d] \/ outgoing'[d] = EmptyOutgoing
<1>0. \/ outgoing' = outgoing
      \/ \E d \in Directions : outgoing' = [outgoing EXCEPT ![d] = EmptyOutgoing]
  <2>1. CASE WorkerExchange
    BY <2>1 DEF WorkerExchange, Directions
  <2>2. CASE GuestSend
    BY <2>2 DEF GuestSend, Directions
  <2>3. CASE WorkerReceive \/ WorkerCheck \/ WorkerSend \/ GuestQuery \/ GuestStartupReply \/ GuestBatchReply
    BY <2>3, Zenon DEF WorkerReceive, WorkerCheck, WorkerSend, GuestQuery, GuestStartupReply, GuestBatchReply,
                WorkerLeaves, GuestLeaves
  <2>4. CASE HostTake \/ GuestTake
    BY <2>4, TakeFrame
  <2>5. CASE StepCollect
    BY <2>5 DEF StepCollect, HostLeaves
  <2> QED BY <2>1, <2>2, <2>3, <2>4, <2>5, DataFrame
<1> QED BY <1>0, TypeParts DEF OutgoingType

\* Types after a submission.
LEMMA OutgoingTypes ==
  ASSUME TypeOK, Pending, Next
  PROVE  OutgoingType' /\ HistoryType'
<1>0. QueueType /\ WireType /\ OutgoingType /\ HistoryType
  BY TypeParts
<1>1. CASE SubmitStep
  <2>1. PICK d \in Directions, size \in Sizes, key \in Keys \cup {NoKey} : Submits(d, size, key)
    BY <1>1, SubmitPick
  <2> DEFINE new == NewEntry(d, size, key)
  <2>2. /\ new \in Entries
        /\ outgoing' = [outgoing EXCEPT ![d] = outgoing'[d]]
        /\ submitted' = [submitted EXCEPT ![d] = Append(submitted[d], new)]
        /\ outgoing'[d].entries \in Seq(Entries)
    BY <2>1, SubmitEffect, Zenon
  <2> HIDE DEF new
  <2>3. Append(submitted[d], new) \in Seq(Entries)
    BY <1>0, <2>2, AppendProperties DEF HistoryType
  <2>4. UNCHANGED <<taken, dropped>>
    BY <2>1 DEF Submits
  <2> QED BY <1>0, <2>2, <2>3, <2>4, Zenon DEF OutgoingType, HistoryType
<1>2. CASE ~SubmitStep
  <2>1. submitted' = submitted
    BY <1>2, NextSteps, TakeFrame, HostFrame, WorkerFrame, GuestFrame, SimFrame
  <2>2. \/ outgoing' = outgoing
        \/ \E d \in Directions : outgoing' = [outgoing EXCEPT ![d] = EmptyOutgoing]
    BY <1>2, QueuesShrink
  <2>3. OutgoingType'
    <3>1. EmptyOutgoing.entries \in Seq(Entries)
      BY DEF EmptyOutgoing
    <3> QED BY <1>0, <2>2, <3>1 DEF OutgoingType
  <2>4. taken' \in [Directions -> Seq(Messages)]
    <3>1. CASE HostTake
      <4>1. NextMessage(ready) \in Messages /\ "g2h" \in Directions
        BY <1>0, <3>1, TakenContents, Zenon DEF HostTake, QueueType, IsReceived, Directions
      <4>2. Append(taken["g2h"], NextMessage(ready)) \in Seq(Messages)
        BY <1>0, <4>1, AppendProperties DEF HistoryType
      <4> QED BY <1>0, <3>1, <4>1, <4>2 DEF HostTake, HistoryType
    <3>2. CASE GuestTake
      <4>1. NextMessage(gincoming) \in Messages /\ "h2g" \in Directions
        BY <1>0, <3>2, TakenContents, Zenon DEF GuestTake, QueueType, IsReceived, Directions
      <4>2. Append(taken["h2g"], NextMessage(gincoming)) \in Seq(Messages)
        BY <1>0, <4>1, AppendProperties DEF HistoryType
      <4> QED BY <1>0, <3>2, <4>1, <4>2 DEF GuestTake, HistoryType
    <3>3. CASE HostStep \/ WorkerStep \/ Guest \/ SimStep
      BY <1>0, <3>3, HostFrame, WorkerFrame, GuestFrame, SimFrame DEF HistoryType
    <3> QED BY <1>2, <3>1, <3>2, <3>3, NextSteps
  <2>5. dropped' \in [Directions -> Seq(Messages)]
    <3>1. \/ dropped' = dropped
          \/ dropped' = [dropped EXCEPT !["g2h"] = @ \o Contents(incoming)]
          \/ dropped' = [dropped EXCEPT !["h2g"] = @ \o wire["h2g"].batch]
      <4>1. CASE StepCollect
        BY <4>1, Zenon DEF StepCollect
      <4>2. CASE GuestStartupReply \/ GuestBatchReply
        BY <4>2, Zenon DEF GuestStartupReply, GuestBatchReply
      <4>3. CASE WorkerReceive \/ WorkerCheck \/ WorkerExchange \/ WorkerSend \/ GuestQuery \/ GuestSend
        BY <4>3, Zenon DEF WorkerReceive, WorkerCheck, WorkerExchange, WorkerSend, GuestQuery, GuestSend,
                    WorkerLeaves, GuestLeaves
      <4>4. CASE HostTake \/ GuestTake
        BY <4>4, TakeFrame, Zenon
      <4> QED BY <1>2, <4>1, <4>2, <4>3, <4>4, DataFrame, Zenon
    <3>2. /\ "g2h" \in Directions /\ "h2g" \in Directions
          /\ dropped["g2h"] \o Contents(incoming) \in Seq(Messages)
          /\ dropped["h2g"] \o wire["h2g"].batch \in Seq(Messages)
      BY StageTypes, ConcatProperties DEF Directions
    <3> QED BY <1>0, <3>1, <3>2, Zenon DEF HistoryType
  <2> QED BY <1>0, <2>1, <2>3, <2>4, <2>5 DEF HistoryType
<1> QED BY <1>1, <1>2

\* Every step keeps the type invariant.
LEMMA TypesKept ==
  ASSUME TypeOK, Pending, Next
  PROVE  TypeOK'
<1>1. ControlType' /\ QueueType' /\ WireType' /\ OutgoingType' /\ HistoryType'
  BY ControlTypes, QueueTypes, WireTypes, OutgoingTypes, TypeParts
<1> QED BY <1>1 DEF TypeOK, ControlType, QueueType, WireType, OutgoingType, HistoryType

\* The pipe is a sequence of messages.
LEMMA PipeType ==
  ASSUME TypeOK, NEW d \in Directions
  PROVE  Pipe[d] \in Seq(Messages) /\ DOMAIN Pipe[d] = 1..Len(Pipe[d])
<1> DEFINE a == Ahead[d]
<1> DEFINE q == Payloads(outgoing[d])
<1>1. Pipe[d] = a \o q /\ a \in Seq(Messages) /\ q \in Seq(Messages)
  BY PipeIsAhead, StageTypes, Zenon
<1> HIDE DEF a, q
<1>2. Pipe[d] \in Seq(Messages)
  BY <1>1, ConcatProperties
<1> QED BY <1>2, LenProperties

\* The data path of the direction grows by the message at its end; the other
\* direction keeps its contents.
LEMMA PipeGrows ==
  ASSUME TypeOK, Pending, NEW d \in Directions, NEW size \in Sizes, NEW key \in Keys \cup {NoKey},
         Submits(d, size, key)
  PROVE  /\ Grows(Pipe[d], Pipe'[d], NewEntry(d, size, key).data,
                  {e.data : e \in {outgoing[d].entries[k] : k \in SameKey(outgoing[d], key)}})
         /\ \A c \in Directions \ {d} : Pipe'[c] = Pipe[c]
<1> DEFINE lost == {outgoing[d].entries[k] : k \in SameKey(outgoing[d], key)}
<1> DEFINE new == NewEntry(d, size, key)
<1>0. OutgoingType
  BY TypeParts
<1>1. /\ outgoing[d].entries \in Seq(Entries) /\ outgoing'[d].entries \in Seq(Entries)
      /\ Grows(outgoing[d].entries, outgoing'[d].entries, new, lost)
      /\ \A c \in Directions \ {d} : outgoing'[c] = outgoing[c]
  BY <1>0, SubmitEffect, Zenon DEF OutgoingType
<1> DEFINE p == Payloads(outgoing[d])
<1> DEFINE r == Payloads(outgoing'[d])
<1> DEFINE gone == {e.data : e \in lost}
<1> HIDE DEF new, lost
<1>2. Grows(p, r, new.data, gone)
  BY <1>1, PayloadsGrow, Zenon
<1>3. p \in Seq(Messages) /\ r \in Seq(Messages)
  BY <1>1, PayloadsType, Zenon DEF Entries
<1>4. Ahead[d] \in Seq(Messages) /\ \A c \in Directions : Pipe[c] = Ahead[c] \o Payloads(outgoing[c])
  BY PipeIsAhead, Zenon
<1>5. \A c \in Directions : Pipe'[c] = Ahead[c] \o Payloads(outgoing'[c])
  <2>1. UNCHANGED <<taken, dropped, incoming, ready, gincoming, request, wire, answer>>
    BY DEF Submits, hostVars, workVars, guestVars
  <2>2. Pipe'["g2h"] = Ahead["g2h"] \o Payloads(outgoing'["g2h"])
    BY <2>1, Zenon DEF Pipe, Ahead
  <2>3. Pipe'["h2g"] = Ahead["h2g"] \o Payloads(outgoing'["h2g"])
    BY <2>1, Zenon DEF Pipe, Ahead
  <2> QED BY <2>2, <2>3, Zenon DEF Directions
<1>6. \A c \in Directions \ {d} : Pipe'[c] = Pipe[c]
  BY <1>1, <1>4, <1>5, Zenon
<1> DEFINE ahead == Ahead[d]
<1> DEFINE x == new.data
<1>7. ahead \in Seq(Messages) /\ Pipe[d] = ahead \o p /\ Pipe'[d] = ahead \o r
  BY <1>4, <1>5, Zenon
<1> HIDE DEF ahead, p, r, gone, x
<1>8. Grows(ahead \o p, ahead \o r, x, gone)
  <2>1. Grows(p, r, x, gone)
    BY <1>2 DEF x
  <2> QED BY <1>3, <1>7, <2>1, GrowsBehind
<1> QED BY <1>6, <1>7, <1>8 DEF gone, lost, new, x

\* The accepted messages after a submission.
LEMMA SubmissionAdded ==
  ASSUME TypeOK, Pending, NEW d \in Directions, NEW size \in Sizes, NEW key \in Keys \cup {NoKey},
         Submits(d, size, key)
  PROVE  /\ Len(submitted[d]) \in Nat /\ Len(submitted'[d]) = Len(submitted[d]) + 1
         /\ \A i \in 1..Len(submitted[d]) : submitted'[d][i] = submitted[d][i]
         /\ submitted'[d][Len(submitted[d]) + 1] = NewEntry(d, size, key)
         /\ \A c \in Directions \ {d} : submitted'[c] = submitted[c] /\ outgoing'[c] = outgoing[c]
<1>0. OutgoingType /\ HistoryType
  BY TypeParts
<1> DEFINE new == NewEntry(d, size, key)
<1>1. /\ new \in Entries
      /\ outgoing' = [outgoing EXCEPT ![d] = outgoing'[d]]
      /\ submitted' = [submitted EXCEPT ![d] = Append(submitted[d], new)]
  BY SubmitEffect, Zenon
<1> HIDE DEF new
<1>2. /\ submitted'[d] = Append(submitted[d], new) /\ submitted[d] \in Seq(Entries)
      /\ \A c \in Directions \ {d} : submitted'[c] = submitted[c] /\ outgoing'[c] = outgoing[c]
  BY <1>0, <1>1 DEF OutgoingType, HistoryType
<1>3. /\ Len(submitted[d]) \in Nat /\ Len(submitted'[d]) = Len(submitted[d]) + 1
      /\ \A i \in 1..Len(submitted[d]) : submitted'[d][i] = submitted[d][i]
      /\ submitted'[d][Len(submitted[d]) + 1] = new
  BY <1>1, <1>2, AppendProperties, LenProperties
<1> QED BY <1>2, <1>3 DEF new

\* A submission gets the next number.
LEMMA NumberedKept ==
  ASSUME TypeOK, Pending, Numbered, NEW d \in Directions, NEW size \in Sizes,
         NEW key \in Keys \cup {NoKey}, Submits(d, size, key)
  PROVE  Numbered'
<1> SUFFICES ASSUME NEW c \in Directions, NEW i \in 1..Len(submitted'[c])
             PROVE  submitted'[c][i].data.id = i
  BY DEF Numbered
<1>1. CASE c # d
  BY <1>1, SubmissionAdded DEF Numbered
<1>2. CASE c = d
  <2>1. i \in 1..Len(submitted[d]) \/ i = Len(submitted[d]) + 1
    BY <1>2, SubmissionAdded
  <2>2. NewEntry(d, size, key).data.id = Len(submitted[d]) + 1
    BY DEF NewEntry
  <2> QED BY <1>2, <2>1, <2>2, SubmissionAdded DEF Numbered
<1> QED BY <1>1, <1>2

\* What is in the pipe was submitted.
LEMMA AccountedKept ==
  ASSUME TypeOK, Pending, Accounted, NEW d \in Directions, NEW size \in Sizes,
         NEW key \in Keys \cup {NoKey}, Submits(d, size, key)
  PROVE  Accounted'
<1> SUFFICES ASSUME NEW c \in Directions, NEW a \in 1..Len(Pipe'[c])
             PROVE  \E i \in 1..Len(submitted'[c]) : Pipe'[c][a] = submitted'[c][i].data
  BY DEF Accounted
<1>1. CASE c # d
  <2>1. Pipe'[c] = Pipe[c]
    BY <1>1, PipeGrows, Zenon
  <2>2. submitted'[c] = submitted[c]
    BY <1>1, SubmissionAdded
  <2>3. a \in 1..Len(Pipe[c])
    BY <2>1
  <2>4. \E i \in 1..Len(submitted[c]) : Pipe[c][a] = submitted[c][i].data
    BY <2>3 DEF Accounted
  <2> QED BY <2>1, <2>2, <2>4
<1>2. CASE c = d
  <2>1. Pipe'[d][a] = NewEntry(d, size, key).data \/ \E b \in 1..Len(Pipe[d]) : Pipe'[d][a] = Pipe[d][b]
    <3>1. \E lost : Grows(Pipe[d], Pipe'[d], NewEntry(d, size, key).data, lost)
      BY PipeGrows, Zenon
    <3> QED BY <1>2, <3>1, GrowsElements
  <2>2. CASE Pipe'[d][a] = NewEntry(d, size, key).data
    <3>1. Len(submitted[d]) + 1 \in 1..Len(submitted'[d])
      BY SubmissionAdded
    <3> QED BY <1>2, <2>2, <3>1, SubmissionAdded
  <2>3. ASSUME NEW b \in 1..Len(Pipe[d]), Pipe'[d][a] = Pipe[d][b]
        PROVE  \E i \in 1..Len(submitted'[d]) : Pipe'[d][a] = submitted'[d][i].data
    <3>1. PICK i \in 1..Len(submitted[d]) : Pipe[d][b] = submitted[d][i].data
      BY <2>3 DEF Accounted
    <3>2. i \in 1..Len(submitted'[d]) /\ submitted'[d][i] = submitted[d][i]
      BY <3>1, SubmissionAdded, SMTT(30)
    <3> QED BY <2>3, <3>1, <3>2
  <2> QED BY <1>2, <2>1, <2>2, <2>3
<1> QED BY <1>1, <1>2

\* Everything in the pipe is older than the message being submitted.
LEMMA OrderKept ==
  ASSUME TypeOK, History, Ordered, NEW d \in Directions, NEW size \in Sizes,
         NEW key \in Keys \cup {NoKey}, Submits(d, size, key)
  PROVE  \A c \in Directions : \A a, b \in 1..Len(Pipe'[c]) : a < b => Pipe'[c][a].id < Pipe'[c][b].id
<1> DEFINE x == NewEntry(d, size, key).data
<1>0. Pending /\ Numbered /\ Accounted
  BY DEF History
<1>1. \A c \in Directions : DOMAIN Pipe[c] = 1..Len(Pipe[c])
  BY PipeType
<1>2. \A c \in Directions : \A a, b \in 1..Len(Pipe[c]) : a < b => Pipe[c][a].id < Pipe[c][b].id
  BY <1>1 DEF Ordered
<1>3. \A a \in 1..Len(Pipe[d]) : Pipe[d][a].id < x.id
  <2>1. x.id = Len(submitted[d]) + 1 /\ Len(submitted[d]) \in Nat
    BY <1>0, SubmissionAdded DEF NewEntry
  <2> SUFFICES ASSUME NEW a \in 1..Len(Pipe[d]) PROVE Pipe[d][a].id < x.id
    OBVIOUS
  <2>2. PICK i \in 1..Len(submitted[d]) : Pipe[d][a] = submitted[d][i].data
    BY <1>0 DEF Accounted
  <2>3. Pipe[d][a].id = i
    BY <1>0, <2>2 DEF Numbered
  <2> QED BY <2>1, <2>3
<1> HIDE DEF x
<1>4. \A a, b \in 1..Len(Pipe'[d]) : a < b => Pipe'[d][a].id < Pipe'[d][b].id
  <2>1. \E lost : Grows(Pipe[d], Pipe'[d], x, lost)
    BY <1>0, PipeGrows, Zenon DEF x
  <2> QED BY <1>2, <1>3, <2>1, GrowsOrdered
<1>5. \A c \in Directions \ {d} : Pipe'[c] = Pipe[c]
  BY <1>0, PipeGrows, Zenon
<1> QED BY <1>2, <1>4, <1>5

\* The sender's queue holds submissions, at most one for each key.
LEMMA PendingKept ==
  ASSUME TypeOK, Pending, NEW d \in Directions, NEW size \in Sizes,
         NEW key \in Keys \cup {NoKey}, Submits(d, size, key)
  PROVE  Pending'
<1> DEFINE q == outgoing[d].entries
<1> DEFINE r == outgoing'[d].entries
<1> DEFINE new == NewEntry(d, size, key)
<1>0. KeyLast(r, key)
  BY SubmitEffect, Zenon
<1>1. \E lost : Grows(q, r, new, lost)
  BY SubmitEffect, Zenon
<1>2. /\ \A a \in 1..Len(q) : \E i \in 1..Len(submitted[d]) : q[a] = submitted[d][i]
      /\ \A a, b \in 1..Len(q) : q[a].key = q[b].key => a = b \/ q[a].key = NoKey
  BY DEF Pending
<1>3. new.key = key
  BY DEF NewEntry
<1> HIDE DEF q, r, new
<1>4. ASSUME NEW a \in 1..Len(r) PROVE \E i \in 1..Len(submitted'[d]) : r[a] = submitted'[d][i]
  <2>1. r[a] = new \/ \E b \in 1..Len(q) : r[a] = q[b]
    BY <1>1, GrowsElements
  <2>2. CASE r[a] = new
    <3>1. Len(submitted[d]) + 1 \in 1..Len(submitted'[d])
      BY SubmissionAdded
    <3> QED BY <2>2, <3>1, SubmissionAdded DEF new
  <2>3. ASSUME NEW b \in 1..Len(q), r[a] = q[b]
        PROVE  \E i \in 1..Len(submitted'[d]) : r[a] = submitted'[d][i]
    <3>1. PICK i \in 1..Len(submitted[d]) : q[b] = submitted[d][i]
      BY <1>2
    <3>2. i \in 1..Len(submitted'[d]) /\ submitted'[d][i] = submitted[d][i]
      BY SubmissionAdded
    <3> QED BY <2>3, <3>1, <3>2
  <2> QED BY <2>1, <2>2, <2>3
<1>5. ASSUME NEW a \in 1..Len(r), NEW b \in 1..Len(r), r[a].key = r[b].key, r[a].key # NoKey
      PROVE  a = b
  <2>1. PICK n \in Nat : \E g \in [1..n -> 1..Len(q)] :
          /\ Len(r) = n + 1 /\ r[n + 1] = new
          /\ \A i \in 1..n : r[i] = q[g[i]]
          /\ \A i, j \in 1..n : i < j => g[i] < g[j]
    BY <1>1, SMTT(30) DEF Grows
  <2>2. PICK g \in [1..n -> 1..Len(q)] :
          /\ Len(r) = n + 1 /\ r[n + 1] = new
          /\ \A i \in 1..n : r[i] = q[g[i]]
          /\ \A i, j \in 1..n : i < j => g[i] < g[j]
    BY <2>1, Zenon
  <2>3. CASE a = n + 1 \/ b = n + 1
    <3>1. r[a].key = key /\ r[b].key = key
      BY <1>3, <1>5, <2>2, <2>3
    <3> QED BY <1>0, <1>5, <3>1 DEF KeyLast
  <2>4. CASE a \in 1..n /\ b \in 1..n
    <3>2. g[a] \in 1..Len(q) /\ g[b] \in 1..Len(q) /\ r[a] = q[g[a]] /\ r[b] = q[g[b]]
      BY <2>2, <2>4
    <3>1. g[a] = g[b]
      BY <1>2, <1>5, <3>2
    <3> QED BY <2>2, <2>4, <3>1, <3>2
  <2> QED BY <2>2, <2>3, <2>4
<1>6. \A c \in Directions \ {d} : submitted'[c] = submitted[c] /\ outgoing'[c] = outgoing[c]
  BY SubmissionAdded
<1>7. ASSUME NEW c \in Directions
      PROVE  /\ \A a \in 1..Len(outgoing'[c].entries) :
                  \E i \in 1..Len(submitted'[c]) : outgoing'[c].entries[a] = submitted'[c][i]
             /\ \A a, b \in 1..Len(outgoing'[c].entries) :
                  outgoing'[c].entries[a].key = outgoing'[c].entries[b].key
                    => a = b \/ outgoing'[c].entries[a].key = NoKey
  <2>1. CASE c = d
    BY <1>4, <1>5, <2>1 DEF r
  <2>2. CASE c # d
    <3>1. submitted'[c] = submitted[c] /\ outgoing'[c] = outgoing[c]
      BY <1>6, <2>2
    <3> QED BY <3>1 DEF Pending
  <2> QED BY <2>1, <2>2
<1> QED BY <1>7 DEF Pending

\* A message that leaves the pipe was replaced by the one submitted.
LEMMA ConservedKept ==
  ASSUME TypeOK, History, Conserved, NEW d \in Directions, NEW size \in Sizes,
         NEW key \in Keys \cup {NoKey}, Submits(d, size, key)
  PROVE  \A c \in Directions : \A i \in 1..Len(submitted'[c]) :
           Superseded(c, i)' \/ \E a \in 1..Len(Pipe'[c]) : Pipe'[c][a] = submitted'[c][i].data
<1> DEFINE l == Len(submitted[d])
<1> DEFINE new == NewEntry(d, size, key)
<1> DEFINE lost == {e.data : e \in {outgoing[d].entries[k] : k \in SameKey(outgoing[d], key)}}
<1>0. Pending /\ Numbered /\ Accounted
  BY DEF History
<1>1. /\ l \in Nat /\ Len(submitted'[d]) = l + 1 /\ submitted'[d][l + 1] = new
      /\ \A i \in 1..l : submitted'[d][i] = submitted[d][i]
      /\ \A c \in Directions \ {d} : submitted'[c] = submitted[c]
  BY <1>0, SubmissionAdded
<1>2. Grows(Pipe[d], Pipe'[d], new.data, lost) /\ \A c \in Directions \ {d} : Pipe'[c] = Pipe[c]
  BY <1>0, PipeGrows
<1>3. \A c \in Directions : \A i \in 1..Len(submitted[c]) :
        Superseded(c, i) \/ \E a \in 1..Len(Pipe[c]) : Pipe[c][a] = submitted[c][i].data
  <2>1. \A c \in Directions : /\ DOMAIN submitted[c] = 1..Len(submitted[c])
                              /\ DOMAIN Pipe[c] = 1..Len(Pipe[c])
    BY PipeType, TypeParts, LenProperties DEF HistoryType
  <2> QED BY <2>1 DEF Conserved
<1>4. new.key = key
  BY DEF NewEntry
<1>5. ASSUME NEW i \in 1..l, submitted[d][i].data \in lost
      PROVE  key # NoKey /\ submitted[d][i].key = key
  <2>1. PICK k \in SameKey(outgoing[d], key) : submitted[d][i].data = outgoing[d].entries[k].data
    BY <1>5
  <2>2. k \in 1..Len(outgoing[d].entries) /\ key # NoKey /\ outgoing[d].entries[k].key = key
    <3>1. DOMAIN outgoing[d].entries = 1..Len(outgoing[d].entries)
      BY TypeParts, LenProperties DEF OutgoingType
    <3> QED BY <3>1 DEF SameKey
  <2>3. PICK j \in 1..l : outgoing[d].entries[k] = submitted[d][j]
    BY <1>0, <2>2, Zenon DEF Pending
  <2>4. j = i
    BY <1>0, <2>1, <2>3 DEF Numbered
  <2> QED BY <2>2, <2>3, <2>4
<1> HIDE DEF l, new, lost
<1>6. ASSUME NEW i \in 1..l
      PROVE  Superseded(d, i)' \/ \E a \in 1..Len(Pipe'[d]) : Pipe'[d][a] = submitted'[d][i].data
  <2>1. submitted'[d][i] = submitted[d][i] /\ i \in 1..Len(submitted[d])
    BY <1>1 DEF l
  <2>2. CASE Superseded(d, i)
    <3>1. PICK j \in i + 1..l : submitted[d][i].key # NoKey /\ submitted[d][j].key = submitted[d][i].key
      BY <2>2 DEF Superseded, l
    <3>2. j \in i + 1..l + 1 /\ submitted'[d][j] = submitted[d][j]
      BY <1>1, <3>1
    <3> QED BY <1>1, <2>1, <3>1, <3>2 DEF Superseded
  <2>3. CASE submitted[d][i].data \in lost
    <3>1. key # NoKey /\ submitted[d][i].key = key
      BY <1>5, <2>3
    <3>2. l + 1 \in i + 1..l + 1
      BY <1>1
    <3> QED BY <1>1, <1>4, <2>1, <3>1, <3>2 DEF Superseded
  <2>4. ASSUME NEW b \in 1..Len(Pipe[d]), Pipe[d][b] = submitted[d][i].data,
               submitted[d][i].data \notin lost
        PROVE  \E a \in 1..Len(Pipe'[d]) : Pipe'[d][a] = submitted[d][i].data
    <3>1. Pipe[d][b] \in lost \/ \E a \in 1..Len(Pipe'[d]) : Pipe'[d][a] = Pipe[d][b]
      BY <1>2, GrowsElements
    <3> QED BY <2>4, <3>1
  <2> QED BY <1>3, <2>1, <2>2, <2>3, <2>4
<1>7. \E a \in 1..Len(Pipe'[d]) : Pipe'[d][a] = new.data
  BY <1>2, GrowsElements
<1>8. ASSUME NEW i \in 1..l + 1
      PROVE  Superseded(d, i)' \/ \E a \in 1..Len(Pipe'[d]) : Pipe'[d][a] = submitted'[d][i].data
  <2>1. i \in 1..l \/ i = l + 1
    BY <1>1
  <2> QED BY <1>1, <1>6, <1>7, <2>1, Zenon
<1>9. ASSUME NEW c \in Directions, c # d, NEW i \in 1..Len(submitted'[c])
      PROVE  Superseded(c, i)' \/ \E a \in 1..Len(Pipe'[c]) : Pipe'[c][a] = submitted'[c][i].data
  <2>1. Pipe'[c] = Pipe[c] /\ submitted'[c] = submitted[c]
    BY <1>1, <1>2, <1>9
  <2>2. Superseded(c, i)' <=> Superseded(c, i)
    BY <2>1 DEF Superseded
  <2> QED BY <1>3, <1>9, <2>1, <2>2
<1> QED BY <1>1, <1>8, <1>9

-----------------------------------------------------------------------------
(* The inductive invariant.                                                *)

\* Ordered and Conserved, with the domains of the sequences spelt out.
OrderInv ==
  \A d \in Directions : \A a, b \in 1..Len(Pipe[d]) : a < b => Pipe[d][a].id < Pipe[d][b].id

\* Conserved, in the same way.
ConserveInv ==
  \A d \in Directions : \A i \in 1..Len(submitted[d]) :
    Superseded(d, i) \/ \E a \in 1..Len(Pipe[d]) : Pipe[d][a] = submitted[d][i].data

\* The invariant of the data.
DataInv == History /\ OrderInv /\ ConserveInv

\* The inductive invariant.
IInv == TypeOK /\ ControlInv /\ DataInv

\* Over typed sequences the two forms of order and conservation agree.
LEMMA Domains ==
  ASSUME TypeOK
  PROVE  (Ordered <=> OrderInv) /\ (Conserved <=> ConserveInv)
<1>1. \A d \in Directions : /\ DOMAIN submitted[d] = 1..Len(submitted[d])
                            /\ DOMAIN Pipe[d] = 1..Len(Pipe[d])
  BY PipeType, TypeParts, LenProperties DEF HistoryType
<1> QED BY <1>1 DEF Ordered, Conserved, OrderInv, ConserveInv

\* Steps that submit nothing can only shorten the senders' queues.
LEMMA DataFixed ==
  ASSUME TypeOK, ControlInv, DataInv, SamePipe, submitted' = submitted,
         \A d \in Directions : outgoing'[d] = outgoing[d] \/ outgoing'[d] = EmptyOutgoing
  PROVE  DataInv'
<1>1. \A d \in Directions : Pipe'[d] = Pipe[d]
  BY DEF SamePipe, Directions
<1>2. Numbered' /\ Accounted'
  BY <1>1 DEF DataInv, History, Numbered, Accounted
<1>3. Pending'
  <2>1. EmptyOutgoing.entries = <<>>
    BY DEF EmptyOutgoing
  <2>2. Len(EmptyOutgoing.entries) = 0
    BY <2>1
  <2> QED BY <2>2 DEF DataInv, History, Pending
<1>4. OrderInv'
  BY <1>1 DEF DataInv, OrderInv
<1>5. ConserveInv'
  BY <1>1 DEF DataInv, ConserveInv, Superseded
<1> QED BY <1>2, <1>3, <1>4, <1>5 DEF DataInv, History

\* Every step of the system keeps the numbering, order and conservation of
\* messages: a submission extends the pipe, any other step leaves it alone.
LEMMA DataKept ==
  ASSUME TypeOK, ControlInv, DataInv, Next
  PROVE  DataInv'
<1>0. Pending /\ Numbered /\ Accounted /\ History /\ OrderInv /\ ConserveInv /\ Ordered /\ Conserved
  BY Domains DEF DataInv, History
<1>1. CASE SubmitStep
  <2>1. PICK d \in Directions, size \in Sizes, key \in Keys \cup {NoKey} : Submits(d, size, key)
    BY <1>1, SubmitPick
  <2>2. Numbered' /\ Accounted' /\ Pending'
    BY <1>0, <2>1, NumberedKept, AccountedKept, PendingKept
  <2>3. OrderInv'
    BY <1>0, <2>1, OrderKept DEF OrderInv
  <2>4. ConserveInv'
    BY <1>0, <2>1, ConservedKept DEF ConserveInv
  <2> QED BY <2>2, <2>3, <2>4 DEF DataInv, History
<1>2. CASE ~SubmitStep
  <2>1. SamePipe
    BY <1>2, PipeKept DEF ControlInv
  <2>2. submitted' = submitted
    BY <1>2, NextSteps, TakeFrame, HostFrame, WorkerFrame, GuestFrame, SimFrame
  <2>3. \A d \in Directions : outgoing'[d] = outgoing[d] \/ outgoing'[d] = EmptyOutgoing
    BY <1>2, QueuesShrink
  <2> QED BY <2>1, <2>2, <2>3, DataFixed
<1> QED BY <1>1, <1>2

\* An application that has taken k messages took the k first of the pipe.
Starts(s, t) == Len(t) <= Len(s) /\ \A i \in 1..Len(t) : s[i] = t[i]

\* What starts a sequence starts its extensions.
LEMMA StartsBefore ==
  ASSUME NEW x \in Seq(Messages), NEW y \in Seq(Messages), NEW t \in Seq(Messages), Starts(x, t)
  PROVE  x \o y \in Seq(Messages) /\ Starts(x \o y, t)
<1>1. /\ x \o y \in Seq(Messages) /\ Len(x \o y) = Len(x) + Len(y)
      /\ \A i \in 1..Len(x) + Len(y) : (x \o y)[i] = IF i <= Len(x) THEN x[i] ELSE y[i - Len(x)]
  BY ConcatProperties
<1>2. Len(x) \in Nat /\ Len(y) \in Nat /\ Len(t) \in Nat
  BY LenProperties
<1> DEFINE z == x \o y
<1> HIDE DEF z
<1>3. Len(z) = Len(x) + Len(y) /\ \A i \in 1..Len(x) : z[i] = x[i]
  BY <1>1, <1>2 DEF z
<1>4. Starts(z, t)
  BY <1>2, <1>3 DEF Starts
<1> QED BY <1>1, <1>4 DEF z

\* What take() has returned is the front of the pipe, in both directions.
LEMMA TakenFirst ==
  ASSUME TypeOK, NEW d \in Directions
  PROVE  Starts(Pipe[d], taken[d])
<1>0. "g2h" \in Directions /\ "h2g" \in Directions
  BY DEF Directions
<1>1. \A t \in Seq(Messages) : Starts(t, t)
  BY LenProperties DEF Starts
<1>2. Starts(Pipe["g2h"], taken["g2h"])
  <2> DEFINE t == taken["g2h"]
  <2> DEFINE a == t \o Contents(ready)
  <2> DEFINE b == a \o dropped["g2h"]
  <2> DEFINE c == b \o Contents(incoming)
  <2> DEFINE e == c \o request
  <2> DEFINE f == e \o wire["g2h"].batch
  <2> DEFINE g == f \o Payloads(outgoing["g2h"])
  <2>0. Pipe["g2h"] = g
    BY Zenon DEF Pipe
  <2>1. t \in Seq(Messages) /\ Starts(t, t)
    BY <1>0, <1>1, StageTypes
  <2> HIDE DEF t
  <2>2. a \in Seq(Messages) /\ Starts(a, t)
    BY <1>0, <2>1, StageTypes, StartsBefore
  <2> HIDE DEF a
  <2>3. b \in Seq(Messages) /\ Starts(b, t)
    BY <1>0, <2>1, <2>2, StageTypes, StartsBefore
  <2> HIDE DEF b
  <2>4. c \in Seq(Messages) /\ Starts(c, t)
    BY <1>0, <2>1, <2>3, StageTypes, StartsBefore
  <2> HIDE DEF c
  <2>5. e \in Seq(Messages) /\ Starts(e, t)
    BY <1>0, <2>1, <2>4, StageTypes, StartsBefore
  <2> HIDE DEF e
  <2>6. f \in Seq(Messages) /\ Starts(f, t)
    BY <1>0, <2>1, <2>5, StageTypes, StartsBefore
  <2> HIDE DEF f
  <2>7. Starts(g, t)
    BY <1>0, <2>1, <2>6, StageTypes, StartsBefore
  <2> HIDE DEF g
  <2> QED BY <2>0, <2>7 DEF t
<1>3. Starts(Pipe["h2g"], taken["h2g"])
  <2> DEFINE t == taken["h2g"]
  <2> DEFINE a == t \o Contents(gincoming)
  <2> DEFINE b == a \o dropped["h2g"]
  <2> DEFINE c == b \o wire["h2g"].batch
  <2> DEFINE e == c \o answer.batch
  <2> DEFINE g == e \o Payloads(outgoing["h2g"])
  <2>0. Pipe["h2g"] = g
    BY Zenon DEF Pipe
  <2>1. t \in Seq(Messages) /\ Starts(t, t)
    BY <1>0, <1>1, StageTypes
  <2> HIDE DEF t
  <2>2. a \in Seq(Messages) /\ Starts(a, t)
    BY <1>0, <2>1, StageTypes, StartsBefore
  <2> HIDE DEF a
  <2>3. b \in Seq(Messages) /\ Starts(b, t)
    BY <1>0, <2>1, <2>2, StageTypes, StartsBefore
  <2> HIDE DEF b
  <2>4. c \in Seq(Messages) /\ Starts(c, t)
    BY <1>0, <2>1, <2>3, StageTypes, StartsBefore
  <2> HIDE DEF c
  <2>5. e \in Seq(Messages) /\ Starts(e, t)
    BY <1>0, <2>1, <2>4, StageTypes, StartsBefore
  <2> HIDE DEF e
  <2>6. Starts(g, t)
    BY <1>0, <2>1, <2>5, StageTypes, StartsBefore
  <2> HIDE DEF g
  <2> QED BY <2>0, <2>6 DEF t
<1> QED BY <1>2, <1>3 DEF Directions

-----------------------------------------------------------------------------
(* Theorems.                                                               *)

\* The constructors establish the types.
LEMMA InitTypes ==
  ASSUME Init
  PROVE  TypeOK
<1>1. SimTypeOK
  BY Zenon DEF Init, SimInit, SimTypeOK
<1>2. IsReceived(EmptyReceived)
  BY EmptyContents DEF IsReceived
<1>3. <<>> \in Seq(Messages) /\ <<>> \in Seq(Entries) /\ Nothing \in WireMessages
  BY WireFacts
<1>4. EmptyOutgoing.entries = <<>>
  BY DEF EmptyOutgoing
<1>5. ControlType
  BY <1>1, Zenon DEF Init, ControlType
<1>6. QueueType /\ WireType
  BY <1>2, <1>3 DEF Init, QueueType, WireType
<1>7. OutgoingType /\ HistoryType
  BY <1>3, <1>4, Zenon DEF Init, OutgoingType, HistoryType
<1> QED BY <1>5, <1>6, <1>7, TypeParts

\* The constructors establish the control invariants: no call is in progress.
LEMMA InitControl ==
  ASSUME Init
  PROVE  ControlInv
<1>1. /\ gpc = "boot" /\ wpc = "recv" /\ hpc = "boot" /\ phase = "startup" /\ sim = "boot"
      /\ request = <<>> /\ answer = Nothing /\ wire["g2h"] = Nothing /\ wire["h2g"] = Nothing
      /\ dropped["g2h"] = <<>> /\ dropped["h2g"] = <<>>
      /\ ~poll /\ ~gfailed /\ ~started /\ ~stopped /\ ~open /\ session = "usable"
      /\ reply = "none" /\ inbox = "none"
  BY DEF Init, SimInit, Directions
<1>2. Nothing # Configured
  BY WireFacts
<1>3. Turn /\ Phases
  BY <1>1, <1>2 DEF Turn, Phases, Starting, Batching, Busy, InOp
<1>4. StartOrder /\ Steps /\ Stopping /\ Lost
  BY <1>1, <1>2 DEF StartOrder, Steps, Stopping, Lost
<1> QED BY <1>3, <1>4 DEF ControlInv

\* Before the first submission the pipe is empty.
LEMMA InitData ==
  ASSUME Init
  PROVE  DataInv
<1>1. <<>> \o <<>> = <<>>
  OBVIOUS
<1>2. \A d \in Directions : Pipe[d] = <<>>
  <2>1. /\ Contents(ready) = <<>> /\ Contents(incoming) = <<>> /\ Contents(gincoming) = <<>>
        /\ request = <<>> /\ answer.batch = <<>>
    BY EmptyContents, WireFacts DEF Init
  <2>2. /\ taken["g2h"] = <<>> /\ taken["h2g"] = <<>> /\ dropped["g2h"] = <<>> /\ dropped["h2g"] = <<>>
        /\ wire["g2h"].batch = <<>> /\ wire["h2g"].batch = <<>>
        /\ Payloads(outgoing["g2h"]) = <<>> /\ Payloads(outgoing["h2g"]) = <<>>
    BY EmptyPayloads, WireFacts DEF Init, Directions
  <2>3. Pipe["g2h"] = <<>>
    BY <1>1, <2>1, <2>2, PipeIs, Zenon DEF Up
  <2>4. Pipe["h2g"] = <<>>
    BY <1>1, <2>1, <2>2, PipeIs, Zenon DEF Down
  <2> QED BY <2>3, <2>4 DEF Directions
<1>3. \A d \in Directions : submitted[d] = <<>> /\ outgoing[d].entries = <<>>
  BY DEF Init, EmptyOutgoing
<1>4. Len(<<>>) = 0
  OBVIOUS
<1> QED BY <1>2, <1>3, <1>4 DEF DataInv, History, Numbered, Accounted, Pending, OrderInv, ConserveInv

\* The invariant is inductive.
LEMMA Inductive ==
  ASSUME IInv, [Next]_vars
  PROVE  IInv'
<1>1. CASE Next
  <2>1. TypeOK /\ Turn /\ Phases /\ StartOrder /\ Steps /\ Stopping /\ Lost /\ Pending
    BY DEF IInv, ControlInv, DataInv, History
  <2>2. TypeOK'
    BY <1>1, <2>1, TypesKept
  <2>3. ControlInv'
    BY <1>1, <2>1, TurnKept, PhasesKept, StartOrderKept, StepsKept, StoppingKept, LostKept DEF ControlInv
  <2>4. DataInv'
    BY <1>1, DataKept DEF IInv
  <2> QED BY <2>2, <2>3, <2>4 DEF IInv
<1>2. CASE UNCHANGED vars
  <2>1. /\ UNCHANGED <<hpc, started, failure, stopped, cancelled, ready, wpc, phase, request, answer>>
        /\ UNCHANGED <<gpc, poll, gfailed, gincoming, incoming, outgoing, wire, submitted, taken, dropped>>
        /\ UNCHANGED <<sim, done, inbox, reply, open, session>>
    BY <1>2 DEF vars, hostVars, workVars, guestVars, simVars
  <2>2. TypeOK'
    BY <2>1 DEF IInv, TypeOK, SimTypeOK
  <2>3. ControlInv'
    BY <2>1 DEF IInv, ControlInv, Turn, Phases, StartOrder, Steps, Stopping, Lost, Starting, Batching,
                Busy, InOp
  <2>4. SamePipe
    BY <2>1, PipeIs, PipeNextIs DEF SamePipe
  <2>5. DataInv'
    BY <2>1, <2>4, DataFixed DEF IInv
  <2> QED BY <2>2, <2>3, <2>5 DEF IInv
<1> QED BY <1>1, <1>2

\* The invariant holds in every reachable state.
LEMMA Invariance == Spec => []IInv
<1>1. Init => IInv
  BY InitTypes, InitControl, InitData DEF IInv
<1>2. IInv /\ [Next]_vars => IInv'
  BY Inductive
<1> QED BY <1>1, <1>2, PTL DEF Spec

\* Every field and local keeps its type and every cursor stays inside its
\* vector, for any limits, keys and sizes.
THEOREM TypeCorrect == Spec => []TypeOK
<1>1. IInv => TypeOK
  BY DEF IInv
<1> QED BY <1>1, Invariance, PTL

\* No message is duplicated or overtakes another on its way from submit() to
\* take(), in either direction.
THEOREM PipeOrdered == Spec => []Ordered
<1>1. IInv => Ordered
  BY Domains DEF IInv, DataInv
<1> QED BY <1>1, Invariance, PTL

\* No accepted message vanishes except by being replaced while it is pending.
THEOREM PipeConserved == Spec => []Conserved
<1>1. IInv => Conserved
  BY Domains DEF IInv, DataInv
<1> QED BY <1>1, Invariance, PTL

\* What take() has returned so far has no holes: Ordered and Conserved confine
\* a missing older message to the part of the pipe that was taken.
THEOREM TakenWithoutGaps == Spec => []NoGaps
<1>1. ASSUME IInv PROVE NoGaps
  <2> SUFFICES ASSUME NEW d \in Directions, NEW i \in DOMAIN submitted[d], NEW a \in DOMAIN taken[d],
                      i < taken[d][a].id, ~Superseded(d, i)
               PROVE  \E b \in DOMAIN taken[d] : taken[d][b] = submitted[d][i].data
    BY DEF NoGaps
  <2>1. TypeOK /\ OrderInv /\ ConserveInv /\ Numbered
    BY <1>1 DEF IInv, DataInv, History
  <2>2. taken[d] \in Seq(Messages) /\ submitted[d] \in Seq(Entries)
    BY <2>1, TypeParts DEF HistoryType
  <2>3. /\ DOMAIN taken[d] = 1..Len(taken[d]) /\ DOMAIN submitted[d] = 1..Len(submitted[d])
        /\ Len(taken[d]) \in Nat /\ Len(submitted[d]) \in Nat
    BY <2>2, LenProperties
  <2>4. PICK p \in 1..Len(Pipe[d]) : Pipe[d][p] = submitted[d][i].data
    BY <2>1, <2>3 DEF ConserveInv
  <2>5. Pipe[d][p].id = i /\ i \in Nat
    BY <2>1, <2>3, <2>4 DEF Numbered
  <2>6. Len(Pipe[d]) \in Nat
    BY <2>1, PipeType, LenProperties
  <2>7. /\ Len(taken[d]) <= Len(Pipe[d])
        /\ \A b \in 1..Len(taken[d]) : Pipe[d][b] = taken[d][b]
    BY <2>1, TakenFirst DEF Starts
  <2>8. a \in 1..Len(Pipe[d]) /\ Pipe[d][a] = taken[d][a]
    BY <2>3, <2>6, <2>7
  <2>9. taken[d][a].id \in Nat
    <3>1. taken[d][a] \in Messages
      BY <2>2, <2>3, ElementOfSeq
    <3> QED BY <3>1 DEF Messages
  <2>10. p < a
    <3>1. CASE a < p
      <4>1. Pipe[d][a].id < Pipe[d][p].id
        BY <2>1, <2>4, <2>8, <3>1 DEF OrderInv
      <4> QED BY <2>5, <2>8, <2>9, <4>1
    <3>2. CASE a = p
      BY <2>5, <2>8, <2>9, <3>2
    <3> QED BY <2>4, <2>6, <2>8, <3>1, <3>2
  <2>11. p \in DOMAIN taken[d]
    BY <2>3, <2>4, <2>10
  <2> QED BY <2>3, <2>4, <2>7, <2>11
<1> QED BY <1>1, Invariance, PTL

\* serve() and run_next() never meet a message of the other phase.
THEOREM PhasesAgree == Spec => []PhaseAgreement
<1>1. ASSUME IInv PROVE PhaseAgreement
  <2>1. Turn /\ Phases /\ ControlType
    BY <1>1, TypeParts DEF IInv, ControlInv
  <2>2. wpc = "recv" => wire["g2h"].type \in {"none", IF phase = "startup" THEN "query" ELSE "batch"}
    <3>1. CASE wire["g2h"] = Nothing
      BY <3>1, WireFacts
    <3>2. CASE wire["g2h"] # Nothing /\ Starting
      <4>1. wire["g2h"] = StartupQuery /\ wire["h2g"] = Nothing
        BY <2>1, <3>2 DEF Turn, Phases
      <4>2. ~poll
        BY <2>1, <3>2 DEF Phases, Starting
      <4>3. phase = "startup"
        BY <2>1, <4>1, <4>2, WireFacts DEF Phases, ControlType
      <4> QED BY <4>1, <4>3, WireFacts
    <3>3. CASE wire["g2h"] # Nothing /\ Batching
      <4>1. wire["g2h"].type = "batch"
        BY <2>1, <3>3 DEF Phases
      <4>2. phase = "batch"
        BY <2>1, <3>3 DEF Phases, Batching
      <4> QED BY <4>1, <4>2
    <3> QED BY <2>1, <3>1, <3>2, <3>3 DEF Turn
  <2>3. gpc = "startupRecv" => wire["h2g"].type \in {"none", "notready", "config"}
    BY <2>1, WireFacts DEF Phases, Starting
  <2>4. gpc = "batchRecv" => wire["h2g"].type \in {"none", "batch"}
    BY <2>1, WireFacts DEF Phases, Batching
  <2> QED BY <2>2, <2>3, <2>4 DEF PhaseAgreement
<1> QED BY <1>1, Invariance, PTL

\* The guest issues the instruction form of an m5 operation only after the
\* simulator has left KVM: it must have been configured, hence the host must
\* have stepped, hence gem5 must have paused at workbegin.
THEOREM OpsAfterSwitch == Spec => []InstructionOpsAfterSwitch
<1>1. IInv => InstructionOpsAfterSwitch
  BY DEF IInv, ControlInv, Phases, StartOrder, InstructionOpsAfterSwitch
<1> QED BY <1>1, Invariance, PTL

\* Between the steps of the host application gem5 is paused, unless the timing
\* session has failed.
THEOREM PausedForTheHost == Spec => []PausedBetweenSteps
<1>1. ASSUME IInv PROVE PausedBetweenSteps
  <2>1. Steps /\ StartOrder /\ SimTypeOK
    BY <1>1 DEF IInv, ControlInv, TypeOK
  <2> QED BY <2>1 DEF Steps, StartOrder, SimTypeOK, PausedBetweenSteps
<1> QED BY <1>1, Invariance, PTL

\* A stop() that succeeded has ended gem5 and joined the I/O worker.
THEOREM StopsCleanly == Spec => []CleanStop
<1>1. IInv => CleanStop
  BY DEF IInv, ControlInv, Stopping, CleanStop
<1> QED BY <1>1, Invariance, PTL
=============================================================================
