------------------------ MODULE DataExchangeControl -------------------------
(****************************************************************************)
(* The control invariants of DataExchange (whose turn it is in an exchange, *)
(* which phase the two ends are in, how stepping and shutdown proceed), the *)
(* types of everything but the senders' queues, and the pipe: every step    *)
(* but a submission moves messages along and leaves its contents alone.     *)
(****************************************************************************)
EXTENDS DataExchange, QueueLemmas

\* What the guest and the worker are at.
Starting == gpc \in {"querySent", "startupRecv"}
Batching == gpc \in {"batchSent", "batchRecv"}
Busy     == wpc \in {"check", "exchange", "send"}

\* Request and reply alternate: at most one of the request on the wire, the
\* worker's work on it, and the reply on the wire, and only while the guest
\* waits.
Turn ==
  /\ wire["g2h"] # Nothing => (Starting \/ Batching) /\ wire["h2g"] = Nothing /\ ~Busy
  /\ wire["h2g"] # Nothing => InOp /\ ~Busy
  /\ Busy => (Starting \/ Batching) /\ wire["g2h"] = Nothing /\ wire["h2g"] = Nothing
  /\ wpc \in {"recv", "check"} => request = <<>> /\ answer = Nothing
  /\ wpc = "exchange" => answer = Nothing
  /\ wpc = "send" => request = <<>>

\* The worker leaves the startup phase when it sends the configuration, the
\* guest when it receives it.
Phases ==
  /\ Starting => /\ wire["g2h"] \in {Nothing, StartupQuery}
                 /\ wire["h2g"] \in {Nothing, NotReady, Configured}
  /\ Batching => /\ wire["g2h"] = Nothing \/ wire["g2h"].type = "batch"
                 /\ wire["h2g"] = Nothing \/ wire["h2g"].type = "batch"
  /\ poll <=> gpc \in {"call", "sleep", "send", "batchSent", "batchRecv"}
  /\ phase = "batch" <=> poll \/ wire["h2g"] = Configured
  /\ wpc = "check" => phase = "startup"
  /\ wpc = "exchange" => phase = "batch"
  /\ wpc = "send" => \/ phase = "startup" /\ answer \in {NotReady, Configured}
                     \/ phase = "batch" /\ answer.type = "batch"

\* The configuration is sent only after the host has seen gem5 paused.
StartOrder ==
  /\ sim = "boot" => /\ ~open /\ ~started
                     /\ hpc \in {"boot", "leaving", "ended", "destroy", "gone"}
  /\ poll \/ answer = Configured \/ wire["h2g"] = Configured => started

\* gem5 runs only for a step whose answer is still awaited or was given up.
Steps ==
  /\ open <=> hpc \in {"status", "wait", "quit"}
  /\ session = "failed" => ~open
  /\ reply # "none" => open /\ inbox = "none"
  /\ sim = "running" => inbox = "step"
  /\ session # "failed" /\ ~open => inbox = "none"

\* Shutdown joins the worker after gem5 has left.
Stopping ==
  /\ reply = "bye" \/ hpc = "join" => sim = "exited"
  /\ stopped => sim = "exited" /\ wpc = "done"

\* Only a failure drops messages, and it is remembered.
Lost ==
  /\ dropped["g2h"] # <<>> => failure
  /\ dropped["h2g"] # <<>> => gfailed
  /\ gfailed => gpc = "call"

\* The control invariant.
ControlInv == Turn /\ Phases /\ StartOrder /\ Steps /\ Stopping /\ Lost

\* The steps, by whom they are taken.
HostStep   == HostCall \/ HostReturn
WorkerStep == Worker \/ WorkerIoFails
SimStep    == Simulator \/ SimKilled
SubmitStep ==
  \E size \in Sizes, key \in Keys \cup {NoKey} : HostSubmit(size, key) \/ GuestSubmit(size, key)

-----------------------------------------------------------------------------
\* Which variables each thread leaves alone.
LEMMA SubmitFrame ==
  SubmitStep => UNCHANGED <<hostVars, workVars, guestVars, incoming, wire, taken, dropped, simVars>>
BY DEF SubmitStep, HostSubmit, GuestSubmit

\* What take() leaves alone.
LEMMA TakeFrame ==
  HostTake \/ GuestTake =>
    /\ UNCHANGED <<hpc, started, failure, stopped, cancelled, gpc, poll, gfailed>>
    /\ UNCHANGED <<workVars, incoming, outgoing, wire, submitted, dropped, simVars>>
BY DEF HostTake, GuestTake, hostVars, guestVars

\* What the host application's other calls leave alone.
LEMMA HostFrame ==
  HostStep => UNCHANGED <<workVars, guestVars, outgoing, wire, submitted, taken>>
BY DEF HostStep, HostCall, HostReturn, AskReady, IsReady, StepBegin, StepStart, StepWait,
       StepCollect, StopBegin, StopReply, StopJoin, DestroyBegin, DestroyJoin, HostLeaves

\* What the I/O worker leaves alone.
LEMMA WorkerFrame ==
  WorkerStep => UNCHANGED <<hpc, started, stopped, cancelled, ready, guestVars, submitted, taken,
                            dropped, simVars>>
BY DEF WorkerStep, Worker, WorkerReceive, WorkerCheck, WorkerExchange, WorkerSend, WorkerCatch,
       WorkerIoFails, WorkerLeaves

\* What run_next() leaves alone.
LEMMA GuestFrame ==
  Guest => UNCHANGED <<hostVars, workVars, incoming, submitted, taken, simVars>>
BY Zenon DEF Guest, GuestCall, GuestWake, GuestQuery, GuestSend, GuestRecvBegin, GuestStartupReply,
       GuestBatchReply, GuestLeaves

\* What the simulator and its death leave alone.
LEMMA SimFrame ==
  SimStep => UNCHANGED <<hostVars, workVars, guestVars, incoming, outgoing, wire, submitted, taken,
                         dropped>>
BY DEF SimStep, Simulator, SimBoots, SimResumes, SimHalts, SimServes, SimPanics, SimKilled, SimLeaves

\* Every step belongs to one of these groups.
LEMMA NextSteps ==
  Next <=> SubmitStep \/ HostTake \/ GuestTake \/ HostStep \/ WorkerStep \/ Guest \/ SimStep
BY DEF Next, SubmitStep, HostStep, WorkerStep, SimStep

-----------------------------------------------------------------------------
(* Types.                                                                  *)

\* Transport messages are told apart by their type; only batches carry data.
LEMMA WireFacts ==
  /\ {Nothing, StartupQuery, NotReady, Configured} \subseteq WireMessages
  /\ \A b \in Seq(Messages) : BatchOf(b) \in WireMessages
  /\ Nothing.type = "none" /\ StartupQuery.type = "query"
  /\ NotReady.type = "notready" /\ Configured.type = "config"
  /\ Nothing.batch = <<>> /\ StartupQuery.batch = <<>>
  /\ NotReady.batch = <<>> /\ Configured.batch = <<>>
  /\ \A b : BatchOf(b).type = "batch" /\ BatchOf(b).batch = b
<1>1. <<>> \in Seq(Messages)
  OBVIOUS
<1> QED BY <1>1 DEF Nothing, StartupQuery, NotReady, Configured, BatchOf, WireMessages

\* The fields of a transport message.
LEMMA WireFields ==
  ASSUME NEW m \in WireMessages
  PROVE  m.batch \in Seq(Messages)
BY DEF WireMessages

\* The types of the program counters and flags.
ControlType ==
  /\ SimTypeOK
  /\ hpc \in {"boot", "status", "idle", "leaving", "start", "wait", "collect", "quit", "join",
              "ended", "destroy", "gone"}
  /\ wpc \in {"recv", "check", "exchange", "send", "failing", "done"}
  /\ phase \in {"startup", "batch"}
  /\ gpc \in {"boot", "call", "query", "querySent", "startupRecv", "retry", "sleep", "send",
              "batchSent", "batchRecv"}
  /\ started \in BOOLEAN /\ failure \in BOOLEAN /\ stopped \in BOOLEAN /\ cancelled \in BOOLEAN
  /\ poll \in BOOLEAN /\ gfailed \in BOOLEAN

\* The types of the receiving queues.
QueueType == IsReceived(incoming) /\ IsReceived(ready) /\ IsReceived(gincoming)

\* The types of what is on the wire and in the hands of the worker.
WireType == request \in Seq(Messages) /\ answer \in WireMessages /\ wire \in [Directions -> WireMessages]

\* The types of the senders' queues.
OutgoingType ==
  /\ outgoing = [d \in Directions |-> outgoing[d]]
  /\ \A d \in Directions : outgoing[d].entries \in Seq(Entries)

\* The types of the histories.
HistoryType ==
  /\ submitted \in [Directions -> Seq(Entries)]
  /\ taken \in [Directions -> Seq(Messages)] /\ dropped \in [Directions -> Seq(Messages)]

\* The type invariant in the parts that are proved separately.
LEMMA TypeParts ==
  TypeOK <=> ControlType /\ QueueType /\ WireType /\ OutgoingType /\ HistoryType
BY Zenon DEF TypeOK, ControlType, QueueType, WireType, OutgoingType, HistoryType

\* The simulator's variables keep their types under its own operations.
LEMMA SimTypes ==
  ASSUME SimTypeOK,
         \/ UNCHANGED simVars
         \/ \E command \in {"status", "step", "quit"} : Request(command)
         \/ RequestFails \/ GiveUp
         \/ \E line : \E outcome \in {"usable", "finished", "failed", "stopped"} : Receive(line, outcome)
         \/ Booted \/ Resume \/ StepInPlace \/ Halt \/ Status \/ Quit \/ Die
  PROVE  SimTypeOK'
BY Zenon DEF SimTypeOK, simVars, Request, RequestFails, GiveUp, Receive, Booted, Resume, StepInPlace, Halt,
       Status, Quit, Die, Answer

\* Every step keeps program counters, flags and the timing session typed.
LEMMA ControlTypes ==
  ASSUME ControlType, Next
  PROVE  ControlType'
<1> USE DEF ControlType
<1>1. CASE SubmitStep \/ HostTake \/ GuestTake
  BY <1>1, SubmitFrame, TakeFrame DEF hostVars, workVars, guestVars, simVars, SimTypeOK
<1>2. CASE HostStep
  <2>1. wpc' = wpc /\ phase' = phase /\ gpc' = gpc /\ poll' = poll /\ gfailed' = gfailed
    BY <1>2, HostFrame DEF workVars, guestVars
  <2>2. SimTypeOK'
    <3>1. session \in {"usable", "finished", "failed", "stopped"}
      BY DEF SimTypeOK
    <3>2. \/ UNCHANGED simVars
          \/ \E command \in {"status", "step", "quit"} : Request(command)
          \/ RequestFails \/ GiveUp
          \/ \E line : \E outcome \in {"usable", "finished", "failed", "stopped"} : Receive(line, outcome)
      BY <1>2, <3>1 DEF HostStep, HostCall, HostReturn, AskReady, IsReady, StepBegin, StepStart,
         StepWait, StepCollect, StopBegin, StopReply, StopJoin, DestroyBegin, DestroyJoin, HostLeaves
    <3> QED BY <3>2, SimTypes
  <2>3. /\ hpc' \in {"boot", "status", "idle", "leaving", "start", "wait", "collect", "quit", "join",
                     "ended", "destroy", "gone"}
        /\ started' \in BOOLEAN /\ failure' \in BOOLEAN /\ stopped' \in BOOLEAN /\ cancelled' \in BOOLEAN
    BY <1>2, Zenon DEF HostStep, HostCall, HostReturn, AskReady, IsReady, StepBegin, StepStart,
       StepWait, StepCollect, StopBegin, StopReply, StopJoin, DestroyBegin, DestroyJoin, HostLeaves
  <2> QED BY <2>1, <2>2, <2>3
<1>3. CASE WorkerStep
  <2>1. UNCHANGED <<hpc, started, stopped, cancelled, gpc, poll, gfailed, simVars>>
    BY <1>3, WorkerFrame DEF guestVars
  <2>2. /\ wpc' \in {"recv", "check", "exchange", "send", "failing", "done"}
        /\ phase' \in {"startup", "batch"} /\ failure' \in BOOLEAN
    BY <1>3, Zenon DEF WorkerStep, Worker, WorkerReceive, WorkerCheck, WorkerExchange, WorkerSend,
       WorkerCatch, WorkerIoFails, WorkerLeaves
  <2> QED BY <2>1, <2>2 DEF SimTypeOK, simVars
<1>4. CASE Guest
  <2>1. UNCHANGED <<hpc, started, failure, stopped, cancelled, wpc, phase, simVars>>
    BY <1>4, GuestFrame DEF hostVars, workVars
  <2>2. /\ gpc' \in {"boot", "call", "query", "querySent", "startupRecv", "retry", "sleep", "send",
                     "batchSent", "batchRecv"}
        /\ poll' \in BOOLEAN /\ gfailed' \in BOOLEAN
    BY <1>4, Zenon DEF Guest, GuestCall, GuestWake, GuestQuery, GuestSend, GuestRecvBegin,
       GuestStartupReply, GuestBatchReply, GuestLeaves
  <2> QED BY <2>1, <2>2 DEF SimTypeOK, simVars
<1>5. CASE SimStep
  <2>1. SimTypeOK'
    BY <1>5, SimTypes DEF SimStep, Simulator, SimBoots, SimResumes, SimHalts, SimServes, SimPanics,
       SimKilled
  <2> QED BY <1>5, <2>1, SimFrame DEF hostVars, workVars, guestVars
<1> QED BY <1>1, <1>2, <1>3, <1>4, <1>5, NextSteps

\* Message data changes hands in these steps only.
LEMMA DataFrame ==
  ASSUME Next
  PROVE  \/ SubmitStep \/ HostTake \/ GuestTake \/ StepCollect
         \/ WorkerReceive \/ WorkerCheck \/ WorkerExchange \/ WorkerSend
         \/ GuestQuery \/ GuestSend \/ GuestStartupReply \/ GuestBatchReply
         \/ UNCHANGED <<incoming, ready, gincoming, request, answer, outgoing, wire, submitted,
                        taken, dropped>>
<1>1. CASE HostStep
  BY <1>1 DEF HostStep, HostCall, HostReturn, AskReady, IsReady, StepBegin, StepStart, StepWait,
     StopBegin, StopReply, StopJoin, DestroyBegin, DestroyJoin, HostLeaves, workVars, guestVars
<1>2. CASE WorkerStep
  BY <1>2 DEF WorkerStep, Worker, WorkerCatch, WorkerIoFails, WorkerLeaves, guestVars
<1>3. CASE Guest
  BY <1>3 DEF Guest, GuestCall, GuestWake, GuestRecvBegin, GuestLeaves, hostVars, workVars
<1>4. CASE SimStep
  BY <1>4, SimFrame DEF hostVars, workVars, guestVars
<1> QED BY <1>1, <1>2, <1>3, <1>4, NextSteps

\* Every step keeps the received queues typed and their cursors in range.
LEMMA QueueTypes ==
  ASSUME TypeOK, Next
  PROVE  QueueType'
<1> USE DEF QueueType, IsReceived
<1>0. QueueType /\ WireType
  BY TypeParts
<1>1. Contents(incoming) \in Seq(Messages)
  BY <1>0, ContentsType, Zenon
<1>e. EmptyReceived.messages \in Seq(Messages) /\ EmptyReceived.next \in 0..Len(EmptyReceived.messages)
  <2>1. <<>> \in Seq(Messages) /\ 0 \in 0..Len(<<>>)
    BY EmptySeq
  <2> QED BY <2>1, EmptyContents
<1>2. CASE SubmitStep
  BY <1>0, <1>2, SubmitFrame DEF hostVars, guestVars
<1>3. CASE HostTake
  <2>1. Taken(ready).messages \in Seq(Messages) /\ Taken(ready).next \in 0..Len(Taken(ready).messages)
    BY <1>0, <1>3, TakenContents, Zenon DEF HostTake
  <2> QED BY <1>0, <1>3, <2>1 DEF HostTake, guestVars
<1>4. CASE GuestTake
  <2>1. /\ Taken(gincoming).messages \in Seq(Messages)
        /\ Taken(gincoming).next \in 0..Len(Taken(gincoming).messages)
    BY <1>0, <1>4, TakenContents, Zenon DEF GuestTake
  <2> QED BY <1>0, <1>4, <2>1 DEF GuestTake, hostVars
<1>5. CASE StepCollect
  <2>1. /\ Appended(ready, Contents(incoming)).messages \in Seq(Messages)
        /\ Appended(ready, Contents(incoming)).next
             \in 0..Len(Appended(ready, Contents(incoming)).messages)
    BY <1>0, <1>1, AppendedContents
  <2> QED BY <1>0, <1>5, <1>e, <2>1 DEF StepCollect, HostLeaves, guestVars
<1>6. CASE WorkerExchange
  <2>1. /\ Appended(incoming, request).messages \in Seq(Messages)
        /\ Appended(incoming, request).next \in 0..Len(Appended(incoming, request).messages)
    BY <1>0, AppendedContents, SMTT(30) DEF WireType
  <2> QED BY <1>0, <1>6, <2>1 DEF WorkerExchange, WorkerLeaves, guestVars
<1>7. CASE GuestBatchReply
  <2> DEFINE b == wire["h2g"].batch
  <2>1. b \in Seq(Messages)
    BY <1>0, WireFields DEF WireType, Directions
  <2> HIDE DEF b
  <2>2. /\ Appended(gincoming, b).messages \in Seq(Messages)
        /\ Appended(gincoming, b).next \in 0..Len(Appended(gincoming, b).messages)
    BY <1>0, <2>1, AppendedContents, Zenon
  <2>3. (gincoming' = gincoming \/ gincoming' = Appended(gincoming, b)) /\ incoming' = incoming /\ ready' = ready
    BY <1>7, Zenon DEF GuestBatchReply, GuestLeaves, hostVars, b
  <2> QED BY <1>0, <2>2, <2>3
<1>8. CASE WorkerReceive \/ WorkerCheck \/ WorkerSend
  BY <1>0, <1>8 DEF WorkerReceive, WorkerCheck, WorkerSend, WorkerLeaves, guestVars
<1>9. CASE GuestQuery \/ GuestSend \/ GuestStartupReply
  BY <1>0, <1>9, Zenon DEF GuestQuery, GuestSend, GuestStartupReply, GuestLeaves, hostVars
<1> QED BY <1>0, <1>2, <1>3, <1>4, <1>5, <1>6, <1>7, <1>8, <1>9, DataFrame

\* Every step keeps the messages on the wire and the worker's locals typed.
LEMMA WireTypes ==
  ASSUME TypeOK, Next
  PROVE  WireType'
<1> USE DEF WireType
<1>0. WireType /\ OutgoingType
  BY TypeParts
<1>1. \A d \in Directions : Payloads(outgoing[d]) \in Seq(Messages)
  BY <1>0, PayloadsType, Zenon DEF OutgoingType, Entries
<1>2. {Nothing, StartupQuery, NotReady, Configured} \subseteq WireMessages
  BY WireFacts
<1>3. \A d \in Directions : BatchOf(Payloads(outgoing[d])) \in WireMessages
  BY <1>1, WireFacts
<1>4. {"g2h", "h2g"} = Directions
  BY DEF Directions
<1>5. CASE SubmitStep \/ HostTake \/ GuestTake
  BY <1>0, <1>5, SubmitFrame, TakeFrame DEF workVars
<1>6. CASE WorkerReceive
  <2>1. wire["g2h"].batch \in Seq(Messages)
    BY <1>0, <1>4, WireFields
  <2> QED BY <1>0, <1>2, <1>4, <1>6, <2>1 DEF WorkerReceive, WorkerLeaves
<1>7. CASE WorkerCheck
  BY <1>0, <1>2, <1>7 DEF WorkerCheck, WorkerLeaves
<1>8. CASE WorkerExchange
  <2>1. <<>> \in Seq(Messages)
    OBVIOUS
  <2> QED BY <1>0, <1>3, <1>4, <1>8, <2>1, Zenon DEF WorkerExchange, WorkerLeaves
<1>9. CASE WorkerSend
  BY <1>0, <1>2, <1>4, <1>9 DEF WorkerSend, WorkerLeaves
<1>10. CASE GuestQuery \/ GuestSend \/ GuestStartupReply \/ GuestBatchReply
  BY <1>0, <1>2, <1>3, <1>4, <1>10, Zenon
     DEF GuestQuery, GuestSend, GuestStartupReply, GuestBatchReply, GuestLeaves, workVars
<1>11. CASE StepCollect
  BY <1>0, <1>11 DEF StepCollect, HostLeaves, workVars
<1> QED BY <1>0, <1>5, <1>6, <1>7, <1>8, <1>9, <1>10, <1>11, DataFrame

-----------------------------------------------------------------------------
(* Control.                                                                *)

\* Turn and Phases depend on the worker, the guest and the wires only.
LEMMA ExchangeFrame ==
  ASSUME SubmitStep \/ HostTake \/ GuestTake \/ HostStep \/ SimStep
  PROVE  UNCHANGED <<wire, gpc, poll, gfailed, wpc, phase, request, answer>>
BY SubmitFrame, TakeFrame, HostFrame, SimFrame DEF guestVars, workVars

\* Every step keeps the alternation of request and reply.
LEMMA TurnKept ==
  ASSUME TypeOK, Turn, Phases, Next
  PROVE  Turn'
<1> USE DEF Turn, Starting, Batching, Busy, InOp
<1>0. ControlType /\ WireType
  BY TypeParts
<1>1. CASE SubmitStep \/ HostTake \/ GuestTake \/ HostStep \/ SimStep
  BY <1>1, ExchangeFrame
<1>2. CASE WorkerReceive
  <2>1. wire' = [wire EXCEPT !["g2h"] = Nothing]
    BY <1>2 DEF WorkerReceive
  <2>2. wire'["g2h"] = Nothing /\ wire'["h2g"] = wire["h2g"]
    BY <1>0, <2>1 DEF WireType, Directions
  <2>3. wpc' = "check" => request' = <<>>
    BY <1>2, WireFacts DEF WorkerReceive
  <2> QED BY <1>2, <2>2, <2>3 DEF WorkerReceive, WorkerLeaves, guestVars
<1>3. CASE WorkerCheck
  BY <1>3 DEF WorkerCheck, WorkerLeaves, guestVars
<1>4. CASE WorkerExchange
  BY <1>4 DEF WorkerExchange, WorkerLeaves, guestVars
<1>5. CASE WorkerSend
  <2>1. wire' = [wire EXCEPT !["h2g"] = answer]
    BY <1>5 DEF WorkerSend
  <2>2. wire'["g2h"] = wire["g2h"] /\ wire'["h2g"] = answer
    BY <1>0, <2>1 DEF WireType, Directions
  <2> QED BY <1>5, <2>2 DEF WorkerSend, WorkerLeaves, guestVars
<1>6. CASE WorkerCatch \/ WorkerIoFails
  BY <1>6 DEF WorkerCatch, WorkerIoFails, WorkerLeaves, guestVars
<1>7. CASE GuestCall \/ GuestWake \/ GuestRecvBegin
  BY <1>0, <1>7 DEF GuestCall, GuestWake, GuestRecvBegin, GuestLeaves, workVars
<1>8. CASE GuestQuery \/ GuestSend
  <2>1. wire'["h2g"] = wire["h2g"]
    BY <1>0, <1>8 DEF GuestQuery, GuestSend, WireType, Directions
  <2> QED BY <1>0, <1>8, <2>1 DEF GuestQuery, GuestSend, GuestLeaves, workVars
<1>9. CASE GuestStartupReply \/ GuestBatchReply
  <2>1. wire'["g2h"] = wire["g2h"] /\ wire'["h2g"] = Nothing
    BY <1>0, <1>9, Zenon DEF GuestStartupReply, GuestBatchReply, WireType, Directions
  <2> QED BY <1>0, <1>9, <2>1, Zenon DEF GuestStartupReply, GuestBatchReply, GuestLeaves, workVars
<1> QED BY <1>1, <1>2, <1>3, <1>4, <1>5, <1>6, <1>7, <1>8, <1>9, NextSteps DEF WorkerStep, Worker, Guest

\* Every step keeps serve() and run_next() in matching phases.
LEMMA PhasesKept ==
  ASSUME TypeOK, Turn, Phases, Next
  PROVE  Phases'
<1> USE DEF Phases, Starting, Batching, Busy, InOp
<1>0. ControlType /\ WireType
  BY TypeParts
<1>1. CASE SubmitStep \/ HostTake \/ GuestTake \/ HostStep \/ SimStep
  BY <1>1, ExchangeFrame
<1>2. CASE WorkerReceive
  <2>1. wire'["g2h"] = Nothing /\ wire'["h2g"] = wire["h2g"]
    BY <1>0, <1>2 DEF WorkerReceive, WireType, Directions
  <2> QED BY <1>2, <2>1 DEF WorkerReceive, WorkerLeaves, guestVars
<1>3. CASE WorkerCheck
  BY <1>3 DEF WorkerCheck, WorkerLeaves, guestVars
<1>4. CASE WorkerExchange
  <2>1. wpc' = "send" => answer'.type = "batch"
    BY <1>4, WireFacts DEF WorkerExchange
  <2> QED BY <1>4, <2>1 DEF WorkerExchange, WorkerLeaves, guestVars
<1>5. CASE WorkerSend
  <2>1. wire'["g2h"] = wire["g2h"] /\ wire'["h2g"] = answer
    BY <1>0, <1>5 DEF WorkerSend, WireType, Directions
  <2>2. UNCHANGED <<gpc, poll>> /\ wpc' = "recv" /\ InOp /\ wpc = "send" /\ wire["h2g"] = Nothing
    BY <1>5, Zenon DEF WorkerSend, WorkerLeaves, guestVars
  <2>3. phase' = IF answer = Configured THEN "batch" ELSE phase
    BY <1>5 DEF WorkerSend
  <2>4. Nothing # Configured
    BY WireFacts
  <2>5. CASE phase = "startup" /\ answer \in {NotReady, Configured}
    <3>1. gpc = "startupRecv" /\ ~poll
      BY <1>0, <2>2, <2>5 DEF ControlType
    <3> QED BY <2>1, <2>2, <2>3, <2>5, <3>1
  <2>6. CASE phase = "batch" /\ answer.type = "batch"
    <3>1. gpc = "batchRecv" /\ poll /\ answer # Configured
      BY <1>0, <2>2, <2>4, <2>6, WireFacts DEF ControlType
    <3> QED BY <2>1, <2>2, <2>3, <2>6, <3>1
  <2> QED BY <2>2, <2>5, <2>6
<1>6. CASE WorkerCatch \/ WorkerIoFails
  BY <1>6 DEF WorkerCatch, WorkerIoFails, WorkerLeaves, guestVars
<1>7. CASE GuestCall \/ GuestWake \/ GuestRecvBegin
  BY <1>0, <1>7 DEF GuestCall, GuestWake, GuestRecvBegin, GuestLeaves, workVars, ControlType, Turn
<1>8. CASE GuestQuery \/ GuestSend
  <2>1. /\ wire'["h2g"] = wire["h2g"] /\ wire["h2g"] = Nothing
        /\ GuestQuery => wire'["g2h"] = StartupQuery
        /\ GuestSend => wire'["g2h"].type = "batch"
    BY <1>0, <1>8, WireFacts DEF GuestQuery, GuestSend, WireType, Directions, Turn
  <2> QED BY <1>0, <1>8, <2>1 DEF GuestQuery, GuestSend, GuestLeaves, workVars
<1>9. CASE GuestStartupReply
  <2>1. wire'["g2h"] = wire["g2h"] /\ wire'["h2g"] = Nothing
    BY <1>0, <1>9 DEF GuestStartupReply, WireType, Directions
  <2>2. Nothing # Configured /\ NotReady # Configured /\ ~Busy /\ ~poll
    BY <1>0, <1>9, WireFacts DEF GuestStartupReply, Turn, ControlType
  <2>3. CASE wire["h2g"] = NotReady
    BY <1>9, <2>1, <2>2, <2>3, Zenon DEF GuestStartupReply, GuestLeaves, workVars
  <2>4. CASE wire["h2g"] = Configured
    BY <1>9, <2>1, <2>2, <2>4, Zenon DEF GuestStartupReply, GuestLeaves, workVars
  <2> QED BY <1>9, <2>3, <2>4 DEF GuestStartupReply
<1>10. CASE GuestBatchReply
  <2>1. wire'["g2h"] = wire["g2h"] /\ wire'["h2g"] = Nothing
    BY <1>0, <1>10 DEF GuestBatchReply, WireType, Directions
  <2>2. Nothing # Configured /\ ~Busy /\ poll
    BY <1>10, WireFacts DEF GuestBatchReply, Turn
  <2> QED BY <1>10, <2>1, <2>2 DEF GuestBatchReply, GuestLeaves, workVars
<1> QED BY <1>1, <1>2, <1>3, <1>4, <1>5, <1>6, <1>7, <1>8, <1>9, <1>10, NextSteps
        DEF WorkerStep, Worker, Guest

\* Every step keeps the order of startup: pause, configuration, m5 operations.
LEMMA StartOrderKept ==
  ASSUME TypeOK, Turn, Phases, StartOrder, Steps, Next
  PROVE  StartOrder'
<1> USE DEF StartOrder
<1>0. ControlType /\ WireType
  BY TypeParts
<1>1. CASE SubmitStep
  BY <1>1, SubmitFrame DEF hostVars, workVars, guestVars, simVars
<1>2. CASE HostTake \/ GuestTake
  BY <1>2, TakeFrame DEF workVars, simVars
<1>3. CASE HostStep
  <2>1. UNCHANGED <<poll, answer, wire>>
    BY <1>3, HostFrame DEF workVars, guestVars
  <2>2. CASE AskReady
    BY <2>1, <2>2 DEF AskReady, Request, Listening, HostLeaves
  <2>3. CASE IsReady
    BY <2>1, <2>3 DEF IsReady, Receive, GiveUp, RequestFails, simVars, HostLeaves
  <2>4. CASE StepBegin
    BY <2>1, <2>4 DEF StepBegin, HostLeaves, simVars
  <2>5. CASE StepStart \/ StepWait \/ StepCollect
    BY <2>1, <2>5 DEF StepStart, StepWait, StepCollect, Request, RequestFails, Receive, GiveUp,
       simVars, HostLeaves
  <2>6. CASE StopBegin
    BY <2>1, <2>6 DEF StopBegin, Request, Listening, RequestFails, simVars, HostLeaves
  <2>7. CASE StopReply \/ StopJoin \/ DestroyBegin \/ DestroyJoin
    BY <2>1, <2>7 DEF StopReply, StopJoin, DestroyBegin, DestroyJoin, Receive, GiveUp, simVars, HostLeaves
  <2> QED BY <1>3, <2>2, <2>3, <2>4, <2>5, <2>6, <2>7 DEF HostStep, HostCall, HostReturn
<1>4. CASE WorkerStep
  <2>1. UNCHANGED <<hpc, started, poll, sim, open>>
    BY <1>4, WorkerFrame DEF guestVars, simVars
  <2>2. Nothing # Configured /\ NotReady # Configured /\ \A b : BatchOf(b) # Configured
    BY WireFacts
  <2>3. CASE WorkerReceive
    <3>1. wire'["h2g"] = wire["h2g"] /\ answer' = answer
      BY <1>0, <2>3 DEF WorkerReceive, WorkerLeaves, WireType, Directions
    <3> QED BY <2>1, <3>1
  <2>4. CASE WorkerCheck \/ WorkerExchange
    BY <2>1, <2>2, <2>4 DEF WorkerCheck, WorkerExchange, WorkerLeaves
  <2>5. CASE WorkerSend
    <3>1. wire'["h2g"] = answer /\ answer' = Nothing
      BY <1>0, <2>5 DEF WorkerSend, WireType, Directions
    <3> QED BY <2>1, <2>2, <3>1
  <2>6. CASE WorkerCatch \/ WorkerIoFails
    BY <2>1, <2>6 DEF WorkerCatch, WorkerIoFails, WorkerLeaves
  <2> QED BY <1>4, <2>3, <2>4, <2>5, <2>6 DEF WorkerStep, Worker
<1>5. CASE Guest
  <2>1. UNCHANGED <<hpc, started, answer, sim, open>>
    BY <1>5, GuestFrame DEF hostVars, workVars, simVars
  <2>2. CASE GuestCall \/ GuestWake \/ GuestRecvBegin
    BY <2>1, <2>2 DEF GuestCall, GuestWake, GuestRecvBegin, GuestLeaves
  <2>3. CASE GuestQuery \/ GuestSend
    <3>1. wire'["h2g"] = wire["h2g"] /\ poll' = poll
      BY <1>0, <2>3 DEF GuestQuery, GuestSend, GuestLeaves, WireType, Directions
    <3> QED BY <2>1, <3>1
  <2>4. CASE GuestStartupReply \/ GuestBatchReply
    <3>1. wire'["h2g"] = Nothing
      BY <1>0, <2>4, Zenon DEF GuestStartupReply, GuestBatchReply, WireType, Directions
    <3>3. poll' => poll \/ wire["h2g"] = Configured
      BY <2>4, Zenon DEF GuestStartupReply, GuestBatchReply, GuestLeaves
    <3>2. Nothing # Configured
      BY WireFacts
    <3> QED BY <2>1, <3>1, <3>2, <3>3
  <2> QED BY <1>5, <2>2, <2>3, <2>4 DEF Guest
<1>6. CASE SimStep
  <2>1. UNCHANGED <<hpc, started, poll, answer, wire>>
    BY <1>6, SimFrame DEF hostVars, workVars, guestVars
  <2>2. sim' # "boot"
    BY <1>6 DEF SimStep, Simulator, SimBoots, SimResumes, SimHalts, SimServes, SimPanics, SimKilled,
       Booted, Resume, Halt, StepInPlace, Status, Quit, Die
  <2> QED BY <2>1, <2>2
<1> QED BY <1>1, <1>2, <1>3, <1>4, <1>5, <1>6, NextSteps

\* Every step keeps gem5 paused between the calls of step().
LEMMA StepsKept ==
  ASSUME TypeOK, Steps, Next
  PROVE  Steps'
<1> USE DEF Steps
<1>0. ControlType
  BY TypeParts
<1>1. CASE SubmitStep \/ HostTake \/ GuestTake \/ WorkerStep \/ Guest
  <2>1. UNCHANGED <<hpc, simVars>>
    BY <1>1, SubmitFrame, TakeFrame, WorkerFrame, GuestFrame DEF hostVars
  <2> QED BY <2>1 DEF simVars
<1>2. CASE HostStep
  <2>1. CASE AskReady
    BY <2>1 DEF AskReady, Request, MayRequest, HostLeaves
  <2>2. CASE IsReady
    BY <2>2 DEF IsReady, Receive, GiveUp, RequestFails, MayRequest, simVars, HostLeaves
  <2>3. CASE StepBegin
    BY <2>3 DEF StepBegin, HostLeaves, simVars
  <2>4. CASE StepStart
    BY <2>4 DEF StepStart, Request, RequestFails, MayRequest, simVars, HostLeaves
  <2>5. CASE StepWait
    BY <2>5 DEF StepWait, Receive, GiveUp, HostLeaves
  <2>6. CASE StepCollect
    BY <2>6 DEF StepCollect, HostLeaves, simVars
  <2>7. CASE StopBegin
    BY <2>7 DEF StopBegin, Request, RequestFails, MayRequest, simVars, HostLeaves
  <2>8. CASE StopReply
    BY <2>8 DEF StopReply, Receive, GiveUp, HostLeaves
  <2>9. CASE StopJoin \/ DestroyBegin \/ DestroyJoin
    BY <2>9 DEF StopJoin, DestroyBegin, DestroyJoin, simVars, HostLeaves
  <2> QED BY <1>2, <2>1, <2>2, <2>3, <2>4, <2>5, <2>6, <2>7, <2>8, <2>9 DEF HostStep, HostCall, HostReturn
<1>3. CASE SimStep
  <2>1. hpc' = hpc
    BY <1>3, SimFrame DEF hostVars
  <2>2. CASE Booted \/ Resume \/ Halt
    BY <2>1, <2>2 DEF Booted, Resume, Halt, Answer
  <2>3. CASE StepInPlace \/ Status \/ Quit
    BY <2>1, <2>3 DEF StepInPlace, Status, Quit, Answer
  <2>4. CASE Die
    BY <2>1, <2>4 DEF Die
  <2> QED BY <1>3, <2>2, <2>3, <2>4 DEF SimStep, Simulator, SimBoots, SimResumes, SimHalts, SimServes,
          SimPanics, SimKilled
<1> QED BY <1>1, <1>2, <1>3, NextSteps

\* Every step keeps what stop() and the destructor have ended ended.
LEMMA StoppingKept ==
  ASSUME TypeOK, Stopping, Next
  PROVE  Stopping'
<1> USE DEF Stopping
<1>1. CASE SubmitStep \/ HostTake \/ GuestTake \/ Guest
  <2>1. UNCHANGED <<hpc, stopped, wpc, simVars>>
    BY <1>1, SubmitFrame, TakeFrame, GuestFrame DEF hostVars, workVars
  <2> QED BY <2>1 DEF simVars
<1>2. CASE WorkerStep
  <2>1. UNCHANGED <<hpc, stopped, simVars>>
    BY <1>2, WorkerFrame
  <2>2. wpc # "done"
    BY <1>2 DEF WorkerStep, Worker, WorkerReceive, WorkerCheck, WorkerExchange, WorkerSend,
       WorkerCatch, WorkerIoFails
  <2> QED BY <2>1, <2>2 DEF simVars
<1>3. CASE HostStep
  <2>1. wpc' = wpc
    BY <1>3, HostFrame DEF workVars
  <2>2. CASE AskReady \/ IsReady \/ StepBegin \/ StepStart
    BY <2>1, <2>2 DEF AskReady, IsReady, StepBegin, StepStart, Request, Receive, RequestFails, GiveUp,
       simVars, HostLeaves
  <2>3. CASE StepWait \/ StepCollect \/ StopBegin
    BY <2>1, <2>3 DEF StepWait, StepCollect, StopBegin, Request, Receive, RequestFails, GiveUp,
       simVars, HostLeaves
  <2>4. CASE StopReply \/ StopJoin \/ DestroyBegin \/ DestroyJoin
    BY <2>1, <2>4 DEF StopReply, StopJoin, DestroyBegin, DestroyJoin, Receive, GiveUp, simVars, HostLeaves
  <2> QED BY <1>3, <2>2, <2>3, <2>4 DEF HostStep, HostCall, HostReturn
<1>4. CASE SimStep
  <2>1. UNCHANGED <<hpc, stopped, wpc>>
    BY <1>4, SimFrame DEF hostVars, workVars
  <2>2. /\ sim = "exited" => sim' = "exited"
        /\ reply' = "bye" => reply = "bye" \/ sim' = "exited"
    BY <1>4 DEF SimStep, Simulator, SimBoots, SimResumes, SimHalts, SimServes, SimPanics, SimKilled,
       Booted, Resume, Halt, StepInPlace, Status, Quit, Die, Answer
  <2> QED BY <2>1, <2>2
<1> QED BY <1>1, <1>2, <1>3, <1>4, NextSteps

\* Every step keeps the reason for which a batch was dropped: a failed controller.
LEMMA LostKept ==
  ASSUME TypeOK, Phases, Lost, Next
  PROVE  Lost'
<1> USE DEF Lost
<1>0. HistoryType
  BY TypeParts
<1>1. CASE SubmitStep \/ HostTake \/ GuestTake \/ SimStep
  <2>1. UNCHANGED <<dropped, failure, gfailed, gpc>>
    <3>1. CASE SubmitStep
      BY <3>1, SubmitFrame DEF hostVars, guestVars
    <3>2. CASE HostTake \/ GuestTake
      BY <3>2, TakeFrame
    <3>3. CASE SimStep
      BY <3>3, SimFrame DEF hostVars, guestVars
    <3> QED BY <1>1, <3>1, <3>2, <3>3
  <2> QED BY <2>1
<1>2. CASE WorkerStep
  <2>1. UNCHANGED <<dropped, gfailed, gpc>>
    BY <1>2, WorkerFrame DEF guestVars
  <2>2. failure => failure'
    BY <1>2, Zenon DEF WorkerStep, Worker, WorkerReceive, WorkerCheck, WorkerExchange, WorkerSend,
       WorkerCatch, WorkerIoFails, WorkerLeaves
  <2> QED BY <2>1, <2>2
<1>3. CASE HostStep
  <2>1. UNCHANGED <<gfailed, gpc>>
    BY <1>3, HostFrame DEF guestVars
  <2>2. /\ failure => failure'
        /\ dropped' = dropped \/ (failure' /\ dropped'["h2g"] = dropped["h2g"])
    BY <1>0, <1>3 DEF HostStep, HostCall, HostReturn, AskReady, IsReady, StepBegin, StepStart, StepWait,
       StepCollect, StopBegin, StopReply, StopJoin, DestroyBegin, DestroyJoin, HostLeaves, HistoryType,
       Directions
  <2> QED BY <2>1, <2>2
<1>4. CASE Guest
  <2>1. failure' = failure
    BY <1>4, GuestFrame DEF hostVars
  <2>2. CASE GuestCall \/ GuestWake \/ GuestQuery \/ GuestSend \/ GuestRecvBegin
    <3>1. UNCHANGED <<dropped, gfailed>> /\ ~gfailed
      <4>1. CASE GuestCall
        BY <4>1 DEF GuestCall, GuestLeaves
      <4>2. CASE GuestWake \/ GuestQuery \/ GuestSend \/ GuestRecvBegin
        <5>1. UNCHANGED <<dropped, gfailed>> /\ gpc # "call"
          BY <4>2 DEF GuestWake, GuestQuery, GuestSend, GuestRecvBegin, GuestLeaves
        <5> QED BY <5>1
      <4> QED BY <2>2, <4>1, <4>2
    <3> QED BY <2>1, <3>1
  <2>3. CASE GuestStartupReply
    <3>1. wire["h2g"].batch = <<>> /\ wire["h2g"] \in {NotReady, Configured}
      BY <2>3, WireFacts DEF GuestStartupReply, Phases, Starting
    <3>2. dropped["h2g"] \o <<>> = dropped["h2g"]
      BY <1>0, ConcatEmptySeq DEF HistoryType, Directions
    <3>3. dropped'["h2g"] = dropped["h2g"] /\ dropped'["g2h"] = dropped["g2h"]
      BY <1>0, <2>3, <3>1, <3>2 DEF GuestStartupReply, HistoryType, Directions
    <3> QED BY <2>1, <2>3, <3>1, <3>3, Zenon DEF GuestStartupReply
  <2>4. CASE GuestBatchReply
    <3>1. dropped'["g2h"] = dropped["g2h"] /\ gpc' = "call"
      BY <1>0, <2>4 DEF GuestBatchReply, HistoryType, Directions
    <3>2. gfailed' \/ (dropped' = dropped /\ gfailed' = gfailed)
      BY <2>4, Zenon DEF GuestBatchReply
    <3> QED BY <2>1, <3>1, <3>2
  <2> QED BY <1>4, <2>2, <2>3, <2>4 DEF Guest
<1> QED BY <1>1, <1>2, <1>3, <1>4, NextSteps

-----------------------------------------------------------------------------
(* The pipe: every step but a submission leaves its contents alone.         *)

\* Concatenation of batches is associative.
LEMMA JoinAssociative ==
  \A x, y, z \in Seq(Messages) : x \o (y \o z) = (x \o y) \o z
<1> TAKE x, y, z \in Seq(Messages)
<1> QED BY ConcatAssociative

\* A stage that is joined to the one before leaves an empty stage.
LEMMA JoinStages ==
  \A x, y, z \in Seq(Messages) : (x \o (y \o z)) \o <<>> = (x \o y) \o z
<1> TAKE x, y, z \in Seq(Messages)
<1> DEFINE xy == x \o y
<1>1. xy \in Seq(Messages)
  BY ConcatProperties
<1>2. xy \o z \in Seq(Messages)
  <2> HIDE DEF xy
  <2> QED BY <1>1, ConcatProperties
<1> DEFINE w == xy \o z
<1>3. w \o <<>> = w
  <2> HIDE DEF w
  <2>1. w \in Seq(Messages)
    BY <1>2 DEF w
  <2> QED BY <2>1, ConcatEmptySeq
<1>4. x \o (y \o z) = w
  BY JoinAssociative
<1> QED BY <1>3, <1>4, Zenon

\* A stage that is joined to the one before the one before.
LEMMA JoinAcross ==
  \A x, y, z \in Seq(Messages) : ((x \o (y \o z)) \o <<>>) \o <<>> = ((x \o y) \o <<>>) \o z
<1> TAKE x, y, z \in Seq(Messages)
<1> DEFINE xy == x \o y
<1>1. xy \in Seq(Messages)
  BY ConcatProperties
<1> DEFINE w == xy \o z
<1>2. w \in Seq(Messages)
  <2> HIDE DEF xy
  <2> QED BY <1>1, ConcatProperties
<1>3. w \o <<>> = w /\ xy \o <<>> = xy
  <2> HIDE DEF w, xy
  <2> QED BY <1>1, <1>2, ConcatEmptySeq
<1>4. x \o (y \o z) = w
  BY JoinAssociative
<1> QED BY <1>3, <1>4, Zenon

\* A stage that moves across an empty one.
LEMMA SkipStage ==
  ASSUME NEW x \in Seq(Messages), NEW y \in Seq(Messages)
  PROVE  (x \o y) \o <<>> = (x \o <<>>) \o y
<1>1. x \o y \in Seq(Messages)
  BY ConcatProperties
<1>2. (x \o y) \o <<>> = x \o y /\ x \o <<>> = x
  BY <1>1, ConcatEmptySeq
<1> QED BY <1>2, Zenon

\* Taking the first message of a stage appends it to the stage before.
LEMMA TakeRegroup ==
  ASSUME NEW x \in Seq(Messages), NEW m \in Messages, NEW y \in Seq(Messages)
  PROVE  x \o (<<m>> \o y) = Append(x, m) \o y
<1>1. <<m>> \in Seq(Messages)
  OBVIOUS
<1>2. x \o (<<m>> \o y) = (x \o <<m>>) \o y
  BY <1>1, ConcatAssociative
<1>3. Append(x, m) = x \o <<m>>
  BY AppendIsConcat
<1> QED BY <1>2, <1>3

\* Each stage of the pipe is a sequence of messages.
LEMMA StageTypes ==
  ASSUME TypeOK
  PROVE  /\ Contents(ready) \in Seq(Messages) /\ Contents(incoming) \in Seq(Messages)
         /\ Contents(gincoming) \in Seq(Messages)
         /\ request \in Seq(Messages) /\ answer.batch \in Seq(Messages)
         /\ \A d \in Directions :
              /\ taken[d] \in Seq(Messages) /\ dropped[d] \in Seq(Messages)
              /\ wire[d].batch \in Seq(Messages) /\ Payloads(outgoing[d]) \in Seq(Messages)
<1>0. QueueType /\ WireType /\ OutgoingType /\ HistoryType
  BY TypeParts
<1>1. /\ Contents(ready) \in Seq(Messages) /\ Contents(incoming) \in Seq(Messages)
      /\ Contents(gincoming) \in Seq(Messages)
  BY <1>0, ContentsType, Zenon DEF QueueType, IsReceived
<1>2. request \in Seq(Messages) /\ answer.batch \in Seq(Messages)
  BY <1>0, WireFields DEF WireType
<1>3. ASSUME NEW d \in Directions
      PROVE  /\ taken[d] \in Seq(Messages) /\ dropped[d] \in Seq(Messages)
             /\ wire[d].batch \in Seq(Messages) /\ Payloads(outgoing[d]) \in Seq(Messages)
  <2>1. taken[d] \in Seq(Messages) /\ dropped[d] \in Seq(Messages)
    BY <1>0 DEF HistoryType
  <2>2. wire[d].batch \in Seq(Messages)
    BY <1>0, WireFields DEF WireType
  <2>3. Payloads(outgoing[d]) \in Seq(Messages)
    BY <1>0, PayloadsType, Zenon DEF OutgoingType, Entries
  <2> QED BY <2>1, <2>2, <2>3
<1> QED BY <1>1, <1>2, <1>3

\* The pipe without the sender's queue.
Ahead ==
  [g2h |-> taken["g2h"] \o Contents(ready) \o dropped["g2h"] \o Contents(incoming)
             \o request \o wire["g2h"].batch,
   h2g |-> taken["h2g"] \o Contents(gincoming) \o dropped["h2g"] \o wire["h2g"].batch
             \o answer.batch]

\* The pipe is what the sender's queue has left, then that queue.
LEMMA PipeIsAhead ==
  ASSUME TypeOK, NEW d \in Directions
  PROVE  Ahead[d] \in Seq(Messages) /\ Pipe[d] = Ahead[d] \o Payloads(outgoing[d])
<1>1. "g2h" \in Directions /\ "h2g" \in Directions
  BY DEF Directions
<1>2. Ahead["g2h"] \in Seq(Messages)
  <2> DEFINE a == taken["g2h"] \o Contents(ready)
  <2> DEFINE b == a \o dropped["g2h"]
  <2> DEFINE c == b \o Contents(incoming)
  <2> DEFINE e == c \o request
  <2>1. a \in Seq(Messages)
    BY <1>1, StageTypes, ConcatProperties
  <2>2. b \in Seq(Messages)
    <3> HIDE DEF a
    <3> QED BY <1>1, <2>1, StageTypes, ConcatProperties
  <2>3. c \in Seq(Messages)
    <3> HIDE DEF b
    <3> QED BY <1>1, <2>2, StageTypes, ConcatProperties
  <2>4. e \in Seq(Messages)
    <3> HIDE DEF c
    <3> QED BY <1>1, <2>3, StageTypes, ConcatProperties
  <2>5. e \o wire["g2h"].batch \in Seq(Messages)
    <3> HIDE DEF e
    <3> QED BY <1>1, <2>4, StageTypes, ConcatProperties
  <2> QED BY <2>5 DEF Ahead
<1>3. Ahead["h2g"] \in Seq(Messages)
  <2> DEFINE a == taken["h2g"] \o Contents(gincoming)
  <2> DEFINE b == a \o dropped["h2g"]
  <2> DEFINE c == b \o wire["h2g"].batch
  <2>1. a \in Seq(Messages)
    BY <1>1, StageTypes, ConcatProperties
  <2>2. b \in Seq(Messages)
    <3> HIDE DEF a
    <3> QED BY <1>1, <2>1, StageTypes, ConcatProperties
  <2>3. c \in Seq(Messages)
    <3> HIDE DEF b
    <3> QED BY <1>1, <2>2, StageTypes, ConcatProperties
  <2>4. c \o answer.batch \in Seq(Messages)
    <3> HIDE DEF c
    <3> QED BY <1>1, <2>3, StageTypes, ConcatProperties
  <2> QED BY <2>4 DEF Ahead
<1>4. Pipe["g2h"] = Ahead["g2h"] \o Payloads(outgoing["g2h"])
  BY Zenon DEF Pipe, Ahead
<1>5. Pipe["h2g"] = Ahead["h2g"] \o Payloads(outgoing["h2g"])
  BY Zenon DEF Pipe, Ahead
<1> QED BY <1>2, <1>3, <1>4, <1>5, Zenon DEF Directions

\* The stages of each direction, joined.
Up(a, b, c, e, r, w, o) == a \o b \o c \o e \o r \o w \o o
\* One direction of the pipe, from its parts.
Down(a, b, c, w, s, o)  == a \o b \o c \o w \o s \o o

\* The pipe of each direction in terms of its stages.
LEMMA PipeIs ==
  /\ Pipe["g2h"] = Up(taken["g2h"], Contents(ready), dropped["g2h"], Contents(incoming), request,
                      wire["g2h"].batch, Payloads(outgoing["g2h"]))
  /\ Pipe["h2g"] = Down(taken["h2g"], Contents(gincoming), dropped["h2g"], wire["h2g"].batch,
                        answer.batch, Payloads(outgoing["h2g"]))
BY Zenon DEF Pipe, Up, Down

\* The same after a step.
LEMMA PipeNextIs ==
  /\ Pipe'["g2h"] = Up(taken'["g2h"], Contents(ready'), dropped'["g2h"], Contents(incoming'), request',
                       wire'["g2h"].batch, Payloads(outgoing'["g2h"]))
  /\ Pipe'["h2g"] = Down(taken'["h2g"], Contents(gincoming'), dropped'["h2g"], wire'["h2g"].batch,
                         answer'.batch, Payloads(outgoing'["h2g"]))
BY Zenon DEF Pipe, Up, Down

\* Three stages joined are a sequence of messages.
LEMMA ThreeStages ==
  ASSUME NEW a \in Seq(Messages), NEW b \in Seq(Messages), NEW c \in Seq(Messages)
  PROVE  a \o b \o c \in Seq(Messages)
<1> DEFINE p == a \o b
<1>1. p \in Seq(Messages)
  BY ConcatProperties
<1> HIDE DEF p
<1>2. p \o c \in Seq(Messages)
  BY <1>1, ConcatProperties
<1> QED BY <1>2 DEF p

\* Four stages joined are a sequence of messages.
LEMMA FourStages ==
  ASSUME NEW a \in Seq(Messages), NEW b \in Seq(Messages), NEW c \in Seq(Messages),
         NEW e \in Seq(Messages)
  PROVE  a \o b \o c \o e \in Seq(Messages)
<1> DEFINE p == a \o b \o c
<1>1. p \in Seq(Messages)
  BY ThreeStages
<1> HIDE DEF p
<1>2. p \o e \in Seq(Messages)
  BY <1>1, ConcatProperties
<1> QED BY <1>2 DEF p

\* How messages move up: take() on the host,
LEMMA UpTake ==
  ASSUME NEW a \in Seq(Messages), NEW m \in Messages, NEW b \in Seq(Messages),
         NEW c, NEW e, NEW r, NEW w, NEW o
  PROVE  Up(Append(a, m), b, c, e, r, w, o) = Up(a, <<m>> \o b, c, e, r, w, o)
<1>1. a \o (<<m>> \o b) = Append(a, m) \o b
  BY TakeRegroup
<1> QED BY <1>1, Zenon DEF Up

\* step() that collects,
LEMMA UpCollect ==
  ASSUME NEW a \in Seq(Messages), NEW b \in Seq(Messages), NEW e \in Seq(Messages),
         NEW r, NEW w, NEW o
  PROVE  Up(a, b \o e, <<>>, <<>>, r, w, o) = Up(a, b, <<>>, e, r, w, o)
<1>1. ((a \o (b \o e)) \o <<>>) \o <<>> = ((a \o b) \o <<>>) \o e
  BY JoinAcross, Zenon
<1> QED BY <1>1, Zenon DEF Up

\* step() that overflows,
LEMMA UpDrop ==
  ASSUME NEW a \in Seq(Messages), NEW b \in Seq(Messages), NEW c \in Seq(Messages),
         NEW e \in Seq(Messages), NEW r, NEW w, NEW o
  PROVE  Up(a, b, c \o e, <<>>, r, w, o) = Up(a, b, c, e, r, w, o)
<1> DEFINE p == a \o b
<1>1. p \in Seq(Messages)
  BY ConcatProperties
<1>2. (p \o (c \o e)) \o <<>> = (p \o c) \o e
  <2> HIDE DEF p
  <2> QED BY <1>1, JoinStages, Zenon
<1> QED BY <1>2, Zenon DEF Up

\* and the worker's receive.
LEMMA UpReceive ==
  ASSUME NEW a, NEW b, NEW c, NEW e, a \o b \o c \o e \in Seq(Messages),
         NEW w \in Seq(Messages), NEW o
  PROVE  Up(a, b, c, e, w, <<>>, o) = Up(a, b, c, e, <<>>, w, o)
<1> DEFINE p == a \o b \o c \o e
<1>1. p \in Seq(Messages)
  OBVIOUS
<1>2. (p \o w) \o <<>> = (p \o <<>>) \o w
  <2> HIDE DEF p
  <2> QED BY <1>1, SkipStage, Zenon
<1> QED BY <1>2, Zenon DEF Up

\* How messages move down: take() in the guest,
LEMMA DownTake ==
  ASSUME NEW a \in Seq(Messages), NEW m \in Messages, NEW b \in Seq(Messages),
         NEW c, NEW w, NEW s, NEW o
  PROVE  Down(Append(a, m), b, c, w, s, o) = Down(a, <<m>> \o b, c, w, s, o)
<1>1. a \o (<<m>> \o b) = Append(a, m) \o b
  BY TakeRegroup
<1> QED BY <1>1, Zenon DEF Down

\* a reply that is appended,
LEMMA DownReply ==
  ASSUME NEW a \in Seq(Messages), NEW b \in Seq(Messages), NEW w \in Seq(Messages), NEW s, NEW o
  PROVE  Down(a, b \o w, <<>>, <<>>, s, o) = Down(a, b, <<>>, w, s, o)
<1>1. ((a \o (b \o w)) \o <<>>) \o <<>> = ((a \o b) \o <<>>) \o w
  BY JoinAcross, Zenon
<1> QED BY <1>1, Zenon DEF Down

\* a reply that overflows,
LEMMA DownDrop ==
  ASSUME NEW a \in Seq(Messages), NEW b \in Seq(Messages), NEW c \in Seq(Messages),
         NEW w \in Seq(Messages), NEW s, NEW o
  PROVE  Down(a, b, c \o w, <<>>, s, o) = Down(a, b, c, w, s, o)
<1> DEFINE p == a \o b
<1>1. p \in Seq(Messages)
  BY ConcatProperties
<1>2. (p \o (c \o w)) \o <<>> = (p \o c) \o w
  <2> HIDE DEF p
  <2> QED BY <1>1, JoinStages, Zenon
<1> QED BY <1>2, Zenon DEF Down

\* the worker's send,
LEMMA DownSend ==
  ASSUME NEW a, NEW b, NEW c, a \o b \o c \in Seq(Messages), NEW s \in Seq(Messages), NEW o
  PROVE  Down(a, b, c, s, <<>>, o) = Down(a, b, c, <<>>, s, o)
<1> DEFINE p == a \o b \o c
<1>1. p \in Seq(Messages)
  OBVIOUS
<1>2. (p \o s) \o <<>> = (p \o <<>>) \o s
  <2> HIDE DEF p
  <2> QED BY <1>1, SkipStage, Zenon
<1> QED BY <1>2, Zenon DEF Down

\* and its exchange.
LEMMA DownExchange ==
  ASSUME NEW a, NEW b, NEW c, NEW w, a \o b \o c \o w \in Seq(Messages),
         NEW o \in Seq(Messages)
  PROVE  Down(a, b, c, w, o, <<>>) = Down(a, b, c, w, <<>>, o)
<1> DEFINE p == a \o b \o c \o w
<1>1. p \in Seq(Messages)
  OBVIOUS
<1>2. (p \o o) \o <<>> = (p \o <<>>) \o o
  <2> HIDE DEF p
  <2> QED BY <1>1, SkipStage, Zenon
<1> QED BY <1>2, Zenon DEF Down

\* A step that leaves the contents of both directions alone.
SamePipe == Pipe'["g2h"] = Pipe["g2h"] /\ Pipe'["h2g"] = Pipe["h2g"]

\* take() on the host.
LEMMA HostTakeKeeps ==
  ASSUME TypeOK, HostTake
  PROVE  SamePipe
<1>0. "g2h" \in Directions /\ HistoryType /\ QueueType
  BY TypeParts DEF Directions
<1> DEFINE m == NextMessage(ready)
<1> DEFINE b == Contents(Taken(ready))
<1>1. m \in Messages /\ Contents(ready) = <<m>> \o b /\ b \in Seq(Messages)
  BY <1>0, TakenContents, ContentsType, Zenon DEF HostTake, QueueType, IsReceived
<1>2. /\ taken'["g2h"] = Append(taken["g2h"], m) /\ taken'["h2g"] = taken["h2g"]
      /\ Contents(ready') = b
      /\ UNCHANGED <<dropped, incoming, request, wire, outgoing, gincoming, answer>>
  BY <1>0 DEF HostTake, HistoryType, Directions, workVars, guestVars
<1> HIDE DEF m, b
<1>3. Up(Append(taken["g2h"], m), b, dropped["g2h"], Contents(incoming), request, wire["g2h"].batch,
         Payloads(outgoing["g2h"]))
      = Up(taken["g2h"], <<m>> \o b, dropped["g2h"], Contents(incoming), request, wire["g2h"].batch,
           Payloads(outgoing["g2h"]))
  BY <1>0, <1>1, StageTypes, UpTake
<1> QED BY <1>1, <1>2, <1>3, PipeIs, PipeNextIs DEF SamePipe

\* take() in the guest.
LEMMA GuestTakeKeeps ==
  ASSUME TypeOK, GuestTake
  PROVE  SamePipe
<1>0. "h2g" \in Directions /\ HistoryType /\ QueueType
  BY TypeParts DEF Directions
<1> DEFINE m == NextMessage(gincoming)
<1> DEFINE b == Contents(Taken(gincoming))
<1>1. m \in Messages /\ Contents(gincoming) = <<m>> \o b /\ b \in Seq(Messages)
  BY <1>0, TakenContents, ContentsType, Zenon DEF GuestTake, QueueType, IsReceived
<1>2. /\ taken'["h2g"] = Append(taken["h2g"], m) /\ taken'["g2h"] = taken["g2h"]
      /\ Contents(gincoming') = b
      /\ UNCHANGED <<dropped, incoming, request, wire, outgoing, ready, answer>>
  BY <1>0 DEF GuestTake, HistoryType, Directions, workVars, hostVars
<1> HIDE DEF m, b
<1>3. Down(Append(taken["h2g"], m), b, dropped["h2g"], wire["h2g"].batch, answer.batch,
           Payloads(outgoing["h2g"]))
      = Down(taken["h2g"], <<m>> \o b, dropped["h2g"], wire["h2g"].batch, answer.batch,
             Payloads(outgoing["h2g"]))
  BY <1>0, <1>1, StageTypes, DownTake
<1> QED BY <1>1, <1>2, <1>3, PipeIs, PipeNextIs DEF SamePipe

\* step() collects what the worker appended, or drops it and fails.
LEMMA CollectKeeps ==
  ASSUME TypeOK, Lost, StepCollect
  PROVE  SamePipe
<1>0. "g2h" \in Directions /\ HistoryType /\ QueueType
  BY TypeParts DEF Directions
<1>1. UNCHANGED <<taken, gincoming, request, answer, wire, outgoing>> /\ dropped'["h2g"] = dropped["h2g"]
  BY <1>0 DEF StepCollect, HostLeaves, workVars, guestVars, HistoryType, Directions
<1>2. CASE failure
  <2>1. UNCHANGED <<ready, incoming, dropped>>
    BY <1>2 DEF StepCollect
  <2> QED BY <1>1, <2>1, PipeIs, PipeNextIs DEF SamePipe
<1>3. CASE ~failure /\ AcceptsAppend(ready, Contents(incoming))
  <2>1. ready' = Appended(ready, Contents(incoming)) /\ incoming' = EmptyReceived /\ dropped' = dropped
    BY <1>3 DEF StepCollect
  <2>2. /\ Contents(ready') = Contents(ready) \o Contents(incoming)
        /\ Contents(incoming') = <<>> /\ dropped["g2h"] = <<>>
    <3>1. /\ ready.messages \in Seq(Messages) /\ ready.next \in 0..Len(ready.messages)
          /\ Contents(incoming) \in Seq(Messages)
      BY <1>0, StageTypes DEF QueueType, IsReceived
    <3>2. Contents(ready') = Contents(ready) \o Contents(incoming)
      BY <2>1, <3>1, AppendedContents, Zenon
    <3>3. Contents(incoming') = <<>>
      BY <2>1, EmptyContents, Zenon
    <3>4. dropped["g2h"] = <<>>
      BY <1>3 DEF Lost
    <3> QED BY <3>2, <3>3, <3>4
  <2>3. Up(taken["g2h"], Contents(ready) \o Contents(incoming), <<>>, <<>>, request, wire["g2h"].batch,
           Payloads(outgoing["g2h"]))
        = Up(taken["g2h"], Contents(ready), <<>>, Contents(incoming), request, wire["g2h"].batch,
             Payloads(outgoing["g2h"]))
    BY <1>0, StageTypes, UpCollect
  <2> QED BY <1>1, <2>1, <2>2, <2>3, PipeIs, PipeNextIs DEF SamePipe
<1>4. CASE ~failure /\ ~AcceptsAppend(ready, Contents(incoming))
  <2>1. /\ ready' = ready /\ incoming' = EmptyReceived
        /\ dropped' = [dropped EXCEPT !["g2h"] = @ \o Contents(incoming)]
    BY <1>4 DEF StepCollect
  <2>2. dropped'["g2h"] = dropped["g2h"] \o Contents(incoming) /\ Contents(incoming') = <<>>
    BY <1>0, <2>1, EmptyContents DEF HistoryType
  <2>3. Up(taken["g2h"], Contents(ready), dropped["g2h"] \o Contents(incoming), <<>>, request,
           wire["g2h"].batch, Payloads(outgoing["g2h"]))
        = Up(taken["g2h"], Contents(ready), dropped["g2h"], Contents(incoming), request,
             wire["g2h"].batch, Payloads(outgoing["g2h"]))
    BY <1>0, StageTypes, UpDrop
  <2> QED BY <1>1, <2>1, <2>2, <2>3, PipeIs, PipeNextIs DEF SamePipe
<1> QED BY <1>2, <1>3, <1>4

\* The worker takes the request off the wire.
LEMMA ReceiveKeeps ==
  ASSUME TypeOK, Turn, WorkerReceive
  PROVE  SamePipe
<1>0. "g2h" \in Directions /\ WireType
  BY TypeParts DEF Directions
<1>1. /\ UNCHANGED <<taken, dropped, incoming, ready, gincoming, answer, outgoing>>
      /\ request = <<>> /\ request' = wire["g2h"].batch
      /\ wire'["g2h"].batch = <<>> /\ wire'["h2g"] = wire["h2g"]
  BY <1>0, WireFacts DEF WorkerReceive, WorkerLeaves, guestVars, WireType, Directions, Turn
<1>2. Up(taken["g2h"], Contents(ready), dropped["g2h"], Contents(incoming), wire["g2h"].batch, <<>>,
         Payloads(outgoing["g2h"]))
      = Up(taken["g2h"], Contents(ready), dropped["g2h"], Contents(incoming), <<>>, wire["g2h"].batch,
           Payloads(outgoing["g2h"]))
  <2>1. /\ taken["g2h"] \in Seq(Messages) /\ Contents(ready) \in Seq(Messages)
        /\ dropped["g2h"] \in Seq(Messages) /\ Contents(incoming) \in Seq(Messages)
        /\ wire["g2h"].batch \in Seq(Messages)
    BY <1>0, StageTypes
  <2>2. taken["g2h"] \o Contents(ready) \o dropped["g2h"] \o Contents(incoming) \in Seq(Messages)
    BY <2>1, FourStages
  <2>3. wire["g2h"].batch \in Seq(Messages)
    BY <2>1
  <2> QED BY <2>2, <2>3, UpReceive, ZenonT(30)
<1> QED BY <1>1, <1>2, PipeIs, PipeNextIs DEF SamePipe

\* The worker appends the guest's batch and detaches the host's, or fails
\* before it has touched either.
LEMMA ExchangeKeeps ==
  ASSUME TypeOK, Turn, WorkerExchange
  PROVE  SamePipe
<1>0. "g2h" \in Directions /\ "h2g" \in Directions /\ QueueType /\ OutgoingType /\ WireType
  BY TypeParts DEF Directions
<1>1. UNCHANGED <<taken, dropped, ready, gincoming, wire>> /\ answer.batch = <<>>
  BY WireFacts DEF WorkerExchange, WorkerLeaves, guestVars, Turn
<1>2. CASE ~AcceptsAppend(incoming, request)
  <2>1. UNCHANGED <<incoming, request, answer, outgoing>>
    BY <1>2 DEF WorkerExchange
  <2> QED BY <1>1, <2>1, PipeIs, PipeNextIs DEF SamePipe
<1>3. CASE AcceptsAppend(incoming, request)
  <2>1. /\ incoming' = Appended(incoming, request) /\ request' = <<>>
        /\ answer' = BatchOf(Payloads(outgoing["h2g"]))
        /\ outgoing' = [outgoing EXCEPT !["h2g"] = EmptyOutgoing]
    BY <1>3 DEF WorkerExchange
  <2>2. Contents(incoming') = Contents(incoming) \o request
    BY <1>0, <2>1, StageTypes, AppendedContents, Zenon DEF QueueType, IsReceived
  <2>3. answer'.batch = Payloads(outgoing["h2g"])
    BY <2>1, WireFacts
  <2>4. outgoing'["g2h"] = outgoing["g2h"] /\ Payloads(outgoing'["h2g"]) = <<>>
    BY <1>0, <2>1, EmptyPayloads DEF OutgoingType, Directions
  <2>5. Up(taken["g2h"], Contents(ready), dropped["g2h"], Contents(incoming) \o request, <<>>,
           wire["g2h"].batch, Payloads(outgoing["g2h"]))
        = Up(taken["g2h"], Contents(ready), dropped["g2h"], Contents(incoming), request,
             wire["g2h"].batch, Payloads(outgoing["g2h"]))
    <3>1. /\ taken["g2h"] \in Seq(Messages) /\ Contents(ready) \in Seq(Messages)
          /\ dropped["g2h"] \in Seq(Messages) /\ Contents(incoming) \in Seq(Messages)
          /\ request \in Seq(Messages)
      BY <1>0, StageTypes
    <3> DEFINE p == taken["g2h"] \o Contents(ready) \o dropped["g2h"]
    <3>2. p \in Seq(Messages)
      BY <3>1, ThreeStages
    <3>3. (p \o (Contents(incoming) \o request)) \o <<>> = (p \o Contents(incoming)) \o request
      <4> HIDE DEF p
      <4> QED BY <3>1, <3>2, JoinStages, Zenon
    <3> QED BY <3>3, Zenon DEF Up
  <2>6. Down(taken["h2g"], Contents(gincoming), dropped["h2g"], wire["h2g"].batch,
             Payloads(outgoing["h2g"]), <<>>)
        = Down(taken["h2g"], Contents(gincoming), dropped["h2g"], wire["h2g"].batch, <<>>,
               Payloads(outgoing["h2g"]))
    <3>1. /\ taken["h2g"] \in Seq(Messages) /\ Contents(gincoming) \in Seq(Messages)
          /\ dropped["h2g"] \in Seq(Messages) /\ wire["h2g"].batch \in Seq(Messages)
          /\ Payloads(outgoing["h2g"]) \in Seq(Messages)
      BY <1>0, StageTypes
    <3>2. taken["h2g"] \o Contents(gincoming) \o dropped["h2g"] \o wire["h2g"].batch \in Seq(Messages)
      BY <3>1, FourStages
    <3> QED BY <3>1, <3>2, DownExchange, Zenon
  <2> QED BY <1>1, <2>1, <2>2, <2>3, <2>4, <2>5, <2>6, PipeIs, PipeNextIs DEF SamePipe
<1> QED BY <1>2, <1>3

\* The worker's reply goes onto the wire.
LEMMA SendKeeps ==
  ASSUME TypeOK, WorkerSend
  PROVE  SamePipe
<1>0. "h2g" \in Directions /\ WireType
  BY TypeParts DEF Directions
<1>1. /\ UNCHANGED <<taken, dropped, incoming, ready, gincoming, request, outgoing>>
      /\ wire["h2g"].batch = <<>> /\ wire'["h2g"].batch = answer.batch
      /\ answer'.batch = <<>> /\ wire'["g2h"] = wire["g2h"]
  BY <1>0, WireFacts DEF WorkerSend, WorkerLeaves, guestVars, WireType, Directions
<1>2. Down(taken["h2g"], Contents(gincoming), dropped["h2g"], answer.batch, <<>>,
           Payloads(outgoing["h2g"]))
      = Down(taken["h2g"], Contents(gincoming), dropped["h2g"], <<>>, answer.batch,
             Payloads(outgoing["h2g"]))
  <2>1. taken["h2g"] \o Contents(gincoming) \o dropped["h2g"] \in Seq(Messages)
    BY <1>0, StageTypes, ThreeStages
  <2>2. answer.batch \in Seq(Messages)
    BY StageTypes
  <2> QED BY <2>1, <2>2, DownSend, Zenon
<1> QED BY <1>1, <1>2, PipeIs, PipeNextIs DEF SamePipe

\* A startup message carries nothing.
LEMMA CheckKeeps ==
  ASSUME TypeOK, Turn, WorkerCheck
  PROVE  SamePipe
<1>1. /\ UNCHANGED <<taken, dropped, incoming, ready, gincoming, request, outgoing, wire>>
      /\ answer'.batch = answer.batch
  BY WireFacts DEF WorkerCheck, WorkerLeaves, guestVars, Turn
<1> QED BY <1>1, PipeIs, PipeNextIs DEF SamePipe

\* Sending the startup query moves no message.
LEMMA QueryKeeps ==
  ASSUME TypeOK, Turn, GuestQuery
  PROVE  SamePipe
<1>1. /\ UNCHANGED <<taken, dropped, incoming, ready, gincoming, request, outgoing, answer>>
      /\ wire'["g2h"].batch = wire["g2h"].batch /\ wire'["h2g"] = wire["h2g"]
  <2>1. WireType
    BY TypeParts
  <2>2. wire["g2h"] = Nothing
    BY DEF GuestQuery, Turn, Starting, Batching
  <2> QED BY <2>1, <2>2, WireFacts DEF GuestQuery, GuestLeaves, hostVars, workVars, WireType, Directions
<1> QED BY <1>1, PipeIs, PipeNextIs DEF SamePipe

\* The guest drains its queue into a packet.
LEMMA GuestSendKeeps ==
  ASSUME TypeOK, Turn, GuestSend
  PROVE  SamePipe
<1>0. "g2h" \in Directions /\ WireType /\ OutgoingType
  BY TypeParts DEF Directions
<1>1. wire["g2h"].batch = <<>>
  BY WireFacts DEF GuestSend, Turn, Starting, Batching
<1>2. /\ UNCHANGED <<taken, dropped, incoming, ready, gincoming, request, answer>>
      /\ wire'["h2g"] = wire["h2g"] /\ outgoing'["h2g"] = outgoing["h2g"]
  BY <1>0 DEF GuestSend, GuestLeaves, hostVars, workVars, WireType, OutgoingType, Directions
<1>3. wire'["g2h"].batch = Payloads(outgoing["g2h"]) /\ Payloads(outgoing'["g2h"]) = <<>>
  BY <1>0, WireFacts, EmptyPayloads DEF GuestSend, WireType, OutgoingType, Directions
<1>4. Up(taken["g2h"], Contents(ready), dropped["g2h"], Contents(incoming), request,
         Payloads(outgoing["g2h"]), <<>>)
      = Up(taken["g2h"], Contents(ready), dropped["g2h"], Contents(incoming), request, <<>>,
           Payloads(outgoing["g2h"]))
  <2> DEFINE t == taken["g2h"] \o Contents(ready) \o dropped["g2h"] \o Contents(incoming)
  <2>1. t \in Seq(Messages)
    BY <1>0, StageTypes, FourStages
  <2>2. t \o request \in Seq(Messages)
    <3> HIDE DEF t
    <3> QED BY <2>1, StageTypes, ConcatProperties
  <2>3. Payloads(outgoing["g2h"]) \in Seq(Messages)
    BY <1>0, StageTypes
  <2>4. ((t \o request) \o Payloads(outgoing["g2h"])) \o <<>> = ((t \o request) \o <<>>) \o Payloads(outgoing["g2h"])
    <3> DEFINE p == t \o request
    <3> HIDE DEF t, p
    <3>1. p \in Seq(Messages)
      BY <2>2 DEF p
    <3>2. (p \o Payloads(outgoing["g2h"])) \o <<>> = (p \o <<>>) \o Payloads(outgoing["g2h"])
      BY <3>1, <2>3, SkipStage, Zenon
    <3> QED BY <3>2, Zenon DEF p
  <2> QED BY <2>4, Zenon DEF Up
<1> QED BY <1>1, <1>2, <1>3, <1>4, PipeIs, PipeNextIs DEF SamePipe

\* A reply the guest cannot use is lost with the controller.
LEMMA DropKeeps ==
  ASSUME TypeOK, wire' = [wire EXCEPT !["h2g"] = Nothing],
         dropped' = [dropped EXCEPT !["h2g"] = @ \o wire["h2g"].batch],
         UNCHANGED <<taken, incoming, ready, gincoming, request, answer, outgoing>>
  PROVE  SamePipe
<1>0. "h2g" \in Directions /\ WireType /\ HistoryType
  BY TypeParts DEF Directions
<1>1. /\ wire'["h2g"].batch = <<>> /\ wire'["g2h"] = wire["g2h"]
      /\ dropped'["h2g"] = dropped["h2g"] \o wire["h2g"].batch /\ dropped'["g2h"] = dropped["g2h"]
  BY <1>0, WireFacts DEF WireType, HistoryType, Directions
<1>2. Down(taken["h2g"], Contents(gincoming), dropped["h2g"] \o wire["h2g"].batch, <<>>, answer.batch,
           Payloads(outgoing["h2g"]))
      = Down(taken["h2g"], Contents(gincoming), dropped["h2g"], wire["h2g"].batch, answer.batch,
             Payloads(outgoing["h2g"]))
  BY <1>0, StageTypes, DownDrop
<1> QED BY <1>1, <1>2, PipeIs, PipeNextIs DEF SamePipe

\* Answering the startup query moves no message.
LEMMA StartupReplyKeeps ==
  ASSUME TypeOK, GuestStartupReply
  PROVE  SamePipe
<1>1. /\ wire' = [wire EXCEPT !["h2g"] = Nothing]
      /\ dropped' = [dropped EXCEPT !["h2g"] = @ \o wire["h2g"].batch]
      /\ UNCHANGED <<taken, incoming, ready, gincoming, request, answer, outgoing>>
  BY DEF GuestStartupReply, GuestLeaves, hostVars, workVars
<1> QED BY <1>1, DropKeeps

\* A batch is appended, or lost with the controller.
LEMMA BatchReplyKeeps ==
  ASSUME TypeOK, Lost, GuestBatchReply
  PROVE  SamePipe
<1>0. "h2g" \in Directions /\ WireType /\ QueueType
  BY TypeParts DEF Directions
<1>1. /\ wire' = [wire EXCEPT !["h2g"] = Nothing]
      /\ UNCHANGED <<taken, incoming, ready, request, answer, outgoing>>
  BY DEF GuestBatchReply, GuestLeaves, hostVars, workVars
<1>2. CASE ~(wire["h2g"].type = "batch" /\ AcceptsAppend(gincoming, wire["h2g"].batch))
  <2>1. dropped' = [dropped EXCEPT !["h2g"] = @ \o wire["h2g"].batch] /\ gincoming' = gincoming
    BY <1>2, Zenon DEF GuestBatchReply
  <2> QED BY <1>1, <2>1, DropKeeps
<1>3. CASE wire["h2g"].type = "batch" /\ AcceptsAppend(gincoming, wire["h2g"].batch)
  <2>1. gincoming' = Appended(gincoming, wire["h2g"].batch) /\ dropped' = dropped
    BY <1>3 DEF GuestBatchReply
  <2>2. Contents(gincoming') = Contents(gincoming) \o wire["h2g"].batch
    <3>1. /\ gincoming.messages \in Seq(Messages) /\ gincoming.next \in 0..Len(gincoming.messages)
          /\ wire["h2g"].batch \in Seq(Messages)
      BY <1>0, StageTypes DEF QueueType, IsReceived
    <3> QED BY <2>1, <3>1, AppendedContents, Zenon
  <2>3. dropped["h2g"] = <<>>
    BY DEF Lost, GuestBatchReply
  <2>4. wire'["h2g"].batch = <<>> /\ wire'["g2h"] = wire["g2h"]
    BY <1>0, <1>1, WireFacts DEF WireType, Directions
  <2>5. Down(taken["h2g"], Contents(gincoming) \o wire["h2g"].batch, <<>>, <<>>, answer.batch,
             Payloads(outgoing["h2g"]))
        = Down(taken["h2g"], Contents(gincoming), <<>>, wire["h2g"].batch, answer.batch,
               Payloads(outgoing["h2g"]))
    BY <1>0, StageTypes, DownReply
  <2> QED BY <1>1, <2>1, <2>2, <2>3, <2>4, <2>5, PipeIs, PipeNextIs DEF SamePipe
<1> QED BY <1>2, <1>3

\* Every step but a submission leaves the contents of the pipe alone.
LEMMA PipeKept ==
  ASSUME TypeOK, Turn, Lost, Next, ~SubmitStep
  PROVE  SamePipe
<1>1. CASE UNCHANGED <<incoming, ready, gincoming, request, answer, outgoing, wire, submitted,
                       taken, dropped>>
  BY <1>1, PipeIs, PipeNextIs DEF SamePipe
<1> QED BY <1>1, DataFrame, HostTakeKeeps, GuestTakeKeeps, CollectKeeps, ReceiveKeeps, CheckKeeps,
           ExchangeKeeps, SendKeeps, QueryKeeps, GuestSendKeeps, StartupReplyKeeps, BatchReplyKeeps
=============================================================================
