---------------------------- MODULE DataExchange ----------------------------
(***************************************************************************)
(* The data path between a host application and a guest application in     *)
(* gem5: Gem5HostController (its application thread and its I/O worker),   *)
(* Gem5GuestController, and the transport between them, composed with the  *)
(* stepping of the simulator (SimControl).                                 *)
(*                                                                         *)
(* Directions: "h2g" host to guest, "g2h" guest to host.  A wire holds the *)
(* one transport message in flight in its direction; the request/reply     *)
(* alternation (PhaseAgreement) makes one slot enough.  A guest receive is *)
(* a blocking m5 operation: gem5 executes nothing else, and cannot pause,  *)
(* until the host's I/O worker has sent.                                   *)
(***************************************************************************)
EXTENDS ControllerQueues, SimControl

CONSTANTS Keys,        \* nonempty coalescing keys
          Sizes,       \* message sizes
          MaxSubmits   \* bound: accepted submissions in each direction

Directions == {"h2g", "g2h"}

ASSUME DataAssumption ==
  NoKey \notin Keys /\ Sizes \subseteq Nat /\ MaxSubmits \in [Directions -> Nat]

VARIABLES
  hpc,       \* host application thread
  wpc,       \* host I/O worker (serve)
  phase,     \* worker: "startup" until it sends the configuration, then "batch"
  gpc,       \* guest application thread
  started, failure, stopped, cancelled,      \* Gem5HostController::Impl
  incoming, ready,                           \* host ReceivedQueues
  request, answer,   \* worker: batch being appended, transport message being sent
  poll,              \* guest: the polling interval is known (poll > 0)
  gfailed, gincoming,                        \* guest failure, guest ReceivedQueue
  outgoing,          \* OutgoingQueue of the sender of each direction
  wire,              \* transport message in flight in each direction
  submitted, taken, dropped   \* history: accepted, delivered, lost by a failure

hostVars  == <<hpc, started, failure, stopped, cancelled, ready>>
workVars  == <<wpc, phase, request, answer>>
guestVars == <<gpc, poll, gfailed, gincoming>>
vars == <<hostVars, workVars, guestVars, incoming, outgoing, wire,
          submitted, taken, dropped, simVars>>

\* Transport messages.  The code tells them apart by phase and by the startup
\* magic; a batch never equals a startup message.
Nothing      == [type |-> "none", batch |-> <<>>]
StartupQuery == [type |-> "query", batch |-> <<>>]
NotReady     == [type |-> "notready", batch |-> <<>>]   \* encode_startup(0)
Configured   == [type |-> "config", batch |-> <<>>]     \* encode_startup(poll)
BatchOf(b)   == [type |-> "batch", batch |-> b]

GuestRuns == sim \in {"boot", "running"}

\* A blocking m5 receive is in progress: the simulator thread is inside it.
InOp == gpc \in {"startupRecv", "batchRecv"}

\* HostTransport exists from the construction of the host controller to its
\* destruction; without its listeners every m5 operation panics.
ListenersOpen == hpc # "gone"

Init ==
  /\ SimInit
  /\ hpc = "boot" /\ wpc = "recv" /\ phase = "startup" /\ gpc = "boot"
  /\ started = FALSE /\ failure = FALSE /\ stopped = FALSE /\ cancelled = FALSE
  /\ incoming = EmptyReceived /\ ready = EmptyReceived /\ gincoming = EmptyReceived
  /\ request = <<>> /\ answer = Nothing
  /\ poll = FALSE /\ gfailed = FALSE
  /\ outgoing = [d \in Directions |-> EmptyOutgoing]
  /\ wire = [d \in Directions |-> Nothing]
  /\ submitted = [d \in Directions |-> <<>>]
  /\ taken = [d \in Directions |-> <<>>]
  /\ dropped = [d \in Directions |-> <<>>]

-----------------------------------------------------------------------------
(* Data calls of the two applications.                                     *)

\* OutgoingQueue::submit.  A submission that overflows throws and changes
\* nothing, so only accepted ones are steps.
Submit(d, size, key) ==
  LET data == [id |-> Len(submitted[d]) + 1, size |-> size]
  IN  /\ Len(submitted[d]) < MaxSubmits[d]
      /\ AcceptsSubmit(outgoing[d], data, key)
      /\ outgoing' = [outgoing EXCEPT ![d] = Submitted(@, data, key)]
      /\ submitted' = [submitted EXCEPT ![d] = Append(@, [data |-> data, key |-> key])]

HostSubmit(size, key) ==
  /\ hpc = "idle" /\ ~stopped /\ ~failure
  /\ Submit("h2g", size, key)
  /\ UNCHANGED <<hostVars, workVars, guestVars, incoming, wire, taken, dropped, simVars>>

GuestSubmit(size, key) ==
  /\ GuestRuns /\ gpc = "call" /\ ~gfailed
  /\ Submit("g2h", size, key)
  /\ UNCHANGED <<hostVars, workVars, guestVars, incoming, wire, taken, dropped, simVars>>

HostTake ==
  /\ hpc \in {"idle", "ended"} /\ CanTake(ready)
  /\ taken' = [taken EXCEPT !["g2h"] = Append(@, NextMessage(ready))]
  /\ ready' = Taken(ready)
  /\ UNCHANGED <<hpc, started, failure, stopped, cancelled, workVars, guestVars,
                 incoming, outgoing, wire, submitted, dropped, simVars>>

GuestTake ==
  /\ GuestRuns /\ gpc = "call" /\ CanTake(gincoming)
  /\ taken' = [taken EXCEPT !["h2g"] = Append(@, NextMessage(gincoming))]
  /\ gincoming' = Taken(gincoming)
  /\ UNCHANGED <<hostVars, workVars, gpc, poll, gfailed, incoming, outgoing, wire,
                 submitted, dropped, simVars>>

-----------------------------------------------------------------------------
(* Host application thread.                                                *)

HostLeaves(others) == UNCHANGED <<workVars, guestVars, outgoing, wire, submitted, taken, others>>

\* wait_until_ready: STATUS, retried while the socket is not there yet.
AskReady ==
  /\ hpc = "boot"
  /\ Request("status")
  /\ hpc' = "status"
  /\ HostLeaves(<<started, failure, stopped, cancelled, incoming, ready, dropped>>)

\* It returns, or throws: the simulator had finished, a socket error, a
\* timeout, or a cancelled startup.  The caller then only stops.
IsReady ==
  /\ \/ hpc = "status" /\ Receive("paused", session) /\ hpc' = "idle"
     \/ hpc = "status" /\ Receive("done", "failed") /\ hpc' = "leaving"
     \/ hpc = "status" /\ GiveUp /\ hpc' = "leaving"
     \/ hpc = "boot" /\ RequestFails /\ hpc' = "leaving"
     \/ hpc = "boot" /\ UNCHANGED simVars /\ hpc' = "leaving"
  /\ HostLeaves(<<started, failure, stopped, cancelled, incoming, ready, dropped>>)

\* step(): under the mutex, refuse after a failure, else let startup complete.
StepBegin ==
  /\ hpc = "idle" /\ ~stopped /\ ~failure
  /\ started' = TRUE
  /\ hpc' = "start"
  /\ HostLeaves(<<failure, stopped, cancelled, incoming, ready, dropped, simVars>>)

\* timing.start: send STEP_TICKS, or throw; a finished session or an exhausted
\* tick range throws before any I/O.
StepStart ==
  /\ hpc = "start"
  /\ \/ session = "usable" /\ Request("step") /\ hpc' = "wait" /\ UNCHANGED failure
     \/ /\ (session = "usable" /\ RequestFails) \/ UNCHANGED simVars
        /\ hpc' = "idle" /\ failure' = TRUE
  /\ HostLeaves(<<started, stopped, cancelled, incoming, ready, dropped>>)

\* timing.wait: the interval is complete, or the wait throws.
StepWait ==
  /\ hpc = "wait"
  /\ \/ Receive("ok", session) /\ hpc' = "collect" /\ UNCHANGED failure
     \/ /\ Receive("done", "finished") \/ Receive("error", "failed") \/ GiveUp
        /\ hpc' = "idle" /\ failure' = TRUE
  /\ HostLeaves(<<started, stopped, cancelled, incoming, ready, dropped>>)

\* Fault: an overflowing ready queue is not reported.
StepCollectQuietly ==
  /\ hpc = "collect"
  /\ hpc' = "idle"
  /\ IF failure
     THEN UNCHANGED <<incoming, ready, dropped>>
     ELSE /\ incoming' = EmptyReceived
          /\ IF AcceptsAppend(ready, Contents(incoming))
             THEN ready' = Appended(ready, Contents(incoming)) /\ UNCHANGED dropped
             ELSE dropped' = [dropped EXCEPT !["g2h"] = @ \o Contents(incoming)] /\ UNCHANGED ready
  /\ HostLeaves(<<started, stopped, cancelled, failure, simVars>>)

\* Detach what the worker has appended, under the mutex, and move it to the
\* ready queue.  A ready queue at its limit throws after the detachment.
StepCollect ==
  /\ hpc = "collect"
  /\ hpc' = "idle"
  /\ IF failure
     THEN UNCHANGED <<incoming, ready, failure, dropped>>
     ELSE /\ incoming' = EmptyReceived
          /\ IF AcceptsAppend(ready, Contents(incoming))
             THEN ready' = Appended(ready, Contents(incoming)) /\ UNCHANGED <<failure, dropped>>
             ELSE /\ dropped' = [dropped EXCEPT !["g2h"] = @ \o Contents(incoming)]
                  /\ failure' = TRUE
                  /\ UNCHANGED ready
  /\ HostLeaves(<<started, stopped, cancelled, simVars>>)

\* stop(): QUIT.  When shutdown throws, the worker is left running.
StopBegin ==
  /\ hpc \in {"idle", "leaving"} /\ ~stopped
  /\ \/ Request("quit") /\ hpc' = "quit"
     \/ /\ IF session = "failed" THEN UNCHANGED simVars ELSE RequestFails
        /\ hpc' = "ended"
  /\ HostLeaves(<<started, failure, stopped, cancelled, incoming, ready, dropped>>)

StopReply ==
  /\ hpc = "quit"
  /\ \/ Receive("bye", "stopped") /\ hpc' = "join" /\ cancelled' = TRUE
     \/ GiveUp /\ hpc' = "ended" /\ UNCHANGED cancelled
  /\ HostLeaves(<<started, failure, stopped, incoming, ready, dropped>>)

\* Fault: stop() does not join the worker.
StopWithoutJoin ==
  /\ hpc = "join"
  /\ stopped' = TRUE
  /\ hpc' = "ended"
  /\ HostLeaves(<<started, failure, cancelled, incoming, ready, dropped, simVars>>)

StopJoin ==
  /\ hpc = "join" /\ wpc = "done"
  /\ stopped' = TRUE
  /\ hpc' = "ended"
  /\ HostLeaves(<<started, failure, cancelled, incoming, ready, dropped, simVars>>)

\* ~Impl: cancel, join the worker, then close the listeners.
DestroyBegin ==
  /\ hpc = "ended"
  /\ cancelled' = TRUE
  /\ hpc' = "destroy"
  /\ HostLeaves(<<started, failure, stopped, incoming, ready, dropped, simVars>>)

DestroyJoin ==
  /\ hpc = "destroy" /\ wpc = "done"
  /\ hpc' = "gone"
  /\ HostLeaves(<<started, failure, stopped, cancelled, incoming, ready, dropped, simVars>>)

HostCall == AskReady \/ StepBegin \/ StopBegin \/ DestroyBegin

HostReturn == IsReady \/ StepStart \/ StepWait \/ StepCollect \/ StopReply \/ StopJoin \/ DestroyJoin

-----------------------------------------------------------------------------
(* Host I/O worker: serve().                                               *)

WorkerLeaves(others) ==
  UNCHANGED <<hpc, started, stopped, cancelled, ready, guestVars, submitted, taken, dropped,
              simVars, others>>

\* control::receive, then the test of the startup request or decode.  Data of
\* the other phase is a protocol mismatch.
WorkerReceive ==
  /\ wpc = "recv" /\ ~cancelled /\ wire["g2h"] # Nothing
  /\ wire' = [wire EXCEPT !["g2h"] = Nothing]
  /\ request' = wire["g2h"].batch
  /\ wpc' = IF phase = "startup" /\ wire["g2h"] = StartupQuery THEN "check"
            ELSE IF phase = "batch" /\ wire["g2h"].type = "batch" THEN "exchange"
            ELSE "failing"
  /\ WorkerLeaves(<<phase, answer, failure, incoming, outgoing>>)

\* Fault: the configuration is sent whether or not the host has started.
WorkerCheckAlways ==
  /\ wpc = "check"
  /\ answer' = Configured
  /\ wpc' = "send"
  /\ WorkerLeaves(<<phase, request, failure, incoming, outgoing, wire>>)

\* Read started under the mutex; the reply goes out after unlocking.
WorkerCheck ==
  /\ wpc = "check"
  /\ answer' = IF started THEN Configured ELSE NotReady
  /\ wpc' = "send"
  /\ WorkerLeaves(<<phase, request, failure, incoming, outgoing, wire>>)

\* Fault: the reply never carries the host's messages.
WorkerExchangeOneWay ==
  /\ wpc = "exchange" /\ AcceptsAppend(incoming, request)
  /\ incoming' = Appended(incoming, request)
  /\ request' = <<>>
  /\ answer' = BatchOf(<<>>)
  /\ wpc' = "send"
  /\ WorkerLeaves(<<phase, failure, outgoing, wire>>)

\* Append the guest's batch and detach the host's, under one lock.
WorkerExchange ==
  /\ wpc = "exchange"
  /\ IF AcceptsAppend(incoming, request)
     THEN /\ incoming' = Appended(incoming, request)
          /\ request' = <<>>
          /\ answer' = BatchOf(Payloads(outgoing["h2g"]))
          /\ outgoing' = [outgoing EXCEPT !["h2g"] = EmptyOutgoing]
          /\ wpc' = "send"
     ELSE wpc' = "failing" /\ UNCHANGED <<incoming, request, answer, outgoing>>
  /\ WorkerLeaves(<<phase, failure, wire>>)

\* Fault: leave the startup loop on the current value of started, not on the
\* value the reply was made from.
WorkerSendRereading ==
  /\ wpc = "send" /\ ~cancelled /\ InOp /\ wire["h2g"] = Nothing
  /\ wire' = [wire EXCEPT !["h2g"] = answer]
  /\ answer' = Nothing
  /\ phase' = IF started THEN "batch" ELSE phase
  /\ wpc' = "recv"
  /\ WorkerLeaves(<<request, failure, incoming, outgoing>>)

\* Fault: the exchange is completed at an interval boundary only.
WorkerSendAtBoundary ==
  /\ wpc = "send" /\ ~cancelled /\ InOp /\ wire["h2g"] = Nothing /\ hpc # "wait"
  /\ wire' = [wire EXCEPT !["h2g"] = answer]
  /\ answer' = Nothing
  /\ phase' = IF answer = Configured THEN "batch" ELSE phase
  /\ wpc' = "recv"
  /\ WorkerLeaves(<<request, failure, incoming, outgoing>>)

\* control::send: completes once the guest is in its receive operation.
WorkerSend ==
  /\ wpc = "send" /\ ~cancelled /\ InOp /\ wire["h2g"] = Nothing
  /\ wire' = [wire EXCEPT !["h2g"] = answer]
  /\ answer' = Nothing
  /\ phase' = IF answer = Configured THEN "batch" ELSE phase
  /\ wpc' = "recv"
  /\ WorkerLeaves(<<request, failure, incoming, outgoing>>)

\* Fault: cancel() wakes a blocked receive but not a blocked send.
WorkerIoFailsReceivingOnly ==
  /\ wpc = "recv"
  /\ wpc' = "failing"
  /\ WorkerLeaves(<<phase, request, answer, failure, incoming, outgoing, wire>>)

\* Blocked I/O ends by cancel() or by a socket error.
WorkerIoFails ==
  /\ wpc \in {"recv", "send"}
  /\ wpc' = "failing"
  /\ WorkerLeaves(<<phase, request, answer, failure, incoming, outgoing, wire>>)

\* The handler takes the mutex again to record the failure; the worker ends.
WorkerCatch ==
  /\ wpc = "failing"
  /\ failure' = TRUE
  /\ wpc' = "done"
  /\ WorkerLeaves(<<phase, request, answer, incoming, outgoing, wire>>)

Worker == WorkerReceive \/ WorkerCheck \/ WorkerExchange \/ WorkerSend \/ WorkerCatch

-----------------------------------------------------------------------------
(* Guest: Gem5GuestController::run_next called in a loop.                  *)

GuestLeaves(others) ==
  UNCHANGED <<hostVars, workVars, incoming, submitted, taken, simVars, others>>

\* m5_work_begin, then run_next: sleep for the polling interval if it is
\* known, else start up.  A failed controller returns at once.
GuestCall ==
  /\ GuestRuns /\ gpc \in {"boot", "call"} /\ ~gfailed
  /\ gpc' = IF poll THEN "sleep" ELSE "query"
  /\ GuestLeaves(<<poll, gfailed, gincoming, outgoing, wire, dropped>>)

\* A sleep on the guest OS clock is over.
GuestWake ==
  /\ GuestRuns /\ gpc \in {"sleep", "retry"}
  /\ gpc' = IF gpc = "sleep" THEN "send" ELSE "query"
  /\ GuestLeaves(<<poll, gfailed, gincoming, outgoing, wire, dropped>>)

GuestQuery ==
  /\ GuestRuns /\ gpc = "query" /\ ListenersOpen
  /\ wire' = [wire EXCEPT !["g2h"] = StartupQuery]
  /\ gpc' = "querySent"
  /\ GuestLeaves(<<poll, gfailed, gincoming, outgoing, dropped>>)

\* The queue is drained when the packet is prepared.
GuestSend ==
  /\ GuestRuns /\ gpc = "send" /\ ListenersOpen
  /\ wire' = [wire EXCEPT !["g2h"] = BatchOf(Payloads(outgoing["g2h"]))]
  /\ outgoing' = [outgoing EXCEPT !["g2h"] = EmptyOutgoing]
  /\ gpc' = "batchSent"
  /\ GuestLeaves(<<poll, gfailed, gincoming, dropped>>)

\* Enter the blocking receive operation.
GuestRecvBegin ==
  /\ GuestRuns /\ gpc \in {"querySent", "batchSent"} /\ ListenersOpen
  /\ gpc' = IF gpc = "querySent" THEN "startupRecv" ELSE "batchRecv"
  /\ GuestLeaves(<<poll, gfailed, gincoming, outgoing, wire, dropped>>)

\* decode_startup: zero means retry after the bootstrap delay; a positive
\* interval completes startup and the first batch follows without a sleep.
GuestStartupReply ==
  /\ GuestRuns /\ gpc = "startupRecv" /\ wire["h2g"] # Nothing
  /\ wire' = [wire EXCEPT !["h2g"] = Nothing]
  /\ gpc' = IF wire["h2g"] = NotReady THEN "retry"
            ELSE IF wire["h2g"] = Configured THEN "send" ELSE "call"
  /\ poll' = (poll \/ wire["h2g"] = Configured)
  /\ gfailed' = (gfailed \/ wire["h2g"] \notin {NotReady, Configured})
  /\ dropped' = [dropped EXCEPT !["h2g"] = @ \o wire["h2g"].batch]
  /\ GuestLeaves(<<gincoming, outgoing>>)

\* decode and append; a full queue or a startup message fails the controller.
GuestBatchReply ==
  /\ GuestRuns /\ gpc = "batchRecv" /\ wire["h2g"] # Nothing
  /\ wire' = [wire EXCEPT !["h2g"] = Nothing]
  /\ gpc' = "call"
  /\ IF wire["h2g"].type = "batch" /\ AcceptsAppend(gincoming, wire["h2g"].batch)
     THEN /\ gincoming' = Appended(gincoming, wire["h2g"].batch)
          /\ UNCHANGED <<gfailed, dropped>>
     ELSE /\ gfailed' = TRUE
          /\ dropped' = [dropped EXCEPT !["h2g"] = @ \o wire["h2g"].batch]
          /\ UNCHANGED gincoming
  /\ GuestLeaves(<<poll, outgoing>>)

Guest ==
  \/ GuestCall \/ GuestWake \/ GuestQuery \/ GuestSend \/ GuestRecvBegin
  \/ GuestStartupReply \/ GuestBatchReply

-----------------------------------------------------------------------------
(* Simulator.  It cannot pause or reach an event inside a blocking m5      *)
(* operation; an operation without listeners panics.                       *)

SimLeaves == UNCHANGED <<hostVars, workVars, guestVars, incoming, outgoing, wire,
                         submitted, taken, dropped>>

\* Boot ends at the guest's workbegin, after which KVM may run on for a while.
SimBoots == gpc # "boot" /\ ~InOp /\ Booted /\ SimLeaves

SimResumes == Resume /\ SimLeaves

SimHalts == ~InOp /\ Halt /\ SimLeaves

SimServes == (StepInPlace \/ Status \/ Quit) /\ SimLeaves

SimPanics ==
  /\ GuestRuns /\ ~ListenersOpen
  /\ gpc \in {"query", "send", "querySent", "batchSent", "startupRecv", "batchRecv"}
  /\ Die /\ SimLeaves

SimKilled == Die /\ SimLeaves

Simulator == SimBoots \/ SimResumes \/ SimHalts \/ SimServes \/ SimPanics

-----------------------------------------------------------------------------
Next ==
  \/ \E size \in Sizes, key \in Keys \cup {NoKey} : HostSubmit(size, key) \/ GuestSubmit(size, key)
  \/ HostTake \/ GuestTake
  \/ HostCall \/ HostReturn
  \/ Worker \/ WorkerIoFails
  \/ Guest
  \/ Simulator \/ SimKilled

Spec == Init /\ [][Next]_vars

\* Threads run; a reply, or the death of gem5, is noticed; cancelled I/O ends.
\* Each step that is answered gives gem5 ticks sooner or later, because the
\* target of the timing session grows with every step, and gem5 uses ticks up
\* only by running the guest, whose loop sleeps.  No deadline is relied on.
Fairness ==
  /\ WF_vars(HostReturn /\ (open => reply # "none" \/ sim = "exited"))
  /\ WF_vars(Worker) /\ WF_vars(WorkerIoFails /\ cancelled)
  /\ SF_vars(Guest) /\ SF_vars(SimResumes) /\ SF_vars(SimHalts) /\ WF_vars(SimServes)

\* An application that steps again and takes what there is.
FairSpec ==
  Spec /\ Fairness /\ WF_vars(StepBegin) /\ SF_vars(HostTake) /\ SF_vars(GuestTake)

\* The deadlines of the timing controller pass too, and the bridge program
\* answers a failed step with stop() and the destruction of the controller.
Deadlines ==
  /\ WF_vars(HostReturn) /\ WF_vars(SimPanics)
  /\ WF_vars(failure /\ (StopBegin \/ DestroyBegin))
-----------------------------------------------------------------------------
(* Properties.                                                             *)

Messages == [id : Nat, size : Sizes]

Entries == [data : Messages, key : Keys \cup {NoKey}]

WireMessages == [type : {"none", "query", "notready", "config", "batch"}, batch : Seq(Messages)]

IsReceived(q) == q.messages \in Seq(Messages) /\ q.next \in 0..Len(q.messages)

\* Every variable has the type of the field or local it models; the cursor of
\* a received queue stays inside its vector.
TypeOK ==
  /\ SimTypeOK
  /\ hpc \in {"boot", "status", "idle", "leaving", "start", "wait", "collect", "quit", "join",
              "ended", "destroy", "gone"}
  /\ wpc \in {"recv", "check", "exchange", "send", "failing", "done"}
  /\ phase \in {"startup", "batch"}
  /\ gpc \in {"boot", "call", "query", "querySent", "startupRecv", "retry", "sleep", "send",
              "batchSent", "batchRecv"}
  /\ started \in BOOLEAN /\ failure \in BOOLEAN /\ stopped \in BOOLEAN /\ cancelled \in BOOLEAN
  /\ poll \in BOOLEAN /\ gfailed \in BOOLEAN
  /\ IsReceived(incoming) /\ IsReceived(ready) /\ IsReceived(gincoming)
  /\ request \in Seq(Messages) /\ answer \in WireMessages
  /\ outgoing = [d \in Directions |-> outgoing[d]]
  /\ \A d \in Directions : outgoing[d].entries \in Seq(Entries)
  /\ wire \in [Directions -> WireMessages]
  /\ submitted \in [Directions -> Seq(Entries)]
  /\ taken \in [Directions -> Seq(Messages)] /\ dropped \in [Directions -> Seq(Messages)]

\* Where the accepted messages of a direction are, oldest first.
Pipe ==
  [g2h |-> taken["g2h"] \o Contents(ready) \o dropped["g2h"] \o Contents(incoming)
             \o request \o wire["g2h"].batch \o Payloads(outgoing["g2h"]),
   h2g |-> taken["h2g"] \o Contents(gincoming) \o dropped["h2g"] \o wire["h2g"].batch
             \o answer.batch \o Payloads(outgoing["h2g"])]

Superseded(d, i) ==
  \E j \in i+1..Len(submitted[d]) :
    submitted[d][i].key # NoKey /\ submitted[d][j].key = submitted[d][i].key

\* Nothing is duplicated or reordered between submit() and take(), wherever
\* pauses, failures and shutdown fall: the stages of the data path hold
\* strictly increasing submissions.
Ordered ==
  \A d \in Directions : \A a, b \in DOMAIN Pipe[d] : a < b => Pipe[d][a].id < Pipe[d][b].id

\* Nothing vanishes: an accepted message is somewhere in the data path, or a
\* later message of the same key was submitted while it was pending.
Conserved ==
  \A d \in Directions : \A i \in DOMAIN submitted[d] :
    Superseded(d, i) \/ \E a \in DOMAIN Pipe[d] : Pipe[d][a] = submitted[d][i].data

\* What an application has taken has no hole: an older message that is still
\* missing was replaced by a newer one of its key.
NoGaps ==
  \A d \in Directions : \A i \in DOMAIN submitted[d], a \in DOMAIN taken[d] :
    i < taken[d][a].id =>
      Superseded(d, i) \/ \E b \in DOMAIN taken[d] : taken[d][b] = submitted[d][i].data

\* The two ends agree on the phase of the protocol, so neither ever meets a
\* message it cannot decode, and startup messages carry no application data.
PhaseAgreement ==
  /\ wpc = "recv" => wire["g2h"].type \in
       {"none", IF phase = "startup" THEN "query" ELSE "batch"}
  /\ gpc = "startupRecv" => wire["h2g"].type \in {"none", "notready", "config"}
  /\ gpc = "batchRecv" => wire["h2g"].type \in {"none", "batch"}

\* Batches use the instruction form of the m5 operations, which must never
\* execute under KVM: the CPU switch at workbegin comes first.
InstructionOpsAfterSwitch ==
  gpc \in {"send", "batchSent", "batchRecv"} => sim # "boot"

\* The application runs, and received data changes hands, only while gem5 is
\* paused; a timing session that lost track of gem5 is failed.
PausedBetweenSteps ==
  hpc \in {"idle", "collect"} /\ session # "failed" => sim \in {"paused", "exited"}

\* A stop() that reports success has ended gem5 and joined the worker, so
\* closing the listeners afterwards cannot make gem5 panic.
CleanStop == stopped => sim = "exited" /\ wpc = "done"

\* Some part of the session has failed or is being shut down.
Trouble ==
  \/ failure \/ gfailed \/ done \/ sim = "exited" \/ session # "usable"
  \/ hpc \notin {"boot", "status", "idle", "start", "wait", "collect"}

\* A step returns without the help of the timing deadline: the I/O worker
\* answers the guest while the application thread waits for gem5, so neither
\* waits for the other (serve).
StepReturns == hpc = "wait" ~> hpc # "wait" \/ Trouble

\* Every accepted message is taken on the other side, or a newer one of its
\* key is submitted, unless the session fails or stops.
Delivered ==
  \A d \in Directions : \A i \in 1..MaxSubmits[d] :
    (hpc = "idle" /\ i <= Len(submitted[d])) ~>
      \/ \E a \in DOMAIN taken[d] : taken[d][a].id = i
      \/ Superseded(d, i) \/ Trouble

\* A failure of the worker or of a step never leaves anyone hanging: nobody
\* answers a guest inside a receive operation any more, the step ends by its
\* deadline, the controller is destroyed, and closing the listeners releases
\* gem5 (serve's handler, ~Impl).  This alone relies on the deadlines.
FailureEnds == Deadlines => (failure ~> hpc = "gone" /\ sim \in {"paused", "exited"})

\* close() ends: cancelling the transport releases the worker wherever it is.
StopTerminates == hpc \in {"join", "destroy"} ~> hpc \in {"ended", "gone"}
=============================================================================
