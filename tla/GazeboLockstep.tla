--------------------------- MODULE GazeboLockstep ---------------------------
(***************************************************************************)
(* gem5 and Gazebo in lockstep: the timing controller of the Gazebo host   *)
(* bridge (gazebo_timing_controller.hpp) advances gem5 by an interval,     *)
(* publishes the guest's commands, then lets paused Gazebo run the same    *)
(* interval with multi_step, whose end it learns from world statistics.    *)
(* gem5 is stepped as in SimControl.  Gazebo is another process: requests, *)
(* acknowledgements and statistics are in flight, and statistics describe  *)
(* the world at the time they were published.                              *)
(***************************************************************************)
EXTENDS Naturals, Sequences, SimControl

CONSTANTS Counts,       \* physics steps in an interval the caller may ask for
          PhysicsStep,  \* physics_step_ns, as configured
          WorldSteps,   \* what an iteration of the world may really take
          MaxSteps,     \* bound: calls of step()
          MaxStats      \* bound: statistics in flight; more are lost

ASSUME LockstepAssumption ==
  /\ Counts \subseteq Nat \ {0} /\ PhysicsStep \in Nat \ {0} /\ WorldSteps \subseteq Nat \ {0}
  /\ MaxSteps \in Nat /\ MaxStats \in Nat

VARIABLES
  cpc,        \* controller thread, between calls "idle"
  count,      \* interval_ / physics_step_ of the last call
  pending,    \* pending_
  seen, known, target,   \* last statistics received; target_ and target_time_
  world,      \* Gazebo: iterations and simulation time
  left,       \* Gazebo: iterations still to run; 0 is paused
  control,    \* world control request in flight: its multi_step, or 0
  ack,        \* its answer: "none", "yes", "no"
  stats,      \* statistics in flight, oldest first
  calls, due, published   \* history: calls; nominal time of the steps that
                          \* succeeded; gem5's commands of this step are out

ctlVars == <<cpc, count, pending, seen, known, target, calls, due, published>>
gzVars  == <<world, left, control, ack, stats>>
vars    == <<ctlVars, gzVars, simVars>>

At(i, t) == [iterations |-> i, time |-> t]

Interval(n) == n * PhysicsStep

Init ==
  /\ SimInit
  /\ cpc = "boot" /\ count = 0 /\ pending = FALSE
  /\ seen = FALSE /\ known = [at |-> At(0, 0), paused |-> FALSE] /\ target = At(0, 0)
  /\ world = At(0, 0) /\ left = 0 /\ control = 0 /\ ack = "none" /\ stats = <<>>
  /\ calls = 0 /\ due = 0 /\ published = FALSE

-----------------------------------------------------------------------------
(* Controller thread.                                                      *)

Goto(label) == cpc' = label /\ UNCHANGED <<seen, known, calls>>

CallVars == <<count, pending, target, due, published>>

\* wait_until_ready: gem5 is paused, then statistics say that Gazebo is.
AskReady ==
  /\ cpc = "boot" /\ Request("status") /\ Goto("status")
  /\ UNCHANGED <<CallVars, gzVars>>

Ready ==
  /\ \/ cpc = "status" /\ Receive("paused", session) /\ Goto("statistics")
     \/ cpc = "statistics" /\ seen /\ known.paused /\ UNCHANGED simVars /\ Goto("idle")
  /\ UNCHANGED <<CallVars, gzVars>>

NotReady ==
  /\ \/ cpc = "status" /\ (Receive("done", "failed") \/ GiveUp)
     \/ cpc = "boot" /\ RequestFails
     \/ cpc \in {"boot", "statistics"} /\ UNCHANGED simVars
  /\ Goto("leaving")
  /\ UNCHANGED <<CallVars, gzVars>>

\* Entry of start; busy is the test for a step that is not over.
Call(n, busy) ==
  /\ cpc = "idle" /\ calls < MaxSteps
  /\ calls' = calls + 1
  /\ IF busy
     THEN UNCHANGED <<cpc, count, pending, published>>
     ELSE cpc' = "gem5" /\ count' = n /\ pending' = TRUE /\ published' = FALSE
  /\ UNCHANGED <<seen, known, target, due, gzVars, simVars>>

\* Fault: a step is accepted whatever became of the one before.
StepCallAgain(n) == Call(n, FALSE)

\* A step after a failed one is refused: only a wait that succeeds resets
\* pending_.
StepCall(n) == Call(n, pending)

\* bridge_.exchange, then host_.step: gem5 runs the interval, or the step fails.
StepGem5 ==
  /\ cpc = "gem5" /\ session = "usable" /\ Request("step") /\ Goto("gem5wait")
  /\ UNCHANGED <<CallVars, gzVars>>

Gem5Done ==
  /\ cpc = "gem5wait" /\ Receive("ok", session) /\ Goto("publish")
  /\ UNCHANGED <<CallVars, gzVars>>

Gem5Fails ==
  /\ \/ cpc = "gem5" /\ session = "usable" /\ RequestFails
     \/ cpc = "gem5wait" /\ (Receive("done", "finished") \/ Receive("error", "failed") \/ GiveUp)
  /\ Goto("idle")
  /\ UNCHANGED <<CallVars, gzVars>>

\* The second exchange publishes the guest's commands; settle.
Publish ==
  /\ cpc = "publish" /\ published' = TRUE /\ Goto("target")
  /\ UNCHANGED <<count, pending, target, due, gzVars, simVars>>

\* Under the mutex: where Gazebo will be, counted from the last statistics.
SetTarget ==
  /\ cpc = "target" /\ seen /\ known.paused
  /\ target' = At(known.at.iterations + count, known.at.time + Interval(count))
  /\ Goto("request")
  /\ UNCHANGED <<count, pending, due, published, gzVars, simVars>>

\* multi_step with pause, answered through a callback.
RequestStep ==
  /\ cpc = "request" /\ control' = count /\ ack' = "none" /\ Goto("reply")
  /\ UNCHANGED <<CallVars, world, left, stats, simVars>>

Accepted ==
  /\ cpc = "reply" /\ ack = "yes" /\ Goto("wait")
  /\ UNCHANGED <<CallVars, gzVars, simVars>>

AtLeastTarget == known.at.iterations >= target.iterations /\ known.paused

FinishedIf(exact) ==
  /\ cpc = "wait" /\ AtLeastTarget /\ exact /\ Goto("settle")
  /\ UNCHANGED <<CallVars, gzVars, simVars>>

\* Fault: the simulation time is not compared.
FinishedByCount == FinishedIf(known.at.iterations = target.iterations)

\* wait: the statistics have reached the target, exactly.
Finished == FinishedIf(known.at = target)

\* Callbacks settle, and the step has succeeded.
Settle ==
  /\ cpc = "settle" /\ pending' = FALSE /\ due' = due + Interval(count) /\ Goto("idle")
  /\ UNCHANGED <<count, target, published, gzVars, simVars>>

Refusal(because) ==
  /\ because /\ Goto("idle")
  /\ UNCHANGED <<CallVars, gzVars, simVars>>

NotPaused == cpc = "target" /\ ~(seen /\ known.paused)

Mismatch == cpc = "wait" /\ AtLeastTarget /\ known.at # target

\* Fault: a refusal is not told from no answer.
RefusedUnheard == Refusal(NotPaused \/ Mismatch)

\* start and wait throw: Gazebo is not paused, rejects the request, or is past
\* the target or at another time than it.
Refused == Refusal(NotPaused \/ Mismatch \/ (cpc = "reply" /\ ack = "no"))

\* An exchange or a callback throws, the caller cancels, or a deadline passes:
\* step() reports a failure, and pending_ stays set.
Throw ==
  /\ cpc \in {"gem5", "publish", "target", "request", "reply", "wait", "settle"}
  /\ Goto("idle")
  /\ UNCHANGED <<CallVars, gzVars, simVars>>

\* stop(): QUIT, as in DataExchange.
Stop ==
  /\ \/ cpc \in {"idle", "leaving"} /\ Request("quit") /\ Goto("quit")
     \/ cpc \in {"idle", "leaving"} /\ RequestFails /\ Goto("ended")
     \/ cpc \in {"idle", "leaving"} /\ session = "failed" /\ UNCHANGED simVars /\ Goto("ended")
     \/ cpc = "quit" /\ Receive("bye", "stopped") /\ Goto("ended")
     \/ cpc = "quit" /\ GiveUp /\ Goto("ended")
  /\ UNCHANGED <<CallVars, gzVars>>

-----------------------------------------------------------------------------
(* Gazebo, and the callbacks on its transport's threads.                   *)

GazeboLeaves == UNCHANGED <<cpc, CallVars, calls, simVars>>

\* A control request is accepted, or refused, and answered.
Control ==
  /\ control > 0 /\ control' = 0
  /\ \/ left' = control /\ ack' = "yes"
     \/ left' = left /\ ack' = "no"
  /\ GazeboLeaves /\ UNCHANGED <<seen, known, world, stats>>

Iterate ==
  /\ left > 0 /\ left' = left - 1
  /\ \E ns \in WorldSteps : world' = At(world.iterations + 1, world.time + ns)
  /\ GazeboLeaves /\ UNCHANGED <<seen, known, control, ack, stats>>

\* Statistics are published; whether a stepping world counts as paused is not
\* relied on.
PublishStats ==
  /\ Len(stats) < MaxStats
  /\ \E paused \in BOOLEAN :
       /\ left = 0 => paused
       /\ stats' = Append(stats, [at |-> world, paused |-> paused])
  /\ GazeboLeaves /\ UNCHANGED <<seen, known, world, left, control, ack>>

\* The stats callback, under the mutex.
Stats ==
  /\ stats # <<>>
  /\ seen' = TRUE /\ known' = Head(stats) /\ stats' = Tail(stats)
  /\ GazeboLeaves /\ UNCHANGED <<world, left, control, ack>>

\* gem5.
Simulator == Server /\ UNCHANGED <<ctlVars, gzVars>>

-----------------------------------------------------------------------------
Proceed ==
  \/ AskReady \/ Ready \/ StepGem5 \/ Gem5Done \/ Publish \/ SetTarget \/ RequestStep
  \/ Accepted \/ Finished \/ Refused \/ Settle

Gazebo == Control \/ Iterate \/ PublishStats \/ Stats

Next ==
  \/ Proceed \/ Throw \/ NotReady \/ Gem5Fails \/ Stop \/ (\E n \in Counts : StepCall(n))
  \/ Gazebo \/ Simulator

Spec == Init /\ [][Next]_vars

\* The controller thread runs; Gazebo serves requests, iterates, and publishes
\* statistics that arrive; gem5 executes the command it was sent, and its
\* answer or its death is noticed.  No deadline is relied on.
FairSpec ==
  /\ Spec /\ WF_vars(Proceed) /\ WF_vars(Gem5Fails /\ (reply # "none" \/ sim = "exited"))
  /\ WF_vars(Control) /\ WF_vars(Iterate) /\ SF_vars(PublishStats) /\ WF_vars(Stats)
  /\ WF_vars(Simulator /\ ~Die)

-----------------------------------------------------------------------------
(* Properties.                                                             *)

StepLabels == {"gem5", "gem5wait", "publish", "target", "request", "reply", "wait", "settle"}

TypeOK ==
  /\ SimTypeOK
  /\ cpc \in {"boot", "status", "statistics", "idle", "leaving", "quit", "ended"} \cup StepLabels
  /\ count \in Nat /\ pending \in BOOLEAN /\ seen \in BOOLEAN /\ published \in BOOLEAN
  /\ known \in [at : [iterations : Nat, time : Nat], paused : BOOLEAN]
  /\ target \in [iterations : Nat, time : Nat] /\ world \in [iterations : Nat, time : Nat]
  /\ left \in Nat /\ control \in Nat /\ ack \in {"none", "yes", "no"}
  /\ stats \in Seq([at : [iterations : Nat, time : Nat], paused : BOOLEAN])
  /\ calls \in Nat /\ due \in Nat

\* Gazebo has work: a request under way, or iterations to run.
Stepping == control > 0 \/ left > 0

\* "Serial, explicit coupling": the two simulators never run at the same time,
\* and Gazebo starts an interval only after the guest's commands for it are
\* out, even when a step has failed with a request still under way and the
\* caller steps again.
SerialCoupling == Stepping => sim # "running" /\ inbox # "step" /\ published

\* A step that succeeded has advanced Gazebo by exactly its interval and left
\* it paused, although the target and the end of the step come from
\* statistics that may be old: the world is where the intervals add up to.
VerifiedStep == ~pending => ~Stepping /\ world.time = due

\* A step ends without the help of a deadline, whatever fails: statistics are
\* published and delivered often enough that one of them shows the end.
StepEnds == cpc \in StepLabels ~> cpc \notin StepLabels
=============================================================================
