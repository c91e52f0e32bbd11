---------------------------- MODULE TimingSession ----------------------------
(***************************************************************************)
(* Stepping the simulator, with ticks: Gem5TimingController (the client)   *)
(* and TimingServer of chimaera_gem5.py (the server, on gem5's main        *)
(* thread).  The client keeps an ideal timeline, anchored at the tick its  *)
(* first step started from, and asks for the distance from where gem5      *)
(* really is to the next point of that timeline.  gem5 may stop short of a *)
(* budget or run past it.                                                  *)
(*                                                                         *)
(* One command per connection, one outstanding at a time.  A second client *)
(* of the same server (Interfere) is what the client's check of the start  *)
(* tick is for.                                                            *)
(***************************************************************************)
EXTENDS Integers

CONSTANTS
  Intervals,    \* nominal step durations the application asks for (ns)
  MaxInterval,  \* the longest legal interval: one hour in the code
  TicksPerNs,   \* 1000 in the code
  TickMax,      \* UINT64_MAX, which is also m5.MaxTick
  Over, Under,  \* how far past or short of its budget one run of gem5 may stop
  MaxForeign    \* bound: steps made by another client

MaxStepTicks == MaxInterval * TicksPerNs

ASSUME TimingAssumption ==
  /\ MaxInterval \in Nat /\ TicksPerNs \in Nat \ {0} /\ TickMax \in Nat
  /\ Intervals \subseteq 1..MaxInterval
  /\ Over \in Nat /\ Under \in Nat /\ MaxForeign \in Nat

VARIABLES
  \* Gem5TimingController::Impl
  session, open, anchored, nominal_ticks, target_tick, last_tick, first_tick,
  call,      \* the client call in progress
  \* TimingServer
  sim, done, inbox, reply, curTick, run,
  \* history
  planned,   \* sum of the nominal intervals started
  ran,       \* ticks gem5 advanced in runs made for this client
  foreign    \* steps made by another client

clientVars == <<session, open, anchored, nominal_ticks, target_tick, last_tick, first_tick, call>>
serverVars == <<sim, done, inbox, reply, curTick, run>>
vars == <<clientVars, serverVars, planned, ran, foreign>>

NoCommand == [name |-> "none", ticks |-> 0]
NoReply   == [line |-> "none", start |-> 0, end |-> 0]

Init ==
  /\ session = "usable" /\ open = FALSE /\ anchored = FALSE /\ call = "idle"
  /\ nominal_ticks = 0 /\ target_tick = 0 /\ last_tick = 0 /\ first_tick = 0
  /\ sim = "boot" /\ done = FALSE /\ inbox = NoCommand /\ reply = NoReply
  /\ curTick = 0 /\ run = [start |-> 0, target |-> 0]
  /\ planned = 0 /\ ran = 0 /\ foreign = 0

-----------------------------------------------------------------------------
(* Client.                                                                 *)

Ticks == <<anchored, nominal_ticks, target_tick, last_tick, first_tick>>

MayRequest == ~open /\ session \notin {"failed", "stopped"}

Request(name, ticks) ==
  /\ MayRequest /\ sim \in {"paused", "running"}
  /\ open' = TRUE
  /\ inbox' = [name |-> name, ticks |-> ticks]
  /\ UNCHANGED <<session, sim, done, reply, curTick, run>>

\* error(): the session is unusable from here on.
RequestFails ==
  /\ MayRequest
  /\ session' = "failed"
  /\ UNCHANGED <<open, serverVars>>

\* response(): a complete line closes the connection.
Receive(outcome) ==
  /\ open' = FALSE
  /\ reply' = NoReply
  /\ session' = outcome
  /\ UNCHANGED <<sim, done, inbox, curTick, run>>

Max(a, b) == IF a > b THEN a ELSE b
Min(a, b) == IF a < b THEN a ELSE b

\* Fault: each step asks for its own length, whatever the last one did.
StepTicksNominal(nominal) == Min(nominal, MaxStepTicks)

\* The budget of the next request: the distance to the ideal timeline, zero
\* when gem5 is already past it, at most one hour.
StepTicks(nominal) ==
  IF anchored THEN Min(Max(0, target_tick + nominal - last_tick), MaxStepTicks)
              ELSE Min(nominal, MaxStepTicks)

\* start().  A finished session, a pending command, or a cumulative target
\* outside the tick range throws and changes nothing.
Start(interval) ==
  LET nominal == interval * TicksPerNs
  IN  /\ call = "idle" /\ session = "usable"
      /\ anchored => nominal <= TickMax - target_tick
      /\ \/ /\ Request("step", StepTicks(nominal))
            /\ call' = "stepping"
            /\ nominal_ticks' = nominal
            /\ target_tick' = IF anchored THEN target_tick + nominal ELSE target_tick
            /\ planned' = planned + nominal
         \/ RequestFails /\ UNCHANGED <<call, nominal_ticks, target_tick, planned>>
      /\ UNCHANGED <<anchored, last_tick, first_tick, ran, foreign>>

\* After wait() returns to its caller, and after it throws.
Returned == IF call = "draining" THEN "sendQuit" ELSE "idle"

\* Fault: the start tick of an interval is not compared with the last end.
WaitOkTrusting ==
  /\ call \in {"stepping", "draining"} /\ reply.line = "ok"
  /\ Receive(session)
  /\ call' = Returned
  /\ anchored' = TRUE
  /\ target_tick' = IF anchored THEN target_tick ELSE reply.start + nominal_ticks
  /\ first_tick' = IF anchored THEN first_tick ELSE reply.start
  /\ last_tick' = reply.end
  /\ UNCHANGED <<nominal_ticks, planned, ran, foreign>>

\* wait(), from a completed interval: the first one anchors the timeline, a
\* later one must start where the last one ended.
WaitOk ==
  /\ call \in {"stepping", "draining"} /\ reply.line = "ok"
  /\ IF IF anchored THEN reply.start # last_tick ELSE nominal_ticks > TickMax - reply.start
     THEN /\ Receive("failed")
          /\ call' = "idle"
          /\ UNCHANGED Ticks
     ELSE /\ Receive(session)
          /\ call' = Returned
          /\ anchored' = TRUE
          /\ target_tick' = IF anchored THEN target_tick ELSE reply.start + nominal_ticks
          /\ first_tick' = IF anchored THEN first_tick ELSE reply.start
          /\ last_tick' = reply.end
          /\ UNCHANGED nominal_ticks
  /\ UNCHANGED <<planned, ran, foreign>>

\* wait() throws: the simulation finished, the server refused the command, or
\* the deadline passed with the state of gem5 unknown.
WaitThrows ==
  /\ call \in {"stepping", "draining"}
  /\ \/ reply.line = "done" /\ Receive("finished")
     \/ reply.line = "error" /\ Receive("failed")
     \/ reply.line = "none" /\ Receive("failed")
  /\ call' = "idle"
  /\ UNCHANGED <<Ticks, planned, ran, foreign>>

\* wait_until_ready(): STATUS until the server is there and paused.
AskReady ==
  /\ call = "idle"
  /\ \/ Request("status", 0) /\ call' = "readying"
     \/ RequestFails /\ UNCHANGED call
  /\ UNCHANGED <<Ticks, planned, ran, foreign>>

ReadyReply ==
  /\ call = "readying"
  /\ Receive(IF reply.line = "paused" THEN session ELSE "failed")
  /\ call' = "idle"
  /\ UNCHANGED <<Ticks, planned, ran, foreign>>

\* shutdown(): first wait for a step that is still pending.
Shutdown ==
  /\ call \in {"idle", "stepping"} /\ session # "stopped"
  /\ call' = IF call = "stepping" THEN "draining" ELSE "sendQuit"
  /\ UNCHANGED <<session, open, Ticks, serverVars, planned, ran, foreign>>

SendQuit ==
  /\ call = "sendQuit"
  /\ \/ Request("quit", 0) /\ call' = "quitting"
     \/ RequestFails /\ call' = "idle"
     \/ ~MayRequest /\ UNCHANGED <<session, open, serverVars>> /\ call' = "idle"
  /\ UNCHANGED <<Ticks, planned, ran, foreign>>

QuitReply ==
  /\ call = "quitting"
  /\ Receive(IF reply.line = "bye" THEN "stopped" ELSE "failed")
  /\ call' = "idle"
  /\ UNCHANGED <<Ticks, planned, ran, foreign>>

-----------------------------------------------------------------------------
(* Server.                                                                 *)

ServerLeaves == UNCHANGED <<clientVars, planned>>

\* The response to a client that has gone is dropped.
Answer(line, start, end) ==
  /\ inbox' = NoCommand
  /\ reply' = IF open THEN [line |-> line, start |-> start, end |-> end] ELSE NoReply

\* run(): boot to workbegin at whatever tick that is, or the guest ends first.
Boot ==
  /\ sim = "boot"
  /\ sim' \in {"paused", "exited"}
  /\ curTick' \in 0..TickMax
  /\ UNCHANGED <<done, inbox, reply, run, foreign, ran>> /\ ServerLeaves

\* Fault: the longest legal step is refused.
StepRefusedAtCap == inbox.ticks >= MaxStepTicks \/ curTick + inbox.ticks >= TickMax

StepRefused == inbox.ticks > MaxStepTicks \/ curTick + inbox.ticks >= TickMax

\* run_for_ticks, up to its loop.
HandleStep ==
  /\ sim = "paused" /\ inbox.name = "step"
  /\ \/ done /\ Answer("done", curTick, curTick) /\ UNCHANGED <<sim, run>>
     \/ ~done /\ StepRefused /\ Answer("error", 0, 0) /\ UNCHANGED <<sim, run>>
     \/ /\ ~done /\ ~StepRefused /\ inbox.ticks = 0
        /\ Answer("ok", curTick, curTick) /\ UNCHANGED <<sim, run>>
     \/ /\ ~done /\ ~StepRefused /\ inbox.ticks # 0
        /\ sim' = "running"
        /\ run' = [start |-> curTick, target |-> curTick + inbox.ticks]
        /\ UNCHANGED <<inbox, reply>>
  /\ UNCHANGED <<done, curTick, foreign, ran>> /\ ServerLeaves

\* One simulator.run() leaves the tick short of the budget or a bit past it.
Advance(tick) ==
  /\ tick \in curTick..Min(run.target + Over, TickMax)
  /\ curTick' = tick
  /\ ran' = ran + (tick - curTick)

\* MAX_TICK: the loop breaks and reports the actual progress.
RunToMax ==
  /\ sim = "running"
  /\ \E tick \in 0..TickMax :
       Advance(tick) /\ tick >= run.target - Under /\ Answer("ok", run.start, tick)
  /\ sim' = "paused"
  /\ UNCHANGED <<done, run, foreign>> /\ ServerLeaves

\* EXIT or WORKBEGIN: only the rest of the budget is run afterwards.
RunToBoundary ==
  /\ sim = "running"
  /\ \E tick \in 0..TickMax :
       /\ Advance(tick)
       /\ IF tick < run.target
          THEN UNCHANGED <<sim, inbox, reply>>
          ELSE sim' = "paused" /\ Answer("ok", run.start, tick)
  /\ UNCHANGED <<done, run, foreign>> /\ ServerLeaves

\* WORKEND or an event the configuration does not know.
RunToEnd ==
  /\ sim = "running"
  /\ \E tick \in 0..TickMax : Advance(tick) /\ Answer("done", run.start, tick)
  /\ sim' = "paused"
  /\ done' = TRUE
  /\ UNCHANGED <<run, foreign>> /\ ServerLeaves

\* Fault: a finished simulation does not answer STATUS.
HandleStatusSilent ==
  /\ sim = "paused" /\ inbox.name = "status" /\ ~done
  /\ Answer("paused", curTick, curTick)
  /\ UNCHANGED <<sim, done, curTick, run, foreign, ran>> /\ ServerLeaves

\* Fault: STATUS does not look at the end of the simulation.
HandleStatusPaused ==
  /\ sim = "paused" /\ inbox.name = "status"
  /\ Answer("paused", curTick, curTick)
  /\ UNCHANGED <<sim, done, curTick, run, foreign, ran>> /\ ServerLeaves

HandleStatus ==
  /\ sim = "paused" /\ inbox.name = "status"
  /\ Answer(IF done THEN "done" ELSE "paused", curTick, curTick)
  /\ UNCHANGED <<sim, done, curTick, run, foreign, ran>> /\ ServerLeaves

HandleQuit ==
  /\ sim = "paused" /\ inbox.name = "quit"
  /\ Answer("bye", 0, 0)
  /\ sim' = "exited"
  /\ UNCHANGED <<done, curTick, run, foreign, ran>> /\ ServerLeaves

\* A complete step made by another client while the server is idle.
Interfere ==
  /\ sim = "paused" /\ ~done /\ foreign < MaxForeign
  /\ curTick' \in curTick+1..Min(curTick + MaxStepTicks + Over, TickMax)
  /\ foreign' = foreign + 1
  /\ UNCHANGED <<sim, done, inbox, reply, run, ran>> /\ ServerLeaves

Crash ==
  /\ sim # "exited"
  /\ sim' = "exited"
  /\ inbox' = NoCommand
  /\ UNCHANGED <<done, reply, curTick, run, foreign, ran>> /\ ServerLeaves

-----------------------------------------------------------------------------
Serve == HandleStep \/ HandleStatus \/ HandleQuit

Run == RunToMax \/ RunToBoundary \/ RunToEnd

Next ==
  \/ \E interval \in Intervals : Start(interval)
  \/ WaitOk \/ WaitThrows \/ AskReady \/ ReadyReply \/ Shutdown \/ SendQuit \/ QuitReply
  \/ Boot \/ Serve \/ Run \/ Interfere \/ Crash

Spec == Init /\ [][Next]_vars

\* The server loops, a run of gem5 uses up its tick budget, and the client
\* reads a line that is there or notices that the server is gone.  No
\* deadline is relied on.
Fairness ==
  /\ WF_vars(Serve) /\ WF_vars(RunToMax)
  /\ WF_vars(/\ reply # NoReply \/ sim = "exited"
             /\ WaitOk \/ WaitThrows \/ ReadyReply \/ QuitReply)

FairSpec == Spec /\ Fairness
-----------------------------------------------------------------------------
(* Properties.                                                             *)

elapsed_ticks == IF anchored THEN last_tick - first_tick ELSE 0

TickRange == 0..TickMax

\* Ticks stay in the unsigned range, on both sides: no sum or difference of
\* start(), wait() and run_for_ticks wraps.
TypeOK ==
  /\ session \in {"usable", "finished", "failed", "stopped"}
  /\ {open, anchored, done} \subseteq BOOLEAN
  /\ call \in {"idle", "stepping", "draining", "sendQuit", "quitting", "readying"}
  /\ sim \in {"boot", "paused", "running", "exited"}
  /\ nominal_ticks \in 0..MaxStepTicks
  /\ {target_tick, last_tick, first_tick, curTick, run.start, run.target, elapsed_ticks}
       \subseteq TickRange
  /\ inbox \in [name : {"none", "step", "status", "quit"}, ticks : 0..MaxStepTicks]
  /\ reply \in [line : {"none", "ok", "done", "paused", "bye", "error"},
                start : TickRange, end : TickRange]
  /\ planned \in Nat /\ ran \in Nat /\ foreign \in 0..MaxForeign

\* The client is between calls and knows what gem5 did.
InControl == session = "usable" /\ anchored /\ call = "idle"

\* The cap of one hour never holds back a correction.
CapIsSlack == \A interval \in Intervals : interval * TicksPerNs + Under <= MaxStepTicks

\* Drift does not accumulate: however many steps over- or undershoot, what
\* gem5 has run differs from what was asked for by at most one over- or
\* undershoot (start: "Preserve the ideal timeline").
BoundedDrift ==
  InControl =>
    /\ elapsed_ticks <= planned + Over
    /\ CapIsSlack => elapsed_ticks >= planned - Under

\* elapsed_ticks counts the ticks run for this session and no others, even
\* when another client steps the same server: that is noticed before the next
\* interval is accepted.
OwnTicksOnly == InControl => elapsed_ticks = ran

\* Between calls gem5 stands where the client believes it stands.
Synchronised ==
  InControl /\ foreign = 0 => sim \in {"paused", "exited"} /\ curTick = last_tick

\* The two ends agree on the longest step: the server refuses a request only
\* when the tick range is exhausted.
NeverRefused == reply.line = "error" => curTick + MaxStepTicks >= TickMax

\* Every command is answered, or its connection is seen to break, without
\* relying on the deadline.
Answered == open ~> ~open

\* Without the ticks this is the stepping that the data path relies on.
Control == INSTANCE SimControl WITH inbox <- inbox.name, reply <- reply.line

Stepping == Control!SimSpec
=============================================================================
