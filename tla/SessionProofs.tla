--------------------------- MODULE SessionProofs ----------------------------
(***************************************************************************)
(* What a session with gem5 relies on: its time is stepped as asked        *)
(* (TimingSession.tla), for all intervals, tick ranges and bounds on over- *)
(* and undershoot, and no process outlives its supervisor                  *)
(* (Supervisor.tla), for all lists of commands.                            *)
(***************************************************************************)
EXTENDS TimingSession, Supervisor, TLAPS

-----------------------------------------------------------------------------
(* The inductive invariant.                                                *)

Lines    == {"none", "ok", "done", "paused", "bye", "error"}
Requests == [name : {"none", "step", "status", "quit"}, ticks : 0..MaxStepTicks]
Replies  == [line : Lines, start : TickRange, end : TickRange]
Runs     == [start : TickRange, target : TickRange]

Shape ==
  /\ session \in {"usable", "finished", "failed", "stopped"}
  /\ open \in BOOLEAN /\ anchored \in BOOLEAN /\ done \in BOOLEAN
  /\ call \in {"idle", "stepping", "draining", "sendQuit", "quitting", "readying"}
  /\ sim \in {"boot", "paused", "running", "exited"}
  /\ nominal_ticks \in 0..MaxStepTicks
  /\ target_tick \in TickRange /\ last_tick \in TickRange /\ first_tick \in TickRange
  /\ curTick \in TickRange
  /\ run \in Runs /\ inbox \in Requests /\ reply \in Replies
  /\ planned \in Nat /\ ran \in Nat /\ foreign \in 0..MaxForeign

InStep == call \in {"stepping", "draining"}

\* One command outstanding at a time; a session that has not failed knows
\* whether the server still has something to do.
Protocol ==
  /\ open <=> call \in {"stepping", "draining", "quitting", "readying"}
  /\ session = "failed" => ~open
  /\ ~open => reply = NoReply
  /\ sim = "running" => inbox.name = "step"
  /\ ~open /\ session # "failed" => inbox.name = "none"
  /\ reply.line # "none" => inbox.name = "none"
  /\ InStep => session = "usable" /\ inbox.name \in {"none", "step"}
  /\ open /\ ~InStep => inbox.name # "step"
  /\ sim = "boot" => ~open /\ inbox.name = "none" /\ ~anchored

\* The budget of the step under way.
Budget == IF anchored THEN Min(Max(0, target_tick - last_tick), MaxStepTicks) ELSE nominal_ticks

\* What has been run of it so far, and what the reply says of it.
Progress ==
  /\ InStep => 0 < nominal_ticks /\ (CapIsSlack => nominal_ticks + Under <= MaxStepTicks)
  /\ sim = "running" =>
       /\ run.target = run.start + inbox.ticks
       /\ run.start <= curTick /\ 0 < inbox.ticks
  /\ InStep /\ inbox.name = "step" => inbox.ticks = Budget
  /\ InStep /\ reply.line = "ok" =>
       /\ reply.start <= reply.end
       /\ \/ Budget = 0 /\ reply.end = reply.start
          \/ /\ 0 < Budget /\ reply.end <= reply.start + Budget + Over
             /\ reply.end >= reply.start + Budget - Under

\* The ideal timeline.
Plan ==
  /\ anchored => target_tick = first_tick + planned /\ first_tick <= last_tick
  /\ ~anchored /\ session = "usable" => planned = IF InStep THEN nominal_ticks ELSE 0

Drift ==
  LET reached == IF InStep THEN target_tick - nominal_ticks ELSE target_tick
  IN  anchored /\ session = "usable" =>
        last_tick <= reached + Over /\ (CapIsSlack => last_tick >= reached - Under)

\* Ticks run for this client, up to where it has been told.
Own ==
  session = "usable" =>
    /\ ~InStep \/ (inbox.name = "step" /\ sim # "running") => ran = elapsed_ticks
    /\ InStep /\ sim = "running" => ran = elapsed_ticks + (curTick - run.start)
    /\ InStep /\ reply.line = "ok" => ran = elapsed_ticks + (reply.end - reply.start)

Sync ==
  session = "usable" /\ foreign = 0 =>
    /\ anchored /\ ~InStep => curTick = last_tick
    /\ InStep /\ reply.line = "ok" => curTick = reply.end

Refusal == reply.line = "error" => curTick + MaxStepTicks >= TickMax

Inv == Shape /\ Protocol /\ Progress /\ Plan /\ Drift /\ Own /\ Sync /\ Refusal

-----------------------------------------------------------------------------
(* Facts about the constants and the record types.                         *)

\* A legal interval is a positive number of ticks, within the cap.
LEMMA NominalInRange ==
  ASSUME NEW interval \in Intervals
  PROVE  interval * TicksPerNs \in 1..MaxStepTicks
<1>1. interval \in 1..MaxInterval BY TimingAssumption
<1>2. interval * TicksPerNs <= MaxInterval * TicksPerNs
  BY <1>1, TimingAssumption, SMT
<1>3. interval * TicksPerNs \in Nat /\ interval * TicksPerNs >= 1
  BY <1>1, TimingAssumption, SMT
<1> QED BY <1>2, <1>3, TimingAssumption, SMT DEF MaxStepTicks

\* max_step_ticks is a natural number for every interval limit.
LEMMA CapIsNat == MaxStepTicks \in Nat
BY TimingAssumption, SMT DEF MaxStepTicks

\* The absent reply and the absent command are typed.
LEMMA EmptyRecords == NoReply \in Replies /\ NoCommand \in Requests
BY TimingAssumption, CapIsNat DEF NoReply, NoCommand, Replies, Requests, Lines, TickRange

\* A response line with ticks in range is typed.
LEMMA ReplyType ==
  ASSUME NEW line \in Lines, NEW start \in TickRange, NEW end \in TickRange
  PROVE  [line |-> line, start |-> start, end |-> end] \in Replies
BY DEF Replies

\* The state before the first connection satisfies the invariant.
LEMMA InitEstablishes == Init => Inv
<1> SUFFICES ASSUME Init PROVE Inv OBVIOUS
<1> USE TimingAssumption, CapIsNat DEF Init, InStep
<1>0. 0 \in TickRange /\ 0 \in 0..MaxStepTicks /\ 0 \in 0..MaxForeign BY DEF TickRange
<1>a. run \in Runs BY <1>0 DEF Runs
<1>1. Shape BY <1>0, <1>a, EmptyRecords DEF Shape
<1>2. Protocol BY DEF Protocol, NoCommand, NoReply
<1>3. Progress BY DEF Progress
<1>4. Plan /\ Drift BY DEF Plan, Drift
<1>5. Own /\ Sync /\ Refusal BY DEF Own, Sync, Refusal, elapsed_ticks, NoCommand, NoReply
<1> QED BY <1>1, <1>2, <1>3, <1>4, <1>5 DEF Inv

-----------------------------------------------------------------------------
(* Client actions preserve the invariant.                                  *)

\* step() keeps the invariant when it computes its ticks and sends STEP_TICKS.
LEMMA StartPreserves ==
  ASSUME Inv, NEW interval \in Intervals, Start(interval)
  PROVE  Inv'
<1> DEFINE nominal == interval * TicksPerNs
<1>0. nominal \in 1..MaxStepTicks BY NominalInRange
<1>a. CapIsSlack => nominal + Under <= MaxStepTicks BY DEF CapIsSlack
<1>b. StepTicks(nominal) \in 0..MaxStepTicks
  BY <1>0, CapIsNat, TimingAssumption DEF StepTicks, Min, Max, Inv, Shape, TickRange
<1>c. /\ call = "idle" /\ session = "usable"
      /\ anchored => nominal <= TickMax - target_tick
      /\ UNCHANGED <<anchored, last_tick, first_tick, ran, foreign>>
  BY DEF Start
<1>1. CASE /\ Request("step", StepTicks(nominal))
           /\ call' = "stepping"
           /\ nominal_ticks' = nominal
           /\ target_tick' = IF anchored THEN target_tick + nominal ELSE target_tick
           /\ planned' = planned + nominal
  <2> HIDE DEF nominal
  <2> USE TimingAssumption, CapIsNat, <1>0, <1>a, <1>b, <1>c, <1>1
      DEF Inv, Shape, Protocol, InStep, TickRange, Request, MayRequest
  <2>1. inbox' \in Requests BY DEF Requests
  <2>2. Shape' BY <2>1
  <2>3. Protocol' BY DEF NoReply
  <2>4. Progress' BY DEF Progress, Budget, StepTicks, Min, Max, NoReply, CapIsSlack
  <2>5. Plan' BY DEF Plan
  <2>6. Drift' BY DEF Drift, CapIsSlack
  <2>7. Own' BY DEF Own, elapsed_ticks, NoReply
  <2>8. Sync' /\ Refusal' BY DEF Sync, Refusal, NoReply
  <2> QED BY <2>2, <2>3, <2>4, <2>5, <2>6, <2>7, <2>8
<1>2. CASE RequestFails /\ UNCHANGED <<call, nominal_ticks, target_tick, planned>>
  BY <1>c, <1>2, TimingAssumption, CapIsNat
  DEF RequestFails, MayRequest, serverVars, Inv, Shape, Protocol, InStep, Progress, Budget,
      Plan, Drift, Own, Sync, Refusal
<1> QED BY <1>1, <1>2 DEF Start

\* step() keeps the invariant when it accepts the OK or DONE line.
LEMMA WaitOkPreserves ==
  ASSUME Inv, WaitOk
  PROVE  Inv'
<1> USE TimingAssumption, CapIsNat, EmptyRecords
    DEF Inv, Shape, Protocol, InStep, TickRange, WaitOk, Receive
<1>0. /\ reply.start \in TickRange /\ reply.end \in TickRange
      /\ reply.line = "ok" /\ session = "usable" /\ UNCHANGED <<planned, ran, foreign>>
  BY DEF Replies
<1>1. CASE /\ Receive("failed") /\ call' = "idle" /\ UNCHANGED Ticks
  BY <1>0, <1>1
  DEF Ticks, NoReply, Progress, Budget, Plan, Drift, Own, Sync, Refusal, elapsed_ticks
<1>2. CASE ~(IF anchored THEN reply.start # last_tick ELSE nominal_ticks > TickMax - reply.start)
  <2>0. /\ Receive(session) /\ call' = Returned /\ anchored' = TRUE
        /\ target_tick' = IF anchored THEN target_tick ELSE reply.start + nominal_ticks
        /\ first_tick' = IF anchored THEN first_tick ELSE reply.start
        /\ last_tick' = reply.end
        /\ UNCHANGED nominal_ticks
    BY <1>2
  <2> USE <1>0, <1>2, <2>0
  <2>1. call' \in {"idle", "sendQuit"} BY DEF Returned
  <2>a. target_tick' \in TickRange /\ first_tick' \in TickRange /\ last_tick' \in TickRange
    OBVIOUS
  <2>2. Shape' BY <2>1, <2>a
  <2>3. Protocol' BY <2>1, <2>2 DEF NoReply
  <2>4. Progress' BY <2>1 DEF Progress, NoReply
  <2>5. Plan' BY <2>1 DEF Plan, Progress
  <2>6. Drift'
    <3>1. CASE anchored
      <4>1. /\ last_tick <= target_tick - nominal_ticks + Over
            /\ CapIsSlack => last_tick >= target_tick - nominal_ticks - Under
        BY <3>1 DEF Drift
      <4>2. \/ Budget = 0 /\ reply.end = last_tick
            \/ /\ 0 < Budget /\ reply.end <= last_tick + Budget + Over
               /\ reply.end >= last_tick + Budget - Under
        BY <3>1 DEF Progress
      <4>3. /\ Budget \in Nat /\ Budget <= Max(0, target_tick - last_tick)
            /\ CapIsSlack => Budget = Max(0, target_tick - last_tick)
        BY <3>1, <4>1 DEF Budget, Min, Max, Progress
      <4>4. /\ reply.end <= target_tick + Over
            /\ CapIsSlack => reply.end >= target_tick - Under
        BY <4>1, <4>2, <4>3 DEF Max
      <4> QED BY <2>1, <3>1, <4>4 DEF Drift, CapIsSlack
    <3>2. CASE ~anchored BY <2>1, <3>2 DEF Progress, Budget, Drift
    <3> QED BY <3>1, <3>2
  <2>7. Own'
    <3>1. session' = "usable" => ran = elapsed_ticks + (reply.end - reply.start) BY DEF Own
    <3>2. ran' = ran /\ elapsed_ticks' = reply.end - first_tick' BY DEF elapsed_ticks
    <3>3. elapsed_ticks + (reply.end - reply.start) = reply.end - first_tick' BY DEF elapsed_ticks
    <3>4. session' = "usable" => ran' = elapsed_ticks' BY <3>1, <3>2, <3>3
    <3> QED BY <2>1, <3>4 DEF Own
  <2>8. Sync' /\ Refusal' BY <2>1 DEF Sync, Refusal, NoReply
  <2> QED BY <2>2, <2>3, <2>4, <2>5, <2>6, <2>7, <2>8
<1> QED BY <1>1, <1>2

\* A request that throws keeps the invariant: the session is failed.
LEMMA WaitThrowsPreserves ==
  ASSUME Inv, WaitThrows
  PROVE  Inv'
<1> USE TimingAssumption, CapIsNat, EmptyRecords
    DEF Inv, Shape, Protocol, InStep, TickRange, WaitThrows, Receive, Ticks
<1>1. Shape' OBVIOUS
<1>2. Protocol' BY DEF NoReply
<1>3. Progress' BY DEF Progress, NoReply
<1>4. Plan' /\ Drift' BY DEF Plan, Drift
<1>5. Own' /\ Sync' /\ Refusal' BY DEF Own, Sync, Refusal, NoReply
<1> QED BY <1>1, <1>2, <1>3, <1>4, <1>5

\* wait_until_ready() keeps the invariant, asking and answered.
LEMMA ReadyPreserves ==
  ASSUME Inv, AskReady \/ ReadyReply
  PROVE  Inv'
<1> USE TimingAssumption, CapIsNat, EmptyRecords
    DEF Inv, Shape, Protocol, InStep, TickRange, AskReady, ReadyReply, Request, RequestFails,
        MayRequest, Receive, Ticks, serverVars
<1>0. inbox' \in Requests BY DEF Requests
<1>1. Shape' BY <1>0
<1>2. Protocol' BY DEF NoReply
<1>3. Progress' BY DEF Progress, NoReply
<1>4. Plan' /\ Drift' BY DEF Plan, Drift, CapIsSlack
<1>5. Own' BY DEF Own, NoReply, elapsed_ticks
<1>6. Sync' /\ Refusal' BY DEF Sync, Refusal, NoReply
<1> QED BY <1>1, <1>2, <1>3, <1>4, <1>5, <1>6

\* shutdown() keeps the invariant.
LEMMA ShutdownPreserves ==
  ASSUME Inv, Shutdown \/ SendQuit \/ QuitReply
  PROVE  Inv'
<1> USE TimingAssumption, CapIsNat, EmptyRecords
    DEF Inv, Shape, Protocol, InStep, TickRange, Shutdown, SendQuit, QuitReply, Request,
        RequestFails, MayRequest, Receive, Ticks, serverVars
<1>0. inbox' \in Requests BY DEF Requests
<1>1. Shape' BY <1>0
<1>2. Protocol' BY DEF NoReply
<1>3. Progress' BY DEF Progress, Budget, NoReply, CapIsSlack
<1>4. Plan' /\ Drift' BY DEF Plan, Drift, CapIsSlack
<1>5. Own' BY DEF Own, NoReply, elapsed_ticks
<1>6. Sync' /\ Refusal' BY DEF Sync, Refusal, NoReply
<1> QED BY <1>1, <1>2, <1>3, <1>4, <1>5, <1>6

-----------------------------------------------------------------------------
(* Server actions preserve the invariant.                                  *)

\* The server never touches what the client has recorded.
LEMMA ClientKept ==
  ASSUME ServerLeaves
  PROVE  /\ UNCHANGED <<session, open, anchored, nominal_ticks, target_tick, last_tick,
                        first_tick, call, planned>>
         /\ elapsed_ticks' = elapsed_ticks /\ Budget' = Budget /\ InStep' = InStep
         /\ (Plan => Plan') /\ (Drift => Drift')
BY DEF ServerLeaves, clientVars, elapsed_ticks, Budget, InStep, Plan, Drift, CapIsSlack, Min, Max

\* The server keeps the invariant when it starts or refuses a STEP_TICKS.
LEMMA StepPreserves ==
  ASSUME Inv, HandleStep
  PROVE  Inv'
<1> USE TimingAssumption, CapIsNat, EmptyRecords, ClientKept
    DEF Inv, Shape, Protocol, TickRange, HandleStep
<1>0. /\ sim = "paused" /\ inbox.name = "step" /\ inbox.ticks \in 0..MaxStepTicks
      /\ reply.line = "none" /\ UNCHANGED <<done, curTick, foreign, ran>>
  BY DEF Requests
<1>1. CASE done /\ Answer("done", curTick, curTick) /\ UNCHANGED <<sim, run>>
  <2>1. reply' \in Replies BY <1>1, ReplyType DEF Answer, Lines
  <2> QED BY <1>0, <1>1, <2>1
      DEF Answer, NoReply, NoCommand, Progress, Own, Sync, Refusal, InStep
<1>2. CASE ~done /\ curTick + inbox.ticks >= TickMax /\ Answer("error", 0, 0)
           /\ UNCHANGED <<sim, run>>
  <2>1. reply' \in Replies BY <1>2, ReplyType DEF Answer, Lines
  <2> QED BY <1>0, <1>2, <2>1
      DEF Answer, NoReply, NoCommand, Progress, Own, Sync, Refusal, InStep
<1>3. CASE ~done /\ inbox.ticks = 0 /\ Answer("ok", curTick, curTick) /\ UNCHANGED <<sim, run>>
  <2>1. reply' \in Replies BY <1>3, ReplyType DEF Answer, Lines
  <2> QED BY <1>0, <1>3, <2>1
      DEF Answer, NoReply, NoCommand, Progress, Own, Sync, Refusal, InStep
<1>4. CASE /\ ~done /\ inbox.ticks # 0 /\ curTick + inbox.ticks < TickMax
           /\ sim' = "running"
           /\ run' = [start |-> curTick, target |-> curTick + inbox.ticks]
           /\ UNCHANGED <<inbox, reply>>
  <2>1. run' \in Runs BY <1>0, <1>4 DEF Runs
  <2> QED BY <1>0, <1>4, <2>1 DEF Progress, Own, Sync, Refusal, InStep
<1> QED BY <1>0, <1>1, <1>2, <1>3, <1>4 DEF StepRefused

\* One run of gem5 leaves the tick in range, not behind where it started and
\* at most Over past the end of the budget.
LEMMA AdvanceBounds ==
  ASSUME Inv, sim = "running", NEW tick \in TickRange, Advance(tick)
  PROVE  /\ curTick' = tick /\ ran' = ran + (tick - curTick) /\ ran' \in Nat
         /\ curTick <= tick /\ tick <= run.target + Over
         /\ run.start <= tick /\ run.start \in TickRange /\ run.target \in TickRange
         /\ run.target = run.start + inbox.ticks /\ inbox.ticks \in 0..MaxStepTicks
         /\ elapsed_ticks \in Int
BY TimingAssumption, CapIsNat
DEF Advance, Min, Inv, Shape, Runs, Requests, TickRange, Progress, elapsed_ticks

\* The loop ends with the budget used up, as far as gem5 allows.
LEMMA HaltPreserves ==
  ASSUME Inv, sim = "running", NEW tick \in TickRange, Advance(tick),
         tick >= run.target - Under,
         Answer("ok", run.start, tick), sim' = "paused",
         UNCHANGED <<done, run, foreign>>, ServerLeaves
  PROVE  Inv'
<1> USE TimingAssumption, CapIsNat, EmptyRecords, ClientKept, AdvanceBounds
    DEF Inv, Shape, Protocol, TickRange
<1>1. reply' \in Replies BY ReplyType DEF Answer, Lines
<1>2. Shape' BY <1>1 DEF Answer
<1>3. Protocol' BY DEF Answer, NoReply, NoCommand, InStep
<1>4. Progress' BY DEF Progress, Answer, NoReply, NoCommand, InStep, CapIsSlack
<1>5. Own' BY DEF Own, Answer, NoReply, NoCommand, InStep
<1>6. Sync' /\ Refusal' BY DEF Sync, Refusal, Answer, NoReply, InStep
<1> QED BY <1>2, <1>3, <1>4, <1>5, <1>6

\* Each event that run_for_ticks handles keeps the invariant.
LEMMA RunPreserves ==
  ASSUME Inv, Run
  PROVE  Inv'
<1> USE TimingAssumption, CapIsNat DEF TickRange
<1>1. CASE RunToMax BY <1>1, HaltPreserves DEF RunToMax
<1>2. CASE RunToBoundary
  <2>1. PICK tick \in TickRange :
          /\ Advance(tick)
          /\ IF tick < run.target
             THEN UNCHANGED <<sim, inbox, reply>>
             ELSE sim' = "paused" /\ Answer("ok", run.start, tick)
    BY <1>2 DEF RunToBoundary
  <2>2. CASE tick < run.target
    BY <1>2, <2>1, <2>2, ClientKept, AdvanceBounds
    DEF RunToBoundary, Inv, Shape, Protocol, Progress, Own, Sync, Refusal, InStep, CapIsSlack
  <2>3. CASE ~(tick < run.target)
    <3>1. tick >= run.target - Under BY <1>2, <2>1, <2>3, AdvanceBounds DEF RunToBoundary
    <3> QED BY <1>2, <2>1, <2>3, <3>1, HaltPreserves DEF RunToBoundary
  <2> QED BY <2>2, <2>3
<1>3. CASE RunToEnd
  <2>1. PICK tick \in TickRange : Advance(tick) /\ Answer("done", run.start, tick)
    BY <1>3 DEF RunToEnd
  <2>2. reply' \in Replies
    BY <1>3, <2>1, AdvanceBounds, EmptyRecords, ReplyType DEF RunToEnd, Answer, Lines
  <2> QED BY <1>3, <2>1, <2>2, ClientKept, AdvanceBounds, EmptyRecords
      DEF RunToEnd, Answer, NoReply, NoCommand, Inv, Shape, Protocol, Progress, Own, Sync,
          Refusal, InStep, CapIsSlack
<1> QED BY <1>1, <1>2, <1>3 DEF Run

\* The tick range, once exhausted, stays so.
LEMMA ExhaustedIsStable ==
  ASSUME NEW early \in Nat, NEW past \in Nat, early <= past, early + MaxStepTicks >= TickMax
  PROVE  past + MaxStepTicks >= TickMax
BY CapIsNat, TimingAssumption

\* Boot, status, quit, a second client and the death of gem5 keep the invariant.
LEMMA OtherServerPreserves ==
  ASSUME Inv, Boot \/ HandleStatus \/ HandleQuit \/ Interfere \/ Crash
  PROVE  Inv'
<1> USE TimingAssumption, CapIsNat, EmptyRecords, ClientKept
    DEF Inv, Shape, Protocol, TickRange
<1>1. CASE Boot
  <2> USE <1>1 DEF Boot
  <2>1. Shape' OBVIOUS
  <2>2. Protocol' BY DEF InStep
  <2>3. Progress' BY DEF Progress, NoReply, InStep, CapIsSlack
  <2>4. Own' BY DEF Own, InStep, NoReply
  <2>5. Sync' BY DEF Sync, InStep, NoReply
  <2>6. Refusal' BY DEF Refusal, NoReply
  <2> QED BY <2>1, <2>2, <2>3, <2>4, <2>5, <2>6
<1>2. CASE HandleStatus
  <2>1. reply' \in Replies BY <1>2, ReplyType DEF HandleStatus, Answer, Lines
  <2> QED BY <1>2, <2>1
      DEF HandleStatus, Answer, NoReply, NoCommand, Progress, Own, Sync, Refusal, InStep, CapIsSlack
<1>3. CASE HandleQuit
  <2>1. reply' \in Replies BY <1>3, ReplyType DEF HandleQuit, Answer, Lines
  <2> QED BY <1>3, <2>1
      DEF HandleQuit, Answer, NoReply, NoCommand, Progress, Own, Sync, Refusal, InStep, CapIsSlack
<1>4. CASE Interfere
  <2> USE <1>4 DEF Interfere
  <2>1. curTick' \in TickRange /\ curTick < curTick' BY DEF Min
  <2>2. Shape' BY <2>1
  <2>3. Protocol' BY DEF InStep
  <2>4. Progress' BY DEF Progress, InStep, CapIsSlack
  <2>5. Own' BY DEF Own, InStep
  <2>6. Sync' BY DEF Sync
  <2>7. Refusal'
    <3>1. UNCHANGED reply /\ curTick \in Nat /\ curTick' \in Nat /\ curTick <= curTick' BY <2>1
    <3>2. curTick + MaxStepTicks >= TickMax => curTick' + MaxStepTicks >= TickMax
      BY <3>1, ExhaustedIsStable
    <3> QED BY <3>1, <3>2, Zenon DEF Refusal
  <2> QED BY <2>2, <2>3, <2>4, <2>5, <2>6, <2>7
<1>5. CASE Crash
  BY <1>5 DEF Crash, NoCommand, Progress, Own, Sync, Refusal, InStep, CapIsSlack
<1> QED BY <1>1, <1>2, <1>3, <1>4, <1>5

\* The invariant depends on the variables only.
LEMMA StutterPreserves == Inv /\ UNCHANGED vars => Inv'
BY DEF vars, clientVars, serverVars, Inv, Shape, Protocol, InStep, Budget, Progress, Plan, Drift,
       Own, Sync, Refusal, elapsed_ticks, CapIsSlack, TickRange, Min, Max

-----------------------------------------------------------------------------
(* Theorems.                                                               *)

\* The invariant holds in every reachable state.
THEOREM Invariance == Spec => []Inv
<1>1. Inv /\ [Next]_vars => Inv'
  <2> SUFFICES ASSUME Inv, [Next]_vars PROVE Inv' OBVIOUS
  <2>1. CASE Next
    BY <2>1, StartPreserves, WaitOkPreserves, WaitThrowsPreserves, ReadyPreserves,
       ShutdownPreserves, StepPreserves, RunPreserves, OtherServerPreserves
    DEF Next, Serve
  <2>2. CASE UNCHANGED vars BY <2>2, StutterPreserves
  <2> QED BY <2>1, <2>2
<1> QED BY InitEstablishes, <1>1, PTL DEF Spec

\* No tick computation of start(), wait() or run_for_ticks leaves the range
\* of an unsigned 64-bit tick, for any sequence of steps.
THEOREM TypeCorrect == Spec => []TypeOK
<1>1. Inv => TypeOK
  BY TimingAssumption, CapIsNat
  DEF Inv, Shape, Plan, TypeOK, Requests, Replies, Lines, Runs, TickRange, elapsed_ticks
<1> QED BY Invariance, <1>1, PTL

\* However many steps are made, the simulated time is within one overshoot
\* above, and one undershoot below, the time asked for.
THEOREM DriftIsBounded == Spec => []BoundedDrift
<1>1. Inv => BoundedDrift
  BY TimingAssumption, CapIsNat
  DEF Inv, Shape, TickRange, Plan, Drift, InStep, BoundedDrift, InControl, elapsed_ticks
<1> QED BY Invariance, <1>1, PTL

\* elapsed_ticks is what gem5 ran for this session, whatever other clients do.
THEOREM CountsOwnTicks == Spec => []OwnTicksOnly
<1>1. Inv => OwnTicksOnly BY DEF Inv, Own, InStep, OwnTicksOnly, InControl
<1> QED BY Invariance, <1>1, PTL

\* Between calls gem5 is paused at the tick the client has recorded.
THEOREM StaysSynchronised == Spec => []Synchronised
<1>1. Inv => Synchronised
  BY DEF Inv, Shape, Protocol, Sync, InStep, Synchronised, InControl
<1> QED BY Invariance, <1>1, PTL

\* The server refuses a step only at the end of the tick range.
THEOREM StepsAreAccepted == Spec => []NeverRefused
<1>1. Inv => NeverRefused BY DEF Inv, Refusal, NeverRefused
<1> QED BY Invariance, <1>1, PTL

-----------------------------------------------------------------------------
(* The session implements the abstract stepping.                           *)

\* Every client call maps to a step of the abstract client, or to none.
LEMMA ClientRefines ==
  ASSUME Inv,
         \/ \E interval \in Intervals : Start(interval)
         \/ WaitOk \/ WaitThrows \/ AskReady \/ ReadyReply \/ Shutdown \/ SendQuit \/ QuitReply
  PROVE  Control!Client \/ UNCHANGED Control!simVars
<1> USE EmptyRecords DEF Inv, Shape, Protocol, InStep, NoReply, NoCommand
<1>0. /\ reply.line \in Lines
      /\ inbox.name \in {"none", "step", "status", "quit"}
  BY DEF Replies, Requests
<1>1. ASSUME NEW name \in {"step", "status", "quit"}, NEW ticks, Request(name, ticks),
             name = "step" => session = "usable"
      PROVE  Control!Client
  BY <1>1 DEF Request, MayRequest, Control!Client, Control!Request, Control!MayRequest,
              Control!Listening
<1>2. ASSUME RequestFails PROVE Control!Client
  BY <1>2 DEF RequestFails, MayRequest, serverVars, Control!Client, Control!RequestFails,
              Control!MayRequest
<1>3. ASSUME NEW outcome, open, Receive(outcome),
             \/ outcome = "failed"
             \/ outcome = session /\ reply.line \in {"ok", "paused"}
             \/ outcome = "finished" /\ reply.line = "done"
             \/ outcome = "stopped" /\ reply.line = "bye"
      PROVE  Control!Client
  <2>1. CASE reply.line = "none" /\ outcome = "failed"
    BY <1>3, <2>1 DEF Receive, Control!Client, Control!GiveUp
  <2>2. CASE reply.line # "none" /\ outcome = "failed"
    <3>1. Control!Receive(reply.line, "failed") BY <1>3, <2>2 DEF Receive, Control!Receive
    <3> QED BY <1>0, <2>2, <3>1 DEF Control!Client, Lines
  <2>3. CASE outcome # "failed"
    BY <1>3, <2>3 DEF Receive, Control!Client, Control!Receive
  <2> QED BY <2>1, <2>2, <2>3, <1>0
<1>4. CASE \E interval \in Intervals : Start(interval)
  BY <1>1, <1>2, <1>4 DEF Start
<1>5. CASE WaitOk BY <1>3, <1>5 DEF WaitOk
<1>6. CASE WaitThrows BY <1>3, <1>6 DEF WaitThrows
<1>7. CASE AskReady BY <1>1, <1>2, <1>7 DEF AskReady
<1>8. CASE ReadyReply BY <1>3, <1>8 DEF ReadyReply
<1>9. CASE Shutdown BY <1>9 DEF Shutdown, serverVars, Control!simVars
<1>10. CASE SendQuit
  BY <1>1, <1>2, <1>10 DEF SendQuit, serverVars, Control!simVars
<1>11. CASE QuitReply BY <1>3, <1>11 DEF QuitReply
<1> QED BY <1>4, <1>5, <1>6, <1>7, <1>8, <1>9, <1>10, <1>11

\* Every step of the server, and of another client, maps likewise.
LEMMA ServerRefines ==
  ASSUME Inv, Boot \/ Serve \/ Run \/ Interfere \/ Crash
  PROVE  Control!Server \/ UNCHANGED Control!simVars
<1> USE DEF Inv, Shape, NoReply, NoCommand, ServerLeaves, clientVars
<1>1. CASE Boot BY <1>1 DEF Boot, Control!Server, Control!Booted
<1>2. CASE HandleStep
  BY <1>2 DEF HandleStep, Answer, Control!Server, Control!Resume, Control!StepInPlace, Control!Answer
<1>3. CASE HandleStatus
  BY <1>3 DEF HandleStatus, Answer, Control!Server, Control!Status, Control!Answer
<1>4. CASE HandleQuit
  BY <1>4 DEF HandleQuit, Answer, Control!Server, Control!Quit, Control!Answer
<1>5. CASE RunToMax \/ RunToEnd
  BY <1>5 DEF RunToMax, RunToEnd, Answer, Control!Server, Control!Halt, Control!Answer
<1>6. CASE RunToBoundary
  BY <1>6 DEF RunToBoundary, Answer, Control!Server, Control!Halt, Control!Answer, Control!simVars
<1>7. CASE Interfere BY <1>7 DEF Interfere, Control!simVars
<1>8. CASE Crash BY <1>8 DEF Crash, Control!Server, Control!Die
<1> QED BY <1>1, <1>2, <1>3, <1>4, <1>5, <1>6, <1>7, <1>8 DEF Serve, Run

\* The tick-level session, with interfering clients and crashes, implements
\* the stepping that DataExchange relies on.
THEOREM Refinement == Spec => Stepping
<1>1. Init => Control!SimInit BY DEF Init, NoReply, NoCommand, Control!SimInit
<1>2. Inv /\ [Next]_vars => [Control!SimNext]_(Control!simVars)
  <2> SUFFICES ASSUME Inv, [Next]_vars PROVE Control!SimNext \/ UNCHANGED Control!simVars
    OBVIOUS
  <2>1. CASE Next BY <2>1, ClientRefines, ServerRefines DEF Next, Control!SimNext
  <2>2. CASE UNCHANGED vars
    BY <2>2 DEF vars, clientVars, serverVars, Control!simVars
  <2> QED BY <2>1, <2>2
<1> QED BY Invariance, <1>1, <1>2, PTL DEF Spec, Stepping, Control!SimSpec


-----------------------------------------------------------------------------
(* The supervisor.                                                         *)

\* What can become of a process.
Fates == {"none", "up", "ended", "killed"}

\* What has been killed so far stays dead.
SInv ==
  /\ pc \in {"start", "poll", "signal", "grace", "kill", "returned"} /\ position \in Nat \ {0}
  /\ leader \in [Commands -> Fates] /\ kids \in [Commands -> Fates]
  /\ pc = "grace" => position = 1
  /\ pc \in {"kill", "returned"} =>
       \A k \in 1..Len(Order) : k < position => leader[Order[k]] # "up" /\ kids[Order[k]] # "up"
  /\ pc = "returned" => position > Len(Order)

\* When supervise returns or raises, no process of any group is left, for every
\* list of commands and whatever they fork.
THEOREM SupervisorNoneLeft == SupervisorSpec => []NoneLeft
<1>1. SupervisorInit => SInv
  BY DEF SupervisorInit, SInv, Fates
<1>2. SInv /\ [SupervisorNext]_supervisorVars => SInv'
  <2> SUFFICES ASSUME SInv, [SupervisorNext]_supervisorVars PROVE SInv'
    OBVIOUS
  <2> USE DEF SInv, Fates
  <2>0. \A k \in 1..Len(Order) : Order[k] \in Commands
    BY OrderAssumption
  <2>1. CASE StartCommand
    BY <2>0, <2>1 DEF StartCommand
  <2>2. CASE Started
    BY <2>2 DEF Started
  <2>3. CASE Poll
    BY <2>3 DEF Poll
  <2>4. CASE Signal
    BY <2>4 DEF Signal
  <2>5. CASE Grace
    BY <2>5 DEF Grace, GraceIf
  <2>6. CASE Kill
    BY <2>0, <2>6 DEF Kill, KillWith
  <2>7. CASE Return
    BY <2>7 DEF Return
  <2>8. CASE StartFails \/ Deadline \/ Interrupt
    BY <2>8 DEF StartFails, Deadline, Interrupt
  <2>9. ASSUME NEW c \in Commands, Forks(c) PROVE SInv'
    BY <2>0, <2>9 DEF Forks
  <2>10. ASSUME NEW c \in Commands, LeaderEnds(c) PROVE SInv'
    BY <2>0, <2>10 DEF LeaderEnds
  <2>11. ASSUME NEW c \in Commands, KidsEnd(c) PROVE SInv'
    BY <2>0, <2>11 DEF KidsEnd
  <2>12. CASE UNCHANGED supervisorVars
    BY <2>12 DEF supervisorVars
  <2> QED
    BY <2>1, <2>2, <2>3, <2>4, <2>5, <2>6, <2>7, <2>8, <2>9, <2>10, <2>11, <2>12 DEF SupervisorNext, Supervise
<1>3. SInv => NoneLeft
  BY DEF SInv, NoneLeft, Commands, Range
<1> QED
  BY <1>1, <1>2, <1>3, PTL DEF SupervisorSpec
=============================================================================
