-------------------------- MODULE ExperimentProofs --------------------------
(***************************************************************************)
(* What the results of an experiment rely on, for every value of the       *)
(* constants: gem5 and Gazebo take turns and a step is what it was asked   *)
(* to be (GazeboLockstep.tla), and what the suite runner records and       *)
(* returns is true (SuiteRunner.tla).                                      *)
(***************************************************************************)
EXTENDS GazeboLockstep, SuiteRunner, SequenceTheorems, TLAPS

-----------------------------------------------------------------------------
(* The inductive invariant.                                                *)

\* The type invariant, in the parts that a step is checked against.
Times == [iterations : Nat, time : Nat]

Labels == {"boot", "status", "statistics", "idle", "leaving", "quit", "ended"} \cup StepLabels

Flags ==
  /\ cpc \in Labels /\ pending \in BOOLEAN /\ seen \in BOOLEAN /\ published \in BOOLEAN
  /\ ack \in {"none", "yes", "no"}

Numbers ==
  /\ count \in Nat /\ calls \in Nat /\ due \in Nat /\ left \in Nat /\ control \in Nat
  /\ known \in [at : Times, paused : BOOLEAN] /\ target \in Times /\ world \in Times
  /\ stats \in Seq([at : Times, paused : BOOLEAN])

AfterGem5 == {"publish", "target", "request", "reply", "wait", "settle"}

\* One command of the controller at a time; the server has nothing to do when
\* the controller waits for nothing and has not failed.
Protocol ==
  /\ sim = "running" => inbox = "step"
  /\ reply # "none" => inbox = "none"
  /\ open <=> cpc \in {"status", "gem5wait", "quit"}
  /\ ~open => reply = "none"
  /\ ~open /\ session # "failed" => inbox = "none"
  /\ cpc \in AfterGem5 => inbox = "none"
  /\ cpc \in StepLabels => pending
  /\ cpc \in AfterGem5 \ {"publish"} => published

\* Gazebo works only for a step whose commands are out.
Coupled ==
  Stepping => pending /\ published /\ inbox # "step" /\ cpc \in {"reply", "wait", "idle", "quit", "ended"}

\* Statistics are snapshots of the world, in order: none is ahead of it, and
\* one with its iterations has its time.
Snapshot(at) == at.iterations <= world.iterations /\ (at.iterations = world.iterations => at = world)

Snapshots ==
  /\ Snapshot(known.at)
  /\ \A i \in 1..Len(stats) : Snapshot(stats[i].at) /\ known.at.iterations <= stats[i].at.iterations
  /\ \A i, j \in 1..Len(stats) : i <= j => stats[i].at.iterations <= stats[j].at.iterations

\* Until a step makes its request Gazebo is at rest where the steps before have
\* put it, and the last statistics say so.
AtRest ==
  ~pending \/ cpc \in {"gem5", "gem5wait", "publish", "target", "request"} =>
    ~Stepping /\ world.time = due /\ known.at.iterations = world.iterations

Aimed ==
  cpc = "request" => target = At(world.iterations + count, world.time + Interval(count))

\* The request cannot take Gazebo past the target.
Bounded ==
  cpc \in {"reply", "wait"} =>
    /\ world.iterations + left + control <= target.iterations
    /\ control > 0 => left = 0
    /\ target.time = due + Interval(count)

Landed ==
  cpc = "settle" =>
    ~Stepping /\ world = target /\ known.at.iterations = world.iterations
      /\ target.time = due + Interval(count)

Typed == SimTypeOK /\ Flags /\ Numbers

IInv ==
  Typed /\ Protocol /\ Coupled /\ Snapshots /\ AtRest /\ Aimed /\ Bounded /\ Landed

-----------------------------------------------------------------------------
(* Facts used for every step.                                              *)

\* An interval is a number of nanoseconds.
LEMMA IntervalNat == \A n \in Nat : Interval(n) \in Nat
BY LockstepAssumption DEF Interval

\* What a step needs to know of the types.
LEMMA Types ==
  Typed  => /\ world.iterations \in Nat /\ world.time \in Nat
            /\ known.at.iterations \in Nat /\ known.at.time \in Nat
            /\ target.iterations \in Nat /\ target.time \in Nat
            /\ world = At(world.iterations, world.time) /\ known.at = At(known.at.iterations, known.at.time)
            /\ target = At(target.iterations, target.time)
            /\ count \in Nat /\ left \in Nat /\ control \in Nat /\ due \in Nat
            /\ Interval(count) \in Nat
BY IntervalNat DEF Typed, Numbers, Times, At

\* An entry of a sequence is one of the set it is over.
LEMMA Entry == ASSUME NEW S, NEW s \in Seq(S), NEW i \in 1..Len(s) PROVE s[i] \in S
OBVIOUS

\* Statistics in flight count iterations.
LEMMA EntryTimes ==
  ASSUME NEW s \in Seq([at : Times, paused : BOOLEAN]), NEW i \in 1..Len(s)
  PROVE  s[i] \in [at : Times, paused : BOOLEAN] /\ s[i].at.iterations \in Nat
<1>1. s[i] \in [at : Times, paused : BOOLEAN]
    BY Entry
<1>2. s[i].at \in Times
    BY <1>1
<1> QED
    BY <1>1, <1>2 DEF Times

\* Statistics stay snapshots while neither they nor the world change.
LEMMA SameSnapshots == Snapshots /\ UNCHANGED <<known, world, stats>> => Snapshots'
BY DEF Snapshots, Snapshot

\* The invariant holds before the controller asks for anything.
LEMMA InitIInv == Init => IInv
<1> SUFFICES ASSUME Init PROVE IInv
    OBVIOUS
<1>1. Typed
  <2>1. SimTypeOK /\ Flags
      BY DEF Init, SimInit, SimTypeOK, Flags, Labels
  <2>2. Numbers
      BY DEF Init, Numbers, Times, At
  <2> QED
      BY <2>1, <2>2 DEF Typed
<1>2. Snapshots
    BY DEF Init, Snapshots, Snapshot, At
<1>3. Protocol /\ Coupled
    BY DEF Init, SimInit, Protocol, Coupled, Stepping, AfterGem5, StepLabels
<1>4. AtRest
    BY DEF Init, AtRest, Stepping, At
<1>5. Aimed /\ Bounded /\ Landed
    BY DEF Init, Aimed, Bounded, Landed
<1> QED
    BY <1>1, <1>2, <1>3, <1>4, <1>5 DEF IInv

-----------------------------------------------------------------------------
(* The controller.                                                         *)

\* Startup touches neither Gazebo nor a step.
LEMMA StartupIInv == IInv /\ (AskReady \/ Ready \/ NotReady) => IInv'
<1> SUFFICES ASSUME IInv, AskReady \/ Ready \/ NotReady PROVE IInv'
    OBVIOUS
<1>1. /\ cpc \in {"boot", "status", "statistics"} /\ cpc' \in {"status", "statistics", "idle", "leaving"}
      /\ UNCHANGED <<CallVars, gzVars, seen, known, calls>>
    BY DEF AskReady, Ready, NotReady, Goto
<1>2. Typed'
  <2>1. SimTypeOK'
      BY DEF IInv, Typed, SimTypeOK, AskReady, Ready, NotReady, Request, Receive, GiveUp, RequestFails, simVars
  <2>2. Flags' /\ Numbers'
      BY <1>1 DEF IInv, Typed, Flags, Labels, Numbers, CallVars, gzVars
  <2> QED
      BY <2>1, <2>2 DEF Typed
<1>3. Protocol'
    BY <1>1 DEF IInv, Typed, SimTypeOK, Flags, Protocol, AskReady, Ready, NotReady, Request, MayRequest, Receive,
       GiveUp, RequestFails, Goto, CallVars, simVars, AfterGem5, StepLabels
<1>4. Coupled'
    BY <1>1 DEF IInv, Coupled, Stepping, CallVars, gzVars
<1>5. Snapshots'
    BY <1>1, SameSnapshots DEF IInv, gzVars
<1>6. AtRest'
    BY <1>1 DEF IInv, AtRest, Stepping, CallVars, gzVars
<1>7. Aimed' /\ Bounded' /\ Landed'
    BY <1>1 DEF Aimed, Bounded, Landed
<1> QED
    BY <1>2, <1>3, <1>4, <1>5, <1>6, <1>7 DEF IInv

\* A call is accepted only when the step before has succeeded.
LEMMA CallIInv == ASSUME NEW n \in Counts, IInv, StepCall(n) PROVE IInv'
<1>1. /\ cpc = "idle" /\ n \in Nat /\ UNCHANGED <<seen, known, target, due, gzVars, simVars>>
      /\ \/ UNCHANGED <<cpc, count, pending, published>>
         \/ ~pending /\ cpc' = "gem5" /\ count' = n /\ pending' = TRUE /\ published' = FALSE
    BY LockstepAssumption DEF StepCall, Call
<1>2. Typed'
  <2>1. SimTypeOK'
      BY <1>1 DEF IInv, Typed, SimTypeOK, simVars
  <2>2. Flags'
      BY <1>1 DEF IInv, Typed, Flags, Labels, StepLabels, gzVars
  <2>3. Numbers'
      BY <1>1 DEF IInv, Typed, Numbers, StepCall, Call, gzVars
  <2> QED
      BY <2>1, <2>2, <2>3 DEF Typed
<1>3. Protocol'
    BY <1>1 DEF IInv, Protocol, simVars, AfterGem5, StepLabels
<1>4. Coupled'
    BY <1>1 DEF IInv, Coupled, AtRest, Stepping, gzVars, simVars
<1>5. Snapshots'
    BY <1>1, SameSnapshots DEF IInv, gzVars
<1>6. AtRest'
    BY <1>1 DEF IInv, AtRest, Stepping, gzVars
<1>7. Aimed' /\ Bounded' /\ Landed'
    BY <1>1 DEF Aimed, Bounded, Landed
<1> QED
    BY <1>2, <1>3, <1>4, <1>5, <1>6, <1>7 DEF IInv

\* gem5 is stepped while Gazebo is at rest.
LEMMA Gem5IInv == IInv /\ (StepGem5 \/ Gem5Done \/ Gem5Fails) => IInv'
<1> SUFFICES ASSUME IInv, StepGem5 \/ Gem5Done \/ Gem5Fails PROVE IInv'
    OBVIOUS
<1>1. /\ cpc \in {"gem5", "gem5wait"} /\ cpc' \in {"gem5wait", "publish", "idle"}
      /\ UNCHANGED <<CallVars, gzVars, seen, known, calls>>
    BY DEF StepGem5, Gem5Done, Gem5Fails, Goto
<1>2. Typed'
  <2>1. SimTypeOK'
      BY DEF IInv, Typed, SimTypeOK, StepGem5, Gem5Done, Gem5Fails, Request, Receive, GiveUp, RequestFails
  <2>2. Flags' /\ Numbers'
      BY <1>1 DEF IInv, Typed, Flags, Labels, StepLabels, Numbers, CallVars, gzVars
  <2> QED
      BY <2>1, <2>2 DEF Typed
<1>3. Protocol'
    BY <1>1 DEF IInv, Typed, SimTypeOK, Flags, Protocol, StepGem5, Gem5Done, Gem5Fails, Request, MayRequest, Receive,
       GiveUp, RequestFails, Goto, CallVars, AfterGem5, StepLabels
<1>4. ~Stepping /\ ~Stepping'
    BY <1>1 DEF IInv, AtRest, Stepping, gzVars
<1>5. Snapshots'
    BY <1>1, SameSnapshots DEF IInv, gzVars
<1>6. AtRest'
    BY <1>1, <1>4 DEF IInv, AtRest, CallVars, gzVars
<1>7. Coupled' /\ Aimed' /\ Bounded' /\ Landed'
    BY <1>1, <1>4 DEF Coupled, Aimed, Bounded, Landed
<1> QED
    BY <1>2, <1>3, <1>5, <1>6, <1>7 DEF IInv

\* A step that fails, and the end of the session, leave Gazebo to itself.
LEMMA LeaveIInv == IInv /\ (Refused \/ Throw) => IInv'
<1> SUFFICES ASSUME IInv, Refused \/ Throw PROVE IInv'
    OBVIOUS
<1>1. /\ cpc \in StepLabels \ {"gem5wait"} /\ cpc' = "idle"
      /\ UNCHANGED <<CallVars, gzVars, simVars, seen, known, calls>>
    BY DEF Refused, Refusal, NotPaused, Mismatch, Throw, Goto, StepLabels
<1>2. Typed'
    BY <1>1 DEF IInv, Typed, SimTypeOK, Flags, Labels, Numbers, CallVars, gzVars, simVars
<1>3. Protocol'
    BY <1>1 DEF IInv, Protocol, CallVars, simVars, AfterGem5, StepLabels
<1>4. Coupled'
    BY <1>1 DEF IInv, Coupled, Stepping, CallVars, gzVars, simVars
<1>5. Snapshots'
    BY <1>1, SameSnapshots DEF IInv, gzVars
<1>6. AtRest' /\ Aimed' /\ Bounded' /\ Landed'
    BY <1>1 DEF IInv, Protocol, AtRest, Aimed, Bounded, Landed, CallVars
<1> QED
    BY <1>2, <1>3, <1>4, <1>5, <1>6 DEF IInv

\* QUIT is the only command after the last step.
LEMMA StopIInv == IInv /\ Stop => IInv'
<1> SUFFICES ASSUME IInv, Stop PROVE IInv'
    OBVIOUS
<1>1. /\ cpc \in {"idle", "leaving", "quit"} /\ cpc' \in {"quit", "ended"}
      /\ UNCHANGED <<CallVars, gzVars, seen, known, calls>>
    BY DEF Stop, Goto
<1>2. Typed'
  <2>1. SimTypeOK'
      BY DEF IInv, Typed, SimTypeOK, Stop, Request, Receive, GiveUp, RequestFails, simVars
  <2>2. Flags' /\ Numbers'
      BY <1>1 DEF IInv, Typed, Flags, Labels, Numbers, CallVars, gzVars
  <2> QED
      BY <2>1, <2>2 DEF Typed
<1>3. Protocol'
    BY <1>1 DEF IInv, Typed, SimTypeOK, Flags, Protocol, Stop, Request, MayRequest, Receive, GiveUp, RequestFails,
       Goto, CallVars, simVars, AfterGem5, StepLabels
<1>4. Coupled'
    BY <1>1 DEF IInv, Coupled, Stepping, CallVars, gzVars, Stop, Request, Receive, GiveUp, RequestFails, simVars
<1>5. Snapshots'
    BY <1>1, SameSnapshots DEF IInv, gzVars
<1>6. AtRest'
    BY <1>1 DEF IInv, AtRest, Stepping, CallVars, gzVars
<1>7. Aimed' /\ Bounded' /\ Landed'
    BY <1>1 DEF Aimed, Bounded, Landed
<1> QED
    BY <1>2, <1>3, <1>4, <1>5, <1>6, <1>7 DEF IInv

\* The target is the interval's end, because the last statistics are those of
\* the world as it is.
LEMMA AimIInv == IInv /\ (Publish \/ SetTarget) => IInv'
<1> SUFFICES ASSUME IInv, Publish \/ SetTarget PROVE IInv'
    OBVIOUS
<1>1. /\ UNCHANGED <<count, pending, due, gzVars, simVars, seen, known, calls>>
      /\ \/ cpc = "publish" /\ cpc' = "target" /\ published' = TRUE /\ target' = target
         \/ /\ cpc = "target" /\ cpc' = "request" /\ published' = published
            /\ target' = At(known.at.iterations + count, known.at.time + Interval(count))
    BY DEF Publish, SetTarget, Goto
<1>2. /\ ~Stepping /\ world.time = due /\ known.at.iterations = world.iterations /\ pending
      /\ known.at = world
    BY <1>1 DEF IInv, AtRest, Protocol, StepLabels, Snapshots, Snapshot
<1>3. Typed'
  <2>1. SimTypeOK'
      BY <1>1 DEF IInv, Typed, SimTypeOK, simVars
  <2>2. Flags'
      BY <1>1 DEF IInv, Typed, Flags, Labels, StepLabels, gzVars
  <2>3. target' \in Times
      BY <1>1, Types DEF IInv, Typed, Numbers, Times, At
  <2> QED
      BY <1>1, <2>1, <2>2, <2>3 DEF IInv, Typed, Numbers, gzVars
<1>4. Protocol' /\ Coupled'
    BY <1>1, <1>2 DEF IInv, Protocol, Coupled, Stepping, gzVars, simVars, AfterGem5, StepLabels
<1>5. Snapshots'
    BY <1>1, SameSnapshots DEF IInv, gzVars
<1>6. AtRest'
    BY <1>1, <1>2 DEF AtRest, Stepping, gzVars
<1>7. Aimed'
    BY <1>1, <1>2 DEF Aimed, gzVars
<1>8. Bounded' /\ Landed'
    BY <1>1 DEF Bounded, Landed
<1> QED
    BY <1>3, <1>4, <1>5, <1>6, <1>7, <1>8 DEF IInv

\* The request is made with Gazebo at rest and exactly the interval ahead.
LEMMA RequestIInv == IInv /\ RequestStep => IInv'
<1> SUFFICES ASSUME IInv, RequestStep PROVE IInv'
    OBVIOUS
<1>1. /\ cpc = "request" /\ cpc' = "reply" /\ control' = count /\ ack' = "none"
      /\ UNCHANGED <<CallVars, world, left, stats, simVars, seen, known, calls>>
    BY DEF RequestStep, Goto
<1>2. /\ ~Stepping /\ world.time = due /\ target = At(world.iterations + count, world.time + Interval(count))
      /\ pending /\ published /\ inbox = "none"
    BY <1>1 DEF IInv, AtRest, Aimed, Protocol, StepLabels, AfterGem5
<1>3. Typed'
  <2>1. SimTypeOK'
      BY <1>1 DEF IInv, Typed, SimTypeOK, simVars
  <2>2. Flags'
      BY <1>1 DEF IInv, Typed, Flags, Labels, StepLabels, CallVars
  <2>3. Numbers'
      BY <1>1 DEF IInv, Typed, Numbers, CallVars
  <2> QED
      BY <2>1, <2>2, <2>3 DEF Typed
<1>4. Protocol' /\ Coupled'
    BY <1>1, <1>2 DEF IInv, Protocol, Coupled, CallVars, simVars, AfterGem5, StepLabels
<1>5. Snapshots'
    BY <1>1, SameSnapshots DEF IInv
<1>6. Bounded'
  <2>1. left = 0
      BY <1>2, Types DEF IInv, Stepping
  <2> QED
      BY <1>1, <1>2, <2>1, Types DEF IInv, Bounded, CallVars, At, Interval
<1>7. AtRest' /\ Aimed' /\ Landed'
    BY <1>1, <1>2 DEF AtRest, Aimed, Landed, CallVars
<1> QED
    BY <1>3, <1>4, <1>5, <1>6, <1>7 DEF IInv

\* Statistics that show the target show the world: it cannot have gone further.
LEMMA FinishIInv == IInv /\ (Accepted \/ Finished) => IInv'
<1> SUFFICES ASSUME IInv, Accepted \/ Finished PROVE IInv'
    OBVIOUS
<1>1. /\ UNCHANGED <<CallVars, gzVars, simVars, seen, known, calls>>
      /\ \/ cpc = "reply" /\ cpc' = "wait"
         \/ cpc = "wait" /\ cpc' = "settle" /\ known.at = target
    BY DEF Accepted, Finished, FinishedIf, Goto
<1>2. Typed'
  <2>1. SimTypeOK'
      BY <1>1 DEF IInv, Typed, SimTypeOK, simVars
  <2>2. Flags'
      BY <1>1 DEF IInv, Typed, Flags, Labels, StepLabels, CallVars, gzVars
  <2>3. Numbers'
      BY <1>1 DEF IInv, Typed, Numbers, CallVars, gzVars
  <2> QED
      BY <2>1, <2>2, <2>3 DEF Typed
<1>3. cpc' = "settle" => ~Stepping /\ world = target /\ known.at.iterations = world.iterations
  <2> SUFFICES ASSUME cpc' = "settle" PROVE ~Stepping /\ world = target /\ known.at.iterations = world.iterations
      OBVIOUS
  <2>1. known.at = target /\ cpc = "wait"
      BY <1>1
  <2>2. world.iterations + left + control <= target.iterations /\ target.iterations <= world.iterations
      BY <2>1 DEF IInv, Bounded, Snapshots, Snapshot
  <2>3. left = 0 /\ control = 0 /\ world.iterations = target.iterations
      BY <2>2, Types DEF IInv
  <2> QED
      BY <2>1, <2>3 DEF IInv, Snapshots, Snapshot, Stepping
<1>4. Protocol' /\ Coupled'
    BY <1>1, <1>3 DEF IInv, Protocol, Coupled, Stepping, CallVars, gzVars, simVars, AfterGem5, StepLabels
<1>5. Snapshots'
    BY <1>1, SameSnapshots DEF IInv, gzVars
<1>6. Bounded'
    BY <1>1 DEF IInv, Bounded, Interval, CallVars, gzVars
<1>7. Landed'
    BY <1>1, <1>3 DEF IInv, Bounded, Landed, Stepping, Interval, CallVars, gzVars
<1>8. AtRest' /\ Aimed'
    BY <1>1 DEF IInv, Protocol, AtRest, Aimed, CallVars, StepLabels
<1> QED
    BY <1>2, <1>4, <1>5, <1>6, <1>7, <1>8 DEF IInv

\* A step that succeeds has brought Gazebo to the end of its interval.
LEMMA SettleIInv == IInv /\ Settle => IInv'
<1> SUFFICES ASSUME IInv, Settle PROVE IInv'
    OBVIOUS
<1>1. /\ cpc = "settle" /\ cpc' = "idle" /\ pending' = FALSE /\ due' = due + Interval(count)
      /\ UNCHANGED <<count, target, published, gzVars, simVars, seen, known, calls>>
    BY DEF Settle, Goto
<1>2. ~Stepping /\ world.time = due' /\ known.at.iterations = world.iterations /\ due' \in Nat
    BY <1>1, Types DEF IInv, Landed
<1>3. Typed'
  <2>1. SimTypeOK'
      BY <1>1 DEF IInv, Typed, SimTypeOK, simVars
  <2>2. Flags'
      BY <1>1 DEF IInv, Typed, Flags, Labels, gzVars
  <2>3. Numbers'
      BY <1>1, <1>2 DEF IInv, Typed, Numbers, gzVars
  <2> QED
      BY <2>1, <2>2, <2>3 DEF Typed
<1>4. Protocol' /\ Coupled'
    BY <1>1, <1>2 DEF IInv, Protocol, Coupled, Stepping, gzVars, simVars, AfterGem5, StepLabels
<1>5. Snapshots'
    BY <1>1, SameSnapshots DEF IInv, gzVars
<1>6. AtRest'
    BY <1>1, <1>2 DEF AtRest, Stepping, gzVars
<1>7. Aimed' /\ Bounded' /\ Landed'
    BY <1>1 DEF Aimed, Bounded, Landed
<1> QED
    BY <1>3, <1>4, <1>5, <1>6, <1>7 DEF IInv

-----------------------------------------------------------------------------
(* Gazebo and gem5.                                                        *)

\* A request turns into iterations to run, or into nothing.
LEMMA ControlIInv == IInv /\ Control => IInv'
<1> SUFFICES ASSUME IInv, Control PROVE IInv'
    OBVIOUS
<1>1. /\ control > 0 /\ control' = 0 /\ ack' \in {"yes", "no"} /\ left' \in {control, left}
      /\ UNCHANGED <<cpc, CallVars, calls, simVars, seen, known, world, stats>>
    BY DEF Control, GazeboLeaves
<1>2. Typed'
  <2>1. SimTypeOK'
      BY <1>1 DEF IInv, Typed, SimTypeOK, simVars
  <2>2. Flags'
      BY <1>1 DEF IInv, Typed, Flags, CallVars
  <2>3. Numbers'
      BY <1>1 DEF IInv, Typed, Numbers, CallVars
  <2> QED
      BY <2>1, <2>2, <2>3 DEF Typed
<1>3. Stepping /\ pending /\ published /\ inbox # "step" /\ cpc \in {"reply", "wait", "idle", "quit", "ended"}
    BY <1>1 DEF IInv, Coupled, Stepping
<1>4. Protocol' /\ Coupled'
    BY <1>1, <1>3 DEF IInv, Protocol, Coupled, CallVars, simVars, AfterGem5, StepLabels
<1>5. Snapshots'
    BY <1>1, SameSnapshots DEF IInv
<1>6. Bounded'
    BY <1>1, Types DEF IInv, Bounded, Interval, CallVars
<1>7. AtRest' /\ Aimed' /\ Landed'
    BY <1>1, <1>3 DEF AtRest, Aimed, Landed, CallVars
<1> QED
    BY <1>2, <1>4, <1>5, <1>6, <1>7 DEF IInv

\* The world moves on and leaves every snapshot behind.
LEMMA IterateIInv == IInv /\ Iterate => IInv'
<1> SUFFICES ASSUME IInv, Iterate PROVE IInv'
    OBVIOUS
<1>0. PICK ns \in WorldSteps : world' = At(world.iterations + 1, world.time + ns)
    BY DEF Iterate
<1>1. /\ left > 0 /\ left' = left - 1 /\ world' = At(world.iterations + 1, world.time + ns)
      /\ UNCHANGED <<cpc, CallVars, calls, simVars, seen, known, control, ack, stats>>
    BY <1>0 DEF Iterate, GazeboLeaves
<1>2. world'.iterations = world.iterations + 1 /\ world' \in Times /\ left' \in Nat
    BY <1>1, Types, LockstepAssumption DEF IInv, At, Times
<1>3. Typed'
  <2>1. SimTypeOK' /\ Flags'
      BY <1>1 DEF IInv, Typed, SimTypeOK, Flags, CallVars, simVars
  <2>2. Numbers'
      BY <1>1, <1>2 DEF IInv, Typed, Numbers, CallVars
  <2> QED
      BY <2>1, <2>2 DEF Typed
<1>4. Stepping /\ pending /\ published /\ inbox # "step" /\ cpc \in {"reply", "wait", "idle", "quit", "ended"}
    BY <1>1 DEF IInv, Coupled, Stepping
<1>5. Protocol' /\ Coupled'
    BY <1>1, <1>4 DEF IInv, Protocol, Coupled, CallVars, simVars, AfterGem5, StepLabels
<1>6. Snapshots'
  <2>1. \A i \in 1..Len(stats) : stats[i].at.iterations \in Nat
      BY EntryTimes DEF IInv, Typed, Numbers
  <2>2. known' = known /\ stats' = stats
      BY <1>1
  <2>3. known.at.iterations \in Nat /\ world.iterations \in Nat
      BY Types DEF IInv
  <2>4. \A at : at.iterations \in Nat /\ Snapshot(at) => Snapshot(at)'
      BY <1>2, <2>3 DEF Snapshot
  <2> QED
      BY <2>1, <2>2, <2>3, <2>4 DEF IInv, Snapshots
<1>7. Bounded'
    BY <1>1, <1>2, Types DEF IInv, Bounded, Interval, CallVars
<1>8. AtRest' /\ Aimed' /\ Landed'
    BY <1>1, <1>4 DEF AtRest, Aimed, Landed, CallVars
<1> QED
    BY <1>3, <1>5, <1>6, <1>7, <1>8 DEF IInv

\* A snapshot of the world as it is comes after the others.
LEMMA PublishStatsIInv == IInv /\ PublishStats => IInv'
<1> SUFFICES ASSUME IInv, PublishStats PROVE IInv'
    OBVIOUS
<1>1. PICK paused \in BOOLEAN :
        /\ stats' = Append(stats, [at |-> world, paused |-> paused])
        /\ UNCHANGED <<cpc, CallVars, calls, simVars, seen, known, world, left, control, ack>>
    BY DEF PublishStats, GazeboLeaves
<1>2. /\ stats \in Seq([at : Times, paused : BOOLEAN]) /\ stats' \in Seq([at : Times, paused : BOOLEAN])
      /\ Len(stats') = Len(stats) + 1 /\ Len(stats) \in Nat /\ stats'[Len(stats')].at = world
      /\ \A i \in 1..Len(stats) : stats'[i] = stats[i]
    BY <1>1 DEF IInv, Typed, Numbers
<1>3. Typed'
  <2>1. SimTypeOK' /\ Flags'
      BY <1>1 DEF IInv, Typed, SimTypeOK, Flags, CallVars, simVars
  <2>2. Numbers'
      BY <1>1, <1>2 DEF IInv, Typed, Numbers, CallVars
  <2> QED
      BY <2>1, <2>2 DEF Typed
<1>4. Snapshots'
  <2>1. \A i \in 1..Len(stats') : i \in 1..Len(stats) \/ i = Len(stats')
      BY <1>2
  <2>2. \A i \in 1..Len(stats') : Snapshot(stats'[i].at) /\ known.at.iterations <= stats'[i].at.iterations
    <3> SUFFICES ASSUME NEW i \in 1..Len(stats')
                 PROVE  Snapshot(stats'[i].at) /\ known.at.iterations <= stats'[i].at.iterations
        OBVIOUS
    <3>1. CASE i \in 1..Len(stats)
        BY <1>2, <3>1 DEF IInv, Snapshots
    <3>2. CASE i = Len(stats')
        BY <1>2, <3>2, Types DEF IInv, Snapshots, Snapshot
    <3> QED
        BY <2>1, <3>1, <3>2
  <2>3. \A i, j \in 1..Len(stats') : i <= j => stats'[i].at.iterations <= stats'[j].at.iterations
    <3> SUFFICES ASSUME NEW i \in 1..Len(stats'), NEW j \in 1..Len(stats'), i <= j
                 PROVE  stats'[i].at.iterations <= stats'[j].at.iterations
        OBVIOUS
    <3>1. CASE j = Len(stats')
        BY <3>1, <1>2, <2>2 DEF Snapshot
    <3>2. CASE j \in 1..Len(stats)
        BY <3>2, <1>2 DEF IInv, Snapshots
    <3> QED
        BY <3>1, <3>2, <2>1
  <2>4. UNCHANGED <<known, world>> /\ Snapshot(known.at)
      BY <1>1 DEF IInv, Snapshots
  <2> QED
      BY <2>2, <2>3, <2>4 DEF Snapshots, Snapshot
<1>5. Protocol' /\ Coupled'
    BY <1>1 DEF IInv, Protocol, Coupled, Stepping, CallVars, simVars
<1>6. AtRest' /\ Bounded'
    BY <1>1 DEF IInv, AtRest, Bounded, Stepping, Interval, CallVars
<1>7. Aimed' /\ Landed'
    BY <1>1 DEF IInv, Aimed, Landed, Stepping, Interval, CallVars
<1> QED
    BY <1>3, <1>4, <1>5, <1>6, <1>7 DEF IInv

\* The statistics a callback brings are the oldest in flight; with the world at
\* rest they say what was known.
LEMMA StatsIInv == IInv /\ Stats => IInv'
<1> SUFFICES ASSUME IInv, Stats PROVE IInv'
    OBVIOUS
<1>1. /\ stats # <<>> /\ seen' = TRUE /\ known' = Head(stats) /\ stats' = Tail(stats)
      /\ UNCHANGED <<cpc, CallVars, calls, simVars, world, left, control, ack>>
    BY DEF Stats, GazeboLeaves
<1>2. /\ stats \in Seq([at : Times, paused : BOOLEAN]) /\ stats' \in Seq([at : Times, paused : BOOLEAN])
      /\ known' = stats[1] /\ 1 \in 1..Len(stats) /\ Len(stats') = Len(stats) - 1 /\ Len(stats) \in Nat
      /\ \A i \in 1..Len(stats') : stats'[i] = stats[i + 1] /\ i + 1 \in 1..Len(stats)
    BY <1>1 DEF IInv, Typed, Numbers
<1>3. known' \in [at : Times, paused : BOOLEAN] /\ known'.at.iterations \in Nat
    BY <1>2, EntryTimes
<1>4. Typed'
  <2>1. SimTypeOK'
      BY <1>1 DEF IInv, Typed, SimTypeOK, simVars
  <2>2. Flags'
      BY <1>1 DEF IInv, Typed, Flags, CallVars
  <2>3. Numbers'
      BY <1>1, <1>2, <1>3 DEF IInv, Typed, Numbers, CallVars
  <2> QED
      BY <2>1, <2>2, <2>3 DEF Typed
<1>5. Snapshots'
  <2>1. Snapshot(known'.at)
      BY <1>2 DEF IInv, Snapshots
  <2>2. \A i \in 1..Len(stats') : Snapshot(stats'[i].at) /\ known'.at.iterations <= stats'[i].at.iterations
      BY <1>2 DEF IInv, Snapshots
  <2>3. \A i, j \in 1..Len(stats') : i <= j => stats'[i].at.iterations <= stats'[j].at.iterations
      BY <1>2 DEF IInv, Snapshots
  <2> QED
      BY <1>1, <2>1, <2>2, <2>3 DEF Snapshots, Snapshot
<1>6. known.at.iterations = world.iterations => known'.at.iterations = world.iterations
  <2>1. known.at.iterations <= known'.at.iterations /\ known'.at.iterations <= world.iterations
      BY <1>2 DEF IInv, Snapshots, Snapshot
  <2> QED
      BY <2>1, <1>3, Types DEF IInv
<1>7. Protocol' /\ Coupled'
    BY <1>1 DEF IInv, Protocol, Coupled, Stepping, CallVars, simVars
<1>8. AtRest' /\ Bounded'
    BY <1>1, <1>6 DEF IInv, AtRest, Bounded, Stepping, Interval, CallVars
<1>9. Aimed' /\ Landed'
    BY <1>1, <1>6 DEF IInv, Aimed, Landed, Stepping, Interval, CallVars
<1> QED
    BY <1>4, <1>5, <1>7, <1>8, <1>9 DEF IInv

\* gem5 runs only for a step command.
LEMMA SimulatorIInv == IInv /\ Simulator => IInv'
<1> SUFFICES ASSUME IInv, Simulator PROVE IInv'
    OBVIOUS
<1> USE DEF Server, Booted, Resume, StepInPlace, Halt, Status, Quit, Die, Answer
<1>1. UNCHANGED <<ctlVars, gzVars>> /\ Server
    BY DEF Simulator
<1>2. Typed'
  <2>1. SimTypeOK'
      BY <1>1 DEF IInv, Typed, SimTypeOK
  <2>2. Flags' /\ Numbers'
      BY <1>1 DEF IInv, Typed, Flags, Numbers, ctlVars, gzVars
  <2> QED
      BY <2>1, <2>2 DEF Typed
<1>3. Protocol'
    BY <1>1 DEF IInv, Typed, SimTypeOK, Protocol, ctlVars
<1>4. Coupled'
    BY <1>1 DEF IInv, Coupled, Stepping, ctlVars, gzVars
<1>5. Snapshots'
    BY <1>1, SameSnapshots DEF IInv, ctlVars, gzVars
<1>6. AtRest' /\ Bounded'
    BY <1>1 DEF IInv, AtRest, Bounded, Stepping, Interval, ctlVars, gzVars
<1>7. Aimed' /\ Landed'
    BY <1>1 DEF IInv, Aimed, Landed, Stepping, Interval, ctlVars, gzVars
<1> QED
    BY <1>2, <1>3, <1>4, <1>5, <1>6, <1>7 DEF IInv

\* Stuttering changes nothing.
LEMMA SameIInv == IInv /\ UNCHANGED vars => IInv'
<1> SUFFICES ASSUME IInv, UNCHANGED vars PROVE IInv'
    OBVIOUS
<1>1. UNCHANGED <<ctlVars, gzVars, simVars>>
    BY DEF vars
<1>2. Typed' /\ Protocol'
    BY <1>1 DEF IInv, Typed, SimTypeOK, Flags, Numbers, Protocol, ctlVars, gzVars, simVars
<1>3. Snapshots'
    BY <1>1, SameSnapshots DEF IInv, ctlVars, gzVars
<1>4. Coupled' /\ AtRest' /\ Bounded'
    BY <1>1 DEF IInv, Coupled, AtRest, Bounded, Stepping, Interval, ctlVars, gzVars, simVars
<1>5. Aimed' /\ Landed'
    BY <1>1 DEF IInv, Aimed, Landed, Stepping, Interval, ctlVars, gzVars
<1> QED
    BY <1>2, <1>3, <1>4, <1>5 DEF IInv

-----------------------------------------------------------------------------
(* Results.                                                                *)

\* The invariant holds in every state of the lockstep.
LEMMA Invariance == Spec => []IInv
<1>1. IInv /\ [Next]_vars => IInv'
    BY StartupIInv, CallIInv, Gem5IInv, AimIInv, RequestIInv, FinishIInv, SettleIInv, LeaveIInv, StopIInv,
       ControlIInv, IterateIInv, PublishStatsIInv, StatsIInv, SimulatorIInv, SameIInv
    DEF Next, Proceed, Gazebo
<1> QED
    BY <1>1, InitIInv, PTL DEF Spec

\* gem5 and Gazebo never run at the same time, and Gazebo starts an interval
\* only after the guest's commands for it are out, whatever failed before.
THEOREM CouplingIsSerial == Spec => []SerialCoupling
<1>1. IInv => SerialCoupling
    BY DEF IInv, SerialCoupling, Coupled, Protocol
<1> QED
    BY <1>1, Invariance, PTL

\* A step that wait() let succeed has advanced Gazebo by exactly its interval
\* and left it at rest, for every physics step and every delay of statistics.
THEOREM StepsAreVerified == Spec => []VerifiedStep
<1>1. IInv => VerifiedStep
    BY DEF IInv, VerifiedStep, AtRest
<1> QED
    BY <1>1, Invariance, PTL

-----------------------------------------------------------------------------
(* The suite runner.                                                       *)

\* The processes of an attempt.
Launches == {"none", "up", "zero", "failed"}
\* The statuses that run.json can have of an attempt.
Statuses == {"none", "running", "completed", "failed", "timeout", "interrupted"}
\* An attempt: its record, its data and its processes.
AttemptRecord ==
  [json : Statuses \cup {"torn"}, completed : BOOLEAN, launch : Launches]

\* Where the runner works on an attempt, the last one of its run.
Working == {"prepare", "launch", "watch", "drain", "stop", "report"}

\* The types.
SuiteTypeOK ==
  /\ attempts \in [Runs -> Seq(AttemptRecord)]
  /\ pc \in {"off", "plan", "select"} \cup Working
  /\ index \in Nat \ {0} /\ status \in Statuses /\ failures \in Nat

\* What an attempt's record says is so.
Recorded(a) ==
  /\ a.launch = "none" => ~a.completed
  /\ a.launch # "none" => a.json # "none"
  /\ a.json = "completed" => a.launch = "zero" /\ a.completed
  /\ a.json \in {"timeout", "interrupted"} => a.launch # "up"

\* Of every attempt, those of earlier invocations included.
AllRecorded == \A r \in Runs : \A n \in 1..Len(attempts[r]) : Recorded(attempts[r][n])

\* Attempt n of run r is recorded as a success.
Success(r, n) == attempts[r][n].json = "completed"
\* A run with a success.
HasSuccess(r) == \E n \in 1..Len(attempts[r]) : Success(r, n)

\* No run has two.
OneSuccess ==
  \A r \in Runs : \A m, n \in 1..Len(attempts[r]) : Success(r, m) /\ Success(r, n) => m = n

\* What is known of the attempt being worked on, at each pc of it.
AtLast(p, st, a) ==
  /\ p = "prepare" => a.json = "none" /\ a.launch = "none"
  /\ p = "launch" => a.json = "running" /\ a.launch = "none"
  /\ p \in {"watch", "drain", "stop", "report"} => a.json = "running"
  /\ p \in {"drain", "stop"} => st \in {"timeout", "interrupted"}
  /\ p = "report" =>
       /\ st \in {"completed", "failed", "timeout", "interrupted"}
       /\ st = "completed" => a.launch = "zero" /\ a.completed
       /\ st \in {"timeout", "interrupted"} => a.launch # "up"

\* The runner works on the last attempt of a run that has no success.
Current ==
  pc \in Working =>
    /\ index <= Len(RunOrder) /\ Len(attempts[RunOrder[index]]) > 0
    /\ ~HasSuccess(RunOrder[index])
    /\ AtLast(pc, status, attempts[RunOrder[index]][Len(attempts[RunOrder[index]])])

\* Without a failure, every run before the current one has its success.
Progress ==
  pc # "off" /\ failures = 0 =>
    \A k \in 1..Len(RunOrder) : k < index => HasSuccess(RunOrder[k])

Returned0 == pc = "off" /\ rc = 0 => \A r \in Runs : HasSuccess(r)

\* The inductive invariant of the suite runner.
SuiteInv ==
  SuiteTypeOK /\ AllRecorded /\ OneSuccess /\ Current /\ Progress /\ Returned0

\* One entry of one run's sequence is replaced.
Replaced(r, n, b) ==
  /\ attempts' \in [Runs -> Seq(AttemptRecord)]
  /\ \A s \in Runs : Len(attempts'[s]) = Len(attempts[s])
  /\ \A s \in Runs : \A m \in 1..Len(attempts[s]) :
       attempts'[s][m] = IF s = r /\ m = n THEN b ELSE attempts[s][m]

\* What an EXCEPT of an EXCEPT does to the attempts.
LEMMA ReplacedBy ==
  ASSUME attempts \in [Runs -> Seq(AttemptRecord)],
         NEW r \in Runs, NEW n \in 1..Len(attempts[r]), NEW b \in AttemptRecord,
         attempts' = [attempts EXCEPT ![r] = [@ EXCEPT ![n] = b]]
  PROVE  Replaced(r, n, b)
<1> DEFINE t == [attempts[r] EXCEPT ![n] = b]
<1>1. t \in Seq(AttemptRecord) /\ Len(t) = Len(attempts[r])
      /\ \A m \in 1..Len(attempts[r]) : t[m] = IF m = n THEN b ELSE attempts[r][m]
  BY ExceptSeq
<1>2. attempts' = [attempts EXCEPT ![r] = t]
  OBVIOUS
<1> HIDE DEF t
<1> QED
  BY <1>1, <1>2 DEF Replaced

\* A launch changes an attempt the runner may or may not be watching.
LEMMA LaunchStep ==
  ASSUME SuiteInv, RunOrder \in Seq(Runs), 
         NEW r \in Runs, NEW n \in 1..Len(attempts[r]), NEW b \in AttemptRecord,
         Replaced(r, n, b), b.json = attempts[r][n].json,
         attempts[r][n].launch = "up", b.launch # "none",
         UNCHANGED <<pc, index, status, failures, rc>>
  PROVE  SuiteInv'
<1>1. SuiteTypeOK'
  BY DEF SuiteInv, SuiteTypeOK, Replaced
<1>2. Recorded(attempts[r][n]) /\ attempts[r][n].json \notin {"completed", "timeout", "interrupted"}
  BY DEF SuiteInv, AllRecorded, Recorded
<1>3. Recorded(b)
  BY <1>2 DEF Recorded
<1>4. AllRecorded'
  BY <1>3 DEF SuiteInv, AllRecorded, Replaced
<1>5. \A s \in Runs : \A m \in 1..Len(attempts[s]) : attempts'[s][m].json = attempts[s][m].json
  BY DEF Replaced
<1>6. \A s \in Runs : HasSuccess(s)' <=> HasSuccess(s)
  BY <1>5 DEF HasSuccess, Success, Replaced
<1>7. OneSuccess'
  BY <1>5 DEF SuiteInv, OneSuccess, Success, Replaced
<1>8. Progress' /\ Returned0'
  BY <1>6 DEF SuiteInv, Progress, Returned0
<1>9. Current'
  <2> SUFFICES ASSUME pc \in Working PROVE Current'
    BY DEF Current
  <2> DEFINE q == RunOrder[index]
  <2> DEFINE l == Len(attempts[q])
  <2>1. q \in Runs /\ index <= Len(RunOrder) /\ l > 0 /\ l \in Nat /\ ~HasSuccess(q)
    BY DEF SuiteInv, Current, SuiteTypeOK
  <2>2. AtLast(pc, status, attempts[q][l]) 
    BY DEF SuiteInv, Current
  <2>3. Len(attempts'[q]) = l /\ attempts'[q][l] = IF q = r /\ l = n THEN b ELSE attempts[q][l]
    <3>1. l \in 1..Len(attempts[q])
      BY <2>1
    <3> QED BY <2>1, <3>1 DEF Replaced
  <2>4. AtLast(pc, status, attempts[q][l])'
    BY <2>2, <2>3, <1>2 DEF AtLast
  <2> QED
    BY <2>1, <2>3, <2>4, <1>6 DEF Current
<1> QED
  BY <1>1, <1>4, <1>7, <1>8, <1>9 DEF SuiteInv

\* The runner's own attempt: its run, its number and what is known of it.
LEMMA WorkingFacts ==
  ASSUME SuiteInv, RunOrder \in Seq(Runs), pc \in Working
  PROVE  /\ run \in Runs /\ last \in 1..Len(attempts[run])
         /\ attempts[run][last] \in AttemptRecord
         /\ Recorded(attempts[run][last]) /\ AtLast(pc, status, attempts[run][last])
         /\ ~HasSuccess(run) /\ index \in 1..Len(RunOrder) /\ index \in Nat
         /\ attempts \in [Runs -> Seq(AttemptRecord)]
<1>1. index \in 1..Len(RunOrder) /\ run \in Runs /\ run = RunOrder[index]
  BY DEF SuiteInv, Current, SuiteTypeOK, run
<1>2. attempts[run] \in Seq(AttemptRecord) /\ attempts \in [Runs -> Seq(AttemptRecord)]
  BY <1>1 DEF SuiteInv, SuiteTypeOK
<1>3. last \in 1..Len(attempts[run])
  BY <1>1, <1>2, LenProperties DEF SuiteInv, Current, last
<1>4. attempts[run][last] \in AttemptRecord
  BY <1>2, <1>3, ElementOfSeq
<1> QED
  BY <1>1, <1>2, <1>3, <1>4 DEF SuiteInv, Current, last, AllRecorded

\* The runner's own attempt becomes b, no success, and the runner goes on to
\* work on it, to the next run or to its end.
WorkTo(b) ==
  /\ b \in AttemptRecord /\ Recorded(b) /\ b.json # "completed"
  /\ attempts' = [attempts EXCEPT ![run] = [@ EXCEPT ![last] = b]]
  /\ pc' \in Working => AtLast(pc', status', b)
  /\ \/ UNCHANGED <<index, failures>>
     \/ pc' = "select" /\ index' \in Nat \ {0} /\ failures' \in Nat \ {0}
  /\ pc' \in Working \cup {"off", "select"} /\ status' \in Statuses
  /\ pc' = "off" => rc' # 0

\* The runner changes its own attempt, and does not make it a success.
LEMMA WorkStep ==
  ASSUME SuiteInv, RunOrder \in Seq(Runs), pc \in Working,
         NEW b, WorkTo(b)
  PROVE  SuiteInv'
<1> DEFINE r == run
<1> DEFINE n == last
<1>0. /\ r \in Runs /\ n \in 1..Len(attempts[r]) /\ ~HasSuccess(r) /\ r = RunOrder[index]
      /\ index \in 1..Len(RunOrder) /\ n = Len(attempts[r]) /\ n \in Nat
  BY WorkingFacts, LenProperties DEF run, last
<1>0a. Replaced(r, n, b)
  BY WorkingFacts, ReplacedBy DEF WorkTo
<1>0b. /\ Recorded(b) /\ b.json # "completed"
       /\ pc' \in Working => AtLast(pc', status', b)
       /\ \/ UNCHANGED <<index, failures>>
          \/ pc' = "select" /\ index' \in Nat \ {0} /\ failures' \in Nat \ {0}
       /\ pc' \in Working \cup {"off", "select"} /\ status' \in Statuses
       /\ pc' = "off" => rc' # 0
  BY DEF WorkTo
<1> HIDE DEF r, n
<1> USE <1>0b
<1>1. SuiteTypeOK'
  BY <1>0a DEF SuiteInv, SuiteTypeOK, Replaced
<1>2. AllRecorded'
  <2> SUFFICES ASSUME NEW s \in Runs, NEW m \in 1..Len(attempts[s]) PROVE Recorded(attempts'[s][m])
    BY <1>0a DEF AllRecorded, Replaced
  <2>1. Recorded(attempts[s][m])
    BY DEF SuiteInv, AllRecorded
  <2>2. attempts'[s][m] = IF s = r /\ m = n THEN b ELSE attempts[s][m]
    BY <1>0a DEF Replaced
  <2> QED BY <2>1, <2>2
<1>3. \A s \in Runs : \A m \in 1..Len(attempts[s]) : Success(s, m)' <=> Success(s, m)
  <2> SUFFICES ASSUME NEW s \in Runs, NEW m \in 1..Len(attempts[s])
               PROVE attempts'[s][m].json = "completed" <=> attempts[s][m].json = "completed"
    BY DEF Success
  <2>1. attempts'[s][m] = IF s = r /\ m = n THEN b ELSE attempts[s][m]
    BY <1>0a DEF Replaced
  <2>2. attempts[r][n].json # "completed"
    BY <1>0 DEF HasSuccess, Success
  <2> QED BY <2>1, <2>2
<1>4. \A s \in Runs : HasSuccess(s)' <=> HasSuccess(s)
  BY <1>3, <1>0a DEF HasSuccess, Replaced
<1>5. OneSuccess'
  BY <1>3, <1>0a DEF SuiteInv, OneSuccess, Replaced
<1>6. Progress' /\ Returned0'
  BY <1>4 DEF SuiteInv, Progress, Returned0, Working
<1>7. Current'
  <2> SUFFICES ASSUME pc' \in Working PROVE Current'
    BY DEF Current
  <2>0. UNCHANGED index
    BY DEF Working
  <2>1. Len(attempts'[r]) = n /\ attempts'[r][n] = b /\ n > 0
    <3>1. Len(attempts'[r]) = Len(attempts[r])
      BY <1>0, <1>0a DEF Replaced
    <3>2. attempts'[r][n] = IF r = r /\ n = n THEN b ELSE attempts[r][n]
      BY <1>0, <1>0a, Zenon DEF Replaced
    <3>3. n > 0
      BY <1>0
    <3> QED BY <3>1, <3>2, <3>3, <1>0
  <2> QED
    BY <1>0, <2>0, <2>1, <1>4 DEF Current
<1> QED
  BY <1>1, <1>2, <1>5, <1>6, <1>7 DEF SuiteInv

\* A step that leaves the attempts alone.
LEMMA QuietStep ==
  ASSUME SuiteInv, SuiteTypeOK', UNCHANGED attempts, Current', Progress', Returned0'
  PROVE  SuiteInv'
BY DEF SuiteInv, AllRecorded, OneSuccess, Success

\* The comparison takes the successes.
LEMMA SuccessIsEligible ==
  ASSUME SuiteInv, NEW r \in Runs, NEW n \in 1..Len(attempts[r])
  PROVE  Eligible(attempts[r][n]) <=> Success(r, n)
<1>1. Recorded(attempts[r][n])
  BY DEF SuiteInv, AllRecorded
<1> QED
  BY <1>1 DEF Recorded, Success, Eligible

\* A run is skipped when it has a success.
LEMMA DoneIsSuccess ==
  ASSUME SuiteInv, NEW r \in Runs
  PROVE  Done(r) <=> HasSuccess(r)
<1>1. attempts[r] \in Seq(AttemptRecord)
  BY DEF SuiteInv, SuiteTypeOK
<1>2. DOMAIN attempts[r] = 1..Len(attempts[r])
  BY <1>1, LenProperties
<1> QED
  BY <1>2, SuccessIsEligible DEF Done, Range, HasSuccess

\* The invariant holds before the first invocation.
LEMMA SuiteInitInv == SuiteInit => SuiteInv
<1> SUFFICES ASSUME SuiteInit PROVE SuiteInv
  OBVIOUS
<1>1. \A r \in Runs : attempts[r] = <<>> /\ Len(attempts[r]) = 0
  BY DEF SuiteInit
<1>2. SuiteTypeOK
  BY DEF SuiteInit, SuiteTypeOK, Working, Statuses
<1> QED
  BY <1>1, <1>2 DEF SuiteInit, SuiteInv, AllRecorded, OneSuccess, Current, Progress, Returned0, Working

\* The launches of the attempts, watched or left behind.
LEMMA SuiteLaunches ==
  ASSUME SuiteInv, RunOrder \in Seq(Runs),
         NEW r \in Runs, NEW n \in DOMAIN attempts[r],
         Collected(r, n) \/ LaunchEnds(r, n) \/ LaunchFails(r, n)
  PROVE  SuiteInv'
<1> DEFINE a == attempts[r][n]
<1>1. /\ attempts \in [Runs -> Seq(AttemptRecord)] /\ attempts[r] \in Seq(AttemptRecord)
      /\ n \in 1..Len(attempts[r])
  BY LenProperties DEF SuiteInv, SuiteTypeOK
<1>2. a \in AttemptRecord
  BY <1>1, ElementOfSeq
<1>3. a.launch = "up" /\ UNCHANGED <<pc, index, status, failures, rc>>
  BY DEF Collected, LaunchEnds, LaunchFails
<1>4. \E b \in {[a EXCEPT !.completed = TRUE], [a EXCEPT !.launch = "zero"], [a EXCEPT !.launch = "failed"]} :
        attempts' = [attempts EXCEPT ![r] = [@ EXCEPT ![n] = b]]
  BY DEF Collected, LaunchEnds, LaunchFails
<1>5. PICK b : /\ b \in {[a EXCEPT !.completed = TRUE], [a EXCEPT !.launch = "zero"], [a EXCEPT !.launch = "failed"]}
               /\ attempts' = [attempts EXCEPT ![r] = [@ EXCEPT ![n] = b]]
  BY <1>4
<1>6. b \in AttemptRecord /\ b.json = a.json /\ b.launch # "none"
  BY <1>2, <1>3, <1>5 DEF AttemptRecord, Launches
<1>7. Replaced(r, n, b)
  BY <1>1, <1>5, <1>6, ReplacedBy
<1> HIDE DEF a
<1> QED
  BY <1>1, <1>3, <1>6, <1>7, LaunchStep DEF a

\* The steps that leave every attempt as it is.
LEMMA SuiteQuiet ==
  ASSUME SuiteInv, RunOrder \in Seq(Runs),
         Start \/ SavePlan \/ Skip \/ LaunchRefused \/ Exited
           \/ WatchFails \/ Timeout \/ Interrupt \/ InterruptLaunch
           \/ InterruptDrain \/ StatsFail \/ Return \/ CompareFails
           \/ Uncaught
  PROVE  SuiteInv'
<1>0. Len(RunOrder) \in Nat
  BY LenProperties
<1>1. UNCHANGED attempts
  BY DEF Start, SavePlan, Skip, LaunchRefused, Exited, WatchFails,
         Timeout, Interrupt, InterruptLaunch, InterruptDrain, StatsFail,
         Return, CompareFails, Uncaught, Decide, GiveUpLaunch, Ends
<1>2. \A r : HasSuccess(r)' <=> HasSuccess(r)
  BY <1>1 DEF HasSuccess, Success
<1>3. CASE Start \/ SavePlan
  <2>1. SuiteTypeOK' /\ pc' \notin Working /\ pc' # "off"
    BY <1>1, <1>3 DEF Start, SavePlan, SuiteInv, SuiteTypeOK, Working
  <2>2. Progress'
    BY <1>0, <1>2, <1>3 DEF Start, SavePlan, SuiteInv, SuiteTypeOK, Progress
  <2> QED BY <1>1, <2>1, <2>2, QuietStep DEF Current, Returned0
<1>4. CASE Skip
  <2>1. SuiteTypeOK' /\ pc' = "select"
    BY <1>1, <1>4 DEF Skip, SuiteInv, SuiteTypeOK
  <2>2. index \in 1..Len(RunOrder) /\ RunOrder[index] \in Runs
    BY <1>0, <1>4 DEF Skip, SuiteInv, SuiteTypeOK
  <2>3. HasSuccess(RunOrder[index])
    BY <2>2, <1>4, DoneIsSuccess DEF Skip, run
  <2>4. Progress'
    BY <1>0, <1>2, <1>4, <2>2, <2>3 DEF Skip, SuiteInv, SuiteTypeOK, Progress
  <2> QED BY <1>1, <2>1, <2>4, QuietStep DEF Current, Returned0, Working
<1>5. CASE Return
  <2>1. SuiteTypeOK' /\ pc' = "off"
    BY <1>1, <1>5 DEF Return, Ends, SuiteInv, SuiteTypeOK
  <2>2. Returned0'
    <3> SUFFICES ASSUME rc' = 0, NEW r \in Runs PROVE HasSuccess(r)
      BY <1>2 DEF Returned0
    <3>1. failures = 0 /\ index > Len(RunOrder) /\ pc = "select"
      BY <1>5 DEF Return, Ends, SuiteInv, SuiteTypeOK
    <3>2. PICK k \in 1..Len(RunOrder) : RunOrder[k] = r
      BY LenProperties DEF Runs, Range
    <3>3. k < index
      BY <1>0, <3>1 DEF SuiteInv, SuiteTypeOK
    <3> QED BY <3>1, <3>2, <3>3 DEF SuiteInv, Progress
  <2> QED BY <1>1, <2>1, <2>2, QuietStep DEF Current, Progress, Working
<1>6. CASE CompareFails \/ Uncaught
  <2>1. SuiteTypeOK' /\ pc' = "off" /\ rc' # 0
    BY <1>1, <1>6 DEF CompareFails, Uncaught, Ends, SuiteInv, SuiteTypeOK
  <2> QED BY <1>1, <2>1, QuietStep DEF Current, Progress, Returned0, Working
<1>7. CASE LaunchRefused \/ Exited \/ WatchFails \/ Timeout \/ Interrupt
           \/ InterruptLaunch \/ InterruptDrain \/ StatsFail
  <2> USE DEF LaunchRefused, Exited, WatchFails, Timeout, Interrupt,
         InterruptLaunch, InterruptDrain, StatsFail, Decide, GiveUpLaunch
  <2>1. pc \in Working /\ pc' \in Working /\ UNCHANGED <<index, failures>> /\ status' \in Statuses
    BY <1>7 DEF Working, Statuses
  <2>2. SuiteTypeOK'
    BY <1>1, <2>1 DEF SuiteInv, SuiteTypeOK
  <2>3. AtLast(pc, status, attempts[run][last])'
    <3> DEFINE b == attempts[run][last]
    <3>1. AtLast(pc, status, b) /\ b' = b
      BY <1>1, <2>1, WorkingFacts DEF run, last
    <3>2. b \in AttemptRecord
      BY <2>1, WorkingFacts
    <3> HIDE DEF b
    <3>3. AtLast(pc', status', b)
      BY <3>1, <3>2, <1>7 DEF AtLast, AttemptRecord, b
    <3> QED BY <3>1, <3>3 DEF b
  <2>4. Current'
    BY <1>1, <1>2, <2>1, <2>3 DEF SuiteInv, Current, run, last
  <2>5. Progress' /\ Returned0'
    BY <1>2, <2>1 DEF SuiteInv, Progress, Returned0, Working
  <2> QED BY <1>1, <2>2, <2>4, <2>5, QuietStep
<1> QED
  BY <1>3, <1>4, <1>5, <1>6, <1>7

\* Record, Launch and Stop, the record of an attempt that is no success, and a
\* record that is torn.
LEMMA SuiteWork ==
  ASSUME SuiteInv, RunOrder \in Seq(Runs),
         Record \/ Launch \/ StopLaunch \/ (Report /\ status # "completed")
           \/ (Killed /\ pc \in {"prepare", "report"} /\ Write("torn"))
  PROVE  SuiteInv'
<1> DEFINE r == run
<1> DEFINE n == last
<1> DEFINE a == attempts[r][n]
<1>1. pc \in Working
  BY DEF Record, Launch, StopLaunch, Report, Working
<1>2. /\ r \in Runs /\ n \in 1..Len(attempts[r]) /\ a \in AttemptRecord /\ Recorded(a)
      /\ AtLast(pc, status, a) /\ ~HasSuccess(r) /\ index \in Nat /\ index \in 1..Len(RunOrder)
      /\ attempts \in [Runs -> Seq(AttemptRecord)]
  BY <1>1, WorkingFacts
<1>3. a.json # "completed"
  BY <1>2 DEF HasSuccess, Success
<1>4. Len(RunOrder) \in Nat /\ failures \in Nat /\ status \in Statuses
  BY LenProperties DEF SuiteInv, SuiteTypeOK
<1> HIDE DEF r, n
<1>6. CASE Record
  <2> DEFINE b == [a EXCEPT !.json = "running"]
  <2>1. attempts' = [attempts EXCEPT ![r] = [@ EXCEPT ![n] = b]]
    BY <1>6 DEF Record, Write, r, n
  <2>2. pc = "prepare" /\ pc' = "launch" /\ status' = "running" /\ UNCHANGED <<index, failures>>
    BY <1>6 DEF Record
  <2>3. b \in AttemptRecord /\ b.json = "running" /\ b.launch = "none" /\ ~b.completed
    BY <1>2, <2>2 DEF AttemptRecord, Statuses, AtLast, Recorded
  <2> HIDE DEF b
  <2>4. Recorded(b) /\ AtLast(pc', status', b)
    BY <2>2, <2>3 DEF Recorded, AtLast
  <2>5. WorkTo(b)
    BY <2>1, <2>2, <2>3, <2>4 DEF Working, Statuses, WorkTo, r, n
  <2> QED BY <2>5, <1>1, WorkStep
<1>7. CASE Launch
  <2> DEFINE b == [a EXCEPT !.launch = "up"]
  <2>1. attempts' = [attempts EXCEPT ![r] = [@ EXCEPT ![n] = b]]
    BY <1>7 DEF Launch, r, n
  <2>2. pc = "launch" /\ pc' = "watch" /\ UNCHANGED <<index, failures, status>>
    BY <1>7 DEF Launch
  <2>3. b \in AttemptRecord /\ b.json = "running" /\ b.launch = "up"
    BY <1>2, <2>2 DEF AttemptRecord, Launches, AtLast
  <2> HIDE DEF b
  <2>4. Recorded(b) /\ AtLast(pc', status', b)
    BY <2>2, <2>3 DEF Recorded, AtLast
  <2>5. WorkTo(b)
    BY <2>1, <2>2, <2>3, <2>4, <1>4 DEF Working, WorkTo, r, n
  <2> QED BY <2>5, <1>1, WorkStep
<1>8. CASE StopLaunch
  <2> DEFINE b == [a EXCEPT !.launch = IF a.launch = "up" THEN "failed" ELSE @]
  <2>1. attempts' = [attempts EXCEPT ![r] = [@ EXCEPT ![n] = b]]
    BY <1>8 DEF StopLaunch, r, n
  <2>2. pc \in {"drain", "stop"} /\ pc' = "report" /\ UNCHANGED <<index, failures, status>>
    BY <1>8 DEF StopLaunch
  <2>3. /\ b \in AttemptRecord /\ b.json = "running" /\ b.launch # "up" /\ b.completed = a.completed
        /\ b.launch = "none" <=> a.launch = "none"
    BY <1>2, <2>2 DEF AttemptRecord, Launches, AtLast
  <2>4. status \in {"timeout", "interrupted"}
    BY <1>2, <2>2 DEF AtLast
  <2> HIDE DEF b
  <2>5. Recorded(b) /\ AtLast(pc', status', b)
    BY <1>2, <2>2, <2>3, <2>4 DEF Recorded, AtLast
  <2>6. WorkTo(b)
    BY <2>1, <2>2, <2>3, <2>5, <1>4 DEF Working, WorkTo, r, n
  <2> QED BY <2>6, <1>1, WorkStep
<1>9. CASE Report /\ status # "completed"
  <2> DEFINE b == [a EXCEPT !.json = status]
  <2>1. attempts' = [attempts EXCEPT ![r] = [@ EXCEPT ![n] = b]]
    BY <1>9 DEF Report, Write, r, n
  <2>2. pc = "report" /\ UNCHANGED status /\ status \in {"failed", "timeout", "interrupted"}
    BY <1>2, <1>9 DEF Report, AtLast
  <2>3. \/ pc' = "off" /\ rc' = 130 /\ UNCHANGED <<index, failures>>
        \/ pc' = "select" /\ index' \in {index + 1, Len(RunOrder) + 1} /\ failures' = failures + 1
    <3>1. CASE status = "interrupted"
      BY <3>1, <1>9, Zenon DEF Report
    <3>2. CASE status # "interrupted"
      BY <3>2, <1>9, Zenon DEF Report
    <3> QED BY <3>1, <3>2
  <2>4. b \in AttemptRecord /\ b.json = status /\ b.launch = a.launch /\ b.completed = a.completed
    BY <1>2, <2>2 DEF AttemptRecord, Statuses
  <2> HIDE DEF b
  <2>5. Recorded(b)
    BY <1>2, <2>2, <2>4 DEF Recorded, AtLast
  <2>6. pc' \notin Working
    BY <2>3 DEF Working
  <2>7. \/ UNCHANGED <<index, failures>>
        \/ pc' = "select" /\ index' \in Nat \ {0} /\ failures' \in Nat \ {0}
    BY <1>2, <1>4, <2>3
  <2>8. WorkTo(b)
    BY <1>4, <2>1, <2>2, <2>3, <2>4, <2>5, <2>6, <2>7 DEF WorkTo, r, n
  <2> QED BY <2>8, <1>1, WorkStep
<1>10. CASE Killed /\ pc \in {"prepare", "report"} /\ Write("torn")
  <2> DEFINE b == [a EXCEPT !.json = "torn"]
  <2>1. attempts' = [attempts EXCEPT ![r] = [@ EXCEPT ![n] = b]]
    BY <1>10 DEF Write, r, n
  <2>2. pc' = "off" /\ rc' = 137 /\ UNCHANGED <<index, failures, status>>
    BY <1>10 DEF Killed, Ends
  <2>3. b \in AttemptRecord /\ b.json = "torn" /\ b.launch = a.launch /\ b.completed = a.completed
    BY <1>2 DEF AttemptRecord
  <2> HIDE DEF b
  <2>4. Recorded(b)
    BY <1>2, <2>3 DEF Recorded
  <2>5. WorkTo(b)
    BY <1>4, <2>1, <2>2, <2>3, <2>4 DEF Working, WorkTo, r, n
  <2> QED BY <2>5, <1>1, WorkStep
<1> QED
  BY <1>6, <1>7, <1>8, <1>9, <1>10

\* A new attempt, of a run that has no success.
LEMMA SuiteMake ==
  ASSUME SuiteInv, RunOrder \in Seq(Runs), Make
  PROVE  SuiteInv'
<1> DEFINE r == run
<1> DEFINE s == attempts[r]
<1>1. Len(RunOrder) \in Nat /\ index \in 1..Len(RunOrder) /\ r \in Runs /\ r = RunOrder[index]
  BY LenProperties DEF Make, NewAttempt, SuiteInv, SuiteTypeOK, run
<1>2. /\ ~HasSuccess(r) /\ pc = "select" /\ pc' = "prepare"
      /\ UNCHANGED <<index, status, failures, rc>>
  BY <1>1, DoneIsSuccess DEF Make, NewAttempt
<1>3. attempts' = [attempts EXCEPT ![r] = Append(s, Attempt)]
  BY DEF Make, NewAttempt
<1>4. attempts \in [Runs -> Seq(AttemptRecord)] /\ s \in Seq(AttemptRecord)
  BY <1>1 DEF SuiteInv, SuiteTypeOK
<1>5. /\ Attempt \in AttemptRecord /\ Attempt.json = "none" /\ ~Attempt.completed
      /\ Attempt.launch = "none"
  BY DEF Attempt, AttemptRecord, Statuses, Launches
<1> DEFINE t == Append(s, Attempt)
<1>6. /\ t \in Seq(AttemptRecord) /\ Len(t) = Len(s) + 1 /\ Len(s) \in Nat
      /\ \A m \in 1..Len(s) : t[m] = s[m]
      /\ t[Len(s) + 1] = Attempt
  BY <1>4, <1>5, AppendProperties, LenProperties
<1> HIDE DEF r, t
<1>7. attempts' \in [Runs -> Seq(AttemptRecord)] /\ attempts'[r] = t
      /\ \A q \in Runs : q # r => attempts'[q] = attempts[q]
  BY <1>1, <1>3, <1>4, <1>6 DEF t
<1>8. \A q \in Runs : \A m \in 1..Len(attempts[q]) : m \in 1..Len(attempts'[q]) /\ attempts'[q][m] = attempts[q][m]
  BY <1>6, <1>7
<1>9. ASSUME NEW q \in Runs, NEW m \in 1..Len(attempts'[q]), m \notin 1..Len(attempts[q])
      PROVE  q = r /\ m = Len(s) + 1 /\ attempts'[q][m] = Attempt
  BY <1>6, <1>7, <1>9
<1>10. SuiteTypeOK'
  BY <1>2, <1>7 DEF SuiteInv, SuiteTypeOK, Working
<1>11. AllRecorded'
  <2> SUFFICES ASSUME NEW q \in Runs, NEW m \in 1..Len(attempts'[q])
               PROVE  Recorded(attempts'[q][m])
    BY DEF AllRecorded
  <2>1. CASE m \in 1..Len(attempts[q])
    BY <2>1, <1>8 DEF SuiteInv, AllRecorded
  <2>2. CASE m \notin 1..Len(attempts[q])
    BY <2>2, <1>5, <1>9 DEF Recorded
  <2> QED BY <2>1, <2>2
<1>12. \A q \in Runs : \A m \in 1..Len(attempts'[q]) :
         attempts'[q][m].json = "completed" => m \in 1..Len(attempts[q]) /\ Success(q, m)
  BY <1>5, <1>8, <1>9 DEF Success
<1>13. OneSuccess'
  BY <1>12 DEF SuiteInv, OneSuccess, Success
<1>14. \A q \in Runs : HasSuccess(q)' <=> HasSuccess(q)
  BY <1>8, <1>12 DEF HasSuccess, Success
<1>15. Progress' /\ Returned0'
  BY <1>2, <1>14 DEF SuiteInv, Progress, Returned0
<1>16. Current'
  <2>1. AtLast(pc', status', Attempt)
    BY <1>2, <1>5 DEF AtLast
  <2>2. index' <= Len(RunOrder) /\ RunOrder[index'] = r
    BY <1>1, <1>2
  <2>3. Len(attempts'[r]) > 0 /\ attempts'[r][Len(attempts'[r])] = Attempt
    BY <1>6, <1>7
  <2> QED BY <1>1, <1>2, <1>14, <2>1, <2>2, <2>3 DEF Current
<1> QED
  BY <1>10, <1>11, <1>13, <1>15, <1>16 DEF SuiteInv

\* The record of a success: the first of its run.
LEMMA SuiteSuccess ==
  ASSUME SuiteInv, RunOrder \in Seq(Runs), Report, status = "completed"
  PROVE  SuiteInv'
<1> DEFINE r == run
<1> DEFINE n == last
<1> DEFINE a == attempts[r][n]
<1> DEFINE b == [a EXCEPT !.json = "completed"]
<1>1. pc = "report" /\ pc \in Working
  BY DEF Report, Working
<1>2. /\ r \in Runs /\ n \in 1..Len(attempts[r]) /\ a \in AttemptRecord
      /\ AtLast(pc, status, a) /\ ~HasSuccess(r) /\ index \in Nat /\ index \in 1..Len(RunOrder)
      /\ attempts \in [Runs -> Seq(AttemptRecord)] /\ r = RunOrder[index]
  BY <1>1, WorkingFacts DEF run
<1>3. attempts' = [attempts EXCEPT ![r] = [@ EXCEPT ![n] = b]]
  BY DEF Report, Write
<1>4. index' = index + 1 /\ pc' = "select" /\ UNCHANGED <<failures, rc, status>>
  BY Zenon DEF Report
<1>5. b \in AttemptRecord /\ b.json = "completed" /\ b.launch = "zero" /\ b.completed
  BY <1>1, <1>2 DEF AttemptRecord, AtLast, Statuses
<1>6. Replaced(r, n, b)
  BY <1>2, <1>3, <1>5, ReplacedBy
<1> HIDE DEF r, n, b
<1>7. SuiteTypeOK'
  BY <1>2, <1>4, <1>6 DEF SuiteInv, SuiteTypeOK, Replaced
<1>8. \A q \in Runs : \A m \in 1..Len(attempts[q]) :
        attempts'[q][m] = IF q = r /\ m = n THEN b ELSE attempts[q][m]
  BY <1>6 DEF Replaced
<1>9. \A q \in Runs : Len(attempts'[q]) = Len(attempts[q])
  BY <1>6 DEF Replaced
<1>10. Recorded(b)
  BY <1>5 DEF Recorded
<1>11. AllRecorded'
  <2> SUFFICES ASSUME NEW q \in Runs, NEW m \in 1..Len(attempts[q]) PROVE Recorded(attempts'[q][m])
    BY <1>9 DEF AllRecorded
  <2>1. Recorded(attempts[q][m])
    BY DEF SuiteInv, AllRecorded
  <2> QED BY <1>8, <1>10, <2>1
<1>12. OneSuccess'
  <2> SUFFICES ASSUME NEW q \in Runs, NEW k \in 1..Len(attempts[q]), NEW m \in 1..Len(attempts[q]),
                      attempts'[q][k].json = "completed", attempts'[q][m].json = "completed"
               PROVE  k = m
    BY <1>9 DEF OneSuccess, Success
  <2>1. CASE q = r
    <3>1. \A x \in 1..Len(attempts[r]) : attempts[r][x].json # "completed"
      BY <1>2 DEF HasSuccess, Success
    <3> QED BY <1>8, <2>1, <3>1
  <2>2. CASE q # r
    BY <1>8, <2>2 DEF SuiteInv, OneSuccess, Success
  <2> QED BY <2>1, <2>2
<1>13. \A q \in Runs : HasSuccess(q) => HasSuccess(q)'
  <2> SUFFICES ASSUME NEW q \in Runs, NEW m \in 1..Len(attempts[q]), Success(q, m)
               PROVE  attempts'[q][m].json = "completed"
    BY <1>9 DEF HasSuccess, Success
  <2>1. attempts'[q][m] = IF q = r /\ m = n THEN b ELSE attempts[q][m]
    BY <1>8
  <2>2. attempts[q][m].json = "completed"
    BY DEF Success
  <2> QED BY <1>5, <2>1, <2>2
<1>14. ASSUME NEW q \in Runs, q = r PROVE HasSuccess(q)'
  <2>1. attempts'[q][n].json = "completed"
    BY <1>2, <1>5, <1>8, <1>14
  <2>2. n \in 1..Len(attempts'[q])
    BY <1>2, <1>9, <1>14
  <2> QED BY <2>1, <2>2 DEF HasSuccess, Success
<1>15. Progress'
  <2> SUFFICES ASSUME failures = 0, NEW k \in 1..Len(RunOrder), k < index + 1
               PROVE  HasSuccess(RunOrder[k])'
    BY <1>4, Zenon DEF Progress
  <2>1. CASE k = index
    BY <2>1, <1>2, <1>14
  <2>2. CASE k < index
    BY <2>2, <1>1, <1>13 DEF SuiteInv, Progress
  <2> QED BY <2>1, <2>2, <1>2, LenProperties
<1>16. Current' /\ Returned0'
  BY <1>4 DEF Current, Returned0, Working
<1> QED
  BY <1>7, <1>11, <1>12, <1>15, <1>16 DEF SuiteInv

\* The runner is killed.
LEMMA SuiteKilled ==
  ASSUME SuiteInv, RunOrder \in Seq(Runs), Killed
  PROVE  SuiteInv'
<1>1. pc' = "off" /\ rc' = 137 /\ UNCHANGED <<index, status, failures>>
  BY DEF Killed, Ends
<1>2. CASE UNCHANGED attempts
  <2>1. SuiteTypeOK'
    BY <1>1, <1>2 DEF SuiteInv, SuiteTypeOK
  <2> QED BY <1>1, <1>2, <2>1, QuietStep DEF Current, Progress, Returned0, Working
<1>3. CASE pc \in {"prepare", "report"} /\ Write("torn")
  BY <1>3, SuiteWork
<1> QED
  BY <1>2, <1>3 DEF Killed

\* Every step preserves the invariant.
LEMMA SuiteNextInv ==
  ASSUME SuiteInv, RunOrder \in Seq(Runs), [SuiteNext]_suiteVars
  PROVE  SuiteInv'
<1>1. CASE Report
  BY <1>1, SuiteWork, SuiteSuccess
<1>2. CASE UNCHANGED suiteVars
  <2>1. SuiteTypeOK' /\ UNCHANGED attempts
    BY <1>2 DEF suiteVars, SuiteInv, SuiteTypeOK
  <2>2. Current' /\ Progress' /\ Returned0'
    BY <1>2 DEF suiteVars, SuiteInv, Current, Progress, Returned0, HasSuccess, Success
  <2> QED BY <2>1, <2>2, QuietStep
<1>3. CASE \E r \in Runs : \E n \in DOMAIN attempts[r] :
             Collected(r, n) \/ LaunchEnds(r, n) \/ LaunchFails(r, n)
  BY <1>3, SuiteLaunches
<1> QED
  BY <1>1, <1>2, <1>3, SuiteQuiet, SuiteWork, SuiteMake, SuiteKilled DEF SuiteNext, Runner

\* The properties.
LEMMA SuiteInvTruthful ==
  ASSUME SuiteInv
  PROVE  RecordsTruthful /\ ReturnTruthful
<1>1. \A r \in Runs : attempts[r] \in Seq(AttemptRecord) /\ DOMAIN attempts[r] = 1..Len(attempts[r])
  BY LenProperties DEF SuiteInv, SuiteTypeOK
<1>2. RecordsTruthful
  <2> SUFFICES ASSUME NEW r \in Runs, NEW n \in 1..Len(attempts[r])
               PROVE  /\ Eligible(attempts[r][n]) => attempts[r][n].launch = "zero"
                      /\ attempts[r][n].json \in {"completed", "timeout", "interrupted"} =>
                           attempts[r][n].launch # "up"
    BY <1>1 DEF RecordsTruthful, Range
  <2>1. Recorded(attempts[r][n])
    BY DEF SuiteInv, AllRecorded
  <2> QED BY <2>1 DEF Recorded, Eligible
<1>3. ReturnTruthful
  <2> SUFFICES ASSUME rc = 0, pc = "off", NEW r \in Runs
               PROVE  \E n \in DOMAIN attempts[r] :
                        \A m \in DOMAIN attempts[r] : Eligible(attempts[r][m]) <=> m = n
    BY DEF ReturnTruthful
  <2>1. PICK n \in 1..Len(attempts[r]) : Success(r, n)
    BY DEF SuiteInv, Returned0, HasSuccess
  <2>2. \A m \in 1..Len(attempts[r]) : Eligible(attempts[r][m]) <=> m = n
    BY <2>1, SuccessIsEligible DEF SuiteInv, OneSuccess
  <2>3. n \in DOMAIN attempts[r]
    BY <1>1
  <2>4. \A m \in DOMAIN attempts[r] : Eligible(attempts[r][m]) <=> m = n
    BY <1>1, <2>2
  <2> WITNESS n \in DOMAIN attempts[r]
  <2> QED BY <2>4
<1> QED
  BY <1>2, <1>3

\* The invariant holds in every state.
LEMMA SuiteInvariance == SuiteSpec => []SuiteInv
<1>1. RunOrder \in Seq(Runs)
  BY SuiteAssumption DEF Runs
<1>2. SuiteInit => SuiteInv
  BY <1>1, SuiteInitInv
<1>3. SuiteInv /\ [SuiteNext]_suiteVars => SuiteInv'
  BY <1>1, SuiteNextInv
<1> QED
  BY <1>2, <1>3, PTL DEF SuiteSpec

\* For every list of runs, however the suite runner is interrupted, killed and
\* resumed: an attempt taken for a success had a launch that exited with 0, and
\* one recorded as over has no launch running.
THEOREM RecordsAreTruthful == SuiteSpec => []RecordsTruthful
<1>1. SuiteInv => RecordsTruthful
  BY SuiteInvTruthful
<1> QED
  BY <1>1, SuiteInvariance, PTL

\* A suite that returns 0 has exactly one eligible attempt of every run, for
\* every list of runs and however often it was resumed.
THEOREM ReturnIsTruthful == SuiteSpec => []ReturnTruthful
<1>1. SuiteInv => ReturnTruthful
  BY SuiteInvTruthful
<1> QED
  BY <1>1, SuiteInvariance, PTL
=============================================================================
