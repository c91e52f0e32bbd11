------------------------------ MODULE Collector ------------------------------
(***************************************************************************)
(* The collector of a wall-following attempt (collector.py) with its       *)
(* Recorder (recording.py): clock, scan, pose, command and parameter       *)
(* callbacks run one at a time until one of them finishes the collection;  *)
(* main then leaves with the exit code the launch and the suite runner     *)
(* rely on.  The robot's controller (controller.hpp) accepts or rejects    *)
(* parameter updates and announces the accepted ones.                      *)
(***************************************************************************)
EXTENDS Integers, Sequences

CONSTANTS Durations,          \* what the duration parameter may be, and
          Timeout,            \* command_timeout, in simulated time
          Values,             \* values of a controller parameter
          MaxTime, MaxStart, MaxSamples, MaxSets
            \* bounds: the clock, the first sample, samples, parameter updates

ASSUME CollectorAssumption ==
  /\ Durations \subseteq Nat \ {0} /\ Timeout \in Nat \ {0} /\ Values \subseteq Int
  /\ MaxTime \in Nat /\ MaxStart \in Nat /\ MaxSamples \in Nat /\ MaxSets \in Nat

VARIABLES
  duration,      \* as the node was started
  pc,            \* main: "spin" in its loop, "save" in Recorder.finish,
                 \* "leave" after it, "gone"
  sim, scan, have_pose, last_command,
  start, samples,   \* Recorder: start; times of the rows of samples.csv
  success, raised,  \* node.success; main is handling an exception
  completed,        \* completed, as metadata.json has it
  code,             \* exit code of the process, or None
  p_, events, parameters, sets
    \* the controller's parameters; events in flight; Recorder.parameters;
    \* updates so far

obsVars == <<duration, sim, scan, have_pose, last_command, start, samples>>
endVars == <<pc, success, raised, completed, code>>
parVars == <<p_, events, parameters, sets>>
collectorVars    == <<obsVars, endVars, parVars>>

None == -1

Names == {"sector_start", "sector_end"}

Updates == UNION {[D -> Values] : D \in SUBSET Names \ {{}}}

\* The part of validate that relates parameters to each other.
Valid(p) == p["sector_start"] < p["sector_end"]

Candidate(p, u) == [n \in Names |-> IF n \in DOMAIN u THEN u[n] ELSE p[n]]

Last(s) == s[Len(s)]

CollectorInit ==
  /\ duration \in Durations
  /\ pc = "spin" /\ sim = None /\ scan = FALSE /\ have_pose = FALSE /\ last_command = None
  /\ start = None /\ samples = <<>> /\ success = FALSE /\ raised = FALSE
  /\ completed = FALSE /\ code = None
  /\ p_ \in {p \in [Names -> Values] : Valid(p)}
  /\ parameters = p_ /\ events = <<>> /\ sets = 0

-----------------------------------------------------------------------------
(* Callbacks.                                                              *)

\* finish, up to Recorder.finish.
Finish(ok) ==
  /\ success' = ok /\ pc' = "save"
  /\ UNCHANGED <<raised, completed, code>>

\* An exception leaves the loop of main, whose finally calls finish().
Raise ==
  /\ success' = FALSE /\ raised' = TRUE /\ pc' = "save"
  /\ UNCHANGED <<completed, code>>

OnScan ==
  /\ pc = "spin" /\ scan' = TRUE
  /\ UNCHANGED <<duration, sim, have_pose, last_command, start, samples, endVars, parVars>>

OnPose ==
  /\ pc = "spin" /\ sim # None /\ have_pose' = TRUE
  /\ UNCHANGED <<duration, sim, scan, last_command, start, samples, endVars, parVars>>

\* on_clock: the clock moved backwards.
ClockBack(t) ==
  /\ pc = "spin" /\ sim # None /\ t < sim /\ Finish(FALSE)
  /\ UNCHANGED <<obsVars, parVars>>

ClockSet(t) ==
  /\ pc = "spin" /\ (sim = None \/ sim <= t) /\ sim' = t
  /\ UNCHANGED <<duration, scan, have_pose, last_command, start, samples, parVars>>

\* Fault: the gap is the one before this message.
LostStale(t) == sim - last_command > Timeout

Lost(t) == t - last_command > Timeout

Over(t) == t - start >= duration

Tick(t) ==
  /\ ClockSet(t) /\ (start = None \/ ~(Lost(t) \/ Over(t)))
  /\ UNCHANGED endVars

LostCommands(t) == ClockSet(t) /\ start # None /\ Lost(t) /\ Finish(FALSE)

\* Fault: the end of the window comes before the command gap.
WindowFirst(t) == ClockSet(t) /\ start # None /\ Over(t) /\ Finish(TRUE)

WindowOver(t) == ClockSet(t) /\ start # None /\ ~Lost(t) /\ Over(t) /\ Finish(TRUE)

OnClock(t) == ClockBack(t) \/ Tick(t) \/ LostCommands(t) \/ WindowOver(t)

Ready ==
  /\ pc = "spin" /\ sim > 0 /\ scan /\ have_pose
  /\ start = None => sim <= MaxStart

\* on_command and record_command, whose test of the clock may raise.
OnCommand ==
  /\ Ready /\ Len(samples) < MaxSamples
  /\ last_command' = sim /\ start' = IF start = None THEN sim ELSE start
  /\ IF samples # <<>> /\ sim < Last(samples)
     THEN Raise /\ UNCHANGED samples
     ELSE samples' = Append(samples, sim) /\ UNCHANGED endVars
  /\ UNCHANGED <<duration, sim, scan, have_pose, parVars>>

\* Writing the row fails.
RecordFails ==
  /\ Ready /\ last_command' = sim /\ start' = IF start = None THEN sim ELSE start
  /\ Raise
  /\ UNCHANGED <<duration, sim, scan, have_pose, samples, parVars>>

\* on_parameters; after finish the event is ignored.
OnParameters ==
  LET c == Candidate(parameters, Head(events))
  IN  /\ pc = "spin" /\ events # <<>>
      /\ events' = Tail(events)
      /\ IF Valid(c) THEN parameters' = c /\ UNCHANGED endVars
                     ELSE Raise /\ UNCHANGED parameters
      /\ UNCHANGED <<obsVars, p_, sets>>

-----------------------------------------------------------------------------
(* The controller, and the end of main.                                    *)

Announce(u, p) ==
  /\ sets < MaxSets /\ sets' = sets + 1 /\ p_' = p /\ events' = Append(events, u)
  /\ UNCHANGED <<parameters, obsVars, endVars>>

\* Fault: a rejected update is announced too.
SetAnnounced(u) ==
  Announce(u, IF Valid(Candidate(p_, u)) THEN Candidate(p_, u) ELSE p_)

\* The controller's parameter callback; a candidate that does not validate is
\* rejected and changes nothing.
Set(u) == Valid(Candidate(p_, u)) /\ Announce(u, Candidate(p_, u))

\* What Recorder.finish makes of it.
Complete == success /\ Len(samples) >= 2 /\ Last(samples) > start

SaveAnd(ok) ==
  /\ pc = "save" /\ pc' = "leave"
  /\ completed' = Complete /\ success' = ok
  /\ UNCHANGED <<raised, code, obsVars, parVars>>

\* Fault: node.success keeps the flag finish was called with.
SaveOnly == SaveAnd(success)

\* Recorder.finish; node.success is what the metadata says.
Save == SaveAnd(Complete)

Exit ==
  /\ pc = "leave" /\ pc' = "gone"
  /\ code' = IF success /\ ~raised THEN 0 ELSE 1
  /\ UNCHANGED <<success, raised, completed, obsVars, parVars>>

\* The loop is interrupted.
Interrupt == pc = "spin" /\ Raise /\ UNCHANGED <<obsVars, parVars>>

\* The process is killed, or finish is interrupted or cannot write.
Dies ==
  /\ pc # "gone" /\ pc' = "gone" /\ code' = 1
  /\ UNCHANGED <<success, raised, completed, obsVars, parVars>>

CollectorNext ==
  \/ OnScan \/ OnPose \/ OnCommand \/ RecordFails \/ OnParameters
  \/ \E t \in 0..MaxTime : OnClock(t)
  \/ \E u \in Updates : Set(u)
  \/ Save \/ Exit \/ Interrupt \/ Dies

CollectorSpec == CollectorInit /\ [][CollectorNext]_collectorVars

-----------------------------------------------------------------------------
(* Properties.                                                             *)

TypeOK ==
  /\ duration \in Nat
  /\ pc \in {"spin", "save", "leave", "gone"}
  /\ sim \in Nat \cup {None} /\ last_command \in Nat \cup {None}
  /\ start \in Nat \cup {None} /\ samples \in Seq(Nat)
  /\ scan \in BOOLEAN /\ have_pose \in BOOLEAN
  /\ success \in BOOLEAN /\ raised \in BOOLEAN /\ completed \in BOOLEAN
  /\ code \in {None, 0, 1}

\* Recorded time never goes back, and no two rows in a row of samples.csv are
\* further apart than command_timeout, completed attempt or not: on_clock
\* ends the collection before a command after a longer gap can be recorded.
GapBounded ==
  \A i \in 1..(Len(samples) - 1) :
    samples[i] <= samples[i + 1] /\ samples[i + 1] - samples[i] <= Timeout

\* Metadata that says completed belongs to a full observation: recording took
\* up the whole window but for a gap command_timeout allows at its end.
WindowCovered ==
  completed =>
    /\ Len(samples) >= 2 /\ sim - samples[1] >= duration
    /\ sim - samples[Len(samples)] <= Timeout /\ samples[Len(samples)] > samples[1]

\* Exit code 0, the success the launch passes on, means that metadata.json
\* says completed, wherever main was interrupted or failed.
ExitTruthful == code = 0 => completed

\* The recorder's parameters after each of the announced updates in flight.
Announced ==
  LET after[n \in 0..Len(events)] ==
        IF n = 0 THEN parameters ELSE Candidate(after[n - 1], events[n])
  IN  after

\* The recorder's parameters, with the announced updates still in flight, are
\* the controller's, and each of the updates will validate: on_parameters
\* raises for no update the controller accepted.
ParametersFollow ==
  pc = "spin" => Announced[Len(events)] = p_ /\ \A n \in 0..Len(events) : Valid(Announced[n])
=============================================================================
