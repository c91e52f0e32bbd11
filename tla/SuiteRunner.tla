----------------------------- MODULE SuiteRunner -----------------------------
(***************************************************************************)
(* The wall-following suite runner (run_experiments.py): one attempt of    *)
(* each run of the plan that has no eligible attempt (results.py), each a  *)
(* launch in a session of its own, with what it leaves on disk.  The       *)
(* runner can be interrupted and killed anywhere, and is then resumed; a   *)
(* launch it leaves behind goes on.                                        *)
(***************************************************************************)
EXTENDS Naturals, Sequences, Functions

CONSTANTS RunOrder,          \* ids of the plan's runs
          Gem5, Quiet, KeepGoing,   \* options
          MaxFaults          \* bound: failures, interrupts and kills

ASSUME SuiteAssumption ==
  /\ RunOrder \in Seq(Range(RunOrder))
  /\ {Gem5, Quiet, KeepGoing} \subseteq BOOLEAN /\ MaxFaults \in Nat

VARIABLES
  output,    \* the directory: "absent", "made", "planned" (with suite.json)
  attempts,  \* run |-> its attempt directories and what became of their launch
  pc, index, status, failures,   \* the runner; status is record['status']
  rc,        \* its last exit code, 137 when it was killed
  faults

suiteVars == <<output, attempts, pc, index, status, failures, rc, faults>>

Runs == Range(RunOrder)

\* attempt.json, metadata.json says completed, and the launch: "none", "up",
\* and the code it exited with.
Attempt == [json |-> "none", completed |-> FALSE, launch |-> "none"]

Eligible(a) == a.completed /\ a.json \in {"none", "completed"}

Done(r) == \E a \in Range(attempts[r]) : Eligible(a)

SuiteInit ==
  /\ output = "absent" /\ attempts = [r \in Runs |-> <<>>]
  /\ pc = "off" /\ index = 1 /\ status = "none" /\ failures = 0 /\ rc = 1 /\ faults = 0

Fault == faults < MaxFaults /\ faults' = faults + 1

run   == RunOrder[index]
last  == Len(attempts[run])
Write(json) == attempts' = [attempts EXCEPT ![run][last].json = json]

-----------------------------------------------------------------------------
(* Launches: the collector finishes, then the launch ends.                 *)

Collected(r, n) ==
  /\ attempts[r][n].launch = "up" /\ attempts' = [attempts EXCEPT ![r][n].completed = TRUE]
  /\ UNCHANGED <<output, pc, index, status, failures, rc, faults>>

LaunchEnds(r, n) ==
  /\ attempts[r][n].launch = "up" /\ attempts[r][n].completed
  /\ attempts' = [attempts EXCEPT ![r][n].launch = "zero"]
  /\ UNCHANGED <<output, pc, index, status, failures, rc, faults>>

\* A launch that fails, or exits with 0 for a collection that did not complete.
LaunchFails(r, n) ==
  /\ attempts[r][n].launch = "up"
  /\ \/ attempts' = [attempts EXCEPT ![r][n].launch = "failed"]
     \/ /\ ~attempts[r][n].completed
        /\ attempts' = [attempts EXCEPT ![r][n].launch = "zero"]
  /\ Fault /\ UNCHANGED <<output, pc, index, status, failures, rc>>

-----------------------------------------------------------------------------
(* The runner.                                                             *)

\* A fresh directory, or --resume with a saved plan.
Start ==
  /\ pc = "off" /\ output # "made"
  /\ IF output = "absent" THEN output' = "made" /\ pc' = "plan"
                          ELSE pc' = "select" /\ UNCHANGED output
  /\ index' = 1 /\ failures' = 0
  /\ UNCHANGED <<attempts, status, rc, faults>>

SavePlan ==
  /\ pc = "plan" /\ output' = "planned" /\ pc' = "select"
  /\ UNCHANGED <<attempts, index, status, failures, rc, faults>>

Skip ==
  /\ pc = "select" /\ index <= Len(RunOrder) /\ Done(run) /\ index' = index + 1
  /\ UNCHANGED <<output, attempts, pc, status, failures, rc, faults>>

NewAttempt(wanted, dirs) ==
  /\ pc = "select" /\ index <= Len(RunOrder) /\ wanted
  /\ attempts' = [attempts EXCEPT ![run] = Append(dirs, Attempt)] /\ pc' = "prepare"
  /\ UNCHANGED <<output, index, status, failures, rc, faults>>

\* Fault: a run is tried once.
MakeFirst == NewAttempt(last = 0, attempts[run])

\* Create the next attempt's directory; its inputs are written in it.
Make == NewAttempt(~Done(run), attempts[run])

\* Fault: the attempt is not recorded before its launch.
RecordLater ==
  /\ pc = "prepare" /\ pc' = "launch" /\ status' = "running"
  /\ UNCHANGED <<attempts, output, index, failures, rc, faults>>

Record ==
  /\ pc = "prepare" /\ Write("running") /\ pc' = "launch" /\ status' = "running"
  /\ UNCHANGED <<output, index, failures, rc, faults>>

Launch ==
  /\ pc = "launch" /\ pc' = "watch"
  /\ attempts' = [attempts EXCEPT ![run][last].launch = "up"]
  /\ UNCHANGED <<output, index, status, failures, rc, faults>>

Decide(s) ==
  /\ status' = s /\ pc' = "report"
  /\ UNCHANGED <<output, attempts, index, failures, rc>>

\* Popen or preflight fails: the sockets are in use by a launch left behind.
LaunchRefused ==
  /\ pc = "launch" /\ Decide("failed")
  /\ Fault

\* wait returns, and the collector's metadata is read.
Exited ==
  LET a == attempts[run][last]
  IN  /\ pc = "watch" /\ a.launch \in {"zero", "failed"}
      /\ Decide(IF a.launch = "zero" /\ a.completed THEN "completed" ELSE "failed")
      /\ UNCHANGED faults

\* Reading the log or showing progress fails; nobody stops the launch.
WatchFails == pc = "watch" /\ ~Quiet /\ Decide("failed") /\ Fault

\* The time is up, or the first Ctrl+C.  wait_verbose stops the launch, and
\* main stops it once more.
GiveUpLaunch(s, how) ==
  /\ pc = "watch" /\ status' = s /\ pc' = how
  /\ Fault /\ UNCHANGED <<output, attempts, index, failures, rc>>

Timeout == GiveUpLaunch("timeout", IF Quiet THEN "stop" ELSE "drain")

Interrupt == GiveUpLaunch("interrupted", IF Quiet THEN "stop" ELSE "drain")

InterruptLaunch == pc = "launch" /\ Decide("interrupted") /\ Fault

\* Ctrl+C in the stop_process of wait_verbose is an interrupt for main.
InterruptDrain ==
  /\ pc = "drain" /\ status' = "interrupted" /\ pc' = "stop"
  /\ Fault /\ UNCHANGED <<output, attempts, index, failures, rc>>

\* stop_process: SIGINT, SIGTERM, SIGKILL until the group is gone.
StopLaunch ==
  LET a == attempts[run][last]
  IN  /\ pc \in {"drain", "stop"} /\ pc' = "report"
      /\ attempts' = [attempts EXCEPT ![run][last].launch =
                        IF a.launch = "up" THEN "failed" ELSE @]
      /\ UNCHANGED <<output, index, status, failures, rc, faults>>

\* gem5's timing or statistics of a completed attempt cannot be summarized.
StatsFail == Gem5 /\ pc = "report" /\ status = "completed" /\ Decide("failed") /\ Fault

\* The record is written, and the loop goes on or ends.
Report ==
  /\ pc = "report" /\ Write(status)
  /\ CASE status = "completed" ->
            index' = index + 1 /\ pc' = "select" /\ UNCHANGED <<failures, rc>>
       [] status = "interrupted" -> pc' = "off" /\ rc' = 130 /\ UNCHANGED <<index, failures>>
       [] OTHER ->
            /\ failures' = failures + 1 /\ pc' = "select"
            /\ index' = IF KeepGoing THEN index + 1 ELSE Len(RunOrder) + 1
            /\ UNCHANGED rc
  /\ UNCHANGED <<output, status, faults>>

Ends(code) ==
  /\ pc' = "off" /\ rc' = code
  /\ UNCHANGED <<output, index, status, failures>>

\* Fault: the exit code is the last attempt's.
ReturnLast ==
  /\ pc = "select" /\ index > Len(RunOrder) /\ Ends(IF status = "failed" THEN 1 ELSE 0)
  /\ UNCHANGED <<attempts, faults>>

Return ==
  /\ pc = "select" /\ index > Len(RunOrder) /\ Ends(IF failures > 0 THEN 1 ELSE 0)
  /\ UNCHANGED <<attempts, faults>>

\* The comparison of the results fails.
CompareFails ==
  /\ pc = "select" /\ index > Len(RunOrder) /\ Ends(1)
  /\ Fault /\ UNCHANGED attempts

\* Ctrl+C where the runner does not expect it.
Uncaught ==
  /\ pc \in {"plan", "select", "prepare", "stop", "report"} /\ Ends(130)
  /\ Fault /\ UNCHANGED attempts

\* SIGKILL, which may tear a file that is being written.
Killed ==
  /\ pc # "off" /\ Ends(137)
  /\ Fault
  /\ UNCHANGED attempts \/ (pc \in {"prepare", "report"} /\ Write("torn"))

Runner ==
  \/ SavePlan \/ Skip \/ Make \/ Record \/ Launch \/ Exited \/ StopLaunch \/ Report \/ Return

SuiteNext ==
  \/ Start \/ Runner
  \/ LaunchRefused \/ WatchFails \/ Timeout \/ Interrupt \/ InterruptLaunch
  \/ InterruptDrain \/ StatsFail \/ CompareFails \/ Uncaught \/ Killed
  \/ \E r \in Runs : \E n \in DOMAIN attempts[r] :
       Collected(r, n) \/ LaunchEnds(r, n) \/ LaunchFails(r, n)

SuiteSpec == SuiteInit /\ [][SuiteNext]_suiteVars

\* The runner runs, a launch without a failure completes, the operator resumes.
SuiteFairSpec ==
  /\ SuiteSpec /\ WF_suiteVars(Runner) /\ WF_suiteVars(Start)
  /\ WF_suiteVars(\E r \in Runs : \E n \in DOMAIN attempts[r] : Collected(r, n) \/ LaunchEnds(r, n))

-----------------------------------------------------------------------------
(* Properties.                                                             *)

\* What is recorded of an attempt is so: one that comparisons and later suites
\* take for a success is one whose launch exited with 0, even when the runner
\* was killed and left the launch behind, and the launch of one recorded as
\* completed, timed out or interrupted writes to its directory no more.
RecordsTruthful ==
  \A r \in Runs : \A a \in Range(attempts[r]) :
    /\ Eligible(a) => a.launch = "zero"
    /\ a.json \in {"completed", "timeout", "interrupted"} => a.launch # "up"

\* A suite that returns 0 has exactly one eligible attempt of every run.
ReturnTruthful ==
  rc = 0 /\ pc = "off" =>
    \A r \in Runs : \E n \in DOMAIN attempts[r] :
      \A m \in DOMAIN attempts[r] : Eligible(attempts[r][m]) <=> m = n

\* A suite whose plan is saved gets a success of every run, however the runner
\* is interrupted and killed, when it is resumed and failures end.
Completes == output = "planned" ~> \A r \in Runs : Done(r)
=============================================================================
