-------------------------- MODULE ContainerRunner ---------------------------
(***************************************************************************)
(* The container runner (containers/run.py): jobs run in Docker containers *)
(* under a limit of parallel workers, run.json records them, and a run can *)
(* be resumed.  What run.json says (disk), what the runner knows (state,   *)
(* pending, active) and what Docker does (runs) are separate: the runner   *)
(* may be killed at any point, and then its docker clients and containers  *)
(* live on.  The lock on the output makes runners take turns.              *)
(***************************************************************************)
EXTENDS Naturals, Sequences, FiniteSets, Functions, Selection

CONSTANTS JobOrder,   \* config['jobs']: job names in order
          Workers,    \* --workers
          MaxFaults   \* bound: crashes, interrupts and failures in a behaviour

Jobs == Range(JobOrder)

ASSUME RunnerAssumption ==
  /\ Workers \in Nat \ {0} /\ MaxFaults \in Nat
  /\ JobOrder \in Seq(Jobs) /\ IsInjective(JobOrder)

VARIABLES
  pc,           \* "off", "loop", "spawned" (Popen done, not saved) or "finally"
  disk,         \* run.json, or NoRun
  state,        \* the runner's copy: status of the run, records of the jobs
  pending, active, interrupted,
  runs,         \* history: every docker run; its index is the container name
  faults,       \* faults so far
  dirty         \* a runner was killed, or ended with cleanup_failed

vars == <<pc, disk, state, pending, active, interrupted, runs, faults, dirty>>

NoRun == [status |-> "none", jobs |-> [j \in Jobs |-> [status |-> "queued", container |-> 0]]]

Fault == faults < MaxFaults /\ faults' = faults + 1

Init ==
  /\ pc = "off" /\ disk = NoRun /\ state = NoRun
  /\ pending = <<>> /\ active = {} /\ interrupted = FALSE
  /\ runs = <<>> /\ faults = 0 /\ dirty = FALSE

-----------------------------------------------------------------------------
(* Docker: the client a docker run starts, and its container (box).  A     *)
(* client that has ended keeps its exit code.                              *)

Client(n, cli, box) == runs' = [runs EXCEPT ![n] = [@ EXCEPT !.cli = cli, !.box = box]]

DockerLeaves == UNCHANGED <<pc, disk, state, pending, active, interrupted, dirty>>

Create(n) ==
  /\ runs[n].cli = "starting" /\ Client(n, "attached", TRUE)
  /\ DockerLeaves /\ UNCHANGED faults

\* The job ends; --rm removes its container.
JobEnds(n) ==
  /\ runs[n].box
  /\ \/ runs[n].cli = "attached" /\ Client(n, "exit0", FALSE) /\ UNCHANGED faults
     \/ runs[n].cli = "attached" /\ Client(n, "exit1", FALSE) /\ Fault
     \/ runs[n].cli # "attached" /\ Client(n, runs[n].cli, FALSE) /\ UNCHANGED faults
  /\ DockerLeaves

\* The client cannot start the container, or loses its connection to Docker
\* and leaves the container alive.
ClientFails(n) ==
  /\ runs[n].cli \in {"starting", "attached"} /\ Client(n, "exit1", runs[n].box)
  /\ Fault /\ DockerLeaves

-----------------------------------------------------------------------------
(* The runner: run().                                                      *)

StillOwned(n) == n # 0 /\ runs[n].box

\* The resume check: docker inspect of the container of every unfinished job.
MayResume ==
  \A j \in Jobs : disk.jobs[j].status # "completed" => ~StillOwned(disk.jobs[j].container)

\* A fresh run, or --resume, of the given jobs; the first save.
StartJobs(jobs) ==
  /\ pc = "off" /\ MayResume
  /\ state' = [status |-> "running", jobs |-> disk.jobs] /\ disk' = state'
  /\ pending' = jobs /\ active' = {} /\ interrupted' = FALSE /\ pc' = "loop"
  /\ UNCHANGED <<runs, faults, dirty>>

\* Fault: a resumed run starts only jobs that never ran.
StartQueued == StartJobs(Select(JobOrder, {j \in Jobs : disk.jobs[j].status = "queued"}))

Start == StartJobs(Select(JobOrder, {j \in Jobs : disk.jobs[j].status # "completed"}))

\* Pop a job, name its container and start the docker client.
Spawn ==
  /\ pc = "loop" /\ pending # <<>> /\ Cardinality(active) < Workers /\ ~interrupted
  /\ LET j == Head(pending)
     IN  /\ state' = [state EXCEPT !.jobs[j] = [status |-> "running", container |-> Len(runs) + 1]]
         /\ runs' = Append(runs, [job |-> j, cli |-> "starting", box |-> FALSE])
         /\ active' = active \cup {j}
  /\ pending' = Tail(pending)
  /\ pc' = "spawned"
  /\ UNCHANGED <<disk, interrupted, faults, dirty>>

SaveSpawned ==
  /\ pc = "spawned" /\ disk' = state /\ pc' = "loop"
  /\ UNCHANGED <<state, pending, active, interrupted, runs, faults, dirty>>

\* The output directory, the log or the docker client cannot be made: the job
\* is popped, its record may name a container that never was (0), and the
\* exception ends the loop.
SpawnFails ==
  /\ pc = "loop" /\ pending # <<>> /\ Cardinality(active) < Workers /\ ~interrupted
  /\ \E record \in {state.jobs[Head(pending)]} \cup [status : {"running", "failed"}, container : {0}] :
       state' = [state EXCEPT !.status = "failed", !.jobs[Head(pending)] = record]
  /\ pending' = Tail(pending)
  /\ pc' = "finally"
  /\ Fault
  /\ UNCHANGED <<disk, active, interrupted, runs, dirty>>

Exited(j) == runs[state.jobs[j].container].cli \in {"exit0", "exit1"}

\* A client has ended: record the job, save; box is what becomes of its
\* container.
Reaped(j, box) ==
  LET n == state.jobs[j].container
  IN  /\ pc = "loop" /\ j \in active /\ Exited(j)
      /\ runs' = [runs EXCEPT ![n] = [@ EXCEPT !.box = box]]
      /\ state' = [state EXCEPT !.jobs[j].status =
                      IF runs[n].cli = "exit0" THEN "completed" ELSE "failed"]
      /\ active' = active \ {j}
      /\ disk' = state'
      /\ UNCHANGED <<pc, faults, pending, interrupted, dirty>>

\* Fault: no docker rm after a client has ended.
ReapOnly(j) == Reaped(j, runs[state.jobs[j].container].box)

\* docker rm --force comes first: the client may have left its container.
Reap(j) == Reaped(j, FALSE)

\* The removal fails and the exception ends the loop, the job still active.
ReapFails(j) ==
  /\ pc = "loop" /\ j \in active /\ Exited(j)
  /\ state' = [state EXCEPT !.status = "failed"]
  /\ pc' = "finally"
  /\ Fault
  /\ UNCHANGED <<active, runs, disk, pending, interrupted, dirty>>

AllCompleted == \A j \in Jobs : state.jobs[j].status = "completed"

LoopEndsAs(status) ==
  /\ pc = "loop" /\ (interrupted \/ (pending = <<>> /\ active = {}))
  /\ state' = [state EXCEPT !.status = IF interrupted THEN "interrupted" ELSE status]
  /\ pc' = "finally"
  /\ UNCHANGED <<disk, pending, active, interrupted, runs, faults, dirty>>

\* Fault: the run is completed when nothing is left to do.
LoopEndsDone == LoopEndsAs("completed")

LoopEnds == LoopEndsAs(IF AllCompleted THEN "completed" ELSE "failed")

\* docker stop, end the client, docker rm.  A client that was told to end
\* creates no container any more.
Cleaned(run) ==
  [run EXCEPT !.cli = IF @ = "exit0" THEN @ ELSE "exit1", !.box = FALSE]

\* finally: clean up every active job and save.  A job for which a call fails
\* (bad) keeps its record, and perhaps its client and container.
EndRun ==
  /\ pc = "finally"
  /\ \E bad \in SUBSET active :
       LET names == {state.jobs[j].container : j \in active \ bad}
       IN  /\ runs' = [n \in DOMAIN runs |-> IF n \in names THEN Cleaned(runs[n]) ELSE runs[n]]
           /\ disk' = [status |-> IF bad # {} THEN "cleanup_failed"
                                  ELSE IF active = {} THEN state.status
                                  ELSE IF interrupted THEN "interrupted" ELSE "failed",
                       jobs |-> [j \in Jobs |-> IF j \in active \ bad
                                                THEN [state.jobs[j] EXCEPT !.status = "interrupted"]
                                                ELSE state.jobs[j]]]
           /\ dirty' = (dirty \/ bad # {})
           /\ IF bad = {} THEN UNCHANGED faults ELSE Fault
  /\ state' = disk'
  /\ pc' = "off"
  /\ UNCHANGED <<pending, active, interrupted>>

\* SIGINT or SIGTERM: the handler only notes it.
Interrupt ==
  /\ pc # "off" /\ ~interrupted
  /\ interrupted' = TRUE
  /\ Fault
  /\ UNCHANGED <<pc, disk, state, pending, active, runs, dirty>>

\* The runner is killed; only run.json, clients and containers remain.
Crash ==
  /\ pc # "off"
  /\ pc' = "off" /\ state' = disk /\ pending' = <<>> /\ active' = {} /\ interrupted' = FALSE
  /\ dirty' = TRUE
  /\ Fault
  /\ UNCHANGED <<disk, runs>>

\* The operator removes a container that run.json names (the resume error).
OperatorRemoves(j) ==
  /\ pc = "off" /\ disk.jobs[j].status # "completed" /\ StillOwned(disk.jobs[j].container)
  /\ Client(disk.jobs[j].container, "exit1", FALSE)
  /\ DockerLeaves /\ UNCHANGED faults

-----------------------------------------------------------------------------
Docker == \E n \in DOMAIN runs : Create(n) \/ JobEnds(n)

Runner == Spawn \/ SaveSpawned \/ (\E j \in Jobs : Reap(j)) \/ LoopEnds \/ EndRun

Next ==
  \/ Docker \/ \E n \in DOMAIN runs : ClientFails(n)
  \/ Start \/ Runner \/ SpawnFails \/ Interrupt \/ Crash
  \/ \E j \in Jobs : ReapFails(j) \/ OperatorRemoves(j)

Spec == Init /\ [][Next]_vars

\* Containers start and end, the runner runs, and the operator repeats the
\* command until the run is completed, removing what the resume error names.
FairSpec ==
  /\ Spec
  /\ \A n \in 1..(Len(JobOrder) + Workers * (MaxFaults + 1)) :
       WF_vars(n \in DOMAIN runs /\ (Create(n) \/ JobEnds(n)))
  /\ WF_vars(Runner) /\ WF_vars(Start /\ disk.status # "completed")
  /\ \A j \in Jobs : WF_vars(OperatorRemoves(j))

-----------------------------------------------------------------------------
(* Properties.                                                             *)

Busy(n) == runs[n].box \/ runs[n].cli = "starting"

\* A job has one container at a time, whose /output is the job's directory:
\* the resume error says an "old container still owns results".
OneOwner == \A m, n \in DOMAIN runs : runs[m].job = runs[n].job /\ runs[m].box /\ runs[n].box => m = n

\* Unless a runner was killed or reported that cleanup failed: a job has one
\* container, no more than --workers containers exist, and when no runner is
\* at work none exists, whatever clients, removals and signals did.
NoStrays ==
  ~dirty => /\ OneOwner
            /\ Cardinality({n \in DOMAIN runs : Busy(n)}) <= Workers
            /\ pc = "off" => \A n \in DOMAIN runs : ~Busy(n)

\* What run.json calls completed is so: the recorded container of the job
\* exited with 0 and, unless a cleanup was missed, no container of the job is
\* or will be running; a completed run has only completed jobs.
Truthful ==
  /\ \A j \in Jobs : disk.jobs[j].status = "completed" =>
       /\ runs[disk.jobs[j].container].cli = "exit0"
       /\ ~dirty => \A n \in DOMAIN runs : runs[n].job = j => ~Busy(n)
  /\ disk.status = "completed" => \A j \in Jobs : disk.jobs[j].status = "completed"

\* However often it is killed, interrupted or let down by Docker, a run that
\* is resumed until it is completed gets there.
Completes == <>(disk.status = "completed")
=============================================================================
