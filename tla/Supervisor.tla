----------------------------- MODULE Supervisor -----------------------------
(***************************************************************************)
(* supervise of runner.py: starts the commands of a session in order, each *)
(* in a process group of its own, and ends all groups when one command     *)
(* ends or the session is interrupted.  A command may have descendants in  *)
(* its group, as ros2 launch does; they may outlive it.                    *)
(***************************************************************************)
EXTENDS Naturals, Sequences, Functions

CONSTANT Order   \* the commands: bridge, application processes, gem5

VARIABLES
  pc,            \* "start", "poll", "signal", "grace", "kill", "returned"
  position,      \* position in processes
  interrupted,
  late,          \* the ten seconds have passed
  leader, kids   \* command |-> "none", "up", "ended" or "killed": its process,
                 \* and the descendants in its group

supervisorVars == <<pc, position, interrupted, late, leader, kids>>

Commands == Range(Order)

ASSUME OrderAssumption == Order \in Seq(Commands)

SupervisorInit ==
  /\ pc = "start" /\ position = 1 /\ interrupted = FALSE /\ late = FALSE
  /\ leader = [c \in Commands |-> "none"] /\ kids = [c \in Commands |-> "none"]

-----------------------------------------------------------------------------
(* The commands.                                                           *)

Forks(c) ==
  /\ leader[c] = "up" /\ kids[c] = "none" /\ kids' = [kids EXCEPT ![c] = "up"]
  /\ UNCHANGED <<pc, position, interrupted, late, leader>>

\* A command ends, on its own or for SIGINT; so do its descendants.
LeaderEnds(c) ==
  /\ leader[c] = "up" /\ leader' = [leader EXCEPT ![c] = "ended"]
  /\ UNCHANGED <<pc, position, interrupted, late, kids>>

KidsEnd(c) ==
  /\ kids[c] = "up" /\ kids' = [kids EXCEPT ![c] = "ended"]
  /\ UNCHANGED <<pc, position, interrupted, late, leader>>

-----------------------------------------------------------------------------
(* The supervisor.                                                         *)

\* The handler of SIGINT and SIGTERM.
Interrupt ==
  /\ pc # "returned" /\ interrupted' = TRUE
  /\ UNCHANGED <<pc, position, late, leader, kids>>

StartCommand ==
  /\ pc = "start" /\ position <= Len(Order)
  /\ leader' = [leader EXCEPT ![Order[position]] = "up"] /\ position' = position + 1
  /\ UNCHANGED <<pc, interrupted, late, kids>>

Started ==
  /\ pc = "start" /\ position > Len(Order) /\ pc' = "poll"
  /\ UNCHANGED <<position, interrupted, late, leader, kids>>

\* Popen fails; the processes started so far are stopped.
StartFails ==
  /\ pc = "start" /\ position <= Len(Order) /\ pc' = "signal" /\ position' = 1
  /\ UNCHANGED <<interrupted, late, leader, kids>>

Poll ==
  /\ pc = "poll" /\ (interrupted \/ \E c \in Commands : leader[c] = "ended")
  /\ pc' = "signal" /\ position' = 1
  /\ UNCHANGED <<interrupted, late, leader, kids>>

\* SIGINT to the groups in turn; what it does is in LeaderEnds and KidsEnd.
Signal ==
  /\ pc = "signal"
  /\ IF position <= Len(Order) THEN position' = position + 1 /\ UNCHANGED pc ELSE position' = 1 /\ pc' = "grace"
  /\ UNCHANGED <<interrupted, late, leader, kids>>

Deadline ==
  /\ pc = "grace" /\ late' = TRUE
  /\ UNCHANGED <<pc, position, interrupted, leader, kids>>

GraceIf(over) ==
  /\ pc = "grace" /\ over /\ pc' = "kill"
  /\ UNCHANGED <<position, interrupted, late, leader, kids>>

\* Fault: the wait has no deadline.
GraceForever == GraceIf(\A c \in Commands : leader[c] # "up")

\* The wait is for the leaders only.
Grace == GraceIf(late \/ \A c \in Commands : leader[c] # "up")

KillWith(group) ==
  LET c == Order[position]
      Kills(s) == IF s = "up" THEN "killed" ELSE s
  IN  /\ pc = "kill" /\ position <= Len(Order) /\ position' = position + 1
      /\ leader' = [leader EXCEPT ![c] = Kills(@)]
      /\ kids' = IF group THEN [kids EXCEPT ![c] = Kills(@)] ELSE kids
      /\ UNCHANGED <<pc, interrupted, late>>

\* Fault: a group whose leader has ended is taken for ended.
KillLeaders == KillWith(leader[Order[position]] = "up")

\* SIGKILL to the groups in turn, and wait.
Kill == KillWith(TRUE)

Return ==
  /\ pc = "kill" /\ position > Len(Order) /\ pc' = "returned"
  /\ UNCHANGED <<position, interrupted, late, leader, kids>>

Supervise == StartCommand \/ Started \/ Poll \/ Signal \/ Grace \/ Kill \/ Return

SupervisorNext ==
  \/ Supervise \/ StartFails \/ Deadline \/ Interrupt
  \/ \E c \in Commands : Forks(c) \/ LeaderEnds(c) \/ KidsEnd(c)

SupervisorSpec == SupervisorInit /\ [][SupervisorNext]_supervisorVars

\* The supervisor runs and time passes; nothing is assumed of the commands.
SupervisorFairSpec == SupervisorSpec /\ WF_supervisorVars(Supervise) /\ WF_supervisorVars(Deadline)

-----------------------------------------------------------------------------
(* Properties.                                                             *)

\* When supervise returns, or raises, no process of any group is left.
NoneLeft ==
  pc = "returned" => \A c \in Commands : leader[c] # "up" /\ kids[c] # "up"

\* A session that is interrupted, or one of whose commands has ended, is over
\* in the end, whatever the other commands do.
Returns == interrupted \/ (\E c \in Commands : leader[c] = "ended") ~> pc = "returned"
=============================================================================
