----------------------------- MODULE SocketPath -----------------------------
(***************************************************************************)
(* Who owns the fixed socket paths: the listeners of HostTransport, the    *)
(* socket of the timing server, and the preflight of the suite runner      *)
(* (sockets.py), which removes what a killed session left.  A socket file  *)
(* outlives the process that bound it.  A number stands for the device and *)
(* inode of a file; one that somebody still remembers is not used again.   *)
(***************************************************************************)
EXTENDS Naturals, Sequences, FiniteSets, FiniteSetsExt

CONSTANTS
  Opens,               \* process |-> the paths it binds, in order
  MaxStarts            \* bound: processes started

Processes == DOMAIN Opens
Paths     == UNION {Range(Opens[p]) : p \in Processes}

\* Finitely many processes, each with sockets to open; no path is called what
\* the preflight does.
SocketConfig ==
  /\ IsFiniteSet(Processes)
  /\ \A p \in Processes : Opens[p] \in Seq(Paths) /\ Opens[p] # <<>>
  /\ Paths \cap {"off", "active", "remove"} = {}

ASSUME SocketAssumption == SocketConfig

VARIABLES
  file,                \* path |-> the socket file there, or 0
  stage, position,     \* process |-> what it does, and for which of its paths
  bound, identity,     \* process |-> path |-> file it is bound to; file it owns
  check, candidates,   \* the preflight: what it does; path |-> file it found
  starts, overlap      \* processes started; history: a preflight began while a process was at work

procVars == <<stage, position, bound, identity>>
socketVars == <<file, procVars, check, candidates, starts, overlap>>

NoFiles == [q \in Paths |-> 0]

SocketInit ==
  /\ file = NoFiles /\ check = "off" /\ candidates = NoFiles /\ starts = 0 /\ overlap = FALSE
  /\ stage = [p \in Processes |-> "off"] /\ position = [p \in Processes |-> 1]
  /\ bound = [p \in Processes |-> NoFiles] /\ identity = [p \in Processes |-> NoFiles]

Remembered ==
  Range(file) \cup Range(candidates) \cup UNION {Range(bound[p]) \cup Range(identity[p]) : p \in Processes}

NewFile ==
  LET used == Remembered IN Min((1..(Cardinality(used) + 1)) \ used)

Goto(p, label) == stage' = [stage EXCEPT ![p] = label]
Path(p) == Opens[p][position[p]]

-----------------------------------------------------------------------------
(* A process that opens its sockets, serves, and closes them in reverse.   *)

StartProcess(p) ==
  /\ stage[p] = "off" /\ Goto(p, "bind") /\ position' = [position EXCEPT ![p] = 1]
  /\ starts < MaxStarts /\ starts' = starts + 1
  /\ UNCHANGED <<file, bound, identity, check, candidates, overlap>>

Bind(p) ==
  /\ stage[p] = "bind" /\ file[Path(p)] = 0 /\ Goto(p, "identify")
  /\ file' = [file EXCEPT ![Path(p)] = NewFile]
  /\ bound' = [bound EXCEPT ![p][Path(p)] = NewFile]
  /\ UNCHANGED <<position, identity, check, candidates, starts, overlap>>

\* EADDRINUSE: an existing path is never unlinked.
BindFails(p) ==
  /\ stage[p] = "bind" /\ file[Path(p)] # 0 /\ Goto(p, "close")
  /\ UNCHANGED <<file, position, bound, identity, check, candidates, starts, overlap>>

\* lstat, then listen.
Identify(p) ==
  /\ stage[p] = "identify" /\ identity' = [identity EXCEPT ![p][Path(p)] = file[Path(p)]]
  /\ IF position[p] = Len(Opens[p]) THEN Goto(p, "up") /\ UNCHANGED position
                                    ELSE Goto(p, "bind") /\ position' = [position EXCEPT ![p] = @ + 1]
  /\ UNCHANGED <<file, bound, check, candidates, starts, overlap>>

Stop(p) ==
  /\ stage[p] = "up" /\ Goto(p, "close")
  /\ UNCHANGED <<file, position, bound, identity, check, candidates, starts, overlap>>

CloseSocket(p) ==
  /\ stage[p] = "close" /\ bound' = [bound EXCEPT ![p][Path(p)] = 0] /\ Goto(p, "compare")
  /\ UNCHANGED <<file, position, identity, check, candidates, starts, overlap>>

CompareIf(p, own) ==
  /\ stage[p] = "compare" /\ Goto(p, IF own THEN "unlink" ELSE "next")
  /\ UNCHANGED <<file, position, bound, identity, check, candidates, starts, overlap>>

\* Fault: the file at the path is taken for the process's own.
CompareNothing(p) == CompareIf(p, file[Path(p)] # 0)

Compare(p) == CompareIf(p, file[Path(p)] # 0 /\ file[Path(p)] = identity[p][Path(p)])

Unlink(p) ==
  /\ stage[p] = "unlink" /\ file' = [file EXCEPT ![Path(p)] = 0] /\ Goto(p, "next")
  /\ UNCHANGED <<position, bound, identity, check, candidates, starts, overlap>>

NextPath(p) ==
  /\ stage[p] = "next" /\ identity' = [identity EXCEPT ![p][Path(p)] = 0]
  /\ IF position[p] = 1 THEN Goto(p, "off") /\ UNCHANGED position
                        ELSE Goto(p, "close") /\ position' = [position EXCEPT ![p] = @ - 1]
  /\ UNCHANGED <<file, bound, check, candidates, starts, overlap>>

\* The process is killed: its sockets are closed, their files stay.
Killed(p) ==
  /\ stage[p] # "off" /\ Goto(p, "off")
  /\ bound' = [bound EXCEPT ![p] = NoFiles] /\ identity' = [identity EXCEPT ![p] = NoFiles]
  /\ UNCHANGED <<file, position, check, candidates, starts, overlap>>

-----------------------------------------------------------------------------
(* prepare_sockets.                                                        *)

AtWork == \E p \in Processes : stage[p] # "off"

\* lstat of every path; each is compared with itself later, so one step.
Scan ==
  /\ check = "off" /\ candidates' = file /\ check' = "active"
  /\ overlap' = (overlap \/ AtWork)
  /\ UNCHANGED <<file, procVars, starts>>

\* Fault: a socket file is taken for a session.
ActiveFiles == \E q \in Paths : file[q] # 0

Active == \E p \in Processes, q \in Paths : bound[p][q] # 0

\* /proc/net/unix; an active session is left alone.
CheckActive ==
  /\ check = "active" /\ check' = IF Active THEN "off" ELSE "remove"
  /\ UNCHANGED <<file, procVars, candidates, starts, overlap>>

\* The second lstat; a file that changed or is gone ends the preflight.
Recheck(q) ==
  /\ check = "remove" /\ candidates[q] # 0
  /\ check' = IF file[q] = candidates[q] THEN q ELSE "off"
  /\ UNCHANGED <<file, procVars, candidates, starts, overlap>>

\* unlink of a file that is gone raises.
RemoveFile ==
  /\ check \in Paths /\ file' = [file EXCEPT ![check] = 0]
  /\ candidates' = [candidates EXCEPT ![check] = 0]
  /\ check' = IF file[check] = 0 THEN "off" ELSE "remove"
  /\ UNCHANGED <<procVars, starts, overlap>>

Prepared ==
  /\ check = "remove" /\ candidates = NoFiles /\ check' = "off"
  /\ UNCHANGED <<file, procVars, candidates, starts, overlap>>

Process(p) ==
  \/ Bind(p) \/ BindFails(p) \/ Identify(p) \/ CloseSocket(p) \/ Compare(p) \/ Unlink(p)
  \/ NextPath(p)

Preflight ==
  Scan \/ CheckActive \/ (\E q \in Paths : Recheck(q)) \/ RemoveFile \/ Prepared

SocketNext == Preflight \/ \E p \in Processes : StartProcess(p) \/ Stop(p) \/ Killed(p) \/ Process(p)

SocketSpec == SocketInit /\ [][SocketNext]_socketVars

\* The suite is run, and a process that closes its sockets goes on.
SocketFairSpec == SocketSpec /\ WF_socketVars(Preflight) /\ \A p \in Processes : WF_socketVars(Process(p))

-----------------------------------------------------------------------------
(* Properties.                                                             *)

\* A socket that a process has bound can be reached at its path until the
\* process closes it: neither a session that failed to open or ends late, nor
\* the preflight, which is to "remove only ... inactive socket files", unlinks
\* it.  The suite runs the preflight between its own sessions; one that began
\* while a foreign session was closing may come too late with its unlink.
Reachable ==
  ~overlap => \A p \in Processes, q \in Paths : bound[p][q] # 0 => file[q] = bound[p][q]

\* Once nothing is at work, every file a killed session left is removed, so
\* that the next one can bind, wherever the one before was killed.
StaleRemoved ==
  \A q \in Paths :
    file[q] # 0 /\ ~AtWork ~> file[q] = 0 \/ AtWork
=============================================================================
