----------------------------- MODULE SimControl -----------------------------
(***************************************************************************)
(* What stepping the simulator promises, without ticks: one timing client  *)
(* (Gem5TimingController) sends one command at a time to the timing server *)
(* of the simulator, which executes it on its only thread and answers.     *)
(* Guest code runs only while sim is "running", or "boot" before the first *)
(* pause.  TimingSession refines this module with ticks, the drift         *)
(* compensation and the run loop; DataExchange composes it with the data   *)
(* path.                                                                   *)
(***************************************************************************)
VARIABLES
  sim,      \* "boot", "paused" (server listening), "running", "exited"
  done,     \* TimingServer.finished: a terminating event has been seen
  inbox,    \* command the server has yet to execute, or "none"
  reply,    \* response line on the client's connection, or "none"
  open,     \* the client has a connection (fd >= 0)
  session   \* client: "usable", "finished", "failed" or "stopped"

simVars == <<sim, done, inbox, reply, open, session>>

SimTypeOK ==
  /\ sim \in {"boot", "paused", "running", "exited"}
  /\ done \in BOOLEAN
  /\ inbox \in {"none", "step", "status", "quit"}
  /\ reply \in {"none", "ok", "done", "paused", "bye", "error"}
  /\ open \in BOOLEAN
  /\ session \in {"usable", "finished", "failed", "stopped"}

SimInit ==
  /\ sim = "boot" /\ done = FALSE /\ inbox = "none"
  /\ reply = "none" /\ open = FALSE /\ session = "usable"

-----------------------------------------------------------------------------
(* Client: Gem5TimingController::Impl::request and response.               *)

MayRequest == ~open /\ session \notin {"failed", "stopped"}

Listening == sim \in {"paused", "running"}

\* The command is on the wire; the server will execute it even if the client
\* gives up on the answer.
Request(command) ==
  /\ MayRequest /\ Listening
  /\ open' = TRUE
  /\ inbox' = command
  /\ UNCHANGED <<sim, done, reply, session>>

\* error(): any socket failure poisons the session.
RequestFails ==
  /\ MayRequest
  /\ session' = "failed"
  /\ UNCHANGED <<sim, done, inbox, reply, open>>

\* A complete response line closes the connection; outcome is what the caller
\* makes of it.
Receive(line, outcome) ==
  /\ open /\ reply = line
  /\ open' = FALSE
  /\ reply' = "none"
  /\ session' = outcome
  /\ UNCHANGED <<sim, done, inbox>>

\* Fault: a timeout leaves the session usable.
GiveUpQuietly ==
  /\ open /\ reply = "none"
  /\ open' = FALSE
  /\ UNCHANGED <<sim, done, inbox, reply, session>>

\* The deadline passes, or the server dies, before a response line arrives.
GiveUp ==
  /\ open /\ reply = "none"
  /\ open' = FALSE
  /\ session' = "failed"
  /\ UNCHANGED <<sim, done, inbox, reply>>

-----------------------------------------------------------------------------
(* Server: TimingServer of chimaera_gem5.py.                               *)

\* sendall to a client that has gone is ignored.
Answer(line) ==
  /\ inbox' = "none"
  /\ reply' = IF open THEN line ELSE "none"

\* run(): boot until workbegin, then bind the timing socket; or the guest
\* finishes first and the simulator script raises.
Booted ==
  /\ sim = "boot"
  /\ sim' \in {"paused", "exited"}
  /\ UNCHANGED <<done, inbox, reply, open, session>>

\* STEP with a positive budget.
Resume ==
  /\ sim = "paused" /\ inbox = "step" /\ ~done
  /\ sim' = "running"
  /\ UNCHANGED <<done, inbox, reply, open, session>>

\* STEP that executes no guest code: a zero budget, a rejected one, or a
\* simulation that has finished already.
StepInPlace ==
  /\ sim = "paused" /\ inbox = "step"
  /\ IF done THEN Answer("done") ELSE Answer("ok") \/ Answer("error")
  /\ UNCHANGED <<sim, done, open, session>>

\* The budget is used up, or the guest ends the simulation.
Halt ==
  /\ sim = "running"
  /\ sim' = "paused"
  /\ \/ Answer("ok") /\ UNCHANGED done
     \/ Answer("done") /\ done' = TRUE
  /\ UNCHANGED <<open, session>>

Status ==
  /\ sim = "paused" /\ inbox = "status"
  /\ Answer(IF done THEN "done" ELSE "paused")
  /\ UNCHANGED <<sim, done, open, session>>

Quit ==
  /\ sim = "paused" /\ inbox = "quit"
  /\ Answer("bye")
  /\ sim' = "exited"
  /\ UNCHANGED <<done, open, session>>

\* gem5 dies (a pseudo-op panics, or the process is killed).
Die ==
  /\ sim \in {"boot", "paused", "running"}
  /\ sim' = "exited"
  /\ inbox' = "none"
  /\ UNCHANGED <<done, reply, open, session>>

-----------------------------------------------------------------------------
Client ==
  \/ \E command \in {"step", "status", "quit"} :
       Request(command) /\ (command = "step" => session = "usable")
  \/ RequestFails
  \/ Receive("ok", session) \/ Receive("paused", session)
  \/ Receive("done", "finished") \/ Receive("bye", "stopped")
  \/ \E line \in {"ok", "done", "paused", "bye", "error"} : Receive(line, "failed")
  \/ GiveUp

Server == Booted \/ Resume \/ StepInPlace \/ Halt \/ Status \/ Quit \/ Die

SimNext == Client \/ Server

SimSpec == SimInit /\ [][SimNext]_simVars
=============================================================================
