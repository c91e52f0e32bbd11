------------------------------- MODULE Bridge -------------------------------
(***************************************************************************)
(* The ROS bridges of host and guest (bridge.hpp) over their controllers.  *)
(* A bridge is one thread that repeats: deliver what the controller has    *)
(* received, run the subscription callbacks that are due, hand what they   *)
(* queued to the controller, and let the simulation go on (the loops of    *)
(* host_bridge.cpp, which exchanges before and after each step, and of     *)
(* guest_bridge.cpp).  The controllers are the queues of ControllerQueues; *)
(* run_next moves a batch each way (DataExchange), as bytes (BatchCodec).  *)
(***************************************************************************)
EXTENDS BatchCodec

CONSTANTS
  Routes,                  \* side |-> keys of the routes it sends
  Payloads,                \* serialized messages, sequences of bytes
  byte_limit, queue_limit, \* side |-> the limits it is configured with
  MaxArrivals              \* bound: messages of a side

Sides == {"host", "guest"}

ASSUME BridgeAssumption ==
  /\ Routes \in [Sides -> SUBSET Seq(Nat)] /\ Payloads \in SUBSET Seq(Nat)
  /\ byte_limit \in [Sides -> Nat] /\ queue_limit \in [Sides -> Nat]
  /\ MaxArrivals \in Nat

VARIABLES
  phase,      \* side |-> "step", "deliver", "pump", "drain", "failed"; the
              \* guest in run_next is "sent" once its batch is out
  again,      \* the host's exchange after a step, another one follows it
  outgoing,   \* side |-> outgoing_, frames
  submitted,  \* side |-> its controller's queue to the other side
  incoming,   \* frames the host's controller received since the last boundary
  ready,      \* side |-> received frames it can take
  arrived, published  \* history: side |-> messages its callbacks were given,
                      \* and messages it published

bridgeVars == <<phase, again, outgoing, submitted, incoming, ready, arrived, published>>

Other(s) == IF s = "host" THEN "guest" ELSE "host"

\* The frame of a message, after the magic: length of the key, key, payload.
Frame(m) == <<Len(m.key)>> \o m.key \o m.data

Unframe(f) == [key |-> SubSeq(f, 2, 1 + f[1]), data |-> SubSeq(f, 2 + f[1], Len(f))]

Fits(queue, frames) ==
  Len(queue) + Len(frames) <= max_messages /\ bytes(queue) + bytes(frames) <= max_bytes

BridgeInit ==
  LET Empty == [s \in Sides |-> <<>>]
  IN  /\ phase = [host |-> "deliver", guest |-> "step"] /\ again = FALSE
      /\ outgoing = Empty /\ submitted = Empty /\ incoming = <<>> /\ ready = Empty
      /\ arrived = Empty /\ published = Empty

Goto(s, p) == phase[s] # p /\ phase' = [phase EXCEPT ![s] = p]
Add(q, s, x) == [q EXCEPT ![s] = Append(@, x)]
Pop(q, s)    == [q EXCEPT ![s] = Tail(@)]

-----------------------------------------------------------------------------
(* exchange.                                                               *)

Deliverable(s, m) ==
  m.key \in Routes[Other(s)] /\ Len(m.data) > 0 /\ Len(m.data) <= byte_limit[s]

\* submit of a frame the controller received.
Deliver(s) ==
  LET m == Unframe(Head(ready[s]))
  IN  /\ phase[s] = "deliver" /\ ready[s] # <<>> /\ ready' = Pop(ready, s)
      /\ IF Deliverable(s, m)
         THEN published' = Add(published, s, m) /\ UNCHANGED phase
         ELSE Goto(s, "failed") /\ UNCHANGED published
      /\ UNCHANGED <<again, outgoing, submitted, incoming, arrived>>

DeliveredAll(s) ==
  /\ phase[s] = "deliver" /\ ready[s] = <<>> /\ Goto(s, "pump")
  /\ UNCHANGED <<again, outgoing, submitted, incoming, ready, arrived, published>>

Accepts(s, m) == Len(m.data) <= byte_limit[s] /\ Len(outgoing[s]) < queue_limit[s]

CallbackElse(s, m, next) ==
  /\ phase[s] = "pump" /\ Len(arrived[s]) < MaxArrivals /\ arrived' = Add(arrived, s, m)
  /\ IF Accepts(s, m)
     THEN outgoing' = Add(outgoing, s, Frame(m)) /\ UNCHANGED phase
     ELSE phase' = [phase EXCEPT ![s] = next] /\ UNCHANGED outgoing
  /\ UNCHANGED <<again, submitted, incoming, ready, published>>

\* Fault: a message that does not fit is dropped.
CallbackDrops(s, m) == CallbackElse(s, m, "pump")

\* A subscription callback; a message that does not fit ends the bridge.
Callback(s, m) == CallbackElse(s, m, "failed")

Pumped(s) ==
  /\ phase[s] = "pump" /\ Goto(s, "drain")
  /\ UNCHANGED <<again, outgoing, submitted, incoming, ready, arrived, published>>

\* take, then the controller's submit, which may refuse the frame.
Drain(s) ==
  /\ phase[s] = "drain" /\ outgoing[s] # <<>> /\ outgoing' = Pop(outgoing, s)
  /\ IF Fits(submitted[s], <<Head(outgoing[s])>>)
     THEN submitted' = Add(submitted, s, Head(outgoing[s])) /\ UNCHANGED phase
     ELSE Goto(s, "failed") /\ UNCHANGED submitted
  /\ UNCHANGED <<again, incoming, ready, arrived, published>>

Drained(s) ==
  /\ phase[s] = "drain" /\ outgoing[s] = <<>>
  /\ IF s = "host" /\ again THEN Goto(s, "deliver") /\ again' = FALSE
                            ELSE Goto(s, "step") /\ UNCHANGED again
  /\ UNCHANGED <<outgoing, submitted, incoming, ready, arrived, published>>

-----------------------------------------------------------------------------
(* The controllers.                                                        *)

\* run_next sends the guest's batch; the I/O worker of the host appends it.
Send ==
  /\ phase["guest"] = "step" /\ submitted' = [submitted EXCEPT !["guest"] = <<>>]
  /\ LET got  == decode(encode(submitted["guest"]))
         fits == got.ok /\ Fits(incoming, got.msgs)
     IN  /\ incoming' = IF fits THEN incoming \o got.msgs ELSE incoming
         /\ phase' = [phase EXCEPT !["guest"] = "sent",
                                   !["host"] = IF fits THEN @ ELSE "failed"]
  /\ UNCHANGED <<again, outgoing, ready, arrived, published>>

\* It is answered with what the host has submitted, which the guest appends.
Reply ==
  /\ phase["guest"] = "sent" /\ phase["host"] # "failed"
  /\ submitted' = [submitted EXCEPT !["host"] = <<>>]
  /\ LET got == decode(encode(submitted["host"]))
     IN  IF got.ok /\ Fits(ready["guest"], got.msgs)
         THEN Goto("guest", "deliver") /\ ready' = [ready EXCEPT !["guest"] = @ \o got.msgs]
         ELSE Goto("guest", "failed") /\ UNCHANGED ready
  /\ UNCHANGED <<again, outgoing, incoming, arrived, published>>

StepTaking(received) ==
  /\ phase["host"] = "step" /\ Goto("host", "deliver") /\ again' = TRUE
  /\ ready' = [ready EXCEPT !["host"] = received] /\ incoming' = <<>>
  /\ UNCHANGED <<outgoing, submitted, arrived, published>>

\* Fault: only the last frame received is kept.
StepLast == StepTaking(IF incoming = <<>> THEN <<>> ELSE <<incoming[Len(incoming)]>>)

\* step of the host: at the boundary what was received becomes available.
Step == StepTaking(ready["host"] \o incoming)

Loop(s) == Deliver(s) \/ DeliveredAll(s) \/ Pumped(s) \/ Drain(s) \/ Drained(s)

BridgeNext ==
  \/ Send \/ Reply \/ Step
  \/ \E s \in Sides :
       Loop(s) \/ \E k \in Routes[s], d \in Payloads : Callback(s, [key |-> k, data |-> d])

BridgeSpec == BridgeInit /\ [][BridgeNext]_bridgeVars

\* Both bridges run, and steps give gem5 the time to poll.  For Send and Reply
\* this is weak fairness, without ENABLED: they can be taken in these phases
\* and end them.
BridgeFairSpec ==
  /\ BridgeSpec /\ WF_bridgeVars(Step) /\ \A s \in Sides : WF_bridgeVars(Loop(s))
  /\ []<>(phase["guest"] # "step") /\ []<>(phase["guest"] = "sent" => phase["host"] = "failed")

-----------------------------------------------------------------------------
(* Properties.                                                             *)

Failed == \E s \in Sides : phase[s] = "failed"

InFlight(s) ==
  ready[Other(s)] \o (IF s = "guest" THEN incoming ELSE <<>>)
    \o decode(encode(submitted[s])).msgs \o outgoing[s]

IsPrefix(s, t) == Len(s) <= Len(t) /\ s = SubSeq(t, 1, Len(s))

\* Overflow fails explicitly: as long as no bridge has failed, every message a
\* callback was given is published on the other side, on its own route, or
\* on its way there, in order; after a failure what was published is still a
\* prefix of what arrived.  A batch that a queue accepted, up to its exact
\* limits, is on its way as what the other side decodes.
NoSilentLoss ==
  \A s \in Sides :
    /\ IsPrefix(published[Other(s)], arrived[s])
    /\ ~Failed => published[Other(s)] \o [i \in DOMAIN InFlight(s) |-> Unframe(InFlight(s)[i])]
                    = arrived[s]

\* A message that arrives is published in the end, unless a bridge fails: no
\* bridge waits for the other.
Published ==
  \A s \in Sides :
    Len(arrived[s]) > Len(published[Other(s)]) ~>
      Len(arrived[s]) = Len(published[Other(s)]) \/ Failed
=============================================================================
