----------------------------- MODULE Transport -----------------------------
(***************************************************************************)
(* The transport at the level of packets: a message is a header packet     *)
(* with its length and, unless it is empty, a payload packet.  Each packet *)
(* has a Unix connection of its own, which gem5 opens for a pseudo-op of   *)
(* the guest (pseudo_inst.cc) and the host accepts (host_transport.cpp).   *)
(* The guest sends, then receives; the host answers, as the controllers    *)
(* on top do.  Bytes are numbers; the width of a header and the values of  *)
(* a byte are constants.                                                   *)
(***************************************************************************)
EXTENDS Framing

CONSTANTS MaxSize,       \* max_message_size
          MaxExchanges   \* bound: messages of the guest

ASSUME TransportAssumption == Representable(MaxSize) /\ MaxExchanges \in Nat

VARIABLES
  gpc,        \* guest: "idle", "sendHeader", "sendBody", "recvHeader", "recvBody"
  gdata, gsize,   \* the message it sends; the length it expects
  gem5,       \* "up", "panic", "dead"
  backlog,    \* connections to the G2H socket not yet accepted: their packets
  connection, \* gem5's connection to the H2G socket: "none", "open", "closed"
  packet,     \* what the host has sent on it
  hpc,        \* host: as gpc, "failed", "gone" after destruction
  hdata, hsize,
  failure,    \* failure_: "none", "length", "size", "io", "cancelled"
  cancelled,
  sent, got   \* history: messages of each direction

guestVars == <<gpc, gdata, gsize, gem5>>
hostVars == <<hpc, hdata, hsize, failure, cancelled>>
transportVars == <<guestVars, backlog, connection, packet, hostVars, sent, got>>

Directions == {"g2h", "h2g"}

\* Messages of each size, told apart by their bytes.
Messages == UNION {[1..n -> 0..(Base - 1)] : n \in 0..MaxSize}

TransportInit ==
  /\ gpc = "idle" /\ gdata = <<>> /\ gsize = 0 /\ gem5 = "up" /\ backlog = <<>>
  /\ connection = "none" /\ packet = <<>>
  /\ hpc = "recvHeader" /\ hdata = <<>> /\ hsize = 0 /\ failure = "none" /\ cancelled = FALSE
  /\ sent = [d \in Directions |-> <<>>] /\ got = [d \in Directions |-> <<>>]

Sends(d, m) == sent' = [sent EXCEPT ![d] = Append(@, m)]
Gets(d, m)  == got' = [got EXCEPT ![d] = Append(@, m)]

-----------------------------------------------------------------------------
(* Guest and gem5.                                                         *)

GuestSend(m) ==
  /\ gpc = "idle" /\ gem5 = "up" /\ Len(sent["g2h"]) < MaxExchanges
  /\ gpc' = "sendHeader" /\ gdata' = m /\ Sends("g2h", m)
  /\ UNCHANGED <<gsize, gem5, backlog, connection, packet, hostVars, got>>

\* The packet of a message that a side is at, and the one after it.
Packet(pc, data) == IF pc = "sendHeader" THEN digits(Len(data)) ELSE data

AfterPacket(pc, data) ==
  IF pc = "sendHeader" /\ data # <<>> THEN "sendBody" ELSE "recvHeader"

\* A connection that sends the packet's length and the first n of its bytes.
Writes(p, n) == backlog' = Append(backlog, [len |-> Len(p), bytes |-> SubSeq(p, 1, n)])

\* chimaeraSend: connect, write the native length and the bytes, close; the
\* host need not have accepted.
chimaeraSend ==
  LET p == Packet(gpc, gdata)
  IN  /\ gem5 = "up" /\ hpc # "gone" /\ gpc \in {"sendHeader", "sendBody"}
      /\ Writes(p, Len(p)) /\ gpc' = AfterPacket(gpc, gdata)
      /\ UNCHANGED <<gdata, gsize, gem5, connection, packet, hostVars, sent, got>>

\* chimaeraRecv: connect and wait for the length the guest asks for.
chimaeraRecv ==
  /\ gem5 = "up" /\ hpc # "gone" /\ gpc \in {"recvHeader", "recvBody"} /\ connection = "none"
  /\ connection' = "open" /\ packet' = <<>>
  /\ UNCHANGED <<guestVars, backlog, hostVars, sent, got>>

Want == IF gpc = "recvHeader" THEN Width ELSE gsize

\* It has read what it asked for: the guest goes on with its receive.
GuestTakes ==
  LET taken == SubSeq(packet, 1, Want)
      size  == number(taken)
  IN  /\ gem5 = "up" /\ gpc \in {"recvHeader", "recvBody"} /\ connection # "none"
      /\ Len(packet) >= Want /\ connection' = "none"
      /\ IF gpc = "recvHeader" /\ size > 0
         THEN gpc' = "recvBody" /\ gsize' = size /\ UNCHANGED got
         ELSE /\ gpc' = "idle" /\ gsize' = 0
              /\ Gets("h2g", IF gpc = "recvHeader" THEN <<>> ELSE taken)
      /\ UNCHANGED <<gdata, gem5, backlog, packet, hostVars, sent>>

\* No socket to connect to, or the host closed before it had sent enough.
Panics ==
  /\ gem5 = "up" /\ gpc # "idle"
  /\ (hpc = "gone" /\ connection = "none") \/ (connection = "closed" /\ Len(packet) < Want)
  /\ gem5' = "panic" /\ connection' = "none"
  /\ UNCHANGED <<gpc, gdata, gsize, backlog, packet, hostVars, sent, got>>

\* gem5 is killed, in the middle of a write perhaps.
Dies ==
  /\ gem5 = "up" /\ gem5' = "dead"
  /\ \/ UNCHANGED backlog
     \/ LET p == Packet(gpc, gdata)
        IN  /\ gpc \in {"sendHeader", "sendBody"} /\ hpc # "gone"
            /\ \E n \in 0..(Len(p) - 1) : Writes(p, n)
  /\ UNCHANGED <<gpc, gdata, gsize, connection, packet, hostVars, sent, got>>

-----------------------------------------------------------------------------
(* Host.                                                                   *)

Fail(error) == failure' = error /\ hpc' = "failed" /\ UNCHANGED <<hdata, hsize, sent, got>>

Received(m) ==
  hpc' = "idle" /\ hsize' = 0 /\ Gets("g2h", m) /\ UNCHANGED <<hdata, failure, sent>>

\* Fault: a payload is expected after every header.
AlwaysBody(size) == TRUE

\* receive: a header of an empty message is all of it.
HasBody(size) == size > 0

\* Fault: the end of the connection ends a payload.
EndIsEnough(p, want) == hpc = "recvHeader" /\ Len(p.bytes) < want

\* read_all meets the end of the connection first.
Incomplete(p, want) == Len(p.bytes) < want

\* receive_packet and what receive makes of the packet.
HostReceives ==
  LET p    == Head(backlog)
      want == IF hpc = "recvHeader" THEN Width ELSE hsize
      size == number(p.bytes)
  IN  /\ hpc \in {"recvHeader", "recvBody"} /\ ~cancelled /\ backlog # <<>>
      /\ backlog' = Tail(backlog)
      /\ IF p.len # want THEN Fail("length")
         ELSE IF Incomplete(p, want) THEN Fail("io")
         ELSE IF hpc = "recvBody" THEN Received(p.bytes)
         ELSE IF size > MaxSize THEN Fail("size")
         ELSE IF ~HasBody(size) THEN Received(<<>>)
         ELSE hpc' = "recvBody" /\ hsize' = size /\ UNCHANGED <<hdata, failure, sent, got>>
      /\ UNCHANGED <<guestVars, connection, packet, cancelled>>

HostSend(m) ==
  /\ hpc = "idle" /\ hpc' = "sendHeader" /\ hdata' = m /\ Sends("h2g", m)
  /\ UNCHANGED <<guestVars, backlog, connection, packet, hsize, failure, cancelled, got>>

\* accept, send the packet, close; the connection may be one of a gem5 that has
\* ended.
SendPacket ==
  /\ hpc \in {"sendHeader", "sendBody"} /\ ~cancelled /\ connection = "open"
  /\ IF gem5 = "up"
     THEN /\ packet' = Packet(hpc, hdata) /\ hpc' = AfterPacket(hpc, hdata)
          /\ UNCHANGED <<hdata, hsize, failure, sent, got>>
     ELSE Fail("io") /\ UNCHANGED packet
  /\ connection' = "closed"
  /\ UNCHANGED <<guestVars, backlog, cancelled>>

Cancel ==
  /\ ~cancelled /\ hpc # "gone" /\ cancelled' = TRUE
  /\ UNCHANGED <<guestVars, backlog, connection, packet, hpc, hdata, hsize, failure, sent, got>>

CancelsIn(states) ==
  /\ hpc \in states /\ cancelled /\ Fail("cancelled")
  /\ \/ UNCHANGED <<connection, packet>>
     \/ LET p == Packet(hpc, hdata)
        IN  /\ hpc \in {"sendHeader", "sendBody"} /\ connection = "open" /\ connection' = "closed"
            /\ \E n \in 0..(Len(p) - 1) : packet' = SubSeq(p, 1, n)
  /\ UNCHANGED <<guestVars, backlog, cancelled>>

\* Fault: only receiving looks at the event.
CancelsReceive == CancelsIn({"recvHeader", "recvBody"})

\* ready finds the event set, before the host has accepted or in the middle of
\* a packet.
Cancels == CancelsIn({"recvHeader", "recvBody", "sendHeader", "sendBody"})

\* The listeners and the connections waiting at them are closed.
Destroy ==
  /\ hpc = "failed" /\ hpc' = "gone" /\ backlog' = <<>>
  /\ connection' = IF connection = "open" THEN "closed" ELSE connection
  /\ UNCHANGED <<guestVars, packet, hdata, hsize, failure, cancelled, sent, got>>

Guest == chimaeraSend \/ chimaeraRecv \/ GuestTakes \/ Panics
Host  == HostReceives \/ SendPacket \/ Cancels \/ \E m \in Messages : HostSend(m)

TransportNext ==
  \/ Guest \/ Host \/ Cancel \/ Destroy \/ Dies
  \/ \E m \in Messages : GuestSend(m)

TransportSpec == TransportInit /\ [][TransportNext]_transportVars

\* Both sides run; nobody need cancel, destroy or start an exchange.
TransportFairSpec == TransportSpec /\ WF_transportVars(Guest) /\ WF_transportVars(Host)

-----------------------------------------------------------------------------
(* Properties.                                                             *)

Link == INSTANCE MessageLink

\* Packets and connections implement the one-message link of DataExchange:
\* whatever is received is the message sent, whole and in order, also when
\* gem5 dies in a write or the host is cancelled in a packet or between two.
LinkSpec == Link!Spec

\* A message sent is received, unless the host is cancelled or gem5 is killed:
\* the blocking pseudo-ops and the host's accepts never wait for each other,
\* and neither side takes the other's packets for an error.
Delivered ==
  \A d \in Directions :
    Len(sent[d]) > Len(got[d]) ~> Len(sent[d]) = Len(got[d]) \/ cancelled \/ gem5 = "dead"

\* cancel ends the operation the host is in, whatever gem5 does, so that the
\* I/O worker can be joined.
CancelReturns == cancelled ~> hpc \in {"failed", "gone"}
=============================================================================
