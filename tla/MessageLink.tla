---------------------------- MODULE MessageLink ----------------------------
(***************************************************************************)
(* What DataExchange assumes of the transport (transport.hpp): each        *)
(* direction carries one message at a time, whole, and receive returns the *)
(* messages sent, in order and once each.                                  *)
(***************************************************************************)
EXTENDS Naturals, Sequences

CONSTANTS Directions, Messages

VARIABLES sent, got   \* per direction, the messages sent and received

Init ==
  sent = [d \in Directions |-> <<>>] /\ got = [d \in Directions |-> <<>>]

Send(d, m) ==
  /\ Len(sent[d]) = Len(got[d])
  /\ sent' = [sent EXCEPT ![d] = Append(@, m)] /\ UNCHANGED got

Receive(d) ==
  /\ Len(got[d]) < Len(sent[d])
  /\ got' = [got EXCEPT ![d] = Append(@, sent[d][Len(@) + 1])] /\ UNCHANGED sent

Next == \E d \in Directions : Receive(d) \/ \E m \in Messages : Send(d, m)

Spec == Init /\ [][Next]_<<sent, got>>
=============================================================================
