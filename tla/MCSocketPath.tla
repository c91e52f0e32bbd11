---------------------------- MODULE MCSocketPath ----------------------------
(* SocketPath for model checking: two host processes that want the same    *)
(* data paths, and gem5.                                                   *)
EXTENDS SocketPath

TwoHostsAndGem5 == [a |-> <<"g2h", "h2g">>, b |-> <<"g2h", "h2g">>, gem5 |-> <<"time">>]
=============================================================================
