--------------------------- MODULE MCDataExchange ---------------------------
(* DataExchange for model checking: how many messages each side submits.   *)
EXTENDS DataExchange

MostlyUp   == [g2h |-> 3, h2g |-> 1]
MostlyDown == [g2h |-> 1, h2g |-> 3]
=============================================================================
