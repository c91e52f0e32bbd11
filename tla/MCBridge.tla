------------------------------ MODULE MCBridge ------------------------------
(* Bridge for model checking: the keys of two routes share a prefix, and a *)
(* payload looks like the rest of a key.                                   *)
EXTENDS Bridge

TwoRoutes == [host |-> {<<1>>, <<1, 2>>}, guest |-> {<<1>>}]

ShortAndLong == {<<2>>, <<2, 2>>}

Two == [s \in Sides |-> 2]

One == [host |-> 2, guest |-> 1]
=============================================================================
