------------------------------ MODULE MCTiming ------------------------------
(* TimingSession for model checking: a few ticks instead of 2^64.          *)
EXTENDS TimingSession
=============================================================================
