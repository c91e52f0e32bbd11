----------------------------- MODULE MCCollector -----------------------------
(* Collector for model checking.                                           *)
EXTENDS Collector
=============================================================================
