---------------------------- MODULE MCSupervisor ----------------------------
(* Supervisor for model checking.                                          *)
EXTENDS Supervisor

ThreeCommands == <<"bridge", "app", "gem5">>
=============================================================================
