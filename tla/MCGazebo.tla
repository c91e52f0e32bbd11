------------------------------ MODULE MCGazebo ------------------------------
(* GazeboLockstep for model checking.                                      *)
EXTENDS GazeboLockstep
=============================================================================
