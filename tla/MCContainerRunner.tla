------------------------- MODULE MCContainerRunner --------------------------
(* ContainerRunner for model checking: the jobs of the configuration.      *)
EXTENDS ContainerRunner

TwoJobs == <<"a", "b">>
=============================================================================
