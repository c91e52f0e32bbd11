------------------------------- MODULE MCSuite -------------------------------
(* SuiteRunner for model checking.                                         *)
EXTENDS SuiteRunner

TwoRuns == <<"a", "b">>
=============================================================================
