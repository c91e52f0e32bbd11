----------------------------- MODULE MCTransport -----------------------------
(* Transport for model checking.                                           *)
EXTENDS Transport
=============================================================================
