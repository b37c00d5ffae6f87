----------------------------- MODULE MCContexto -----------------------------
(* Instances of ContextoKM for TLC.                                         *)
EXTENDS ContextoKM
=============================================================================
