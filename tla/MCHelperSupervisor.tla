------------------------- MODULE MCHelperSupervisor -------------------------
(* Model values for HelperSupervisor: at most two helpers per session.     *)
EXTENDS HelperSupervisor

CONSTANTS s1, s2, h1, h2, h3
=============================================================================
