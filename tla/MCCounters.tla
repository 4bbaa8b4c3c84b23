------------------------------ MODULE MCCounters ------------------------------
(* Model values for Counters.                                              *)
EXTENDS Counters

CONSTANTS s1, prometheus, browser
=============================================================================
