--------------------------- MODULE MCUpdateRollout ---------------------------
(* Values for the constants of UpdateRollout: no agent has its window forced. *)
EXTENDS UpdateRollout

CONSTANTS a1, a2

MCOverride == [a \in Agent |-> "auto"]
=============================================================================
