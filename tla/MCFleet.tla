------------------------------- MODULE MCFleet -------------------------------
(* Model values for Fleet: both agents report the same room.               *)
EXTENDS Fleet, TLC

CONSTANTS a1, a2, r1, r2, d1, d2, g1

\* Two agents that are scraped; one, with failures; one that pushes.
Scenarios ==
  {[on |-> {a1, a2}, pushing |-> {}, edits |-> 1, failures |-> 0],
   [on |-> {a1}, pushing |-> {}, edits |-> 2, failures |-> 1],
   [on |-> {a1}, pushing |-> {a1}, edits |-> 1, failures |-> 0],
   [on |-> {a1}, pushing |-> {a1}, edits |-> 0, failures |-> 1]}

Reported == (a1 :> r1) @@ (a2 :> r1)
DerivedId == (r1 :> d1) @@ (r2 :> d2)
=============================================================================
