-------------------------- MODULE MCProcessMonitor --------------------------
(* Values for the constants of ProcessMonitor: two people and the failed   *)
(* owner lookup, one application in a family and one outside any.          *)
EXTENDS ProcessMonitor, TLC

CONSTANTS p1, p2, p3, alice, bob, nobody, editor, shell, office

MCFamilyOf  == [a \in App |-> IF a = editor THEN office ELSE NoFamily]
MCCanonical == [u \in User |-> IF u = nobody THEN NoPerson ELSE IF u = alice THEN "alice" ELSE "bob"]
MCPerson    == {"alice", "bob"}

PidSymmetry  == Permutations(Pid)
=============================================================================
