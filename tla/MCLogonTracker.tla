--------------------------- MODULE MCLogonTracker ---------------------------
(* Values for the constants of LogonTracker: a policy that keeps both      *)
(* people, one that makes them one person, one that ignores the second.    *)
EXTENDS LogonTracker

CONSTANTS l1, l2, ann, bob, corpbob   \* bob with and without his domain

Keep   == [a \in Account |-> IF a = ann THEN "ann" ELSE "bob"]
Merge  == [a \in Account |-> "ann"]
Ignore == [a \in Account |-> IF a = ann THEN "ann" ELSE NoPerson]

\* Each person has a line, as a console and a remote session have.
MCKey      == {<<l1, ann>>, <<l2, corpbob>>, <<l2, bob>>}
MCPerson   == {"ann", "bob"}
MCPolicies == {Keep, Merge, Ignore}
=============================================================================
