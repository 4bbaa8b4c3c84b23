---------------------------- MODULE MCServerParts ----------------------------
(* Small instances for the parts of the server.                            *)
EXTENDS ServerParts, TLC

CONSTANTS
  c1, c2, q1, q2,          \* calls and URLs of Prometheus
  u1, u2, u3, k1, k2,      \* updates, settings
  a1, e1, e2, x, X1, x1, t1, none,   \* agents, administrators, an executable, its spellings
  s1, o1, o2               \* agents with users; heartbeats

\* A title that is no executable's name stands for its own row.
MCExeOf == X1 :> x @@ x1 :> x @@ t1 :> none
MCLower == x :> x1
MCRank == X1 :> 1 @@ x1 :> 2 @@ t1 :> 0
MCOwnTitle == x :> "own"
MCNameFor == "own" :> X1 @@ "new" :> t1

User(d, a) == [domain |-> d, account |-> a, upn |-> ""]
\* Machine accounts, daemons and services are never recorded, but for
\* corp\_d while domains are kept.
MCRawName ==
  {User("corp", "jd"), User("", "ja"), User("corp", "_d"), User("corp", "pc$"),
   User("nt authority", "jd"), User("", "x")}
MCPattern == {User("", "jd"), User("corp", "*"), User("corp", "jd")}
MCTarget == {User("", "ja"), User("", "jd")}
MCPrecedence == User("corp", "jd") :> 0 @@ User("corp", "*") :> 1 @@ User("", "jd") :> 2
MCBuiltInIgnores == {User("", "root")}

Amounts(n) == [m \in Metric |-> n]
MCSample ==
  {[host |-> "m1", user |-> "corp jd", app |-> "editor", amount |-> Amounts(2)],
   [host |-> "m2", user |-> "corp jd", app |-> "viewer", amount |-> Amounts(1)],
   [host |-> "m2", user |-> "ja", app |-> "editor", amount |-> Amounts(3)]}
\* No rules, corp\jd merged into ja, or jd ignored.
MCRuleset == {"no rules", "merged", "ignored"}
MCStandsFor ==
  [q \in BOOLEAN \X MCRuleset |-> [u \in RawUser |->
     IF u = "ja" \/ q[2] = "merged" THEN "ja" ELSE IF q[2] = "ignored" THEN NoPerson
     ELSE IF q[1] THEN "jd" ELSE "corp jd"]]

\* These are whom the accounts stand for as Resolve says.
MCTable(r) ==
  [p \in Pattern |->
     IF r = "merged" /\ p = User("corp", "jd") THEN [canonical |-> User("", "ja"), ignored |-> FALSE]
     ELSE IF r = "ignored" /\ p = User("", "jd") THEN [canonical |-> Empty, ignored |-> TRUE]
     ELSE NoRule]
MCName ==
  "corp jd" :> User("corp", "jd") @@ "jd" :> User("", "jd") @@ "ja" :> User("", "ja") @@ NoPerson :> Empty
ASSUME MCResolved ==
  \A q \in BOOLEAN \X MCRuleset, u \in RawUser :
    MCName[MCStandsFor[q][u]] = Outcome(PolicyFromMappings(q[1], MCTable(q[2])), MCName[u])

\* A report of people, of one lab or all, meets two changes, and one of devices
\* and one of labs meet one; the rest are read undisturbed.
MCMaxChanges ==
  [k \in Kind |-> IF k = "usersByLogins" THEN 2
                  ELSE IF k \in {"usageByLab", "devicesBySessions"} THEN 1 ELSE 0]
MCFirstLab == "m1" :> "r1" @@ "m2" :> "r2"
MCFirstName == "r1" :> "l1" @@ "r2" :> "l2"

MCFile == [ext : {"msi"}, version : {9, 10}]
MCOversized == {f \in MCFile : f.version = 9}
MCNameOrder == [f \in MCFile |-> IF f.version = 9 THEN 2 ELSE 1]
=============================================================================
