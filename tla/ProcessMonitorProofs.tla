------------------------ MODULE ProcessMonitorProofs ------------------------
(***************************************************************************)
(* What holds of the agent's process pipeline for any number of pids,      *)
(* users, applications and families, provided the system does not hand a   *)
(* pid out again (Reuse = FALSE; the run ProcessMonitor_reuse shows why    *)
(* that is needed).  The three consistency facts of ProcessTracker are     *)
(* not inductive on their own: a start must not find its pid tracked or    *)
(* the root of a group, which Lifecycle supplies, and Reconcile must not   *)
(* find a running process stale, which SnapshotSound supplies.             *)
(*                                                                         *)
(* The counters rest on sums over groups.  Sums is their recursion: it has *)
(* a solution on every finite set, and the least counterexample by         *)
(* cardinality shows that the sum is the same in whatever order the        *)
(* elements are taken.                                                     *)
(***************************************************************************)
EXTENDS ProcessMonitor, FiniteSetTheorems, WellFoundedInduction, TLAPS

-----------------------------------------------------------------------------
(* The inductive invariant.                                                *)

\* A pid nobody has registered yet is unknown to the tracker; the scan, the
\* subscription and the queues come in their order.
Lifecycle ==
  /\ \A p \in Pid :
       fate[p] = "unborn" \/ p \in startQ \/ p \in toAdopt \/ agent = "scan"
         => ~Tracked(p) /\ ~Exists(p)
  /\ \A p \in startQ \cup toAdopt : fate[p] # "unborn"
  /\ \A p \in stopQ : fate[p] = "exited"
  /\ agent # "adopt" => toAdopt = {}
  /\ subscribed => agent = "up"
  /\ ~subscribed => startQ = {} /\ stopQ = {}
  /\ agent # "up" => loop.phase = "idle"
  /\ known \subseteq {p \in Pid : fate[p] = "running"}

\* The list a reconcile will use accounts for every process the agent knows:
\* it names it, or the process was registered after the clock was read.
SnapshotSound ==
  /\ loop.phase \in {"clock", "listed"} => loop.at <= now
  /\ loop.phase = "listed" =>
       \A p \in known : \/ p \in loop.running
                        \/ groups[pidToGroup[p]].since[p] >= loop.at

IndInv ==
  /\ TrackerTypeOK
  /\ PipelineTypeOK
  /\ MembershipAgrees
  /\ FamilyIndexExact
  /\ Lifecycle
  /\ LiveTracked
  /\ SnapshotSound

-----------------------------------------------------------------------------
(* The tracker's operations.                                               *)

\* The group a starting process joins exists.
LEMMA JoinedGroupExists ==
  ASSUME TrackerTypeOK,
         NEW ppid \in Pid \cup {NoPid}, NEW user \in User,
         NEW family \in Family \cup {NoFamily},
         GroupToJoin(ppid, user, family) # NoPid
  PROVE  /\ GroupToJoin(ppid, user, family) \in Pid
         /\ Exists(GroupToJoin(ppid, user, family))
  BY SentinelAssumption
     DEF GroupToJoin, ParentGroup, FamilyGroup, TrackerTypeOK, Tracked, Exists

\* Where a process that was neither tracked nor a root ends up: it is a member
\* as of now, and nothing else changes its group or its registration.
LEMMA StartEffect ==
  ASSUME TrackerTypeOK, MembershipAgrees,
         NEW pid \in Pid, NEW ppid \in Pid \cup {NoPid},
         NEW user \in User, NEW app \in App,
         ~Tracked(pid), ~Exists(pid), now' = now,
         OnProcessStart(pid, ppid, user, app)
  PROVE  /\ TrackerTypeOK'
         /\ pidToGroup'[pid] # NoPid
         /\ groups'[pidToGroup'[pid]].since[pid] = now
         /\ \A q \in Pid \ {pid} : pidToGroup'[q] = pidToGroup[q]
         /\ \A r \in Pid \ {pid} : ~Exists(r) => groups'[r] = NoGroup
         /\ \A r \in Pid : Exists(r) =>
               /\ groups'[r] \in Group
               /\ groups'[r].user = groups[r].user
               /\ groups'[r].family = groups[r].family
               /\ \A q \in Pid \ {pid} : groups'[r].since[q] = groups[r].since[q]
<1> DEFINE family == FamilyOf[app]
           root   == GroupToJoin(ppid, user, family)
<1>0. family \in Family \cup {NoFamily}
  BY SentinelAssumption
<1>1. CASE root # NoPid
  <2>1. root \in Pid /\ Exists(root)
    BY <1>0, <1>1, JoinedGroupExists
  <2>2. Join(pid, root)
    BY <1>1 DEF OnProcessStart
  <2>3. groups[root] \in Group
    BY <2>1 DEF TrackerTypeOK, Exists
  <2>4. [groups[root] EXCEPT !.since[pid] = now] \in Group
    BY <2>3 DEF Group, TrackerTypeOK
  <2>5. groups' = [groups EXCEPT ![root] = [groups[root] EXCEPT !.since[pid] = now]]
    BY <2>2 DEF Join
  <2>6. pidToGroup' = [pidToGroup EXCEPT ![pid] = root] /\ familyGroups' = familyGroups
    BY <2>2 DEF Join
  <2>7. TrackerTypeOK'
    BY <2>1, <2>4, <2>5, <2>6 DEF TrackerTypeOK
  <2>8. groups'[root].since[pid] = now
    BY <2>1, <2>3, <2>5 DEF TrackerTypeOK, Group
  <2> QED
    BY <2>1, <2>3, <2>4, <2>5, <2>6, <2>7, <2>8, SentinelAssumption
       DEF TrackerTypeOK, Group, Exists
<1>2. CASE root = NoPid
  <2> DEFINE g == [ app |-> app, user |-> user, family |-> family,
                    start |-> now, last |-> now, fg |-> 0,
                    since |-> [p \in Pid |-> IF p = pid THEN now ELSE Absent] ]
  <2>1. Found(pid, user, app)
    BY <1>2 DEF OnProcessStart
  <2>2. g \in Group
    BY <1>0 DEF Group, TrackerTypeOK
  <2>3. groups' = [groups EXCEPT ![pid] = g]
    BY <2>1 DEF Found
  <2>4. pidToGroup' = [pidToGroup EXCEPT ![pid] = pid]
    BY <2>1 DEF Found
  <2>5. familyGroups' \in [User -> [Family -> Pid \cup {NoPid}]]
    BY <1>0, <2>1 DEF Found, TrackerTypeOK
  <2>6. TrackerTypeOK'
    BY <2>2, <2>3, <2>4, <2>5 DEF TrackerTypeOK
  <2> HIDE DEF g
  <2>7. g.since[pid] = now
    BY DEF g
  <2> QED
    BY <2>2, <2>3, <2>4, <2>6, <2>7, SentinelAssumption
       DEF TrackerTypeOK, Exists
<1>3. QED
  BY <1>1, <1>2

\* A fresh start leaves memberships and the family index in agreement.
LEMMA StartKeepsConsistent ==
  ASSUME TrackerTypeOK, MembershipAgrees, FamilyIndexExact,
         NEW pid \in Pid, NEW ppid \in Pid \cup {NoPid},
         NEW user \in User, NEW app \in App,
         ~Tracked(pid), ~Exists(pid),
         OnProcessStart(pid, ppid, user, app)
  PROVE  MembershipAgrees' /\ FamilyIndexExact'
<1> DEFINE family == FamilyOf[app]
           root   == GroupToJoin(ppid, user, family)
<1>0. family \in Family \cup {NoFamily}
  BY SentinelAssumption
<1>1. CASE root # NoPid
  <2>1. root \in Pid /\ Exists(root)
    BY <1>0, <1>1, JoinedGroupExists
  <2>2. groups[root] \in Group
    BY <2>1 DEF TrackerTypeOK, Exists
  <2>3. /\ groups' = [groups EXCEPT ![root] = [groups[root] EXCEPT !.since[pid] = now]]
        /\ pidToGroup' = [pidToGroup EXCEPT ![pid] = root]
        /\ familyGroups' = familyGroups
    BY <1>1 DEF OnProcessStart, Join
  <2> DEFINE g == [groups[root] EXCEPT !.since[pid] = now]
  <2>4. /\ g # NoGroup
        /\ g.user = groups[root].user /\ g.family = groups[root].family
        /\ \A q \in Pid : g.since[q] # Absent <=> q = pid \/ groups[root].since[q] # Absent
    <3>1. g \in Group
      BY <2>2 DEF Group, TrackerTypeOK
    <3>2. g.user = groups[root].user /\ g.family = groups[root].family
      BY <2>2 DEF Group
    <3>3. g.since = [groups[root].since EXCEPT ![pid] = now]
      BY <2>2 DEF Group
    <3>4. now # Absent
      BY DEF TrackerTypeOK, Absent
    <3>5. groups[root].since \in [Pid -> Nat \cup {Absent}]
      BY <2>2 DEF Group
    <3> HIDE DEF g
    <3> QED
      BY <3>1, <3>2, <3>3, <3>4, <3>5, NoGroupAssumption
  <2> HIDE DEF g
  <2>5. groups' = [groups EXCEPT ![root] = g]
    BY <2>3 DEF g
  <2>6. \A r \in Pid : Exists(r)' <=> Exists(r)
    BY <2>1, <2>4, <2>5 DEF Exists, TrackerTypeOK
  <2>7. \A r \in Roots, q \in Pid :
          q \in Members(r)' <=> q \in Members(r) \/ (r = root /\ q = pid)
    BY <2>1, <2>4, <2>5 DEF Members, Roots, TrackerTypeOK
  <2>8. \A q \in Pid : pidToGroup'[q] = IF q = pid THEN root ELSE pidToGroup[q]
    BY <2>3 DEF TrackerTypeOK
  <2>9. pidToGroup[pid] = NoPid
    BY DEF Tracked
  <2>10. MembershipAgrees'
    <3>1. \A p \in Pid : Tracked(p)' => Exists(pidToGroup[p])'
      BY <2>1, <2>6, <2>8 DEF MembershipAgrees, Tracked, TrackerTypeOK
    <3>2. \A r \in Roots', p \in Pid : pidToGroup'[p] = r <=> p \in Members(r)'
      BY <2>1, <2>6, <2>7, <2>8, <2>9, SentinelAssumption
         DEF MembershipAgrees, Roots
    <3>3. \A r \in Roots' : Members(r)' # {}
      BY <2>6, <2>7 DEF MembershipAgrees, Roots, Members
    <3> QED
      BY <3>1, <3>2, <3>3 DEF MembershipAgrees
  <2>11. \A r \in Pid : groups'[r].user = groups[r].user /\ groups'[r].family = groups[r].family
    BY <2>1, <2>4, <2>5 DEF TrackerTypeOK
  <2>12. FamilyIndexExact'
    <3> SUFFICES ASSUME NEW u \in User, NEW f \in Family
                 PROVE  /\ familyGroups'[u][f] # NoPid =>
                              /\ Exists(familyGroups[u][f])'
                              /\ groups'[familyGroups'[u][f]].user = u
                              /\ groups'[familyGroups'[u][f]].family = f
                        /\ \A r \in Roots' :
                             groups'[r].user = u /\ groups'[r].family = f
                               => familyGroups'[u][f] = r
      BY DEF FamilyIndexExact
    <3>1. familyGroups'[u][f] = familyGroups[u][f]
      BY <2>3
    <3>2. familyGroups[u][f] \in Pid \cup {NoPid}
      BY DEF TrackerTypeOK
    <3>3. Roots' = Roots
      BY <2>6 DEF Roots
    <3> QED
      BY <2>6, <2>11, <3>1, <3>2, <3>3 DEF FamilyIndexExact, Roots
  <2> QED
    BY <2>10, <2>12
<1>2. CASE root = NoPid
  <2> DEFINE g == [ app |-> app, user |-> user, family |-> family,
                    start |-> now, last |-> now, fg |-> 0,
                    since |-> [p \in Pid |-> IF p = pid THEN now ELSE Absent] ]
  <2>1. /\ groups' = [groups EXCEPT ![pid] = g]
        /\ pidToGroup' = [pidToGroup EXCEPT ![pid] = pid]
        /\ familyGroups' = IF family = NoFamily THEN familyGroups
                           ELSE [familyGroups EXCEPT ![user][family] = pid]
    BY <1>2 DEF OnProcessStart, Found
  <2>2. /\ g # NoGroup /\ g.user = user /\ g.family = family
        /\ \A q \in Pid : g.since[q] # Absent <=> q = pid
    BY <1>0, NoGroupAssumption DEF Group, TrackerTypeOK, Absent
  <2> HIDE DEF g
  <2>3. \A r \in Pid : groups'[r] = IF r = pid THEN g ELSE groups[r]
    BY <2>1 DEF TrackerTypeOK
  <2>4. \A q \in Pid : pidToGroup'[q] = IF q = pid THEN pid ELSE pidToGroup[q]
    BY <2>1 DEF TrackerTypeOK
  <2>5. pidToGroup[pid] = NoPid /\ groups[pid] = NoGroup
    BY DEF Tracked, Exists
  <2>6. MembershipAgrees'
    <3>1. \A p \in Pid : Tracked(p)' => Exists(pidToGroup[p])'
      BY <2>2, <2>3, <2>4 DEF MembershipAgrees, Tracked, Exists, TrackerTypeOK
    <3>2. \A r \in Roots', p \in Pid : pidToGroup'[p] = r <=> p \in Members(r)'
      <4> SUFFICES ASSUME NEW r \in Pid, groups'[r] # NoGroup, NEW p \in Pid
                   PROVE  pidToGroup'[p] = r <=> groups'[r].since[p] # Absent
        BY DEF Roots, Exists, Members
      <4>1. CASE r = pid
        <5>1. pidToGroup[p] # pid
          BY <2>5, SentinelAssumption DEF MembershipAgrees, Tracked, Exists
        <5> QED
          BY <2>2, <2>3, <2>4, <4>1, <5>1
      <4>2. CASE r # pid
        BY <2>3, <2>4, <2>5, <4>2, SentinelAssumption
           DEF MembershipAgrees, Roots, Exists, Members
      <4> QED
        BY <4>1, <4>2
    <3>3. \A r \in Roots' : Members(r)' # {}
      BY <2>2, <2>3 DEF MembershipAgrees, Roots, Exists, Members
    <3> QED
      BY <3>1, <3>2, <3>3 DEF MembershipAgrees
  <2>7. FamilyIndexExact'
    <3> SUFFICES ASSUME NEW u \in User, NEW f \in Family
                 PROVE  /\ familyGroups'[u][f] # NoPid =>
                              /\ Exists(familyGroups[u][f])'
                              /\ groups'[familyGroups'[u][f]].user = u
                              /\ groups'[familyGroups'[u][f]].family = f
                        /\ \A r \in Roots' :
                             groups'[r].user = u /\ groups'[r].family = f
                               => familyGroups'[u][f] = r
      BY DEF FamilyIndexExact
    <3>1. familyGroups[u][f] \in Pid \cup {NoPid}
      BY DEF TrackerTypeOK
    <3>2. CASE u = user /\ f = family
      <4>1. familyGroups'[u][f] = pid
        BY <2>1, <3>2, SentinelAssumption DEF TrackerTypeOK
      <4>2. familyGroups[u][f] = NoPid
        BY <1>2, <3>1, <3>2, SentinelAssumption
           DEF GroupToJoin, FamilyGroup, FamilyIndexExact
      <4>3. \A r \in Roots : ~(groups[r].user = u /\ groups[r].family = f)
        BY <4>2, SentinelAssumption DEF FamilyIndexExact, Roots
      <4> QED
        BY <2>2, <2>3, <3>2, <4>1, <4>3 DEF Roots, Exists
    <3>3. CASE ~(u = user /\ f = family)
      <4>1. familyGroups'[u][f] = familyGroups[u][f]
        BY <2>1, <3>3 DEF TrackerTypeOK
      <4> QED
        BY <2>2, <2>3, <2>5, <3>1, <3>3, <4>1 DEF FamilyIndexExact, Roots, Exists
    <3> QED
      BY <3>2, <3>3
  <2> QED
    BY <2>6, <2>7
<1>3. QED
  BY <1>1, <1>2

\* With memberships in agreement, a group is emptied when all its members leave.
LEMMA EmptiedGroups ==
  ASSUME MembershipAgrees, NEW pids \in SUBSET Pid
  PROVE  EmptiedBy(pids) = {r \in Roots : Members(r) \subseteq pids}
  BY DEF EmptiedBy, MembershipAgrees, Members, Roots

\* At most one group can lose its last member when one process stops, and it is
\* the group OnProcessStop looks at.
LEMMA StopEndsItsOwnGroup ==
  ASSUME MembershipAgrees, NEW pid \in Pid
  PROVE  EndedByStop(pid) = EmptiedBy({pid})
<1> SUFFICES ASSUME NEW r \in EmptiedBy({pid}) PROVE r = pidToGroup[pid]
  BY DEF EndedByStop
<1>1. r \in Roots /\ Members(r) # {}
  BY DEF EmptiedBy, MembershipAgrees
<1>2. PICK p \in Members(r) : TRUE
  BY <1>1
<1> QED
  BY <1>2 DEF EmptiedBy

\* Releasing pids together with the groups they empty keeps the maps in
\* agreement and touches no other registration.
LEMMA ReleaseKeepsConsistent ==
  ASSUME TrackerTypeOK, MembershipAgrees, FamilyIndexExact, now' = now,
         NEW pids \in SUBSET Pid, Release(pids, EmptiedBy(pids))
  PROVE  /\ TrackerTypeOK' /\ MembershipAgrees' /\ FamilyIndexExact'
         /\ \A q \in Pid : pidToGroup'[q] = IF q \in pids THEN NoPid ELSE pidToGroup[q]
         /\ \A q \in Pid \ pids : Tracked(q) =>
               groups'[pidToGroup[q]].since[q] = groups[pidToGroup[q]].since[q]
         /\ \A r \in Pid : ~Exists(r) => groups'[r] = NoGroup
<1> DEFINE E == EmptiedBy(pids)
           gone(r) == [p \in Pid |-> IF p \in pids /\ pidToGroup[p] = r
                                     THEN Absent ELSE groups[r].since[p]]
<1>1. E = {r \in Roots : Members(r) \subseteq pids}
  BY EmptiedGroups
<1> HIDE DEF E
<1>2. \A q \in Pid : pidToGroup'[q] = IF q \in pids THEN NoPid ELSE pidToGroup[q]
  BY DEF Release
<1>3. \A r \in Pid : groups'[r] = IF ~Exists(r) \/ r \in E THEN NoGroup
                                 ELSE [groups[r] EXCEPT !.since = gone(r)]
  BY DEF Release, E
<1>4. \A u \in User, f \in Family : familyGroups'[u][f] =
        IF \E r \in E : groups[r].user = u /\ groups[r].family = f
        THEN NoPid ELSE familyGroups[u][f]
  BY DEF Release, E
<1>5. \A r \in Pid : Exists(r) /\ r \notin E =>
         /\ groups'[r] \in Group
         /\ groups'[r].user = groups[r].user /\ groups'[r].family = groups[r].family
         /\ groups'[r].since = gone(r)
  <2> SUFFICES ASSUME NEW r \in Pid, Exists(r), r \notin E
               PROVE  /\ groups'[r] \in Group
                      /\ groups'[r].user = groups[r].user
                      /\ groups'[r].family = groups[r].family
                      /\ groups'[r].since = gone(r)
    OBVIOUS
  <2>1. groups[r] \in Group
    BY DEF TrackerTypeOK, Exists
  <2>2. gone(r) \in [Pid -> Nat \cup {Absent}]
    BY <2>1 DEF Group
  <2>3. groups'[r] = [groups[r] EXCEPT !.since = gone(r)]
    BY <1>3
  <2> HIDE DEF gone
  <2> QED
    BY <2>1, <2>2, <2>3 DEF Group
<1>6. \A r \in Pid : Exists(r)' <=> Exists(r) /\ r \notin E
  BY <1>3, <1>5, NoGroupAssumption DEF Exists
<1>7. TrackerTypeOK'
  <2>1. groups' \in [Pid -> Group \cup {NoGroup}]
    <3>1. groups' = [r \in Pid |-> groups'[r]]
      BY DEF Release
    <3>2. \A r \in Pid : groups'[r] \in Group \cup {NoGroup}
      BY <1>3, <1>5
    <3> QED
      BY <3>1, <3>2
  <2>2. pidToGroup' \in [Pid -> Pid \cup {NoPid}]
    BY DEF Release, TrackerTypeOK
  <2>3. familyGroups' \in [User -> [Family -> Pid \cup {NoPid}]]
    BY DEF Release, TrackerTypeOK
  <2> QED
    BY <2>1, <2>2, <2>3 DEF TrackerTypeOK
<1>8. \A r \in Roots', q \in Pid : q \in Members(r)' <=> q \in Members(r) /\ q \notin pids
  <2> SUFFICES ASSUME NEW r \in Pid, Exists(r), r \notin E, NEW q \in Pid
               PROVE  groups'[r].since[q] # Absent <=>
                        groups[r].since[q] # Absent /\ q \notin pids
    BY <1>6 DEF Roots, Members
  <2>1. groups'[r].since[q] = IF q \in pids /\ pidToGroup[q] = r
                              THEN Absent ELSE groups[r].since[q]
    <3>1. groups'[r].since = gone(r)
      BY <1>5
    <3>2. gone(r)[q] = IF q \in pids /\ pidToGroup[q] = r
                       THEN Absent ELSE groups[r].since[q]
      OBVIOUS
    <3> HIDE DEF gone
    <3> QED
      BY <3>1, <3>2
  <2>2. pidToGroup[q] = r <=> groups[r].since[q] # Absent
    BY DEF MembershipAgrees, Roots, Members
  <2> QED
    BY <2>1, <2>2
<1>9. MembershipAgrees'
  <2>1. \A p \in Pid : Tracked(p)' => Exists(pidToGroup[p])'
    <3> SUFFICES ASSUME NEW p \in Pid, p \notin pids, pidToGroup[p] # NoPid
                 PROVE  Exists(pidToGroup[p]) /\ pidToGroup[p] \notin E
      BY <1>2, <1>6 DEF Tracked, TrackerTypeOK
    <3>1. pidToGroup[p] \in Roots /\ p \in Members(pidToGroup[p])
      BY DEF MembershipAgrees, Roots, Tracked, TrackerTypeOK
    <3> QED
      BY <1>1, <3>1 DEF Roots
  <2>2. \A r \in Roots', p \in Pid : pidToGroup'[p] = r <=> p \in Members(r)'
    BY <1>2, <1>6, <1>8, SentinelAssumption DEF MembershipAgrees, Roots
  <2>3. \A r \in Roots' : Members(r)' # {}
    <3> SUFFICES ASSUME NEW r \in Roots' PROVE Members(r)' # {}
      OBVIOUS
    <3>1. r \in Roots /\ ~(Members(r) \subseteq pids)
      BY <1>1, <1>6 DEF Roots
    <3>2. PICK q \in Members(r) : q \notin pids
      BY <3>1
    <3> QED
      BY <1>8, <3>2 DEF Members
  <2> QED
    BY <2>1, <2>2, <2>3 DEF MembershipAgrees
<1>10. FamilyIndexExact'
  <2> SUFFICES ASSUME NEW u \in User, NEW f \in Family
               PROVE  /\ familyGroups'[u][f] # NoPid =>
                            /\ Exists(familyGroups[u][f])'
                            /\ groups'[familyGroups'[u][f]].user = u
                            /\ groups'[familyGroups'[u][f]].family = f
                      /\ \A r \in Roots' :
                           groups'[r].user = u /\ groups'[r].family = f
                             => familyGroups'[u][f] = r
    BY DEF FamilyIndexExact
  <2>1. familyGroups[u][f] \in Pid \cup {NoPid}
    BY DEF TrackerTypeOK
  <2>2. ASSUME familyGroups'[u][f] # NoPid
        PROVE  /\ Exists(familyGroups[u][f])'
               /\ groups'[familyGroups'[u][f]].user = u
               /\ groups'[familyGroups'[u][f]].family = f
    <3> DEFINE r == familyGroups[u][f]
    <3>1. familyGroups'[u][f] = r /\ r # NoPid
      BY <1>4, <2>2
    <3>2. r \in Pid /\ Exists(r) /\ groups[r].user = u /\ groups[r].family = f
      BY <2>1, <3>1 DEF FamilyIndexExact
    <3>3. r \notin E
      BY <1>4, <2>2, <3>2
    <3> QED
      BY <1>5, <1>6, <3>1, <3>2, <3>3
  <2>3. ASSUME NEW r \in Roots', groups'[r].user = u, groups'[r].family = f
        PROVE  familyGroups'[u][f] = r
    <3>1. r \in Roots /\ r \notin E /\ groups[r].user = u /\ groups[r].family = f
      BY <1>5, <1>6, <2>3 DEF Roots
    <3>2. familyGroups[u][f] = r
      BY <3>1 DEF FamilyIndexExact
    <3>3. \A s \in E : ~(groups[s].user = u /\ groups[s].family = f)
      BY <1>1, <3>1, <3>2 DEF FamilyIndexExact, Roots
    <3> QED
      BY <1>4, <3>2, <3>3
  <2> QED
    BY <2>2, <2>3
<1>11. \A q \in Pid \ pids : Tracked(q) =>
         groups'[pidToGroup[q]].since[q] = groups[pidToGroup[q]].since[q]
  <2> SUFFICES ASSUME NEW q \in Pid \ pids, Tracked(q)
               PROVE  groups'[pidToGroup[q]].since[q] = groups[pidToGroup[q]].since[q]
    OBVIOUS
  <2>1. pidToGroup[q] \in Roots /\ q \in Members(pidToGroup[q])
    BY DEF MembershipAgrees, Roots, Tracked, TrackerTypeOK
  <2>2. pidToGroup[q] \notin E
    BY <1>1, <2>1
  <2> QED
    BY <1>5, <2>1, <2>2 DEF Roots
<1>12. QED
  BY <1>2, <1>3, <1>7, <1>9, <1>10, <1>11

\* A step that keeps every group's members, user and family and both other maps.
LEMMA SameStructureKeepsConsistent ==
  ASSUME TrackerTypeOK, MembershipAgrees, FamilyIndexExact, now' = now,
         pidToGroup' = pidToGroup, familyGroups' = familyGroups,
         groups' \in [Pid -> Group \cup {NoGroup}],
         \A r \in Pid : Exists(r)' <=> Exists(r),
         \A r \in Roots : /\ groups'[r].user = groups[r].user
                           /\ groups'[r].family = groups[r].family
                           /\ groups'[r].since = groups[r].since
  PROVE  TrackerTypeOK' /\ MembershipAgrees' /\ FamilyIndexExact'
<1>1. Roots' = Roots
  BY DEF Roots
<1>2. \A r \in Roots : Members(r)' = Members(r)
  BY DEF Members
<1>3. TrackerTypeOK'
  BY DEF TrackerTypeOK
<1>4. MembershipAgrees'
  BY <1>1, <1>2 DEF MembershipAgrees, Tracked, TrackerTypeOK
<1>5. FamilyIndexExact'
  BY <1>1 DEF FamilyIndexExact, Roots, TrackerTypeOK
<1> QED
  BY <1>3, <1>4, <1>5

LEMMA CheckpointKeepsConsistent ==
  ASSUME TrackerTypeOK, MembershipAgrees, FamilyIndexExact, now' = now, CheckpointActive
  PROVE  /\ TrackerTypeOK' /\ MembershipAgrees' /\ FamilyIndexExact'
         /\ \A r \in Pid : Exists(r)' <=> Exists(r)
<1>1. \A r \in Pid : Exists(r) =>
        LET g == [groups[r] EXCEPT !.last = now, !.fg = 0] IN
          /\ groups'[r] = g /\ g \in Group
          /\ g.user = groups[r].user /\ g.family = groups[r].family
          /\ g.since = groups[r].since
  BY DEF CheckpointActive, TrackerTypeOK, Exists, Group
<1>2. \A r \in Pid : ~Exists(r) => groups'[r] = NoGroup
  BY DEF CheckpointActive
<1>3. \A r \in Pid : Exists(r)' <=> Exists(r)
  BY <1>1, <1>2, NoGroupAssumption DEF Exists
<1>4. groups' \in [Pid -> Group \cup {NoGroup}]
  <2>1. groups' = [r \in Pid |-> groups'[r]]
    BY DEF CheckpointActive
  <2> QED
    BY <1>1, <1>2, <2>1
<1>5. \A r \in Roots : /\ groups'[r].user = groups[r].user
                       /\ groups'[r].family = groups[r].family
                       /\ groups'[r].since = groups[r].since
  BY <1>1 DEF Roots
<1> QED
  BY <1>3, <1>4, <1>5, SameStructureKeepsConsistent DEF CheckpointActive

LEMMA ForegroundKeepsConsistent ==
  ASSUME TrackerTypeOK, MembershipAgrees, FamilyIndexExact, now' = now,
         NEW pid \in Pid, IncrementForeground(pid, 1)
  PROVE  /\ TrackerTypeOK' /\ MembershipAgrees' /\ FamilyIndexExact'
         /\ \A r \in Pid : Exists(r)' <=> Exists(r)
         /\ \A r \in Roots : groups'[r].since = groups[r].since
<1>1. CASE Tracked(pid) /\ Exists(pidToGroup[pid])
  <2> DEFINE root == pidToGroup[pid]
             g == [groups[root] EXCEPT !.fg = @ + 1]
  <2>1. root \in Pid /\ groups[root] \in Group
    BY <1>1 DEF TrackerTypeOK, Tracked, Exists
  <2>2. /\ g \in Group
        /\ g.user = groups[root].user /\ g.family = groups[root].family
        /\ g.since = groups[root].since
    BY <2>1 DEF Group
  <2>3. groups' = [groups EXCEPT ![root] = g]
    BY <1>1 DEF IncrementForeground
  <2> HIDE DEF g
  <2>4. \A r \in Pid : Exists(r)' <=> Exists(r)
    BY <1>1, <2>1, <2>2, <2>3, NoGroupAssumption DEF TrackerTypeOK, Exists
  <2>5. groups' \in [Pid -> Group \cup {NoGroup}]
    BY <2>1, <2>2, <2>3 DEF TrackerTypeOK
  <2>6. \A r \in Roots : /\ groups'[r].user = groups[r].user
                         /\ groups'[r].family = groups[r].family
                         /\ groups'[r].since = groups[r].since
    BY <2>1, <2>2, <2>3 DEF Roots, TrackerTypeOK
  <2> QED
    BY <2>4, <2>5, <2>6, SameStructureKeepsConsistent DEF IncrementForeground
<1>2. CASE ~(Tracked(pid) /\ Exists(pidToGroup[pid]))
  BY <1>2, SameStructureKeepsConsistent
     DEF IncrementForeground, Exists, Roots, TrackerTypeOK
<1> QED
  BY <1>1, <1>2

-----------------------------------------------------------------------------
(* The invariant is inductive.                                             *)

LEMMA IndInvInit == Init => IndInv
<1> SUFFICES ASSUME Init PROVE IndInv
  OBVIOUS
<1> USE DEF Init, TrackerInit
<1>1. TrackerTypeOK
  BY DEF TrackerTypeOK
<1>2. PipelineTypeOK
  <2>1. Blank \in Process
    <3>1. PICK u \in User \ {NoUser}, a \in App : TRUE
      BY MonitorAssumption
    <3>2. [user |-> u, app |-> a, parent |-> NoPid] \in Process
      BY <3>1 DEF Process
    <3> QED
      BY <3>2 DEF Blank
  <2> QED
    BY <2>1 DEF PipelineTypeOK, Loop, IdleLoop
<1>3. Roots = {}
  BY DEF Roots, Exists
<1>4. MembershipAgrees /\ FamilyIndexExact
  BY <1>3 DEF MembershipAgrees, FamilyIndexExact, Tracked
<1>5. Lifecycle /\ LiveTracked /\ SnapshotSound
  BY DEF Lifecycle, LiveTracked, SnapshotSound, Tracked, Exists, IdleLoop
<1> QED
  BY <1>1, <1>2, <1>4, <1>5 DEF IndInv

\* A step that leaves the tracker alone.
LEMMA TrackerUntouched ==
  ASSUME IndInv, UNCHANGED trackerVars, now' \in Nat
  PROVE  /\ TrackerTypeOK' /\ MembershipAgrees' /\ FamilyIndexExact'
         /\ \A p \in Pid : (Tracked(p)' <=> Tracked(p)) /\ (Exists(p)' <=> Exists(p))
<1>1. groups' = groups /\ pidToGroup' = pidToGroup /\ familyGroups' = familyGroups
  BY DEF trackerVars
<1>2. \A p \in Pid : (Tracked(p)' <=> Tracked(p)) /\ (Exists(p)' <=> Exists(p))
  BY <1>1 DEF Tracked, Exists
<1>3. Roots' = Roots
  BY <1>2 DEF Roots
<1>4. TrackerTypeOK'
  BY <1>1 DEF IndInv, TrackerTypeOK
<1>5. MembershipAgrees'
  BY <1>1, <1>3 DEF IndInv, MembershipAgrees, Tracked, Exists, Members
<1>6. FamilyIndexExact'
  BY <1>1, <1>3 DEF IndInv, FamilyIndexExact, Exists
<1> QED
  BY <1>2, <1>4, <1>5, <1>6

\* A known process runs and is a member of a group that exists.
LEMMA KnownRegistration ==
  ASSUME IndInv, NEW p \in known
  PROVE  /\ p \in Pid /\ Tracked(p)
         /\ pidToGroup[p] \in Pid /\ Exists(pidToGroup[p])
         /\ groups[pidToGroup[p]] \in Group
         /\ groups[pidToGroup[p]].since[p] # Absent
         /\ fate[p] = "running"
  BY DEF IndInv, Lifecycle, LiveTracked, MembershipAgrees, TrackerTypeOK,
         PipelineTypeOK, Tracked, Exists, Roots, Members

\* A registration, by the startup scan or by a start event, of a pid that was
\* waiting for it.
LEMMA RegistrationStep ==
  ASSUME IndInv, NEW p \in Pid, p \in startQ \cup toAdopt, NEW user \in User,
         OnProcessStart(p, proc[p].parent, user, proc[p].app), Learn(p),
         UNCHANGED <<now, fate, proc, agent, subscribed, stopQ, loop, failures>>,
         startQ' = startQ \ {p}, toAdopt' = toAdopt \ {p}
  PROVE  IndInv'
<1> USE DEF IndInv
<1>1. proc[p].parent \in Pid \cup {NoPid} /\ proc[p].app \in App
  BY DEF PipelineTypeOK, Process
<1>2. ~Tracked(p) /\ ~Exists(p) /\ fate[p] # "unborn" /\ agent # "scan"
  BY DEF Lifecycle
<1>3. /\ TrackerTypeOK'
      /\ pidToGroup'[p] # NoPid
      /\ groups'[pidToGroup'[p]].since[p] = now
      /\ \A q \in Pid \ {p} : pidToGroup'[q] = pidToGroup[q]
      /\ \A r \in Pid \ {p} : ~Exists(r) => groups'[r] = NoGroup
      /\ \A r \in Pid : Exists(r) =>
           \A q \in Pid \ {p} : groups'[r].since[q] = groups[r].since[q]
  BY <1>1, <1>2, StartEffect
<1>4. MembershipAgrees' /\ FamilyIndexExact'
  BY <1>1, <1>2, StartKeepsConsistent
<1>5. known' \subseteq known \cup {p} /\ (p \in known' => fate[p] = "running")
  BY DEF Learn, Lifecycle
<1>6. PipelineTypeOK'
  BY <1>5 DEF PipelineTypeOK
<1>7. Lifecycle'
  BY <1>2, <1>3, <1>5 DEF Lifecycle, Tracked, Exists, PipelineTypeOK
<1>8. LiveTracked'
  BY <1>3, <1>5 DEF LiveTracked, Tracked, PipelineTypeOK
<1>9. SnapshotSound'
  <2> SUFFICES ASSUME loop.phase = "listed", NEW q \in known', q \notin loop.running
               PROVE  groups'[pidToGroup'[q]].since[q] >= loop.at
    BY DEF SnapshotSound
  <2>1. CASE q = p
    BY <1>3, <2>1 DEF SnapshotSound, TrackerTypeOK, PipelineTypeOK, Loop
  <2>2. CASE q # p
    <3>1. q \in known
      BY <1>5, <2>2
    <3>2. groups'[pidToGroup'[q]].since[q] = groups[pidToGroup[q]].since[q]
      BY <1>3, <2>2, <3>1, KnownRegistration
    <3> QED
      BY <3>1, <3>2 DEF SnapshotSound
  <2> QED
    BY <2>1, <2>2
<1> QED
  BY <1>3, <1>4, <1>6, <1>7, <1>8, <1>9

\* A release of pids none of which is a known running process.
LEMMA ReleaseStep ==
  ASSUME IndInv, NEW pids \in SUBSET Pid, pids \cap known = {},
         Release(pids, EmptiedBy(pids)),
         UNCHANGED <<now, osVars, agent, toAdopt, subscribed, startQ, failures>>,
         stopQ' \in SUBSET stopQ,
         loop' = loop \/ (loop' = [IdleLoop EXCEPT !.phase = "checkpoint"]
                           /\ agent = "up")
  PROVE  IndInv'
<1> USE DEF IndInv
<1>1. /\ TrackerTypeOK' /\ MembershipAgrees' /\ FamilyIndexExact'
      /\ \A q \in Pid : pidToGroup'[q] = IF q \in pids THEN NoPid ELSE pidToGroup[q]
      /\ \A q \in Pid \ pids : Tracked(q) =>
            groups'[pidToGroup[q]].since[q] = groups[pidToGroup[q]].since[q]
      /\ \A r \in Pid : ~Exists(r) => groups'[r] = NoGroup
  BY ReleaseKeepsConsistent
<1>2. fate' = fate /\ proc' = proc /\ known' = known
  BY DEF osVars
<1>3. PipelineTypeOK'
  BY <1>2 DEF PipelineTypeOK, Loop, IdleLoop
<1>4. Lifecycle'
  <2>1. \A p \in Pid : ~Tracked(p) /\ ~Exists(p) => ~Tracked(p)' /\ ~Exists(p)'
    BY <1>1 DEF Tracked, Exists
  <2> QED
    BY <1>2, <2>1 DEF Lifecycle, IdleLoop
<1>5. LiveTracked'
  BY <1>1, <1>2, KnownRegistration DEF LiveTracked, Tracked
<1>6. SnapshotSound'
  <2> SUFFICES ASSUME loop' = loop PROVE SnapshotSound'
    BY DEF SnapshotSound, IdleLoop
  <2>1. \A q \in known : /\ pidToGroup'[q] = pidToGroup[q]
                          /\ groups'[pidToGroup[q]].since[q] = groups[pidToGroup[q]].since[q]
    BY <1>1, KnownRegistration
  <2> QED
    BY <1>2, <2>1 DEF SnapshotSound
<1> QED
  BY <1>1, <1>3, <1>4, <1>5, <1>6

\* A step of the system, the clock or the event streams, which leaves the
\* tracker alone: what must be shown is the three parts about the rest.
LEMMA QuietStep ==
  ASSUME IndInv, UNCHANGED trackerVars, now' \in Nat, now <= now',
         PipelineTypeOK', Lifecycle', known' \subseteq known,
         loop' = loop \/ loop'.phase \notin {"clock", "listed"}
  PROVE  IndInv'
<1> USE DEF IndInv
<1>1. TrackerTypeOK' /\ MembershipAgrees' /\ FamilyIndexExact'
  BY TrackerUntouched
<1>2. LiveTracked'
  BY DEF LiveTracked, Tracked, trackerVars
<1>3. SnapshotSound'
  BY DEF SnapshotSound, trackerVars, TrackerTypeOK, PipelineTypeOK, Loop
<1> QED
  BY <1>1, <1>2, <1>3

LEMMA IndInvStep ==
  ASSUME ~Reuse, IndInv, [Next]_vars
  PROVE  IndInv'
<1> USE DEF IndInv
<1>a. TrackerTypeOK /\ PipelineTypeOK /\ now \in Nat /\ now <= now
  BY DEF TrackerTypeOK
<1>1. ASSUME NEW p \in Pid, ProcessStarts(p) PROVE IndInv'
  <2>1. fate[p] = "unborn" /\ ~Tracked(p) /\ ~Exists(p)
    BY <1>1 DEF ProcessStarts, MayStart, Lifecycle
  <2>2. PipelineTypeOK' /\ known' \subseteq known
    BY <1>1 DEF ProcessStarts, PipelineTypeOK
  <2>3. Lifecycle'
    BY <1>1, <2>1 DEF ProcessStarts, Lifecycle, PipelineTypeOK, trackerVars, Tracked, Exists
  <2> QED
    BY <1>1, <1>a, <2>2, <2>3, QuietStep DEF ProcessStarts
<1>2. ASSUME NEW p \in Pid, ProcessExits(p) PROVE IndInv'
  <2>1. PipelineTypeOK' /\ known' \subseteq known
    BY <1>2 DEF ProcessExits, PipelineTypeOK
  <2>2. Lifecycle'
    BY <1>2 DEF ProcessExits, Lifecycle, PipelineTypeOK, trackerVars, Tracked, Exists
  <2> QED
    BY <1>2, <1>a, <2>1, <2>2, QuietStep DEF ProcessExits
<1>3. ASSUME NEW p \in Pid, ProcessStartEvent(p) PROVE IndInv'
  <2>1. subscribed /\ toAdopt = {}
    BY <1>3 DEF ProcessStartEvent, Lifecycle
  <2>2. PICK user \in User : OnProcessStart(p, proc[p].parent, user, proc[p].app)
    BY <1>3, MonitorAssumption DEF ProcessStartEvent, PipelineTypeOK, Process
  <2> QED
    BY <1>3, <2>1, <2>2, RegistrationStep DEF ProcessStartEvent
<1>4. ASSUME NEW p \in Pid, ProcessStopEvent(p) PROVE IndInv'
  <2>1. {p} \cap known = {}
    BY <1>4 DEF ProcessStopEvent, Lifecycle
  <2>2. Release({p}, EmptiedBy({p}))
    BY <1>4, StopEndsItsOwnGroup DEF ProcessStopEvent, OnProcessStop
  <2> QED
    BY <1>4, <2>1, <2>2, ReleaseStep DEF ProcessStopEvent
<1>5. ASSUME NEW p \in Pid, RegisterExistingProcess(p) PROVE IndInv'
  <2>1. startQ = {} /\ proc[p].user \in User
    BY <1>5 DEF RegisterExistingProcess, Lifecycle, PipelineTypeOK, Process
  <2> QED
    BY <1>5, <2>1, RegistrationStep DEF RegisterExistingProcess
<1>6. ASSUME NEW p \in Pid, ForegroundTick(p) PROVE IndInv'
  <2>1. /\ TrackerTypeOK' /\ MembershipAgrees' /\ FamilyIndexExact'
        /\ \A r \in Pid : Exists(r)' <=> Exists(r)
        /\ \A r \in Roots : groups'[r].since = groups[r].since
    BY <1>6, ForegroundKeepsConsistent DEF ForegroundTick
  <2>2. pidToGroup' = pidToGroup
    BY <1>6 DEF ForegroundTick, IncrementForeground
  <2>3. PipelineTypeOK'
    BY <1>6 DEF ForegroundTick, PipelineTypeOK, osVars, eventVars
  <2>4. Lifecycle' /\ LiveTracked'
    BY <1>6, <2>1, <2>2 DEF ForegroundTick, Lifecycle, LiveTracked, Tracked, osVars, eventVars
  <2>5. SnapshotSound'
    BY <1>6, <2>1, <2>2, KnownRegistration
       DEF ForegroundTick, SnapshotSound, Roots, osVars
  <2> QED
    BY <2>1, <2>3, <2>4, <2>5
<1>7. ASSUME ScanExistingProcesses PROVE IndInv'
  <2>1. PipelineTypeOK' /\ known' \subseteq known
    BY <1>7 DEF ScanExistingProcesses, PipelineTypeOK, osVars
  <2>2. Lifecycle'
    BY <1>7 DEF ScanExistingProcesses, Lifecycle, trackerVars, osVars, Tracked, Exists
  <2> QED
    BY <1>7, <1>a, <2>1, <2>2, QuietStep DEF ScanExistingProcesses
<1>8. ASSUME StartLoops \/ Subscribe \/ SubscriptionFails PROVE IndInv'
  <2>1. PipelineTypeOK' /\ known' \subseteq known
    <3>1. CASE StartLoops
      BY <3>1 DEF StartLoops, PipelineTypeOK, osVars
    <3>2. CASE Subscribe
      BY <3>2 DEF Subscribe, PipelineTypeOK, osVars
    <3>3. CASE SubscriptionFails
      <4>1. subscribed' \in BOOLEAN
        BY <3>3 DEF SubscriptionFails
      <4>2. failures' \in Nat
        BY <3>3 DEF SubscriptionFails, PipelineTypeOK
      <4>3. startQ' \in SUBSET Pid /\ stopQ' \in SUBSET Pid
        BY <3>3 DEF SubscriptionFails
      <4> QED
        BY <3>3, <4>1, <4>2, <4>3, Zenon DEF SubscriptionFails, PipelineTypeOK, osVars
    <3> QED
      BY <1>8, <3>1, <3>2, <3>3
  <2>2. Lifecycle'
    BY <1>8 DEF StartLoops, Subscribe, SubscriptionFails, Lifecycle, trackerVars,
                osVars, Tracked, Exists
  <2> QED
    BY <1>8, <1>a, <2>1, <2>2, QuietStep DEF StartLoops, Subscribe, SubscriptionFails
<1>9. ASSUME ReadClock \/ RunningPIDs PROVE IndInv'
  <2>1. PipelineTypeOK' /\ known' = known
    BY <1>9, <1>a DEF ReadClock, RunningPIDs, PipelineTypeOK, Loop, osVars, eventVars
  <2>2. Lifecycle' /\ LiveTracked'
    BY <1>9 DEF ReadClock, RunningPIDs, Lifecycle, LiveTracked, PipelineTypeOK, Loop,
                trackerVars, osVars, eventVars, Tracked, Exists
  <2>3. SnapshotSound'
    <3>1. CASE ReadClock
      BY <3>1, <1>a DEF ReadClock, SnapshotSound, PipelineTypeOK, Loop
    <3>2. CASE RunningPIDs
      <4>1. /\ loop'.at = loop.at /\ loop.at <= now
            /\ loop'.running = {p \in Pid : fate[p] = "running"}
        BY <3>2 DEF RunningPIDs, SnapshotSound, PipelineTypeOK, Loop
      <4>2. known' \subseteq loop'.running /\ now' = now
        BY <3>2, <2>1, <4>1 DEF RunningPIDs, Lifecycle
      <4> QED
        BY <4>1, <4>2 DEF SnapshotSound
    <3> QED
      BY <1>9, <3>1, <3>2
  <2>4. TrackerTypeOK' /\ MembershipAgrees' /\ FamilyIndexExact'
    BY <1>9, <1>a, TrackerUntouched DEF ReadClock, RunningPIDs
  <2> QED
    BY <2>1, <2>2, <2>3, <2>4
<1>10. ASSUME RunningPIDsFails \/ Tick PROVE IndInv'
  <2>1. PipelineTypeOK' /\ known' = known /\ now' \in Nat /\ now <= now'
    BY <1>10, <1>a DEF RunningPIDsFails, Tick, PipelineTypeOK, Loop, IdleLoop, osVars, eventVars
  <2>2. Lifecycle'
    BY <1>10 DEF RunningPIDsFails, Tick, Lifecycle, IdleLoop, trackerVars, osVars,
                 eventVars, Tracked, Exists
  <2> QED
    BY <1>10, <2>1, <2>2, QuietStep DEF RunningPIDsFails, Tick, IdleLoop
<1>11. ASSUME ReconcileGhosts PROVE IndInv'
  <2> DEFINE pids == Stale(loop.running, loop.at)
  <2>1. pids \in SUBSET Pid
    BY DEF Stale
  <2>2. pids \cap known = {}
    BY <1>11, KnownRegistration DEF ReconcileGhosts, Stale, SnapshotSound
  <2>3. Release(pids, EmptiedBy(pids))
    BY <1>11 DEF ReconcileGhosts, Reconcile, EndedByReconcile
  <2>4. agent = "up"
    BY <1>11 DEF ReconcileGhosts, Lifecycle
  <2> QED
    BY <1>11, <2>1, <2>2, <2>3, <2>4, ReleaseStep DEF ReconcileGhosts, eventVars
<1>12. ASSUME Checkpoint PROVE IndInv'
  <2>1. /\ TrackerTypeOK' /\ MembershipAgrees' /\ FamilyIndexExact'
        /\ \A r \in Pid : Exists(r)' <=> Exists(r)
    BY <1>12, CheckpointKeepsConsistent DEF Checkpoint
  <2>2. pidToGroup' = pidToGroup
    BY <1>12 DEF Checkpoint, CheckpointActive
  <2>3. PipelineTypeOK'
    BY <1>12 DEF Checkpoint, PipelineTypeOK, Loop, IdleLoop, osVars, eventVars
  <2>4. Lifecycle' /\ LiveTracked'
    BY <1>12, <2>1, <2>2
       DEF Checkpoint, Lifecycle, LiveTracked, IdleLoop, Tracked, osVars, eventVars
  <2>5. SnapshotSound'
    BY <1>12 DEF Checkpoint, SnapshotSound, IdleLoop
  <2> QED
    BY <2>1, <2>3, <2>4, <2>5
<1>13. CASE UNCHANGED vars
  <2>1. PipelineTypeOK' /\ Lifecycle' /\ known' = known
    BY <1>13 DEF vars, osVars, eventVars, trackerVars, PipelineTypeOK, Lifecycle, Tracked, Exists
  <2> QED
    BY <1>13, <1>a, <2>1, QuietStep DEF vars
<1> QED
  BY <1>1, <1>2, <1>3, <1>4, <1>5, <1>6, <1>7, <1>8, <1>9, <1>10, <1>11, <1>12, <1>13
     DEF Next

-----------------------------------------------------------------------------
(* Sums over finite sets.  MapThenSumSet is a fold; its recursion has a    *)
(* solution, and the sum does not depend on the order the fold takes.      *)

LEMMA SmallestOf ==
  ASSUME NEW T, T \subseteq Nat, T # {}
  PROVE  \E n \in T : \A m \in T : n <= m
<1> DEFINE R == OpToRel(<, Nat)
<1>1. IsWellFoundedOn(R, Nat)
  BY NatLessThanWellFounded
<1>2. ASSUME NEW m \in Nat, NEW n \in Nat, ~(<<m, n>> \in R) PROVE n <= m
  BY <1>2 DEF OpToRel
<1> HIDE DEF R
<1>3. PICK n \in T : \A m \in T : ~(<<m, n>> \in R)
  BY <1>1, WFMin, Zenon
<1>4. n \in Nat /\ \A m \in T : m \in Nat
  OBVIOUS
<1> QED
  BY <1>2, <1>3, <1>4, Zenon

Some(s) == CHOOSE x \in s : TRUE

\* it[s] is the sum of the weights w of the elements of s.
Sums(it, w, S) ==
  it = [s \in SUBSET S |->
          IF s = {} THEN 0 ELSE w[Some(s)] + it[s \ {Some(s)}]]

Total(w, s) == (CHOOSE it : Sums(it, w, DOMAIN w))[s]

LEMMA Taken ==
  ASSUME NEW s, IsFiniteSet(s), NEW x \in s
  PROVE  /\ IsFiniteSet(s \ {x}) /\ Cardinality(s) \in Nat
         /\ Cardinality(s \ {x}) \in Nat /\ Cardinality(s) = Cardinality(s \ {x}) + 1
<1>1. /\ IsFiniteSet(s \ {x}) /\ Cardinality(s \ {x}) = Cardinality(s) - 1
  BY FS_RemoveElement
<1>2. Cardinality(s) \in Nat /\ Cardinality(s \ {x}) \in Nat
  BY <1>1, FS_CardinalityType
<1> QED
  BY <1>1, <1>2

LEMMA SomeIn == \A s : s # {} => Some(s) \in s
  BY DEF Some

\* The recursion, as far as sets of n elements.
SumsTo(it, w, S, n) ==
  \A s \in SUBSET S : Cardinality(s) <= n =>
    it[s] = IF s = {} THEN 0 ELSE w[Some(s)] + it[s \ {Some(s)}]

LEMMA SumsToAll ==
  ASSUME NEW S, IsFiniteSet(S), NEW w, NEW n \in Nat
  PROVE  \E it : SumsTo(it, w, S, n)
<1> DEFINE Missing == {k \in Nat : ~ \E it : SumsTo(it, w, S, k)}
<1>0. \A s \in SUBSET S : IsFiniteSet(s) /\ Cardinality(s) \in Nat
  BY FS_Subset, FS_CardinalityType
<1>1. \E it : SumsTo(it, w, S, 0)
  <2> DEFINE zero == [s \in SUBSET S |-> 0]
  <2>1. \A s \in SUBSET S : Cardinality(s) <= 0 => s = {}
    BY <1>0, FS_EmptySet
  <2>2. SumsTo(zero, w, S, 0)
    BY <2>1 DEF SumsTo
  <2> QED
    BY <2>2
<1>2. ASSUME NEW k \in Nat, NEW f, SumsTo(f, w, S, k) PROVE \E it : SumsTo(it, w, S, k + 1)
  <2> DEFINE g == [s \in SUBSET S |->
                     IF s = {} THEN 0 ELSE IF Cardinality(s) <= k THEN f[s]
                     ELSE w[Some(s)] + f[s \ {Some(s)}]]
  <2>1. ASSUME NEW s \in SUBSET S, Cardinality(s) <= k PROVE g[s] = f[s]
    <3>1. CASE s = {}
      BY <1>2, <2>1, <3>1 DEF SumsTo
    <3> QED
      BY <2>1, <3>1
  <2>2. ASSUME NEW s \in SUBSET S, s # {}, Cardinality(s) <= k + 1
        PROVE  /\ s \ {Some(s)} \in SUBSET S
               /\ g[s \ {Some(s)}] = f[s \ {Some(s)}]
    <3>1. Some(s) \in s
      BY <2>2, SomeIn
    <3>2. Cardinality(s) = Cardinality(s \ {Some(s)}) + 1 /\ Cardinality(s \ {Some(s)}) \in Nat
      BY <1>0, <3>1, Taken
    <3>3. Cardinality(s \ {Some(s)}) <= k
      BY <2>2, <3>2
    <3> QED
      BY <2>1, <3>3
  <2>3. ASSUME NEW s \in SUBSET S, Cardinality(s) <= k + 1
        PROVE  g[s] = IF s = {} THEN 0 ELSE w[Some(s)] + g[s \ {Some(s)}]
    <3>1. CASE s = {}
      BY <3>1
    <3>2. CASE s # {} /\ Cardinality(s) <= k
      <4>1. g[s] = f[s]
        BY <2>1, <3>2
      <4>2. f[s] = w[Some(s)] + f[s \ {Some(s)}]
        BY <1>2, <3>2 DEF SumsTo
      <4> HIDE DEF g
      <4> QED
        BY <2>2, <2>3, <3>2, <4>1, <4>2
    <3>3. CASE s # {} /\ ~(Cardinality(s) <= k)
      <4>1. g[s] = w[Some(s)] + f[s \ {Some(s)}]
        BY <3>3
      <4> HIDE DEF g
      <4> QED
        BY <2>2, <2>3, <3>3, <4>1
    <3> QED
      BY <3>1, <3>2, <3>3
  <2> HIDE DEF g
  <2>4. SumsTo(g, w, S, k + 1)
    BY <2>3 DEF SumsTo
  <2> QED
    BY <2>4
<1>3. Missing = {}
  <2> SUFFICES ASSUME Missing # {} PROVE FALSE
    OBVIOUS
  <2>1. PICK k \in Missing : \A m \in Missing : k <= m
    <3>1. Missing \subseteq Nat
      OBVIOUS
    <3> HIDE DEF Missing
    <3> QED
      BY <3>1, SmallestOf
  <2>2. k \in Nat /\ k # 0
    BY <1>1
  <2>3. k - 1 \in Nat /\ ~(k <= k - 1) /\ (k - 1) + 1 = k
    BY <2>2
  <2>4. PICK f : SumsTo(f, w, S, k - 1)
    BY <2>1, <2>3
  <2>5. \E it : SumsTo(it, w, S, (k - 1) + 1)
    BY <1>2, <2>3, <2>4
  <2>6. \E it : SumsTo(it, w, S, k)
    BY <2>3, <2>5
  <2> QED
    BY <2>6
<1> QED
  BY <1>3

LEMMA SumsExists ==
  ASSUME NEW S, IsFiniteSet(S), NEW w
  PROVE  \E it : Sums(it, w, S)
<1>1. Cardinality(S) \in Nat /\ \A s \in SUBSET S : Cardinality(s) <= Cardinality(S)
  BY FS_Subset, FS_CardinalityType
<1>2. PICK f : SumsTo(f, w, S, Cardinality(S))
  BY <1>1, SumsToAll
<1> DEFINE it == [s \in SUBSET S |-> f[s]]
<1>3. \A s \in SUBSET S : f[s] = IF s = {} THEN 0 ELSE w[Some(s)] + f[s \ {Some(s)}]
  BY <1>1, <1>2 DEF SumsTo
<1>4. \A s \in SUBSET S : s \ {Some(s)} \in SUBSET S
  OBVIOUS
<1>5. \A s \in SUBSET S : it[s] = IF s = {} THEN 0 ELSE w[Some(s)] + it[s \ {Some(s)}]
  BY <1>3, <1>4
<1>6. it = [s \in SUBSET S |-> it[s]]
  OBVIOUS
<1> HIDE DEF it
<1>7. it = [s \in SUBSET S |-> IF s = {} THEN 0 ELSE w[Some(s)] + it[s \ {Some(s)}]]
  BY <1>5, <1>6
<1> QED
  BY <1>7 DEF Sums

Same(v, w, S) == \A x \in S : v[x] = w[x]

\* Solutions for weights that agree on a set agree on its subsets.
LEMMA SumsAgree ==
  ASSUME NEW C, NEW D, NEW S, S \subseteq C, S \subseteq D, IsFiniteSet(S),
         NEW v, NEW w, Same(v, w, S),
         NEW f, NEW g, Sums(f, v, C), Sums(g, w, D)
  PROVE  f[S] = g[S]
<1> DEFINE Wrong == {s \in SUBSET S : f[s] # g[s]}
           T == {Cardinality(s) : s \in Wrong}
<1> SUFFICES ASSUME Wrong # {} PROVE FALSE
  OBVIOUS
<1>1. \A s \in SUBSET S : IsFiniteSet(s) /\ Cardinality(s) \in Nat
  BY FS_Subset, FS_CardinalityType
<1>2. PICK s \in Wrong : \A t \in Wrong : Cardinality(s) <= Cardinality(t)
  <2>1. T \subseteq Nat /\ T # {}
    BY <1>1
  <2>2. PICK n \in T : \A m \in T : n <= m
    <3> HIDE DEF T
    <3> QED
      BY <2>1, SmallestOf
  <2> QED
    BY <2>2
<1>3. s \in SUBSET S /\ s \in SUBSET C /\ s \in SUBSET D /\ f[s] # g[s]
  BY <1>2
<1>4. f[s] = IF s = {} THEN 0 ELSE v[Some(s)] + f[s \ {Some(s)}]
  BY <1>3 DEF Sums
<1>5. g[s] = IF s = {} THEN 0 ELSE w[Some(s)] + g[s \ {Some(s)}]
  BY <1>3 DEF Sums
<1>6. s # {} /\ Some(s) \in s /\ v[Some(s)] = w[Some(s)]
  BY <1>3, <1>4, <1>5, SomeIn DEF Same
<1>7. ~(Cardinality(s) <= Cardinality(s \ {Some(s)}))
  BY <1>1, <1>3, <1>6, Taken
<1>8. f[s \ {Some(s)}] = g[s \ {Some(s)}]
  BY <1>2, <1>3, <1>7
<1> QED
  BY <1>3, <1>4, <1>5, <1>6, <1>8

LEMMA TotalSums ==
  ASSUME NEW D, IsFiniteSet(D), NEW w \in [D -> Nat]
  PROVE  \E it : Sums(it, w, D) /\ \A s : Total(w, s) = it[s]
<1>1. \E it : Sums(it, w, D)
  BY SumsExists
<1>2. DOMAIN w = D
  OBVIOUS
<1> DEFINE it == CHOOSE it : Sums(it, w, D)
<1>3. Sums(it, w, D)
  BY <1>1
<1>4. \A s : Total(w, s) = it[s]
  BY <1>2 DEF Total
<1> QED
  BY <1>3, <1>4

LEMMA TotalAgrees ==
  ASSUME NEW D, IsFiniteSet(D), NEW v \in [D -> Nat], NEW w \in [D -> Nat],
         NEW S \in SUBSET D, \A x \in S : v[x] = w[x]
  PROVE  Total(v, S) = Total(w, S)
<1>1. PICK f : Sums(f, v, D) /\ \A s : Total(v, s) = f[s]
  BY TotalSums
<1>2. PICK g : Sums(g, w, D) /\ \A s : Total(w, s) = g[s]
  BY TotalSums
<1>3. IsFiniteSet(S) /\ S \subseteq D
  BY FS_Subset
<1>4. Same(v, w, S)
  BY DEF Same
<1>5. f[S] = g[S]
  BY <1>1, <1>2, <1>3, <1>4, SumsAgree
<1> QED
  BY <1>1, <1>2, <1>5

LEMMA TotalOfNone ==
  ASSUME NEW D, IsFiniteSet(D), NEW w \in [D -> Nat]
  PROVE  Total(w, {}) = 0
<1>1. PICK f : Sums(f, w, D) /\ \A s : Total(w, s) = f[s]
  BY TotalSums
<1>2. f[{}] = 0
  BY <1>1 DEF Sums
<1> QED
  BY <1>1, <1>2

\* Whichever element is taken first.
Takes(w, s) == /\ Total(w, s) \in Nat
               /\ \A x \in s : Total(w, s) = w[x] + Total(w, s \ {x})

LEMMA TotalTakes ==
  ASSUME NEW D, IsFiniteSet(D), NEW w \in [D -> Nat], NEW S \in SUBSET D
  PROVE  Takes(w, S)
<1> DEFINE Wrong == {s \in SUBSET D : ~Takes(w, s)}
           T == {Cardinality(s) : s \in Wrong}
<1> SUFFICES ASSUME Wrong # {} PROVE FALSE
  OBVIOUS
<1>1. \A s \in SUBSET D : IsFiniteSet(s) /\ Cardinality(s) \in Nat
  BY FS_Subset, FS_CardinalityType
<1>2. PICK S0 \in Wrong : \A t \in Wrong : Cardinality(S0) <= Cardinality(t)
  <2>1. T \subseteq Nat /\ T # {}
    BY <1>1
  <2>2. PICK n \in T : \A m \in T : n <= m
    <3> HIDE DEF T
    <3> QED
      BY <2>1, SmallestOf
  <2> QED
    BY <2>2
<1>3. S0 \in SUBSET D /\ ~Takes(w, S0)
  BY <1>2
<1>4. ASSUME NEW s \in SUBSET S0, NEW x \in S0, x \notin s PROVE Takes(w, s)
  <2>1. s \subseteq S0 \ {x} /\ Cardinality(S0) = Cardinality(S0 \ {x}) + 1
        /\ Cardinality(S0 \ {x}) \in Nat /\ IsFiniteSet(S0 \ {x})
    BY <1>1, <1>3, <1>4, Taken
  <2>2. Cardinality(s) <= Cardinality(S0 \ {x}) /\ Cardinality(s) \in Nat
    BY <1>1, <1>3, <2>1, FS_Subset
  <2>3. ~(Cardinality(S0) <= Cardinality(s))
    BY <2>1, <2>2
  <2> QED
    BY <1>2, <1>3, <2>3
<1> HIDE DEF Wrong, T
<1>5. PICK f : Sums(f, w, D) /\ \A s : Total(w, s) = f[s]
  BY TotalSums
<1>6. \A s \in SUBSET D : Total(w, s) = IF s = {} THEN 0
                                        ELSE w[Some(s)] + Total(w, s \ {Some(s)})
  BY <1>5 DEF Sums
<1>7. S0 # {}
  <2> SUFFICES ASSUME S0 = {} PROVE FALSE
    OBVIOUS
  <2>1. Total(w, S0) = 0
    BY TotalOfNone
  <2> QED
    BY <1>3, <2>1 DEF Takes
<1> DEFINE c == Some(S0)
<1>8. c \in S0 /\ w[c] \in Nat
  BY <1>3, <1>7, SomeIn
<1>9. Total(w, S0) = w[c] + Total(w, S0 \ {c})
  BY <1>3, <1>6, <1>7
<1> HIDE DEF c
<1>10. Takes(w, S0 \ {c})
  BY <1>4, <1>8
<1>11. Total(w, S0) \in Nat
  BY <1>8, <1>9, <1>10 DEF Takes
<1>12. ASSUME NEW x \in S0, x # c PROVE Total(w, S0) = w[x] + Total(w, S0 \ {x})
  <2>1. Takes(w, S0 \ {x}) /\ Takes(w, S0 \ {c}) /\ Takes(w, (S0 \ {c}) \ {x})
    BY <1>4, <1>8
  <2>2. (S0 \ {c}) \ {x} = (S0 \ {x}) \ {c}
    OBVIOUS
  <2>3. Total(w, S0 \ {c}) = w[x] + Total(w, (S0 \ {c}) \ {x})
    BY <1>12, <2>1 DEF Takes
  <2>4. Total(w, S0 \ {x}) = w[c] + Total(w, (S0 \ {c}) \ {x})
    BY <1>8, <1>12, <2>1, <2>2 DEF Takes
  <2>5. w[x] \in Nat /\ Total(w, (S0 \ {c}) \ {x}) \in Nat
    BY <1>3, <2>1 DEF Takes
  <2> QED
    BY <1>8, <1>9, <2>3, <2>4, <2>5
<1>13. Takes(w, S0)
  BY <1>9, <1>11, <1>12 DEF Takes
<1> QED
  BY <1>3, <1>13

\* Disjoint sets add up.
LEMMA TotalOfBoth ==
  ASSUME NEW D, IsFiniteSet(D), NEW w \in [D -> Nat],
         NEW A \in SUBSET D, NEW B \in SUBSET D, A \cap B = {}
  PROVE  Total(w, A \cup B) = Total(w, A) + Total(w, B)
<1> DEFINE Fails(s) == Total(w, s \cup B) # Total(w, s) + Total(w, B)
           Wrong == {s \in SUBSET A : Fails(s)}
           T == {Cardinality(s) : s \in Wrong}
<1>0. \A s \in SUBSET D : Total(w, s) \in Nat
  BY TotalTakes DEF Takes
<1> SUFFICES ASSUME Wrong # {} PROVE FALSE
  OBVIOUS
<1>1. \A s \in SUBSET A : IsFiniteSet(s) /\ Cardinality(s) \in Nat
  BY FS_Subset, FS_CardinalityType
<1>2. PICK s \in Wrong : \A t \in Wrong : Cardinality(s) <= Cardinality(t)
  <2>1. T \subseteq Nat /\ T # {}
    BY <1>1
  <2>2. PICK n \in T : \A m \in T : n <= m
    <3> HIDE DEF T
    <3> QED
      BY <2>1, SmallestOf
  <2> QED
    BY <2>2
<1>3. s \in SUBSET A /\ Total(w, s \cup B) # Total(w, s) + Total(w, B)
  BY <1>2
<1>4. s # {}
  <2> SUFFICES ASSUME s = {} PROVE FALSE
    OBVIOUS
  <2>1. s \cup B = B
    OBVIOUS
  <2>2. Total(w, s) = 0 /\ Total(w, B) \in Nat
    BY <1>0, TotalOfNone
  <2>3. Total(w, s \cup B) = Total(w, B)
    BY <2>1
  <2> QED
    BY <1>3, <2>2, <2>3
<1>5. PICK x \in s : TRUE
  BY <1>4
<1>6. ~(Cardinality(s) <= Cardinality(s \ {x}))
  BY <1>1, <1>3, <1>5, Taken
<1>7. s \ {x} \in SUBSET A /\ s \ {x} \notin Wrong
  BY <1>2, <1>3, <1>6
<1>8. Total(w, (s \ {x}) \cup B) = Total(w, s \ {x}) + Total(w, B)
  BY <1>7
<1> HIDE DEF Wrong, T
<1>9. (s \cup B) \ {x} = (s \ {x}) \cup B /\ s \cup B \in SUBSET D /\ s \in SUBSET D
      /\ x \in s \cup B /\ w[x] \in Nat
  BY <1>3, <1>5
<1>10. Total(w, s \cup B) = w[x] + Total(w, (s \ {x}) \cup B)
  BY <1>9, TotalTakes DEF Takes
<1>11. Total(w, s) = w[x] + Total(w, s \ {x})
  BY <1>5, <1>9, TotalTakes DEF Takes
<1> QED
  BY <1>0, <1>3, <1>8, <1>9, <1>10, <1>11

LEMMA TotalOfZeros ==
  ASSUME NEW D, IsFiniteSet(D), NEW w \in [D -> Nat], NEW S \in SUBSET D,
         \A x \in S : w[x] = 0
  PROVE  Total(w, S) = 0
<1> DEFINE Wrong == {s \in SUBSET S : Total(w, s) # 0}
           T == {Cardinality(s) : s \in Wrong}
<1> SUFFICES ASSUME Wrong # {} PROVE FALSE
  OBVIOUS
<1>1. \A s \in SUBSET S : IsFiniteSet(s) /\ Cardinality(s) \in Nat
  BY FS_Subset, FS_CardinalityType
<1>2. PICK s \in Wrong : \A t \in Wrong : Cardinality(s) <= Cardinality(t)
  <2>1. T \subseteq Nat /\ T # {}
    BY <1>1
  <2>2. PICK n \in T : \A m \in T : n <= m
    <3> HIDE DEF T
    <3> QED
      BY <2>1, SmallestOf
  <2> QED
    BY <2>2
<1>3. s # {} /\ s \in SUBSET D
  BY <1>2, TotalOfNone
<1>4. PICK x \in s : TRUE
  BY <1>3
<1>5. ~(Cardinality(s) <= Cardinality(s \ {x}))
  BY <1>1, <1>2, <1>4, Taken
<1>6. Total(w, s \ {x}) = 0
  BY <1>2, <1>5
<1>7. Total(w, s) = w[x] + Total(w, s \ {x}) /\ w[x] = 0
  BY <1>2, <1>3, <1>4, TotalTakes DEF Takes
<1> QED
  BY <1>2, <1>6, <1>7

-----------------------------------------------------------------------------
(* What credits are made of: the clock and the foreground time of each     *)
(* group.                                                                  *)

Foregrounds == [r \in Pid |-> IF Exists(r) THEN groups[r].fg ELSE 0]
Deltas      == [r \in Pid |-> IF Exists(r) THEN now - groups[r].last ELSE 0]

Clocked == \A r \in Roots : groups[r].last <= now

LEMMA AnySumIsTotal ==
  ASSUME NEW D, IsFiniteSet(D), NEW w \in [D -> Nat],
         NEW S \in SUBSET D, NEW f, Sums(f, w, S)
  PROVE  f[S] = Total(w, S)
<1>1. PICK g : Sums(g, w, D) /\ \A s : Total(w, s) = g[s]
  BY TotalSums
<1>2. IsFiniteSet(S) /\ S \subseteq S /\ Same(w, w, S)
  BY FS_Subset DEF Same
<1>3. Sums(g, w, D) /\ Total(w, S) = g[S]
  BY <1>1
<1>4. f[S] = g[S]
  BY <1>2, <1>3, SumsAgree
<1> QED
  BY <1>3, <1>4

LEMMA ForegroundsAreNat == TrackerTypeOK => Foregrounds \in [Pid -> Nat]
  BY DEF TrackerTypeOK, Foregrounds, Exists, Group

LEMMA DeltasAreNat ==
  ASSUME TrackerTypeOK, Clocked PROVE Deltas \in [Pid -> Nat]
<1>1. \A r \in Pid : Exists(r) => groups[r].last \in Nat /\ groups[r].last <= now /\ now \in Nat
  BY DEF TrackerTypeOK, Clocked, Roots, Exists, Group
<1>2. \A r \in Pid : (IF Exists(r) THEN now - groups[r].last ELSE 0) \in Nat
  BY <1>1
<1> QED
  BY <1>2 DEF Deltas

LEMMA ForegroundTotal ==
  ASSUME TrackerTypeOK, NEW S \in SUBSET Roots
  PROVE  MapThenSumSet(ForegroundDelta, S) = Total(Foregrounds, S)
<1> DEFINE w == Foregrounds
           G(it) == [s \in SUBSET S |-> IF s = {} THEN 0
                                        ELSE ForegroundDelta(Some(s)) + it[s \ {Some(s)}]]
<1>1. w \in [Pid -> Nat] /\ S \in SUBSET Pid /\ IsFiniteSet(Pid) /\ IsFiniteSet(S)
  BY ForegroundsAreNat, PidAssumption, FS_Subset DEF Roots
<1>2. \A r \in S : w[r] = ForegroundDelta(r)
  BY DEF Foregrounds, ForegroundDelta, Roots
<1> HIDE DEF w
<1>3. \A s \in SUBSET S : s # {} => Some(s) \in S
  BY SomeIn
<1>4. ASSUME NEW it PROVE Sums(it, w, S) <=> it = G(it)
  BY <1>2, <1>3 DEF Sums
<1>5. MapThenSumSet(ForegroundDelta, S) = (CHOOSE it : it = G(it))[S]
  BY DEF MapThenSumSet, MapThenFoldSet, Some
<1> HIDE DEF G
<1>6. \E it : it = G(it)
  BY <1>1, <1>4, SumsExists
<1> DEFINE f == CHOOSE it : it = G(it)
<1>7. Sums(f, w, S)
  BY <1>4, <1>6
<1> HIDE DEF f
<1>8. f[S] = Total(w, S)
  BY <1>1, <1>7, AnySumIsTotal
<1> QED
  BY <1>5, <1>8 DEF f, w

LEMMA DeltaTotal ==
  ASSUME TrackerTypeOK, Clocked, NEW S \in SUBSET Roots
  PROVE  MapThenSumSet(CheckpointDelta, S) = Total(Deltas, S)
<1> DEFINE w == Deltas
           G(it) == [s \in SUBSET S |-> IF s = {} THEN 0
                                        ELSE CheckpointDelta(Some(s)) + it[s \ {Some(s)}]]
<1>1. w \in [Pid -> Nat] /\ S \in SUBSET Pid /\ IsFiniteSet(Pid) /\ IsFiniteSet(S)
  BY DeltasAreNat, PidAssumption, FS_Subset DEF Roots
<1>2. \A r \in S : w[r] = CheckpointDelta(r)
  BY DEF Deltas, CheckpointDelta, Roots
<1> HIDE DEF w
<1>3. \A s \in SUBSET S : s # {} => Some(s) \in S
  BY SomeIn
<1>4. ASSUME NEW it PROVE Sums(it, w, S) <=> it = G(it)
  BY <1>2, <1>3 DEF Sums
<1>5. MapThenSumSet(CheckpointDelta, S) = (CHOOSE it : it = G(it))[S]
  BY DEF MapThenSumSet, MapThenFoldSet, Some
<1> HIDE DEF G
<1>6. \E it : it = G(it)
  BY <1>1, <1>4, SumsExists
<1> DEFINE f == CHOOSE it : it = G(it)
<1>7. Sums(f, w, S)
  BY <1>4, <1>6
<1> HIDE DEF f
<1>8. f[S] = Total(w, S)
  BY <1>1, <1>7, AnySumIsTotal
<1> QED
  BY <1>5, <1>8 DEF f, w

\* Groups that are gone, or whose foreground time was taken, hold none.
LEMMA TakenForeground ==
  ASSUME NEW v \in [Pid -> Nat], NEW w \in [Pid -> Nat], NEW E \in SUBSET Pid,
         \A r \in Pid : w[r] = IF r \in E THEN 0 ELSE v[r]
  PROVE  Total(v, Pid) = Total(v, E) + Total(w, Pid)
<1>1. IsFiniteSet(Pid) /\ E \cap (Pid \ E) = {} /\ E \cup (Pid \ E) = Pid
      /\ Pid \ E \in SUBSET Pid
  BY PidAssumption
<1>2. Total(v, Pid) = Total(v, E) + Total(v, Pid \ E)
  BY <1>1, TotalOfBoth
<1>3. Total(w, Pid) = Total(w, E) + Total(w, Pid \ E)
  BY <1>1, TotalOfBoth
<1>4. Total(w, E) = 0
  BY <1>1, TotalOfZeros
<1>5. Total(v, Pid \ E) = Total(w, Pid \ E)
  BY <1>1, TotalAgrees
<1>6. Total(v, E) \in Nat /\ Total(v, Pid \ E) \in Nat
  BY <1>1, TotalTakes DEF Takes
<1> QED
  BY <1>2, <1>3, <1>4, <1>5, <1>6

LEMMA OneMoreForeground ==
  ASSUME NEW v \in [Pid -> Nat], NEW w \in [Pid -> Nat], NEW x \in Pid,
         \A r \in Pid : w[r] = IF r = x THEN v[r] + 1 ELSE v[r]
  PROVE  Total(w, Pid) = Total(v, Pid) + 1
<1>1. IsFiniteSet(Pid) /\ Pid \ {x} \in SUBSET Pid
  BY PidAssumption
<1>2. Total(v, Pid) = v[x] + Total(v, Pid \ {x})
  BY <1>1, TotalTakes DEF Takes
<1>3. Total(w, Pid) = w[x] + Total(w, Pid \ {x})
  BY <1>1, TotalTakes DEF Takes
<1>4. Total(v, Pid \ {x}) = Total(w, Pid \ {x})
  BY <1>1, TotalAgrees
<1>5. Total(v, Pid \ {x}) \in Nat
  BY <1>1, TotalTakes DEF Takes
<1> QED
  BY <1>2, <1>3, <1>4, <1>5

LEMMA HeldForeground ==
  TrackerTypeOK => MapThenSumSet(ForegroundDelta, Roots) = Total(Foregrounds, Pid)
<1> SUFFICES ASSUME TrackerTypeOK
             PROVE  MapThenSumSet(ForegroundDelta, Roots) = Total(Foregrounds, Pid)
  OBVIOUS
<1> DEFINE w == Foregrounds
           rest == Pid \ Roots
<1>1. w \in [Pid -> Nat] /\ IsFiniteSet(Pid)
  BY ForegroundsAreNat, PidAssumption
<1>2. /\ Roots \in SUBSET Pid /\ rest \in SUBSET Pid
      /\ Roots \cap rest = {} /\ Roots \cup rest = Pid
  BY DEF Roots
<1>3. \A r \in rest : w[r] = 0
  BY DEF Foregrounds, Roots
<1>4. MapThenSumSet(ForegroundDelta, Roots) = Total(w, Roots)
  BY ForegroundTotal
<1> HIDE DEF w, rest
<1>5. Total(w, Pid) = Total(w, Roots) + Total(w, rest)
  BY <1>1, <1>2, TotalOfBoth
<1>6. Total(w, rest) = 0
  BY <1>1, <1>2, <1>3, TotalOfZeros
<1>7. Total(w, Roots) \in Nat
  BY <1>1, <1>2, TotalTakes DEF Takes
<1> QED
  BY <1>4, <1>5, <1>6, <1>7 DEF w

-----------------------------------------------------------------------------
(* What the tracker's operations do to the groups' clocks.                 *)

SameClock(r) ==
  /\ groups'[r].app = groups[r].app /\ groups'[r].user = groups[r].user
  /\ groups'[r].family = groups[r].family
  /\ groups'[r].last = groups[r].last /\ groups'[r].fg = groups[r].fg

LEMMA StartClocks ==
  ASSUME TrackerTypeOK,
         NEW pid \in Pid, NEW ppid \in Pid \cup {NoPid},
         NEW user \in User, NEW app \in App, ~Exists(pid),
         OnProcessStart(pid, ppid, user, app)
  PROVE  \A r \in Pid :
           /\ Exists(r) => Exists(r)' /\ SameClock(r)
           /\ ~Exists(r) /\ Exists(r)' =>
                /\ groups'[r].app \in App /\ groups'[r].fg = 0 /\ groups'[r].last = now
                /\ groups'[r].family = FamilyOf[groups'[r].app]
<1> DEFINE family == FamilyOf[app]
           root   == GroupToJoin(ppid, user, family)
<1>0. family \in Family \cup {NoFamily}
  BY SentinelAssumption
<1>1. CASE root # NoPid
  <2>1. root \in Pid /\ Exists(root)
    BY <1>0, <1>1, JoinedGroupExists
  <2> DEFINE g == [groups[root] EXCEPT !.since[pid] = now]
  <2>2. groups' = [groups EXCEPT ![root] = g]
    BY <1>1 DEF OnProcessStart, Join
  <2>3. groups[root] \in Group
    BY <2>1 DEF TrackerTypeOK, Exists
  <2>4. g \in Group
    BY <2>3 DEF Group, TrackerTypeOK
  <2>5. /\ g.app = groups[root].app /\ g.user = groups[root].user
        /\ g.family = groups[root].family
        /\ g.last = groups[root].last /\ g.fg = groups[root].fg
    BY <2>3 DEF Group
  <2> HIDE DEF g, root
  <2>6. g # NoGroup
    BY <2>4, NoGroupAssumption
  <2> QED
    BY <2>1, <2>2, <2>5, <2>6 DEF TrackerTypeOK, Exists, SameClock
<1>2. CASE root = NoPid
  <2> DEFINE g == [ app |-> app, user |-> user, family |-> family,
                    start |-> now, last |-> now, fg |-> 0,
                    since |-> [p \in Pid |-> IF p = pid THEN now ELSE Absent] ]
  <2>1. groups' = [groups EXCEPT ![pid] = g]
    BY <1>2 DEF OnProcessStart, Found
  <2>2. /\ g.app = app /\ g.fg = 0 /\ g.last = now /\ g.family = FamilyOf[g.app]
    OBVIOUS
  <2> HIDE DEF g
  <2> QED
    BY <2>1, <2>2 DEF TrackerTypeOK, Exists, SameClock
<1> QED
  BY <1>1, <1>2

LEMMA ReleaseClocks ==
  ASSUME TrackerTypeOK, NEW pids \in SUBSET Pid, NEW ended, Release(pids, ended)
  PROVE  \A r \in Pid :
           /\ Exists(r)' <=> Exists(r) /\ r \notin ended
           /\ Exists(r)' => SameClock(r)
<1> SUFFICES ASSUME NEW r \in Pid
             PROVE  /\ Exists(r)' <=> Exists(r) /\ r \notin ended
                    /\ Exists(r)' => SameClock(r)
  OBVIOUS
<1>1. CASE ~Exists(r) \/ r \in ended
  BY <1>1 DEF Release, Exists
<1>2. CASE Exists(r) /\ r \notin ended
  <2> DEFINE s == [p \in Pid |-> IF p \in pids /\ pidToGroup[p] = r THEN Absent
                                 ELSE groups[r].since[p]]
  <2>1. groups'[r] = [groups[r] EXCEPT !.since = s]
    BY <1>2 DEF Release
  <2>2. groups[r] \in Group
    BY <1>2 DEF TrackerTypeOK, Exists
  <2>3. s \in [Pid -> Nat \cup {Absent}]
    BY <2>2 DEF Group
  <2> HIDE DEF s
  <2>4. groups'[r] \in Group
    BY <2>1, <2>2, <2>3 DEF Group
  <2>5. SameClock(r)
    BY <2>1, <2>2 DEF SameClock, Group
  <2> QED
    BY <1>2, <2>4, <2>5, NoGroupAssumption DEF Exists
<1> QED
  BY <1>1, <1>2

LEMMA CheckpointClocks ==
  ASSUME TrackerTypeOK, CheckpointActive
  PROVE  \A r \in Pid :
           /\ Exists(r)' <=> Exists(r)
           /\ Exists(r) => /\ groups'[r].app = groups[r].app
                           /\ groups'[r].user = groups[r].user
                           /\ groups'[r].family = groups[r].family
                           /\ groups'[r].last = now /\ groups'[r].fg = 0
<1>1. \A r \in Pid : Exists(r) =>
        LET g == [groups[r] EXCEPT !.last = now, !.fg = 0] IN
          /\ groups'[r] = g /\ g \in Group
          /\ g.app = groups[r].app
          /\ g.user = groups[r].user /\ g.family = groups[r].family
          /\ g.last = now /\ g.fg = 0
  BY DEF CheckpointActive, TrackerTypeOK, Exists, Group
<1>2. \A r \in Pid : ~Exists(r) => groups'[r] = NoGroup
  BY DEF CheckpointActive
<1> QED
  BY <1>1, <1>2, NoGroupAssumption DEF Exists

LEMMA IncrementClocks ==
  ASSUME TrackerTypeOK, NEW pid \in Pid, Tracked(pid), Exists(pidToGroup[pid]),
         IncrementForeground(pid, 1)
  PROVE  \A r \in Pid :
           /\ Exists(r)' <=> Exists(r)
           /\ Exists(r) =>
                /\ groups'[r].app = groups[r].app /\ groups'[r].user = groups[r].user
                /\ groups'[r].family = groups[r].family
                /\ groups'[r].last = groups[r].last
                /\ groups'[r].fg = IF r = pidToGroup[pid] THEN groups[r].fg + 1
                                   ELSE groups[r].fg
<1> DEFINE root == pidToGroup[pid]
           g == [groups[root] EXCEPT !.fg = @ + 1]
<1>1. root \in Pid /\ groups[root] \in Group
  BY DEF TrackerTypeOK, Tracked, Exists
<1>2. groups' = [groups EXCEPT ![root] = g]
  BY DEF IncrementForeground
<1>3. g \in Group /\ g # NoGroup
  BY <1>1, NoGroupAssumption DEF Group
<1>4. /\ g.app = groups[root].app /\ g.user = groups[root].user
      /\ g.family = groups[root].family
      /\ g.last = groups[root].last /\ g.fg = groups[root].fg + 1
  BY <1>1 DEF Group
<1> HIDE DEF g, root
<1>5. \A r \in Pid : groups'[r] = IF r = root THEN g ELSE groups[r]
  BY <1>1, <1>2 DEF TrackerTypeOK
<1>6. Exists(root) /\ root = pidToGroup[pid]
  BY DEF root
<1> QED
  BY <1>1, <1>3, <1>4, <1>5, <1>6 DEF Exists

-----------------------------------------------------------------------------
(* Foreground time.                                                        *)

Account == [given : Nat, credited : Nat, dropped : Nat]

ForegroundInv ==
  /\ foreground \in Account
  /\ foreground.given = foreground.credited + foreground.dropped + Total(Foregrounds, Pid)

\* However it is divided, a credit of S takes in what S holds.
LEMMA CreditsTake ==
  ASSUME TrackerTypeOK, foreground \in Account, NEW timed, NEW S \in SUBSET Roots,
         Credit(timed, S)
  PROVE  /\ foreground' \in Account /\ foreground'.given = foreground.given
         /\ foreground'.credited + foreground'.dropped
              = foreground.credited + foreground.dropped + Total(Foregrounds, S)
<1> DEFINE paid == {r \in S : Credited(r)}
           w == Foregrounds
<1>1. foreground' = [foreground EXCEPT
        !.credited = @ + MapThenSumSet(ForegroundDelta, paid),
        !.dropped = @ + MapThenSumSet(ForegroundDelta, S \ paid)]
  BY DEF Credit
<1>2. /\ paid \in SUBSET Roots /\ S \ paid \in SUBSET Roots
      /\ paid \cap (S \ paid) = {} /\ paid \cup (S \ paid) = S
  OBVIOUS
<1> HIDE DEF paid
<1>3. /\ MapThenSumSet(ForegroundDelta, paid) = Total(w, paid)
      /\ MapThenSumSet(ForegroundDelta, S \ paid) = Total(w, S \ paid)
  BY <1>2, ForegroundTotal
<1> HIDE DEF w
<1>4. w \in [Pid -> Nat] /\ IsFiniteSet(Pid)
  BY ForegroundsAreNat, PidAssumption DEF w
<1>5. paid \in SUBSET Pid /\ S \ paid \in SUBSET Pid
  BY <1>2 DEF Roots
<1>6. Total(w, S) = Total(w, paid) + Total(w, S \ paid)
  BY <1>2, <1>4, <1>5, TotalOfBoth
<1>7. Total(w, paid) \in Nat /\ Total(w, S \ paid) \in Nat
  BY <1>4, <1>5, TotalTakes DEF Takes
<1>8. foreground' = [foreground EXCEPT !.credited = @ + Total(w, paid),
                                       !.dropped = @ + Total(w, S \ paid)]
  BY <1>1, <1>3
<1>9. /\ foreground' \in Account /\ foreground'.given = foreground.given
      /\ foreground'.credited = foreground.credited + Total(w, paid)
      /\ foreground'.dropped = foreground.dropped + Total(w, S \ paid)
  <2> DEFINE c == foreground.credited + Total(w, paid)
             d == foreground.dropped + Total(w, S \ paid)
  <2>1. c \in Nat /\ d \in Nat
    BY <1>7 DEF Account
  <2>2. foreground' = [foreground EXCEPT !.credited = c, !.dropped = d]
    BY <1>8
  <2> HIDE DEF c, d
  <2>3. /\ foreground' \in Account /\ foreground'.given = foreground.given
        /\ foreground'.credited = c /\ foreground'.dropped = d
    BY <2>1, <2>2 DEF Account
  <2> QED
    BY <2>3 DEF c, d
<1>10. foreground.credited \in Nat /\ foreground.dropped \in Nat
  BY DEF Account
<1>11. foreground'.credited + foreground'.dropped
         = foreground.credited + foreground.dropped + Total(w, S)
  BY <1>6, <1>7, <1>9, <1>10
<1> QED
  BY <1>9, <1>11 DEF w

\* So does a stop, also of a session that is too short.
LEMMA StopsTake ==
  ASSUME TrackerTypeOK, foreground \in Account, NEW S \in SUBSET Roots, CreditStopped(S)
  PROVE  /\ foreground' \in Account /\ foreground'.given = foreground.given
         /\ foreground'.credited + foreground'.dropped
              = foreground.credited + foreground.dropped + Total(Foregrounds, S)
<1>1. CASE \A r \in S : LongEnough(r)
  BY <1>1, CreditsTake DEF CreditStopped
<1>2. CASE ~ \A r \in S : LongEnough(r)
  <2> DEFINE w == Foregrounds
  <2>1. foreground' = [foreground EXCEPT !.dropped = @ + MapThenSumSet(ForegroundDelta, S)]
    BY <1>2 DEF CreditStopped
  <2>2. MapThenSumSet(ForegroundDelta, S) = Total(w, S)
    BY ForegroundTotal
  <2>3. Total(w, S) \in Nat
    <3>1. S \in SUBSET Pid
      BY DEF Roots
    <3> QED
      BY <3>1, ForegroundsAreNat, PidAssumption, TotalTakes DEF Takes
  <2> HIDE DEF w
  <2>4. /\ foreground' \in Account /\ foreground'.given = foreground.given
        /\ foreground'.credited = foreground.credited
        /\ foreground'.dropped = foreground.dropped + Total(w, S)
    BY <2>1, <2>2, <2>3 DEF Account
  <2>5. foreground.credited \in Nat /\ foreground.dropped \in Nat
    BY DEF Account
  <2>6. foreground'.credited + foreground'.dropped
          = foreground.credited + foreground.dropped + Total(w, S)
    BY <2>3, <2>4, <2>5
  <2> QED
    BY <2>4, <2>6 DEF w
<1> QED
  BY <1>1, <1>2

\* When the groups that were credited hold nothing any more, the account balances.
LEMMA TakingBalances ==
  ASSUME TrackerTypeOK, TrackerTypeOK', ForegroundInv, NEW S \in SUBSET Roots,
         foreground' \in Account, foreground'.given = foreground.given,
         foreground'.credited + foreground'.dropped
           = foreground.credited + foreground.dropped + Total(Foregrounds, S),
         \A r \in Pid : Foregrounds'[r] = IF r \in S THEN 0 ELSE Foregrounds[r]
  PROVE  ForegroundInv'
<1>1. Foregrounds \in [Pid -> Nat]
  BY ForegroundsAreNat
<1>2. Foregrounds' \in [Pid -> Nat]
  BY DEF TrackerTypeOK, Foregrounds, Exists, Group
<1>3. S \in SUBSET Pid
  BY DEF Roots
<1>4. Total(Foregrounds, Pid) = Total(Foregrounds, S) + Total(Foregrounds', Pid)
  BY <1>1, <1>2, <1>3, TakenForeground
<1>5. Total(Foregrounds, S) \in Nat /\ Total(Foregrounds', Pid) \in Nat
  BY <1>1, <1>2, <1>3, PidAssumption, TotalTakes DEF Takes
<1>6. foreground.credited \in Nat /\ foreground.dropped \in Nat
      /\ foreground'.credited \in Nat /\ foreground'.dropped \in Nat
  BY DEF ForegroundInv, Account
<1>7. foreground.given = foreground.credited + foreground.dropped + Total(Foregrounds, Pid)
  BY DEF ForegroundInv
<1>8. foreground'.given
        = foreground'.credited + foreground'.dropped + Total(Foregrounds', Pid)
  BY <1>4, <1>5, <1>6, <1>7
<1> QED
  BY <1>8 DEF ForegroundInv, Account

\* Steps that leave the account alone and every group what it holds.
LEMMA HoldingBalances ==
  ASSUME ForegroundInv, UNCHANGED foreground,
         \A r \in Pid : Foregrounds'[r] = Foregrounds[r]
  PROVE  ForegroundInv'
<1>1. Foregrounds' = Foregrounds
  BY DEF Foregrounds
<1> QED
  BY <1>1 DEF ForegroundInv

LEMMA ForegroundInvInit == Init => ForegroundInv
<1> SUFFICES ASSUME Init PROVE ForegroundInv
  OBVIOUS
<1>1. foreground = [given |-> 0, credited |-> 0, dropped |-> 0]
  BY DEF Init
<1>2. Foregrounds \in [Pid -> Nat] /\ \A r \in Pid : Foregrounds[r] = 0
  BY DEF Init, TrackerInit, Foregrounds, Exists
<1>3. Total(Foregrounds, Pid) = 0
  BY <1>2, PidAssumption, TotalOfZeros
<1> QED
  BY <1>1, <1>3 DEF ForegroundInv, Account

LEMMA ForegroundInvStep ==
  ASSUME ~Reuse, IndInv, ForegroundInv, [Next]_vars
  PROVE  ForegroundInv'
<1>a. TrackerTypeOK /\ TrackerTypeOK' /\ MembershipAgrees
  BY IndInvStep DEF IndInv
<1>b. \A r \in Pid : Foregrounds[r] = IF Exists(r) THEN groups[r].fg ELSE 0
  BY DEF Foregrounds
<1>c. \A r \in Pid : Foregrounds'[r] = IF Exists(r)' THEN groups'[r].fg ELSE 0
  BY DEF Foregrounds
<1>1. ASSUME NEW p \in Pid, NEW user \in User,
             OnProcessStart(p, proc[p].parent, user, proc[p].app),
             p \in startQ \cup toAdopt, UNCHANGED foreground
      PROVE  ForegroundInv'
  <2>1. proc[p].parent \in Pid \cup {NoPid} /\ proc[p].app \in App /\ ~Exists(p)
    BY <1>1 DEF IndInv, Lifecycle, PipelineTypeOK, Process
  <2>2. \A r \in Pid :
           /\ Exists(r) => Exists(r)' /\ SameClock(r)
           /\ ~Exists(r) /\ Exists(r)' => groups'[r].fg = 0
    BY <1>a, <1>1, <2>1, StartClocks
  <2> QED
    BY <1>b, <1>c, <1>1, <2>2, HoldingBalances DEF SameClock
<1>2. ASSUME NEW p \in Pid, ProcessStartEvent(p) PROVE ForegroundInv'
  <2>1. PICK user \in User : OnProcessStart(p, proc[p].parent, user, proc[p].app)
    BY <1>2, MonitorAssumption DEF ProcessStartEvent, IndInv, PipelineTypeOK, Process
  <2> QED
    BY <1>1, <1>2, <2>1 DEF ProcessStartEvent, creditVars
<1>3. ASSUME NEW p \in Pid, RegisterExistingProcess(p) PROVE ForegroundInv'
  <2>1. proc[p].user \in User
    BY DEF IndInv, PipelineTypeOK, Process
  <2> QED
    BY <1>1, <1>3, <2>1 DEF RegisterExistingProcess, creditVars
<1>4. ASSUME NEW p \in Pid, ProcessStopEvent(p) PROVE ForegroundInv'
  <2> DEFINE S == EndedByStop(p)
  <2>1. S \in SUBSET Roots /\ Release({p}, S) /\ CreditStopped(S)
    BY <1>4 DEF ProcessStopEvent, OnProcessStop, EndedByStop, EmptiedBy
  <2> HIDE DEF S
  <2>2. \A r \in Pid : /\ Exists(r)' <=> Exists(r) /\ r \notin S
                       /\ Exists(r)' => SameClock(r)
    BY <1>a, <2>1, ReleaseClocks
  <2>3. \A r \in Pid : Foregrounds'[r] = IF r \in S THEN 0 ELSE Foregrounds[r]
    BY <1>b, <1>c, <2>1, <2>2 DEF SameClock, Roots
  <2> QED
    BY <1>a, <2>1, <2>3, StopsTake, TakingBalances DEF ForegroundInv
<1>5. CASE ReconcileGhosts
  <2> DEFINE S == EndedByReconcile(loop.running, loop.at)
             pids == Stale(loop.running, loop.at)
  <2>1. S \in SUBSET Roots /\ pids \in SUBSET Pid /\ Release(pids, S) /\ Credit(S, S)
    BY <1>5 DEF ReconcileGhosts, Reconcile, EndedByReconcile, EmptiedBy, Stale
  <2> HIDE DEF S, pids
  <2>2. \A r \in Pid : /\ Exists(r)' <=> Exists(r) /\ r \notin S
                       /\ Exists(r)' => SameClock(r)
    BY <1>a, <2>1, ReleaseClocks
  <2>3. \A r \in Pid : Foregrounds'[r] = IF r \in S THEN 0 ELSE Foregrounds[r]
    BY <1>b, <1>c, <2>1, <2>2 DEF SameClock, Roots
  <2> QED
    BY <1>a, <2>1, <2>3, CreditsTake, TakingBalances DEF ForegroundInv
<1>6. CASE Checkpoint
  <2>1. PICK timed : Credit(timed, Roots)
    BY <1>6 DEF Checkpoint
  <2>2. \A r \in Pid : /\ Exists(r)' <=> Exists(r)
                       /\ Exists(r) => groups'[r].fg = 0
    BY <1>a, <1>6, CheckpointClocks DEF Checkpoint
  <2>3. \A r \in Pid : Foregrounds'[r] = IF r \in Roots THEN 0 ELSE Foregrounds[r]
    BY <1>b, <1>c, <2>2 DEF Roots
  <2>4. Roots \in SUBSET Roots
    OBVIOUS
  <2> QED
    BY <1>a, <2>1, <2>3, <2>4, CreditsTake, TakingBalances DEF ForegroundInv
<1>7. ASSUME NEW p \in Pid, ForegroundTick(p) PROVE ForegroundInv'
  <2> DEFINE x == pidToGroup[p]
  <2>1. /\ Tracked(p) /\ Exists(x) /\ IncrementForeground(p, 1)
        /\ foreground' = [foreground EXCEPT !.given = @ + 1]
    BY <1>7 DEF ForegroundTick
  <2>2. x \in Pid
    BY <1>a, <2>1 DEF TrackerTypeOK, Tracked
  <2>3. \A r \in Pid :
          /\ Exists(r)' <=> Exists(r)
          /\ Exists(r) => groups'[r].fg = IF r = x THEN groups[r].fg + 1 ELSE groups[r].fg
    BY <1>a, <2>1, IncrementClocks
  <2> HIDE DEF x
  <2>4. \A r \in Pid : Foregrounds'[r] = IF r = x THEN Foregrounds[r] + 1 ELSE Foregrounds[r]
    BY <1>b, <1>c, <2>1, <2>3
  <2>5. Foregrounds \in [Pid -> Nat] /\ Foregrounds' \in [Pid -> Nat]
    BY <1>a DEF TrackerTypeOK, Foregrounds, Exists, Group
  <2>6. Total(Foregrounds', Pid) = Total(Foregrounds, Pid) + 1
    BY <2>2, <2>4, <2>5, OneMoreForeground
  <2>7. Total(Foregrounds, Pid) \in Nat
    BY <2>5, PidAssumption, TotalTakes DEF Takes
  <2> QED
    BY <2>1, <2>6, <2>7 DEF ForegroundInv, Account
<1>8. ASSUME UNCHANGED <<groups, foreground>> PROVE ForegroundInv'
  BY <1>b, <1>c, <1>8, HoldingBalances DEF Exists
<1>9. CASE \/ \E p \in Pid : ProcessStarts(p) \/ ProcessExits(p)
           \/ ScanExistingProcesses \/ StartLoops \/ Subscribe \/ SubscriptionFails
           \/ ReadClock \/ RunningPIDs \/ RunningPIDsFails \/ Tick
  BY <1>8, <1>9 DEF ProcessStarts, ProcessExits, ScanExistingProcesses, StartLoops,
     Subscribe, SubscriptionFails, ReadClock, RunningPIDs, RunningPIDsFails, Tick,
     trackerVars, creditVars
<1>10. CASE UNCHANGED vars
  BY <1>8, <1>10 DEF vars, trackerVars, creditVars
<1> QED
  BY <1>2, <1>3, <1>4, <1>5, <1>6, <1>7, <1>9, <1>10 DEF Next

-----------------------------------------------------------------------------
(* Usage only grows, and no group's clock is ahead.                        *)

ClockInv == Clocked /\ usage \in [Person \X App -> Nat]

\* The groups whose time a credit adds to label l.
Earners(timed, l) == {r \in {r \in timed : Credited(r)} : Label(r) = l}

LEMMA CreditAdds ==
  ASSUME TrackerTypeOK, ClockInv, NEW timed \in SUBSET Roots, NEW S, Credit(timed, S)
  PROVE  /\ usage' \in [Person \X App -> Nat]
         /\ \A l \in Person \X App :
              /\ Total(Deltas, Earners(timed, l)) \in Nat
              /\ usage'[l] = usage[l] + Total(Deltas, Earners(timed, l))
<1> DEFINE Of(l) == Earners(timed, l)
           w == Deltas
<1>1. w \in [Pid -> Nat] /\ IsFiniteSet(Pid) /\ Clocked
  BY DeltasAreNat, PidAssumption DEF ClockInv
<1>2. \A l : Of(l) \in SUBSET Roots /\ Of(l) \in SUBSET Pid
  BY DEF Roots, Earners
<1>3. usage' = [l \in DOMAIN usage |-> usage[l] + MapThenSumSet(CheckpointDelta, Of(l))]
  BY DEF Credit, Earners
<1>4. DOMAIN usage = Person \X App /\ \A l \in Person \X App : usage[l] \in Nat
  BY DEF ClockInv
<1> HIDE DEF Of
<1>5. ASSUME NEW l \in Person \X App
      PROVE  usage'[l] = usage[l] + Total(w, Of(l)) /\ Total(w, Of(l)) \in Nat
  <2>1. MapThenSumSet(CheckpointDelta, Of(l)) = Total(w, Of(l))
    BY <1>1, <1>2, DeltaTotal
  <2> HIDE DEF w
  <2>2. Total(w, Of(l)) \in Nat
    BY <1>1, <1>2, TotalTakes DEF Takes
  <2>3. usage'[l] = usage[l] + MapThenSumSet(CheckpointDelta, Of(l))
    BY <1>3, <1>4
  <2> QED
    BY <2>1, <2>2, <2>3
<1> HIDE DEF w
<1>6. usage' \in [Person \X App -> Nat]
  <2>1. usage' = [l \in Person \X App |-> usage'[l]]
    BY <1>3, <1>4
  <2>2. \A l \in Person \X App : usage'[l] \in Nat
    BY <1>4, <1>5
  <2> QED
    BY <2>1, <2>2
<1> QED
  BY <1>5, <1>6 DEF Of, w

\* A step that starts no clock later than now, and credits at most once.
LEMMA ClockInvKept ==
  ASSUME TrackerTypeOK, TrackerTypeOK', ClockInv, now <= now',
         usage' \in [Person \X App -> Nat],
         \A r \in Pid : Exists(r)' =>
           groups'[r].last = now \/ (Exists(r) /\ groups'[r].last = groups[r].last)
  PROVE  ClockInv'
<1>1. now \in Nat /\ now' \in Nat
  BY DEF TrackerTypeOK
<1>2. ASSUME NEW r \in Pid, Exists(r)' PROVE groups'[r].last <= now'
  <2>1. CASE groups'[r].last = now
    BY <2>1
  <2>2. CASE Exists(r) /\ groups'[r].last = groups[r].last
    <3>1. groups[r].last <= now /\ groups[r].last \in Nat
      BY <2>2 DEF ClockInv, Clocked, Roots, TrackerTypeOK, Exists, Group
    <3> QED
      BY <1>1, <2>2, <3>1
  <2> QED
    BY <1>2, <2>1, <2>2
<1> QED
  BY <1>2 DEF ClockInv, Clocked, Roots

LEMMA ClockInvInit == Init => ClockInv
<1> SUFFICES ASSUME Init PROVE ClockInv
  OBVIOUS
<1>1. \A r \in Pid : ~Exists(r)
  BY DEF Init, TrackerInit, Exists
<1>2. usage = [l \in Person \X App |-> 0]
  BY DEF Init
<1> QED
  BY <1>1, <1>2 DEF ClockInv, Clocked, Roots

LEMMA ClockInvStep ==
  ASSUME ~Reuse, IndInv, ClockInv, [Next]_vars PROVE ClockInv'
<1>a. TrackerTypeOK /\ TrackerTypeOK'
  BY IndInvStep DEF IndInv
<1>b. now \in Nat /\ now' \in Nat /\ usage \in [Person \X App -> Nat]
  BY <1>a DEF TrackerTypeOK, ClockInv
<1>1. ASSUME NEW p \in Pid, NEW user \in User,
             OnProcessStart(p, proc[p].parent, user, proc[p].app),
             p \in startQ \cup toAdopt, UNCHANGED <<now, usage>>
      PROVE  ClockInv'
  <2>1. proc[p].parent \in Pid \cup {NoPid} /\ proc[p].app \in App /\ ~Exists(p)
    BY <1>1 DEF IndInv, Lifecycle, PipelineTypeOK, Process
  <2>2. \A r \in Pid :
           /\ Exists(r) => Exists(r)' /\ SameClock(r)
           /\ ~Exists(r) /\ Exists(r)' => groups'[r].last = now
    BY <1>a, <1>1, <2>1, StartClocks
  <2>3. \A r \in Pid : Exists(r)' =>
           groups'[r].last = now \/ (Exists(r) /\ groups'[r].last = groups[r].last)
    BY <2>2 DEF SameClock
  <2> QED
    BY <1>a, <1>b, <1>1, <2>3, ClockInvKept
<1>2. ASSUME NEW p \in Pid, ProcessStartEvent(p) PROVE ClockInv'
  <2>1. PICK user \in User : OnProcessStart(p, proc[p].parent, user, proc[p].app)
    BY <1>2, MonitorAssumption DEF ProcessStartEvent, IndInv, PipelineTypeOK, Process
  <2> QED
    BY <1>1, <1>2, <2>1 DEF ProcessStartEvent, creditVars
<1>3. ASSUME NEW p \in Pid, RegisterExistingProcess(p) PROVE ClockInv'
  <2>1. proc[p].user \in User
    BY DEF IndInv, PipelineTypeOK, Process
  <2> QED
    BY <1>1, <1>3, <2>1 DEF RegisterExistingProcess, creditVars
<1>4. ASSUME NEW S \in SUBSET Roots, NEW pids \in SUBSET Pid, Release(pids, S), now' = now,
             Credit(S, S) \/ UNCHANGED usage
      PROVE  ClockInv'
  <2>1. \A r \in Pid : /\ Exists(r)' <=> Exists(r) /\ r \notin S
                       /\ Exists(r)' => SameClock(r)
    BY <1>a, <1>4, ReleaseClocks
  <2>2. usage' \in [Person \X App -> Nat]
    BY <1>a, <1>b, <1>4, CreditAdds
  <2> QED
    BY <1>a, <1>b, <1>4, <2>1, <2>2, ClockInvKept DEF SameClock
<1>5. ASSUME NEW p \in Pid, ProcessStopEvent(p) PROVE ClockInv'
  <2> DEFINE S == EndedByStop(p)
  <2>1. /\ S \in SUBSET Roots /\ Release({p}, S) /\ CreditStopped(S)
        /\ now' = now /\ {p} \in SUBSET Pid
    BY <1>5 DEF ProcessStopEvent, OnProcessStop, EndedByStop, EmptiedBy
  <2> HIDE DEF S
  <2>2. Credit(S, S) \/ UNCHANGED usage
    BY <2>1 DEF CreditStopped
  <2> QED
    BY <1>4, <2>1, <2>2
<1>6. CASE ReconcileGhosts
  <2> DEFINE S == EndedByReconcile(loop.running, loop.at)
             pids == Stale(loop.running, loop.at)
  <2>1. /\ S \in SUBSET Roots /\ pids \in SUBSET Pid /\ Release(pids, S) /\ Credit(S, S)
        /\ now' = now
    BY <1>6 DEF ReconcileGhosts, Reconcile, EndedByReconcile, EmptiedBy, Stale
  <2> HIDE DEF S, pids
  <2> QED
    BY <1>4, <2>1
<1>7. CASE Checkpoint
  <2>1. PICK timed \in SUBSET Roots : Credit(timed, Roots)
    BY <1>7 DEF Checkpoint
  <2>2. \A r \in Pid : Exists(r)' => groups'[r].last = now
    BY <1>a, <1>7, CheckpointClocks DEF Checkpoint
  <2>3. now' = now
    BY <1>7 DEF Checkpoint
  <2>4. usage' \in [Person \X App -> Nat]
    BY <1>a, <2>1, CreditAdds
  <2>5. now <= now'
    BY <1>b, <2>3
  <2> QED
    BY <1>a, <2>2, <2>4, <2>5, ClockInvKept
<1>8. ASSUME NEW p \in Pid, ForegroundTick(p) PROVE ClockInv'
  <2>1. /\ Tracked(p) /\ Exists(pidToGroup[p]) /\ IncrementForeground(p, 1)
        /\ usage' = usage /\ now' = now
    BY <1>8 DEF ForegroundTick
  <2>2. \A r \in Pid : Exists(r)' => Exists(r) /\ groups'[r].last = groups[r].last
    BY <1>a, <2>1, IncrementClocks
  <2> QED
    BY <1>a, <1>b, <2>1, <2>2, ClockInvKept
<1>9. ASSUME UNCHANGED <<groups, usage>>, now <= now' PROVE ClockInv'
  BY <1>a, <1>b, <1>9, ClockInvKept DEF Exists
<1>10. CASE \/ \E p \in Pid : ProcessStarts(p) \/ ProcessExits(p)
            \/ ScanExistingProcesses \/ StartLoops \/ Subscribe \/ SubscriptionFails
            \/ ReadClock \/ RunningPIDs \/ RunningPIDsFails \/ Tick
  <2>1. UNCHANGED <<groups, usage>> /\ (now' = now \/ now' = now + 1)
    BY <1>10 DEF ProcessStarts, ProcessExits, ScanExistingProcesses, StartLoops,
       Subscribe, SubscriptionFails, ReadClock, RunningPIDs, RunningPIDsFails, Tick,
       trackerVars, creditVars
  <2> QED
    BY <1>b, <1>9, <2>1
<1>11. CASE UNCHANGED vars
  BY <1>b, <1>9, <1>11 DEF vars, trackerVars, creditVars
<1> QED
  BY <1>2, <1>3, <1>5, <1>6, <1>7, <1>8, <1>10, <1>11 DEF Next

-----------------------------------------------------------------------------
(* Usage.                                                                  *)

\* No person has two accounts.
OneAccountEach ==
  \A u, v \in User : Canonical[u] = Canonical[v] /\ Canonical[u] # NoPerson => u = v

\* A group of a family has not been credited beyond its last checkpoint.
Unspent(r) ==
  /\ groups[r].last <= now
  /\ groups[r].family = FamilyOf[groups[r].app]
  /\ Credited(r) /\ groups[r].family # NoFamily => usage[Label(r)] <= groups[r].last

UsageInv ==
  /\ usage \in [Person \X App -> Nat]
  /\ UsageWithinWallClock
  /\ \A r \in Roots : Unspent(r)

LEMMA LabelsOfGroups ==
  ASSUME TrackerTypeOK, NEW r \in Roots
  PROVE  /\ groups[r].app \in App /\ groups[r].user \in User
         /\ groups[r].family \in Family \cup {NoFamily} /\ groups[r].last \in Nat
         /\ Credited(r) => Canonical[groups[r].user] \in Person /\ Label(r) \in Person \X App
<1>1. groups[r] \in Group
  BY DEF TrackerTypeOK, Roots, Exists
<1>2. /\ groups[r].app \in App /\ groups[r].user \in User
      /\ groups[r].family \in Family \cup {NoFamily} /\ groups[r].last \in Nat
  BY <1>1 DEF Group
<1>3. Canonical[groups[r].user] \in Person \cup {NoPerson}
  BY <1>2, MonitorAssumption
<1> QED
  BY <1>2, <1>3 DEF Credited, Label

\* One group at a time earns usage of a family application for a person.
LEMMA OneGroupEarns ==
  ASSUME OneAccountEach, IndInv, UsageInv, NEW r \in Roots, NEW s \in Roots,
         Credited(r), Credited(s), Label(r) = Label(s), groups[r].family # NoFamily
  PROVE  r = s
<1>1. Canonical[groups[r].user] = Canonical[groups[s].user] /\ groups[r].app = groups[s].app
  BY DEF Label
<1>2. /\ groups[r].user \in User /\ groups[s].user \in User
      /\ groups[r].family \in Family
  BY LabelsOfGroups DEF IndInv
<1>3. groups[r].user = groups[s].user
  BY <1>1, <1>2 DEF OneAccountEach, Credited
<1>4. groups[r].family = groups[s].family
  BY <1>1 DEF UsageInv, Unspent
<1> QED
  BY <1>2, <1>3, <1>4 DEF IndInv, FamilyIndexExact

\* What a credit adds to a label: nothing without a group of the label, and never
\* more than leads up to now.
LEMMA CreditsWithinTime ==
  ASSUME OneAccountEach, IndInv, UsageInv, NEW timed \in SUBSET Roots, NEW S,
         Credit(timed, S)
  PROVE  /\ usage' \in [Person \X App -> Nat]
         /\ \A l \in Person \X App :
              (\A r \in timed : Credited(r) => Label(r) # l) => usage'[l] = usage[l]
         /\ \A x \in Person, a \in App : FamilyOf[a] # NoFamily => usage'[<<x, a>>] <= now
<1> DEFINE Of(l) == Earners(timed, l)
           w == Deltas
<1>1. TrackerTypeOK /\ now \in Nat /\ usage \in [Person \X App -> Nat]
  BY DEF IndInv, TrackerTypeOK, UsageInv
<1>2. ClockInv
  BY DEF UsageInv, Unspent, ClockInv, Clocked
<1>3. w \in [Pid -> Nat] /\ IsFiniteSet(Pid)
  BY <1>1, <1>2, DeltasAreNat, PidAssumption DEF ClockInv
<1>4. \A l : Of(l) \in SUBSET Roots /\ Of(l) \in SUBSET Pid
  BY DEF Roots, Earners
<1>5. \A l \in Person \X App : \A r : r \in Of(l) <=> r \in timed /\ Credited(r) /\ Label(r) = l
  BY DEF Earners
<1>6. \A r \in Roots : w[r] = now - groups[r].last
  BY DEF Deltas, Roots
<1>8. /\ usage' \in [Person \X App -> Nat]
      /\ \A l \in Person \X App : usage'[l] = usage[l] + Total(w, Of(l))
                                  /\ Total(w, Of(l)) \in Nat
  BY <1>1, <1>2, CreditAdds
<1> HIDE DEF Of, w
<1>7. ASSUME NEW l \in Person \X App, \A r \in timed : Credited(r) => Label(r) # l
       PROVE  usage'[l] = usage[l]
  <2>1. Of(l) = {}
    BY <1>5, <1>7
  <2>2. Total(w, Of(l)) = 0
    BY <1>3, <2>1, TotalOfNone
  <2> QED
    BY <1>1, <1>8, <2>2
<1>9. ASSUME NEW x \in Person, NEW a \in App, FamilyOf[a] # NoFamily
       PROVE  usage'[<<x, a>>] <= now
  <2> DEFINE l == <<x, a>>
  <2>1. l \in Person \X App
    OBVIOUS
  <2>2. usage[l] <= now /\ usage[l] \in Nat
    BY <1>1, <1>9 DEF UsageInv, UsageWithinWallClock
  <2>3. ASSUME NEW r \in Of(l) PROVE usage'[l] <= now
    <3>1. r \in Roots /\ r \in timed /\ Credited(r) /\ Label(r) = l
      BY <1>4, <1>5, <2>1, <2>3
    <3>2. groups[r].app = a /\ groups[r].family # NoFamily
      BY <1>9, <3>1 DEF Label, UsageInv, Unspent
    <3>3. Of(l) \ {r} = {}
      <4> SUFFICES ASSUME NEW s \in Of(l) PROVE s = r
        OBVIOUS
      <4>1. s \in Roots /\ Credited(s) /\ Label(s) = l
        BY <1>4, <1>5, <2>1
      <4> QED
        BY <3>1, <3>2, <4>1, OneGroupEarns
    <3>4. Total(w, Of(l)) = w[r] + Total(w, Of(l) \ {r})
      BY <1>3, <1>4, <2>3, TotalTakes DEF Takes
    <3>5. Total(w, Of(l) \ {r}) = 0
      BY <1>3, <3>3, TotalOfNone
    <3>6. usage[l] <= groups[r].last /\ groups[r].last <= now /\ groups[r].last \in Nat
      BY <1>1, <3>1, <3>2, LabelsOfGroups DEF UsageInv, Unspent
    <3>7. w[r] = now - groups[r].last
      BY <1>6, <3>1
    <3>8. usage'[l] = usage[l] + Total(w, Of(l))
      BY <1>8, <2>1
    <3> HIDE DEF l
    <3> QED
      BY <1>1, <2>2, <3>4, <3>5, <3>6, <3>7, <3>8
  <2>4. CASE Of(l) = {}
    <3>1. usage'[l] = usage[l]
      BY <1>5, <1>7, <2>1, <2>4
    <3> QED
      BY <2>2, <3>1
  <2> QED
    BY <2>3, <2>4
<1> QED
  BY <1>8, <1>7, <1>9

\* What a step must show of each group it leaves.
LEMMA UsageInvFromGroups ==
  ASSUME UsageInv, TrackerTypeOK, now \in Nat, now' \in Nat, now <= now',
         usage' \in [Person \X App -> Nat], UsageWithinWallClock',
         \A r \in Pid : Exists(r)' =>
           \/ /\ Exists(r) /\ SameClock(r)
              /\ Credited(r) /\ groups[r].family # NoFamily => usage'[Label(r)] = usage[Label(r)]
           \/ /\ groups'[r].last = now /\ groups'[r].family = FamilyOf[groups'[r].app]
              /\ Credited(r)' /\ groups'[r].family # NoFamily => usage'[Label(r)'] <= now
  PROVE  UsageInv'
<1> SUFFICES ASSUME NEW r \in Pid, Exists(r)' PROVE Unspent(r)'
  BY DEF UsageInv, Roots
<1>1. CASE /\ Exists(r) /\ SameClock(r)
           /\ Credited(r) /\ groups[r].family # NoFamily => usage'[Label(r)] = usage[Label(r)]
  <2>1. Unspent(r) /\ groups[r].last \in Nat
    BY <1>1, LabelsOfGroups DEF UsageInv, Roots
  <2>2. (Credited(r)' <=> Credited(r)) /\ Label(r)' = Label(r)
    BY <1>1 DEF SameClock, Credited, Label
  <2> QED
    BY <1>1, <2>1, <2>2 DEF Unspent, SameClock
<1>2. CASE /\ groups'[r].last = now /\ groups'[r].family = FamilyOf[groups'[r].app]
           /\ Credited(r)' /\ groups'[r].family # NoFamily => usage'[Label(r)'] <= now
  BY <1>2 DEF Unspent
<1> QED
  BY <1>1, <1>2

LEMMA UsageInvInit == Init => UsageInv
<1> SUFFICES ASSUME Init PROVE UsageInv
  OBVIOUS
<1>1. now = 0 /\ \A r \in Pid : ~Exists(r)
  BY DEF Init, TrackerInit, Exists
<1>2. usage = [l \in Person \X App |-> 0]
  BY DEF Init
<1> QED
  BY <1>1, <1>2 DEF UsageInv, UsageWithinWallClock, Roots

LEMMA UsageInvStep ==
  ASSUME ~Reuse, OneAccountEach, IndInv, UsageInv, [Next]_vars
  PROVE  UsageInv'
<1>a. TrackerTypeOK /\ TrackerTypeOK' /\ MembershipAgrees
  BY IndInvStep DEF IndInv
<1>b. now \in Nat /\ now' \in Nat
  BY <1>a DEF TrackerTypeOK
<1>1. ASSUME NEW p \in Pid, NEW user \in User,
             OnProcessStart(p, proc[p].parent, user, proc[p].app),
             p \in startQ \cup toAdopt, UNCHANGED <<now, usage>>
      PROVE  UsageInv'
  <2>1. proc[p].parent \in Pid \cup {NoPid} /\ proc[p].app \in App /\ ~Exists(p)
    BY <1>1 DEF IndInv, Lifecycle, PipelineTypeOK, Process
  <2>2. \A r \in Pid :
           /\ Exists(r) => Exists(r)' /\ SameClock(r)
           /\ ~Exists(r) /\ Exists(r)' =>
                /\ groups'[r].last = now
                /\ groups'[r].family = FamilyOf[groups'[r].app]
    BY <1>a, <1>1, <2>1, StartClocks
  <2>3. usage' \in [Person \X App -> Nat] /\ UsageWithinWallClock'
    BY <1>1 DEF UsageInv, UsageWithinWallClock
  <2>4. ASSUME NEW r \in Pid, Exists(r)', Credited(r)', groups'[r].family # NoFamily,
               groups'[r].family = FamilyOf[groups'[r].app]
        PROVE  usage'[Label(r)'] <= now
    <3>1. groups'[r].app \in App /\ groups'[r].user \in User
      BY <1>a, <2>4 DEF TrackerTypeOK, Exists, Group
    <3>2. Canonical[groups'[r].user] \in Person
      BY <2>4, <3>1, MonitorAssumption DEF Credited
    <3> QED
      BY <1>1, <2>3, <2>4, <3>1, <3>2 DEF UsageWithinWallClock, Label
  <2> QED
    BY <1>a, <1>b, <1>1, <2>2, <2>3, <2>4, UsageInvFromGroups
<1>2. ASSUME NEW p \in Pid, ProcessStartEvent(p) PROVE UsageInv'
  <2>1. PICK user \in User : OnProcessStart(p, proc[p].parent, user, proc[p].app)
    BY <1>2, MonitorAssumption DEF ProcessStartEvent, IndInv, PipelineTypeOK, Process
  <2> QED
    BY <1>1, <1>2, <2>1 DEF ProcessStartEvent, creditVars
<1>3. ASSUME NEW p \in Pid, RegisterExistingProcess(p) PROVE UsageInv'
  <2>1. proc[p].user \in User
    BY DEF IndInv, PipelineTypeOK, Process
  <2> QED
    BY <1>1, <1>3, <2>1 DEF RegisterExistingProcess, creditVars
<1>4. ASSUME NEW S \in SUBSET Roots, NEW pids \in SUBSET Pid, Release(pids, S), now' = now,
             Credit(S, S) \/ UNCHANGED usage
      PROVE  UsageInv'
  <2>1. \A r \in Pid : /\ Exists(r)' <=> Exists(r) /\ r \notin S
                       /\ Exists(r)' => SameClock(r)
    BY <1>a, <1>4, ReleaseClocks
  <2>2. CASE UNCHANGED usage
    <3>1. usage' \in [Person \X App -> Nat] /\ UsageWithinWallClock'
      BY <1>4, <2>2 DEF UsageInv, UsageWithinWallClock
    <3> QED
      BY <1>a, <1>b, <1>4, <2>1, <2>2, <3>1, UsageInvFromGroups
  <2>3. CASE Credit(S, S)
    <3>1. /\ usage' \in [Person \X App -> Nat]
          /\ \A l \in Person \X App :
               (\A q \in S : Credited(q) => Label(q) # l) => usage'[l] = usage[l]
          /\ \A x \in Person, a \in App : FamilyOf[a] # NoFamily => usage'[<<x, a>>] <= now
      BY <1>4, <2>3, CreditsWithinTime
    <3>2. UsageWithinWallClock'
      BY <1>4, <3>1 DEF UsageWithinWallClock
    <3>3. ASSUME NEW r \in Pid, Exists(r), r \notin S, Credited(r), groups[r].family # NoFamily
          PROVE  usage'[Label(r)] = usage[Label(r)]
      <4>1. r \in Roots /\ Label(r) \in Person \X App
        BY <1>a, <3>3, LabelsOfGroups DEF Roots
      <4>2. \A q \in S : Credited(q) => Label(q) # Label(r)
        BY <3>3, <4>1, OneGroupEarns
      <4> QED
        BY <3>1, <4>1, <4>2
    <3> QED
      BY <1>a, <1>b, <1>4, <2>1, <3>1, <3>2, <3>3, UsageInvFromGroups
  <2> QED
    BY <1>4, <2>2, <2>3
<1>5. ASSUME NEW p \in Pid, ProcessStopEvent(p) PROVE UsageInv'
  <2> DEFINE S == EndedByStop(p)
  <2>1. /\ S \in SUBSET Roots /\ Release({p}, S) /\ CreditStopped(S)
        /\ now' = now /\ {p} \in SUBSET Pid
    BY <1>5 DEF ProcessStopEvent, OnProcessStop, EndedByStop, EmptiedBy
  <2> HIDE DEF S
  <2>2. Credit(S, S) \/ UNCHANGED usage
    BY <2>1 DEF CreditStopped
  <2> QED
    BY <1>4, <2>1, <2>2
<1>6. CASE ReconcileGhosts
  <2> DEFINE S == EndedByReconcile(loop.running, loop.at)
             pids == Stale(loop.running, loop.at)
  <2>1. /\ S \in SUBSET Roots /\ pids \in SUBSET Pid /\ Release(pids, S) /\ Credit(S, S)
        /\ now' = now
    BY <1>6 DEF ReconcileGhosts, Reconcile, EndedByReconcile, EmptiedBy, Stale
  <2> HIDE DEF S, pids
  <2> QED
    BY <1>4, <2>1
<1>7. CASE Checkpoint
  <2>1. PICK timed \in SUBSET Roots : Credit(timed, Roots)
    BY <1>7 DEF Checkpoint
  <2>2. \A r \in Pid : /\ Exists(r)' <=> Exists(r)
                       /\ Exists(r) => /\ groups'[r].app = groups[r].app
                                       /\ groups'[r].user = groups[r].user
                                       /\ groups'[r].family = groups[r].family
                                       /\ groups'[r].last = now
    BY <1>a, <1>7, CheckpointClocks DEF Checkpoint
  <2>3. now' = now
    BY <1>7 DEF Checkpoint
  <2>4. /\ usage' \in [Person \X App -> Nat]
        /\ \A x \in Person, a \in App : FamilyOf[a] # NoFamily => usage'[<<x, a>>] <= now
    BY <2>1, CreditsWithinTime
  <2>5. UsageWithinWallClock'
    BY <2>3, <2>4 DEF UsageWithinWallClock
  <2>6. ASSUME NEW r \in Pid, Exists(r)'
        PROVE  /\ groups'[r].last = now /\ groups'[r].family = FamilyOf[groups'[r].app]
               /\ Credited(r)' /\ groups'[r].family # NoFamily => usage'[Label(r)'] <= now
    <3>1. r \in Roots /\ Unspent(r)
      BY <2>2, <2>6 DEF UsageInv, Roots
    <3>2. (Credited(r)' <=> Credited(r)) /\ Label(r)' = Label(r)
      BY <2>2, <2>6 DEF Credited, Label
    <3>3. Credited(r) => Canonical[groups[r].user] \in Person /\ groups[r].app \in App
      BY <1>a, <3>1, LabelsOfGroups
    <3> QED
      BY <2>2, <2>4, <2>6, <3>1, <3>2, <3>3 DEF Unspent, Label
  <2> QED
    BY <1>a, <1>b, <2>3, <2>4, <2>5, <2>6, UsageInvFromGroups
<1>8. ASSUME UNCHANGED usage, now <= now',
             \A r \in Pid : /\ Exists(r)' <=> Exists(r)
                            /\ Exists(r) => /\ groups'[r].app = groups[r].app
                                            /\ groups'[r].user = groups[r].user
                                            /\ groups'[r].family = groups[r].family
                                            /\ groups'[r].last = groups[r].last
      PROVE  UsageInv'
  <2>1. usage' \in [Person \X App -> Nat]
    BY <1>8 DEF UsageInv
  <2>2. UsageWithinWallClock'
    BY <1>b, <1>8 DEF UsageInv, UsageWithinWallClock
  <2>3. ASSUME NEW r \in Pid, Exists(r)' PROVE Unspent(r)'
    <3>1. Unspent(r) /\ groups[r].last \in Nat
      BY <1>a, <1>8, <2>3, LabelsOfGroups DEF UsageInv, Roots
    <3>2. (Credited(r)' <=> Credited(r)) /\ Label(r)' = Label(r)
      BY <1>8, <2>3 DEF Credited, Label
    <3> QED
      BY <1>b, <1>8, <2>3, <3>1, <3>2 DEF Unspent
  <2> QED
    BY <2>1, <2>2, <2>3 DEF UsageInv, Roots
<1>9. ASSUME NEW p \in Pid, ForegroundTick(p) PROVE UsageInv'
  <2>1. /\ Tracked(p) /\ Exists(pidToGroup[p]) /\ IncrementForeground(p, 1)
        /\ usage' = usage /\ now' = now
    BY <1>9 DEF ForegroundTick
  <2> QED
    BY <1>a, <1>b, <1>8, <2>1, IncrementClocks
<1>10. ASSUME UNCHANGED <<groups, usage>>, now <= now' PROVE UsageInv'
  BY <1>8, <1>10 DEF Exists
<1>11. CASE \/ \E p \in Pid : ProcessStarts(p) \/ ProcessExits(p)
            \/ ScanExistingProcesses \/ StartLoops \/ Subscribe \/ SubscriptionFails
            \/ ReadClock \/ RunningPIDs \/ RunningPIDsFails \/ Tick
  <2>1. UNCHANGED <<groups, usage>> /\ (now' = now \/ now' = now + 1)
    BY <1>11 DEF ProcessStarts, ProcessExits, ScanExistingProcesses, StartLoops,
       Subscribe, SubscriptionFails, ReadClock, RunningPIDs, RunningPIDsFails, Tick,
       trackerVars, creditVars
  <2> QED
    BY <1>b, <1>10, <2>1
<1>12. CASE UNCHANGED vars
  BY <1>b, <1>10, <1>12 DEF vars, trackerVars, creditVars
<1> QED
  BY <1>2, <1>3, <1>5, <1>6, <1>7, <1>9, <1>11, <1>12 DEF Next

-----------------------------------------------------------------------------
(* The theorems.                                                           *)

\* The inductive invariant holds in every state, if pids are not reused.
THEOREM Invariance == ASSUME ~Reuse PROVE Spec => []IndInv
<1>1. IndInv /\ [Next]_vars => IndInv'
  BY IndInvStep
<1> QED
  BY <1>1, IndInvInit, PTL DEF Spec

\* However starts, stops, scans, reconciles and checkpoints interleave, the
\* tracker's three maps agree: every pid's group exists and lists it, no group
\* is empty, and each user has at most one indexed group per family
\* (OnProcessStart, OnProcessStop and Reconcile in tracker.go).
THEOREM TrackerConsistency == ASSUME ~Reuse PROVE Spec => []TrackerConsistent
<1>1. IndInv => TrackerConsistent
  BY DEF IndInv, TrackerConsistent
<1> QED
  BY <1>1, Invariance, PTL

\* A running process the agent has registered is never dropped, whatever list
\* a reconcile works from (reconcileGhosts in helpers.go).
THEOREM NoLiveProcessDropped == ASSUME ~Reuse PROVE Spec => []LiveTracked
<1>1. IndInv => LiveTracked
  BY DEF IndInv
<1> QED
  BY <1>1, Invariance, PTL

\* Every variable keeps its type, the counters included: what a credit adds is
\* a natural number, however many groups end together (checkpointActive and
\* handleGroupEnds in helpers.go).
THEOREM TypeCorrect == ASSUME ~Reuse PROVE Spec => []TypeOK
<1> DEFINE Inv == IndInv /\ ForegroundInv /\ ClockInv
<1>1. Init => Inv
  BY IndInvInit, ForegroundInvInit, ClockInvInit
<1>2. Inv /\ [Next]_vars => Inv'
  BY IndInvStep, ForegroundInvStep, ClockInvStep
<1>3. Inv => TypeOK
  BY DEF IndInv, ForegroundInv, ClockInv, Account, TypeOK, CreditTypeOK
<1> HIDE DEF Inv
<1> QED
  BY <1>1, <1>2, <1>3, PTL DEF Spec

\* No foreground time is lost or counted twice: what the poller gave tracked
\* processes was credited, was dropped by the user or the lifetime rule, or is
\* still held by a group, across any interleaving of ticks, checkpoints, stops
\* and reconciles (IncrementForeground, CheckpointActive, handleGroupEnds).
THEOREM ForegroundBalances == ASSUME ~Reuse PROVE Spec => []ForegroundConserved
<1> DEFINE Inv == IndInv /\ ForegroundInv
<1>1. Init => Inv
  BY IndInvInit, ForegroundInvInit
<1>2. Inv /\ [Next]_vars => Inv'
  BY IndInvStep, ForegroundInvStep
<1>3. Inv => ForegroundConserved
  BY HeldForeground DEF IndInv, ForegroundInv, ForegroundConserved
<1> HIDE DEF Inv
<1> QED
  BY <1>1, <1>2, <1>3, PTL DEF Spec

\* However a person's processes of a family start, stop and are checkpointed,
\* the usage credited to the family's application never exceeds the time that
\* has passed: one group at a time earns it (the checkpoint loop and the two
\* paths that end groups in helpers.go).  A person with two accounts can
\* exceed it, so no person has two here.
THEOREM UsageBounded ==
  ASSUME ~Reuse, OneAccountEach PROVE Spec => []UsageWithinWallClock
<1> DEFINE Inv == IndInv /\ UsageInv
<1>1. Init => Inv
  BY IndInvInit, UsageInvInit
<1>2. Inv /\ [Next]_vars => Inv'
  BY IndInvStep, UsageInvStep
<1>3. Inv => UsageWithinWallClock
  BY DEF UsageInv
<1> HIDE DEF Inv
<1> QED
  BY <1>1, <1>2, <1>3, PTL DEF Spec

\* Reconcile ends every group it finds no reason to keep: a group left has a
\* member that was in the list, or registered since the clock was read.
THEOREM GhostsLeaveNoGroup == ASSUME ~Reuse PROVE Spec => ReconcileReapsGhosts
<1> DEFINE Kept ==
      ReconcileGhosts =>
        \A r \in Pid : groups'[r] # NoGroup =>
          \E p \in Pid : /\ groups'[r].since[p] # Absent
                         /\ p \in loop.running \/ groups'[r].since[p] >= loop.at
<1>1. ASSUME IndInv, ReconcileGhosts, NEW r \in Pid, groups'[r] # NoGroup
      PROVE  \E p \in Pid : /\ groups'[r].since[p] # Absent
                            /\ p \in loop.running \/ groups'[r].since[p] >= loop.at
  <2> DEFINE pids == Stale(loop.running, loop.at)
  <2>1. Release(pids, EmptiedBy(pids)) /\ now' = now
    BY <1>1 DEF ReconcileGhosts, Reconcile, EndedByReconcile
  <2>2. /\ pids \in SUBSET Pid
        /\ TrackerTypeOK /\ MembershipAgrees /\ FamilyIndexExact
    BY <1>1 DEF IndInv, Stale
  <2>3. r \in Roots /\ r \notin EmptiedBy(pids)
    BY <1>1, <2>1 DEF Release, Roots
  <2>4. PICK p \in Members(r) : p \notin pids
    BY <2>2, <2>3, EmptiedGroups
  <2>5. p \in Pid /\ pidToGroup[p] = r /\ Tracked(p) /\ groups[r].since[p] # Absent
    BY <2>2, <2>3, SentinelAssumption DEF Members, MembershipAgrees, Roots, Tracked
  <2>6. groups'[r].since[p] = groups[r].since[p]
    <3> HIDE DEF pids
    <3> QED
      BY <2>1, <2>2, <2>4, <2>5, ReleaseKeepsConsistent
  <2>7. p \in loop.running \/ groups[r].since[p] >= loop.at
    BY <2>3, <2>4, <2>5 DEF Stale, Roots
  <2> QED
    BY <2>5, <2>6, <2>7
<1>2. IndInv => Kept
  BY <1>1
<1>3. IndInv /\ [Next]_vars => [Kept]_vars
  BY <1>2
<1> QED
  BY <1>3, Invariance, PTL DEF ReconcileReapsGhosts, Spec
=============================================================================
