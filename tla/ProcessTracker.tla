--------------------------- MODULE ProcessTracker ---------------------------
(***************************************************************************)
(* The agent's in-memory table of running applications                     *)
(* (agent/internal/monitor/tracker.go).  A group is one application        *)
(* launch: the root process and every process that joined it.  The three   *)
(* maps of the Go struct are three variables; one mutex guards them all,   *)
(* so each method is one action here.  The module has no next-state        *)
(* relation of its own: ProcessMonitor drives it from the two WMI event    *)
(* loops, the startup scan and the checkpoint loop.                        *)
(*                                                                         *)
(* A process's executable stands for its name and path; FamilyOf is the    *)
(* normalizer's family key of an executable.                               *)
(***************************************************************************)
EXTENDS Integers, FiniteSets

CONSTANTS
  Pid,        \* process identifiers
  User,       \* operating-system users, as the raw account name
  App,        \* executables
  Family,     \* normalizer family keys
  FamilyOf,   \* the family key of each executable, or NoFamily
  NoPid,      \* "no entry" in a map whose values are pids; parent unknown
  NoFamily,   \* the empty family key
  NoGroup     \* "no entry" in groups

ASSUME SentinelAssumption ==
  /\ NoPid \notin Pid
  /\ NoFamily \notin Family
  /\ FamilyOf \in [App -> Family \cup {NoFamily}]

\* A pid is 32 bits wide.
ASSUME PidAssumption == IsFiniteSet(Pid)

VARIABLES
  groups,        \* rootPID -> group, or NoGroup
  pidToGroup,    \* member pid -> rootPID, or NoPid
  familyGroups,  \* user, family -> rootPID, or NoPid
  now            \* the clock time.Now() reads

trackerVars == <<groups, pidToGroup, familyGroups>>

Absent == -1     \* a pid with no entry in MemberPIDs

Group == [ app    : App,
           user   : User,
           family : Family \cup {NoFamily},
           start  : Nat,
           last   : Nat,          \* LastCheckpoint
           fg     : Nat,          \* ForegroundDelta
           since  : [Pid -> Nat \cup {Absent}] ]   \* MemberPIDs

ASSUME NoGroupAssumption == NoGroup \notin Group

TrackerTypeOK ==
  /\ groups       \in [Pid -> Group \cup {NoGroup}]
  /\ pidToGroup   \in [Pid -> Pid \cup {NoPid}]
  /\ familyGroups \in [User -> [Family -> Pid \cup {NoPid}]]
  /\ now          \in Nat

TrackerInit ==
  /\ groups       = [r \in Pid |-> NoGroup]
  /\ pidToGroup   = [p \in Pid |-> NoPid]
  /\ familyGroups = [u \in User |-> [f \in Family |-> NoPid]]
  /\ now          = 0

Tracked(pid)  == pidToGroup[pid] # NoPid
Exists(root)  == groups[root] # NoGroup
Roots         == {r \in Pid : Exists(r)}
Members(root) == {p \in Pid : groups[root].since[p] # Absent}

-----------------------------------------------------------------------------
(* Start: join the parent's group, else the user's group of the same       *)
(* family, else found a group.                                             *)

\* Strategy 1: the parent's group, unless that group has no family key.
ParentGroup(ppid) ==
  IF /\ ppid # NoPid
     /\ Tracked(ppid)
     /\ Exists(pidToGroup[ppid])
     /\ groups[pidToGroup[ppid]].family # NoFamily
  THEN pidToGroup[ppid] ELSE NoPid

\* Strategy 2: the group this user already has for the family.
FamilyGroup(user, family) ==
  IF /\ family # NoFamily
     /\ familyGroups[user][family] # NoPid
     /\ Exists(familyGroups[user][family])
  THEN familyGroups[user][family] ELSE NoPid

GroupToJoin(ppid, user, family) ==
  IF ParentGroup(ppid) # NoPid THEN ParentGroup(ppid)
                               ELSE FamilyGroup(user, family)

Join(pid, root) ==
  /\ groups'     = [groups EXCEPT ![root].since[pid] = now]
  /\ pidToGroup' = [pidToGroup EXCEPT ![pid] = root]
  /\ UNCHANGED familyGroups

\* A stale family entry is deleted and then overwritten by the new root.
Found(pid, user, app) ==
  /\ groups' = [groups EXCEPT ![pid] =
                  [ app |-> app, user |-> user, family |-> FamilyOf[app],
                    start |-> now, last |-> now, fg |-> 0,
                    since |-> [p \in Pid |-> IF p = pid THEN now ELSE Absent] ]]
  /\ pidToGroup' = [pidToGroup EXCEPT ![pid] = pid]
  /\ familyGroups' = IF FamilyOf[app] = NoFamily THEN familyGroups
                     ELSE [familyGroups EXCEPT ![user][FamilyOf[app]] = pid]

\* RegisterExistingProcess has the same body.
OnProcessStart(pid, ppid, user, app) ==
  LET root == GroupToJoin(ppid, user, FamilyOf[app]) IN
  IF root # NoPid THEN Join(pid, root) ELSE Found(pid, user, app)

-----------------------------------------------------------------------------
(* Stop and Reconcile: pids leave their groups, groups left empty end.     *)

\* The groups whose every member is one of the pids leaving them.
EmptiedBy(pids) ==
  {r \in Roots : \A p \in Members(r) : p \in pids /\ pidToGroup[p] = r}

\* The session of a group is reported ended, but the family entry stays.
ReleaseKeepingFamily(pids, ended) ==
  /\ pidToGroup' = [p \in Pid |-> IF p \in pids THEN NoPid ELSE pidToGroup[p]]
  /\ groups' = [r \in Pid |->
       IF ~Exists(r) \/ r \in ended THEN NoGroup
       ELSE [groups[r] EXCEPT !.since = [p \in Pid |->
               IF p \in pids /\ pidToGroup[p] = r THEN Absent
                                                  ELSE groups[r].since[p]]]]
  /\ UNCHANGED familyGroups

\* The family entry of an ended group goes with it, whichever root it names.
Release(pids, ended) ==
  /\ pidToGroup' = [p \in Pid |-> IF p \in pids THEN NoPid ELSE pidToGroup[p]]
  /\ groups' = [r \in Pid |->
       IF ~Exists(r) \/ r \in ended THEN NoGroup
       ELSE [groups[r] EXCEPT !.since = [p \in Pid |->
               IF p \in pids /\ pidToGroup[p] = r THEN Absent
                                                  ELSE groups[r].since[p]]]]
  /\ familyGroups' = [u \in User |-> [f \in Family |->
       IF \E r \in ended : groups[r].user = u /\ groups[r].family = f
       THEN NoPid ELSE familyGroups[u][f]]]

\* The group OnProcessStop returns a session for, as a set of at most one root.
EndedByStop(pid) == EmptiedBy({pid}) \cap {pidToGroup[pid]}

OnProcessStop(pid) == Release({pid}, EndedByStop(pid))

\* A pid registered at the very instant of the snapshot is reaped too.
StaleEvenIfJustRegistered(running, snapshotAt) ==
  {p \in Pid : /\ Tracked(p)
               /\ p \notin running
               /\ ~ /\ Exists(pidToGroup[p])
                    /\ groups[pidToGroup[p]].since[p] > snapshotAt}

\* Tracked pids missing from the snapshot and registered before it was taken.
Stale(running, snapshotAt) ==
  {p \in Pid : /\ Tracked(p)
               /\ p \notin running
               /\ ~ /\ Exists(pidToGroup[p])
                    /\ groups[pidToGroup[p]].since[p] # Absent
                    /\ groups[pidToGroup[p]].since[p] >= snapshotAt}

\* The second pass looks only at groups whose root was dropped.
EndedWithTheirRoot(running, snapshotAt) ==
  EmptiedBy(Stale(running, snapshotAt)) \cap Stale(running, snapshotAt)

\* The groups Reconcile returns a session for.
EndedByReconcile(running, snapshotAt) == EmptiedBy(Stale(running, snapshotAt))

Reconcile(running, snapshotAt) ==
  Release(Stale(running, snapshotAt), EndedByReconcile(running, snapshotAt))

-----------------------------------------------------------------------------
(* The clocks of the groups.                                               *)

\* The usage delta is taken, the foreground delta is read but not cleared.
CheckpointKeepingForeground ==
  /\ groups' = [r \in Pid |-> IF Exists(r) THEN [groups[r] EXCEPT !.last = now]
                                           ELSE NoGroup]
  /\ UNCHANGED <<pidToGroup, familyGroups>>

\* The foreground delta is cleared, the checkpoint clock is not restarted.
CheckpointKeepingClock ==
  /\ groups' = [r \in Pid |-> IF Exists(r) THEN [groups[r] EXCEPT !.fg = 0]
                                           ELSE NoGroup]
  /\ UNCHANGED <<pidToGroup, familyGroups>>

\* Every group reports the time since its last checkpoint and starts over.
CheckpointActive ==
  /\ groups' = [r \in Pid |->
       IF Exists(r) THEN [groups[r] EXCEPT !.last = now, !.fg = 0] ELSE NoGroup]
  /\ UNCHANGED <<pidToGroup, familyGroups>>

\* Foreground time goes to the group of the pid, if it is tracked.
IncrementForeground(pid, d) ==
  /\ groups' = IF Tracked(pid) /\ Exists(pidToGroup[pid])
               THEN [groups EXCEPT ![pidToGroup[pid]].fg = @ + d]
               ELSE groups
  /\ UNCHANGED <<pidToGroup, familyGroups>>

\* What CheckpointActive, OnProcessStop and Reconcile report of a group.
CheckpointDelta(root) == now - groups[root].last
ForegroundDelta(root) == groups[root].fg

-----------------------------------------------------------------------------
(* What the three maps promise each other.                                 *)

\* A pid is mapped to a group exactly when that group lists it as a member,
\* so no group outlives its members and no member is left without a group.
MembershipAgrees ==
  /\ \A p \in Pid : Tracked(p) => Exists(pidToGroup[p])
  /\ \A r \in Roots, p \in Pid : pidToGroup[p] = r <=> p \in Members(r)
  /\ \A r \in Roots : Members(r) # {}

\* A user has at most one group per family, and familyGroups names it.
FamilyIndexExact ==
  \A u \in User, f \in Family :
    /\ familyGroups[u][f] # NoPid =>
         /\ Exists(familyGroups[u][f])
         /\ groups[familyGroups[u][f]].user = u
         /\ groups[familyGroups[u][f]].family = f
    /\ \A r \in Roots :
         groups[r].user = u /\ groups[r].family = f => familyGroups[u][f] = r

TrackerConsistent == MembershipAgrees /\ FamilyIndexExact
=============================================================================
