------------------------------ MODULE MacMonitor ------------------------------
(***************************************************************************)
(* Process tracking and elevations on macOS                                *)
(* (agent/internal/monitor/proc_darwin.go, elevation.go,                   *)
(* elevation_darwin.go).  There are no events: once a second PollWatcher   *)
(* lists the processes, tells the tracker what the list before did not     *)
(* have and no longer has, and looks at every root process it has not seen *)
(* for who may have asked for it.  A process is a pid and the second of    *)
(* its start.                                                              *)
(*                                                                         *)
(* The tracker is module ProcessTracker; here every process is a group of  *)
(* its own, so a session is a process, and reconciling is one step.        *)
(***************************************************************************)
EXTENDS Naturals, FiniteSets

CONSTANTS
  MacPid, Launchd,
  Account, Root,      \* users; uid 0
  MaxAncestorHops,    \* maxAncestorHops
  MaxSeconds, MaxMissed   \* bounds: the clock; listings that fail

ASSUME MacAssumption ==
  /\ Launchd \notin MacPid /\ Root \notin Account
  /\ MaxAncestorHops \in Nat \ {0} /\ MaxSeconds \in Nat /\ MaxMissed \in Nat

AppKind == {"application", "system program", "setuid tool"}

VARIABLES
  life,         \* the process of each pid
  second,       \* the clock
  watch,        \* "scanning", "seeding" or "polling"
  prevPIDs,     \* the last list
  elevatedSeen, \* starts of the root processes looked at
  sessions,     \* what the tracker has
  missed,       \* listings that failed
  elevations,   \* history: elevations counted for the process of each pid
  due,          \* history: how often the process of each pid may count
  unsure,       \* history: pids whose process the poll cannot tell apart
  unscanned     \* history: pids whose process came after the scan or was missed by it

macVars == <<life, second, watch, prevPIDs, elevatedSeen, sessions, missed,
             elevations, due, unsure, unscanned>>

NoProcess == [owner |-> Root, start |-> 0, kind |-> "none", parent |-> Launchd]
NotListed == [owner |-> Root, start |-> MaxSeconds + 1]
NotSeen == MaxSeconds + 1

Running == {p \in MacPid : life[p] # NoProcess}
Entry(p) == [owner |-> life[p].owner, start |-> life[p].start]

\* Programs under system paths, and root's whose path cannot be read, are no usage.
IsExcluded(p) == life[p].kind # "application"

\* These run as root whoever starts them, and that is no elevation.
IsIncidentalSetuidTool(p) == life[p].kind = "setuid tool"

\* currentSnapshot: the applications among the pids L.
SnapshotOf(L) ==
  [p \in MacPid |-> IF p \in L /\ ~IsExcluded(p) THEN Entry(p) ELSE NotListed]

MacInit ==
  /\ life = [p \in MacPid |-> NoProcess]
  /\ second = 0
  /\ watch = "scanning"
  /\ prevPIDs = [p \in MacPid |-> NotListed]
  /\ elevatedSeen = [p \in MacPid |-> NotSeen]
  /\ sessions = [p \in MacPid |-> NotListed]
  /\ missed = 0
  /\ elevations = [p \in MacPid |-> 0]
  /\ due = [p \in MacPid |-> 0]
  /\ unsure = {} /\ unscanned = {}

-----------------------------------------------------------------------------
(* The operating system.                                                   *)

\* A pid that is handed out again within a second is taken for the process
\* before it.
Launch(p, owner, kind, parent) ==
  /\ p \notin Running /\ parent \in Running \cup {Launchd}
  /\ owner = Root \/ (kind = "application" /\ parent = Launchd)
  /\ life' = [life EXCEPT ![p] = [owner |-> owner, start |-> second, kind |-> kind, parent |-> parent]]
  /\ elevations' = [elevations EXCEPT ![p] = 0]
  /\ due' = [due EXCEPT ![p] = 1]
  /\ unsure' = IF second \in {prevPIDs[p].start, elevatedSeen[p], sessions[p].start}
               THEN unsure \cup {p} ELSE unsure \ {p}
  /\ unscanned' = IF watch = "seeding" THEN unscanned \cup {p} ELSE unscanned \ {p}
  /\ UNCHANGED <<second, watch, prevPIDs, elevatedSeen, sessions, missed>>

\* Its children are launchd's from now on.
Quit(p) ==
  /\ p \in Running
  /\ life' = [q \in MacPid |-> IF q = p THEN NoProcess
                               ELSE IF life[q].parent = p THEN [life[q] EXCEPT !.parent = Launchd]
                               ELSE life[q]]
  /\ UNCHANGED <<second, watch, prevPIDs, elevatedSeen, sessions, missed,
                 elevations, due, unsure, unscanned>>

NextSecond ==
  /\ second < MaxSeconds
  /\ second' = second + 1
  /\ UNCHANGED <<life, watch, prevPIDs, elevatedSeen, sessions, missed,
                 elevations, due, unsure, unscanned>>

-----------------------------------------------------------------------------
(* Elevations.                                                             *)

\* The first process from p upwards that is not root's, if it can be reached.
FindEscalatingAncestor(p) ==
  LET up[n \in 0 .. MaxAncestorHops, q \in MacPid \cup {Launchd}] ==
        IF n = 0 \/ q \notin Running THEN FALSE
        ELSE life[q].owner # Root \/ up[n - 1, life[q].parent]
  IN up[MaxAncestorHops, p]

\* Which root processes are new is told by the list of applications.
NewSincePrevious(p) ==
  prevPIDs[p].start # life[p].start

\* isNewRoot.
NewRoot(p) == elevatedSeen[p] # life[p].start

\* rootEscalationInvoker finds somebody.
Elevated(p) ==
  /\ life[p].owner = Root /\ NewRoot(p)
  /\ ~IsIncidentalSetuidTool(p)
  /\ FindEscalatingAncestor(life[p].parent)

RootStarts(L) ==
  [p \in MacPid |-> IF p \in L /\ life[p].owner = Root THEN life[p].start ELSE NotSeen]

-----------------------------------------------------------------------------
(* The watcher.                                                            *)

\* What a listing returns: the running pids, or none when there is no list
\* (listAllPIDs), or all but one whose information cannot be read.
Listing(L) ==
  /\ L \subseteq Running
  /\ IF L = Running THEN UNCHANGED missed
     ELSE /\ L = {} \/ \E p \in Running : L = Running \ {p}
          /\ missed < MaxMissed /\ missed' = missed + 1

\* ScanExistingProcesses, FilterProcesses and RegisterExistingProcess.
ScanMac(L) ==
  /\ watch = "scanning" /\ Listing(L)
  /\ watch' = "seeding"
  /\ sessions' = SnapshotOf(L)
  /\ unscanned' = Running \ L
  /\ UNCHANGED <<life, second, prevPIDs, elevatedSeen, elevations, due, unsure>>

\* Run before its first tick, currentSnapshot(false): what it lists is adopted,
\* counted for nothing and not started; what it misses is new to the first poll.
SeedPrevPIDs(L) ==
  /\ watch = "seeding" /\ Listing(L)
  /\ watch' = "polling"
  /\ prevPIDs' = SnapshotOf(L)
  /\ elevatedSeen' = RootStarts(L)
  /\ due' = [p \in MacPid |-> IF p \in L THEN 0 ELSE due[p]]
  /\ unscanned' = unscanned \cap L
  /\ UNCHANGED <<life, second, sessions, elevations, unsure>>

\* A pid that was in the list before is the process it was.
ChangedByPid(list, p) == list[p] # NotListed /\ prevPIDs[p] = NotListed

Changed(list, p) == list[p] # NotListed /\ list[p].start # prevPIDs[p].start

\* poll, of the pids L: OnProcessStop for what has gone or whose pid is another
\* process now, OnProcessStart for what is new.
Poll(L) ==
  /\ watch = "polling" /\ Listing(L)
  /\ prevPIDs' = SnapshotOf(L)
  /\ sessions' = [p \in MacPid |->
       IF Changed(SnapshotOf(L), p) THEN SnapshotOf(L)[p]
       ELSE IF SnapshotOf(L)[p] = NotListed /\ prevPIDs[p] # NotListed THEN NotListed
       ELSE sessions[p]]
  /\ elevatedSeen' = RootStarts(L)
  /\ elevations' = [p \in MacPid |-> IF p \in L /\ Elevated(p) THEN elevations[p] + 1
                                     ELSE elevations[p]]
  /\ due' = [p \in MacPid |-> IF p \in Running \ L /\ elevatedSeen[p] = life[p].start
                              THEN due[p] + 1 ELSE due[p]]
  /\ unscanned' = unscanned \cap L
  /\ UNCHANGED <<life, second, watch, unsure>>

\* The checkpoint loop drops what is not running (ProcessMonitor has its steps).
ReconcileMac ==
  /\ \E p \in MacPid \ Running : sessions[p] # NotListed
  /\ sessions' = [p \in MacPid |-> IF p \in Running THEN sessions[p] ELSE NotListed]
  /\ UNCHANGED <<life, second, watch, prevPIDs, elevatedSeen, missed, elevations,
                 due, unsure, unscanned>>

MacNext ==
  \/ \E p \in MacPid :
       \/ \E owner \in Account \cup {Root}, kind \in AppKind, parent \in MacPid \cup {Launchd} :
            Launch(p, owner, kind, parent)
       \/ Quit(p)
  \/ NextSecond
  \/ \E L \in SUBSET MacPid : ScanMac(L) \/ SeedPrevPIDs(L) \/ Poll(L)
  \/ ReconcileMac

-----------------------------------------------------------------------------
(* Properties.                                                             *)

\* However long a root process runs, and whether or not its program is excluded
\* from usage, it counts as one elevation at most, and as none when the watcher's
\* first list had it ("an agent restart must not manufacture elevations", which
\* holds for no process that this list missed) - and once more for every list
\* that lost it after another had it.
ElevationsOnce == \A p \in MacPid : elevations[p] <= due[p]

\* An application in the watcher's last list that still runs has a session of
\* its own process and user, also when the pid was another's before, lists
\* failed, or the reconciling loop ran in between - except for one the scan at
\* startup did not have and every list since has: Run leaves what its first list
\* has to the scan ("those are handled by ScanExistingProcesses").
SessionsOfListed ==
  \A p \in Running \ (unsure \cup unscanned) :
    watch = "polling" /\ prevPIDs[p] = Entry(p) => sessions[p] = Entry(p)
=============================================================================
