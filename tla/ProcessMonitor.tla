--------------------------- MODULE ProcessMonitor ---------------------------
(***************************************************************************)
(* The Windows agent's process pipeline around the tracker.  Three         *)
(* goroutines share it: the WMI start-event loop, the WMI stop-event loop  *)
(* (agent/internal/monitor/wmi.go), and the checkpoint loop                *)
(* (agent/cmd/agent/helpers.go), which reconciles against a process list   *)
(* and credits usage.  The startup scan registers what already runs.       *)
(*                                                                         *)
(* The operating system is external: processes start and exit, and while   *)
(* the subscription is up each start and exit leaves an event.  The two    *)
(* event streams are read by different goroutines, so a stop may overtake  *)
(* its own start: both queues are sets.  A failed subscription loses what  *)
(* was queued and whatever happens until the next one.                     *)
(***************************************************************************)
EXTENDS ProcessTracker, FiniteSetsExt

CONSTANTS
  NoUser,         \* the owner lookup failed: the empty user name
  Person,         \* canonical names
  NoPerson,       \* resolveUser says: ignore
  Canonical,      \* resolveUser, as a function of the raw account
  MinLifetime,    \* sessions shorter than this are not credited
  Reuse,          \* whether the system hands out an exited pid again
  MaxTime,        \* bound: the clock stops here
  MaxForeground,  \* bound: foreground units one run may give
  MaxFailures     \* bound: subscription and enumeration failures

ASSUME MonitorAssumption ==
  /\ NoUser \in User /\ User \ {NoUser} # {} /\ App # {}
  /\ NoPerson \notin Person
  /\ Canonical \in [User -> Person \cup {NoPerson}]
  /\ Canonical[NoUser] = NoPerson
  /\ MinLifetime \in Nat
  /\ Reuse \in BOOLEAN
  /\ MaxTime \in Nat /\ MaxForeground \in Nat /\ MaxFailures \in Nat

VARIABLES
  fate,        \* what became of each pid: "unborn", "running" or "exited"
  proc,        \* the process a pid names, or last named
  known,       \* history: running pids the agent has been told of
  agent,       \* "scan", "adopt" or "up": how far the agent's start has come
  toAdopt,     \* the scan's result, not yet registered
  subscribed,  \* whether the WMI subscription is up
  startQ,      \* pids whose start event waits
  stopQ,       \* pids whose stop event waits
  loop,        \* the checkpoint loop
  usage,       \* openlabstats_app_usage_seconds_total
  foreground,  \* openlabstats_app_foreground_seconds_total, and what became
               \* of the rest of the time given to tracked pids
  failures     \* failures so far

osVars    == <<fate, proc, known>>
eventVars == <<agent, toAdopt, subscribed, startQ, stopQ>>
creditVars == <<usage, foreground>>
vars == <<trackerVars, now, osVars, eventVars, loop, creditVars, failures>>

Process == [user : User \ {NoUser}, app : App, parent : Pid \cup {NoPid}]
Loop == [phase : {"idle", "clock", "listed", "checkpoint"},
         at : Nat, running : SUBSET Pid]

PipelineTypeOK ==
  /\ fate \in [Pid -> {"unborn", "running", "exited"}]
  /\ proc \in [Pid -> Process]
  /\ known \in SUBSET Pid
  /\ agent \in {"scan", "adopt", "up"}
  /\ toAdopt \in SUBSET Pid
  /\ subscribed \in BOOLEAN
  /\ startQ \in SUBSET Pid /\ stopQ \in SUBSET Pid
  /\ loop \in Loop
  /\ failures \in Nat

CreditTypeOK ==
  /\ usage \in [Person \X App -> Nat]
  /\ foreground \in [given : Nat, credited : Nat, dropped : Nat]

TypeOK == TrackerTypeOK /\ PipelineTypeOK /\ CreditTypeOK

IdleLoop == [phase |-> "idle", at |-> 0, running |-> {}]
Blank == CHOOSE x \in Process : TRUE

Init ==
  /\ TrackerInit
  /\ fate = [p \in Pid |-> "unborn"]
  /\ proc = [p \in Pid |-> Blank]
  /\ known = {}
  /\ agent = "scan" /\ toAdopt = {}
  /\ subscribed = FALSE /\ startQ = {} /\ stopQ = {}
  /\ loop = IdleLoop
  /\ usage = [l \in Person \X App |-> 0]
  /\ foreground = [given |-> 0, credited |-> 0, dropped |-> 0]
  /\ failures = 0

-----------------------------------------------------------------------------
(* Crediting.                                                              *)

Credited(root) == Canonical[groups[root].user] # NoPerson
Label(root)    == <<Canonical[groups[root].user], groups[root].app>>

\* Adds the deltas of `timed` to the usage counters, the foreground deltas of
\* `all` to the foreground counters; what `all` keeps uncredited is dropped.
Credit(timed, all) ==
  LET paid == {r \in all : Credited(r)}
      due  == {r \in timed : Credited(r)}
      Fg(S) == MapThenSumSet(ForegroundDelta, S)
  IN /\ usage' = [l \in DOMAIN usage |->
            usage[l] + MapThenSumSet(CheckpointDelta, {r \in due : Label(r) = l})]
     /\ foreground' = [foreground EXCEPT !.credited = @ + Fg(paid),
                                         !.dropped = @ + Fg(all \ paid)]

\* A session the stop loop filters out loses its time and its foreground.
LongEnough(root) == now - groups[root].start >= MinLifetime

CreditStopped(ended) ==
  IF \A r \in ended : LongEnough(r) THEN Credit(ended, ended)
  ELSE /\ foreground' = [foreground EXCEPT
                           !.dropped = @ + MapThenSumSet(ForegroundDelta, ended)]
       /\ UNCHANGED usage

\* Of the groups with one label, the first in map order is timed.
OnePerLabel(S) ==
  /\ \A r, s \in S : Label(r) = Label(s) => r = s
  /\ \A r \in {r \in Roots : Credited(r)} : \E s \in S : Label(s) = Label(r)

-----------------------------------------------------------------------------
(* The operating system.                                                   *)

\* Waiting events of a pid's previous life are delivered before it is reused.
MayStart(p) ==
  \/ fate[p] = "unborn"
  \/ Reuse /\ fate[p] = "exited" /\ p \notin startQ \cup stopQ \cup toAdopt

ProcessStarts(p) ==
  /\ MayStart(p)
  /\ \E x \in Process :
       /\ x.parent # NoPid => fate[x.parent] = "running" /\ x.parent # p
       /\ proc' = [proc EXCEPT ![p] = x]
  /\ fate' = [fate EXCEPT ![p] = "running"]
  /\ known' = known \ {p}
  /\ startQ' = IF subscribed THEN startQ \cup {p} ELSE startQ
  /\ UNCHANGED <<trackerVars, now, agent, toAdopt, subscribed, stopQ, loop,
                 creditVars, failures>>

ProcessExits(p) ==
  /\ fate[p] = "running"
  /\ fate' = [fate EXCEPT ![p] = "exited"]
  /\ known' = known \ {p}
  /\ stopQ' = IF subscribed THEN stopQ \cup {p} ELSE stopQ
  /\ UNCHANGED <<trackerVars, now, proc, agent, toAdopt, subscribed, startQ,
                 loop, creditVars, failures>>

\* The last tick waits for the startup registrations.
Tick ==
  /\ now < MaxTime
  /\ agent = "up" \/ now + 1 < MaxTime
  /\ now' = now + 1
  /\ UNCHANGED <<trackerVars, osVars, eventVars, loop, creditVars, failures>>

-----------------------------------------------------------------------------
(* Startup: scan, register what the scan saw, start the loops.             *)

Learn(p) == known' = IF fate[p] = "running" THEN known \cup {p} ELSE known

ScanExistingProcesses ==
  /\ agent = "scan"
  /\ agent' = "adopt"
  /\ toAdopt' = {p \in Pid : fate[p] = "running"}
  /\ UNCHANGED <<trackerVars, now, osVars, subscribed, startQ, stopQ, loop,
                 creditVars, failures>>

\* Registrations stop short of MaxTime, so a later reconcile can read a later
\* clock.
RegisterExistingProcess(p) ==
  /\ agent = "adopt" /\ p \in toAdopt
  /\ now < MaxTime
  /\ OnProcessStart(p, proc[p].parent, proc[p].user, proc[p].app)
  /\ toAdopt' = toAdopt \ {p}
  /\ Learn(p)
  /\ UNCHANGED <<now, fate, proc, agent, subscribed, startQ, stopQ, loop,
                 creditVars, failures>>

StartLoops ==
  /\ agent = "adopt" /\ toAdopt = {}
  /\ agent' = "up"
  /\ UNCHANGED <<trackerVars, now, osVars, toAdopt, subscribed, startQ, stopQ,
                 loop, creditVars, failures>>

-----------------------------------------------------------------------------
(* The WMI subscription and its two event loops.                           *)

Subscribe ==
  /\ agent = "up" /\ ~subscribed
  /\ subscribed' = TRUE
  /\ UNCHANGED <<trackerVars, now, osVars, agent, toAdopt, startQ, stopQ, loop,
                 creditVars, failures>>

\* One loop's failure ends both, and the queued events are gone.
SubscriptionFails ==
  /\ subscribed /\ failures < MaxFailures
  /\ failures' = failures + 1
  /\ subscribed' = FALSE /\ startQ' = {} /\ stopQ' = {}
  /\ UNCHANGED <<trackerVars, now, osVars, agent, toAdopt, loop, creditVars>>

\* The owner is asked of the live process: once it has exited the answer
\* may be the empty name.
ProcessStartEvent(p) ==
  /\ subscribed /\ p \in startQ
  /\ now < MaxTime
  /\ \E user \in {proc[p].user} \cup (IF fate[p] = "exited" THEN {NoUser} ELSE {}) :
       OnProcessStart(p, proc[p].parent, user, proc[p].app)
  /\ startQ' = startQ \ {p}
  /\ Learn(p)
  /\ UNCHANGED <<now, fate, proc, agent, toAdopt, subscribed, stopQ, loop,
                 creditVars, failures>>

ProcessStopEvent(p) ==
  /\ subscribed /\ p \in stopQ
  /\ OnProcessStop(p)
  /\ CreditStopped(EndedByStop(p))
  /\ stopQ' = stopQ \ {p}
  /\ UNCHANGED <<now, osVars, agent, toAdopt, subscribed, startQ, loop, failures>>

-----------------------------------------------------------------------------
(* The checkpoint loop: read the clock, list the processes, reconcile,     *)
(* checkpoint.                                                             *)

\* The snapshot time is that of the first pass for ever.
ReadClockOnce ==
  /\ agent = "up" /\ loop.phase = "idle"
  /\ loop' = [loop EXCEPT !.phase = "clock"]
  /\ UNCHANGED <<trackerVars, now, osVars, eventVars, creditVars, failures>>

ReadClock ==
  /\ agent = "up" /\ loop.phase = "idle"
  /\ loop' = [loop EXCEPT !.phase = "clock", !.at = now]
  /\ UNCHANGED <<trackerVars, now, osVars, eventVars, creditVars, failures>>

RunningPIDs ==
  /\ loop.phase = "clock"
  /\ loop' = [loop EXCEPT !.phase = "listed",
                          !.running = {p \in Pid : fate[p] = "running"}]
  /\ UNCHANGED <<trackerVars, now, osVars, eventVars, creditVars, failures>>

RunningPIDsFails ==
  /\ loop.phase = "clock" /\ failures < MaxFailures
  /\ failures' = failures + 1
  /\ loop' = [IdleLoop EXCEPT !.phase = "checkpoint"]
  /\ UNCHANGED <<trackerVars, now, osVars, eventVars, creditVars>>

ReconcileGhosts ==
  LET ended == EndedByReconcile(loop.running, loop.at) IN
  /\ loop.phase = "listed"
  /\ Reconcile(loop.running, loop.at)
  /\ Credit(ended, ended)
  /\ loop' = [IdleLoop EXCEPT !.phase = "checkpoint"]
  /\ UNCHANGED <<now, osVars, eventVars, failures>>

Checkpoint ==
  /\ loop.phase = "checkpoint"
  /\ CheckpointActive
  /\ \E timed \in SUBSET {r \in Roots : Credited(r)} :
       OnePerLabel(timed) /\ Credit(timed, Roots)
  /\ loop' = IdleLoop
  /\ UNCHANGED <<now, osVars, eventVars, failures>>

-----------------------------------------------------------------------------
(* The foreground poller credits one unit to the pid in the foreground.    *)

ForegroundTick(p) ==
  /\ agent = "up" /\ foreground.given < MaxForeground
  /\ Tracked(p) /\ Exists(pidToGroup[p])
  /\ IncrementForeground(p, 1)
  /\ foreground' = [foreground EXCEPT !.given = @ + 1]
  /\ UNCHANGED <<now, osVars, eventVars, loop, usage, failures>>

Next ==
  \/ \E p \in Pid : ProcessStarts(p) \/ ProcessExits(p)
  \/ \E p \in Pid : ProcessStartEvent(p) \/ ProcessStopEvent(p)
  \/ \E p \in Pid : RegisterExistingProcess(p) \/ ForegroundTick(p)
  \/ ScanExistingProcesses \/ StartLoops
  \/ Subscribe \/ SubscriptionFails
  \/ ReadClock \/ RunningPIDs \/ RunningPIDsFails \/ ReconcileGhosts \/ Checkpoint
  \/ Tick

Spec == Init /\ [][Next]_vars

\* The agent's loops run for as long as it does; enumeration fails MaxFailures
\* times at most, so weak fairness of RunningPIDs is enough.
Fairness ==
  /\ WF_vars(ScanExistingProcesses) /\ WF_vars(StartLoops)
  /\ WF_vars(\E p \in Pid : RegisterExistingProcess(p))
  /\ WF_vars(ReadClock) /\ WF_vars(RunningPIDs)
  /\ WF_vars(ReconcileGhosts) /\ WF_vars(Checkpoint)
  /\ WF_vars(Tick)

FairSpec == Spec /\ Fairness

-----------------------------------------------------------------------------
(* Properties.                                                             *)

\* A running process the agent has been told of stays tracked: no reconcile,
\* however its three steps interleave with start events, drops it
\* (helpers.go: "PIDs registered during or after the enumeration are never
\* reaped").
LiveTracked == \A p \in known : Tracked(p)

\* Once Reconcile has run, every group left has a member that was in the
\* snapshot or was registered since (tracker.go: "groups left empty are
\* finalized and returned").
ReconcileReapsGhosts ==
  [][ReconcileGhosts =>
       \A r \in Pid : groups'[r] # NoGroup =>
         \E p \in Pid : /\ groups'[r].since[p] # Absent
                        /\ p \in loop.running \/ groups'[r].since[p] >= loop.at]_vars

\* Checkpoints, stops and ghost reaping together never credit a person more
\* of a family application than the time that has passed, though three
\* goroutines add to the counter.
UsageWithinWallClock ==
  \A x \in Person, a \in App : FamilyOf[a] # NoFamily => usage[<<x, a>>] <= now

\* Every unit of foreground time given to a tracked process is credited once,
\* dropped by the user or lifetime rule, or still held by its group.
ForegroundConserved ==
  foreground.given = foreground.credited + foreground.dropped
                       + MapThenSumSet(ForegroundDelta, Roots)

\* A process that exited unseen does not stay tracked forever.
GhostsReaped ==
  \A p \in Pid : fate[p] = "exited" /\ Tracked(p) ~> ~Tracked(p) \/ fate[p] # "exited"
=============================================================================
