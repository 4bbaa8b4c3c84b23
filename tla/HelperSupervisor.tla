-------------------------- MODULE HelperSupervisor --------------------------
(***************************************************************************)
(* The agent keeps one helper process in every session that has a user at  *)
(* its desktop (agent/internal/session).  The supervisor's loop compares   *)
(* the sessions there are with the helpers it runs, kills what is not      *)
(* wanted and starts what is missing, subject to a back-off; a goroutine   *)
(* per helper (watch) reads its samples into the Hub and cleans up after   *)
(* it.  The two share the states map under a mutex, and the hub.           *)
(*                                                                         *)
(* Times are ages: how long ago something happened, capped where the code  *)
(* no longer tells them apart.  What a sample says is left out, and so is  *)
(* how long it stays fresh.                                                *)
(***************************************************************************)
EXTENDS Integers, FiniteSets

CONSTANTS
  Session,           \* target keys
  Helper,            \* identities of helper processes
  NoSession, NoHelper,
  Absent,            \* no entry in states
  MinSpawnInterval, QuickExit, QuickFailLimit, LongBackoff,   \* backoff.go
  ReconcileInterval,
  MaxChanges,        \* bound: sessions that begin or end
  MaxFailures        \* bound: helpers that exit on their own, failed spawns and listings

ASSUME HelperAssumption ==
  /\ NoSession \notin Session /\ NoHelper \notin Helper
  /\ {MinSpawnInterval, QuickExit, LongBackoff, MaxChanges, MaxFailures} \subseteq Nat
  /\ {QuickFailLimit, ReconcileInterval} \subseteq Nat \ {0}
  /\ QuickExit <= LongBackoff

\* Both are thirty seconds.
ASSUME SpawnAssumption == MinSpawnInterval <= ReconcileInterval

\* No two moments the back-off compares are further apart than this.
OldAge == MinSpawnInterval + LongBackoff + ReconcileInterval

Age == 0 .. OldAge

\* helperState.  Beyond the limit the count makes no difference.
HelperState == [ running : BOOLEAN, proc : Helper \cup {NoHelper},
                 startAge : Age, exitAge : Age, quickFails : 0 .. QuickFailLimit ]

ASSUME AbsentAssumption == Absent \notin HelperState

VARIABLES
  desired,     \* the sessions that should have a helper
  privileged,  \* whether the agent may start processes in other sessions
  alive,       \* the helper processes that run
  doomed,      \* those that were killed
  home,        \* the session each helper was started in
  watch,       \* where the watch goroutine of each helper is
  states,      \* Supervisor.states
  latest,      \* Hub.latest: the helper whose sample it is
  rec,         \* the reconcile under way
  ticker,      \* the ticker of Run
  spawnAge,    \* history: age of the last spawn in each session
  late,        \* history: how long after its reconcile had read the clock it came
  changes, failures

osVars   == <<desired, privileged>>
procVars == <<alive, doomed, home>>
supVars  == <<states, rec, ticker>>
vars == <<osVars, procVars, watch, states, latest, rec, ticker, spawnAge, late,
          changes, failures>>

TypeOK ==
  /\ desired \in SUBSET Session /\ privileged \in BOOLEAN
  /\ alive \in SUBSET Helper /\ doomed \in SUBSET Helper
  /\ home \in [Helper -> Session \cup {NoSession}]
  /\ watch \in [Helper -> {"none", "reading", "killing", "waiting", "removing", "finishing"}]
  /\ states \in [Session -> HelperState \cup {Absent}]
  /\ latest \in [Session -> Helper \cup {NoHelper}]
  /\ rec \in [ phase : {"idle", "listed", "starting", "spawning", "stopped"},
               wanted : SUBSET Session, todo : SUBSET Session,
               target : Session \cup {NoSession}, age : Age ]
  /\ ticker \in [on : BOOLEAN, elapsed : 0 .. ReconcileInterval, pending : BOOLEAN]
  /\ spawnAge \in [Session -> Age] /\ late \in [Session -> Age]
  /\ changes \in Nat /\ failures \in Nat

IdleReconcile(phase) ==
  [phase |-> phase, wanted |-> {}, todo |-> {}, target |-> NoSession, age |-> 0]

\* Run reconciles at once; its ticker starts after that.
Init ==
  /\ desired \in SUBSET Session /\ privileged \in BOOLEAN
  /\ alive = {} /\ doomed = {}
  /\ home = [h \in Helper |-> NoSession]
  /\ watch = [h \in Helper |-> "none"]
  /\ states = [k \in Session |-> Absent]
  /\ latest = [k \in Session |-> NoHelper]
  /\ rec = IdleReconcile("idle")
  /\ ticker = [on |-> FALSE, elapsed |-> 0, pending |-> TRUE]
  /\ spawnAge = [k \in Session |-> OldAge] /\ late = [k \in Session |-> 0]
  /\ changes = 0 /\ failures = 0

-----------------------------------------------------------------------------
(* Sessions, processes and time.                                           *)

SessionChanges(k) ==
  /\ changes < MaxChanges
  /\ changes' = changes + 1
  /\ desired' = IF k \in desired THEN desired \ {k} ELSE desired \cup {k}
  /\ UNCHANGED <<privileged, procVars, watch, supVars, latest, spawnAge, late, failures>>

HelperExits(h) ==
  /\ h \in alive /\ failures < MaxFailures
  /\ failures' = failures + 1
  /\ alive' = alive \ {h}
  /\ UNCHANGED <<osVars, doomed, home, watch, supVars, latest, spawnAge, late, changes>>

\* A process that was killed goes when the system gets to it.
HelperDies(h) ==
  /\ h \in alive /\ h \in doomed
  /\ alive' = alive \ {h}
  /\ UNCHANGED <<osVars, doomed, home, watch, supVars, latest, spawnAge, late, changes, failures>>

Older(age) == IF age = OldAge THEN age ELSE age + 1

\* The ticker keeps one tick for a late receiver.  A reconcile is over before
\* the next tick but one: the supervisor is never a whole period late.
AdvanceTicker ==
  IF ~ticker.on \/ rec.phase = "stopped" THEN ticker' = ticker
  ELSE IF ticker.elapsed + 1 < ReconcileInterval
       THEN ticker' = [ticker EXCEPT !.elapsed = @ + 1]
       ELSE /\ ~ticker.pending /\ rec.phase = "idle"
            /\ ticker' = [ticker EXCEPT !.elapsed = 0, !.pending = TRUE]

Tick ==
  /\ AdvanceTicker
  /\ rec.age < ReconcileInterval
  /\ rec' = IF rec.phase \in {"starting", "spawning"} THEN [rec EXCEPT !.age = @ + 1] ELSE rec
  /\ states' = [k \in Session |->
       IF states[k] = Absent THEN Absent
       ELSE [states[k] EXCEPT !.startAge = Older(@), !.exitAge = Older(@)]]
  /\ spawnAge' = [k \in Session |-> Older(spawnAge[k])]
  /\ UNCHANGED <<osVars, procVars, watch, latest, late, changes, failures>>

-----------------------------------------------------------------------------
(* The back-off.                                                           *)

\* Without the spacing of starts only the long back-off is left.
OnlyLongBackoff(st, age) ==
  st.quickFails >= QuickFailLimit /\ st.exitAge - age < LongBackoff

\* now.Before(nextSpawnAllowed), where now is "age" ago.
TooSoon(st, age) ==
  \/ st.startAge - age < MinSpawnInterval
  \/ st.quickFails >= QuickFailLimit /\ st.exitAge - age < LongBackoff

\* nextQuickFails.
NextQuickFails(prev, lifetime) ==
  IF lifetime >= QuickExit THEN 0
  ELSE IF prev = QuickFailLimit THEN prev ELSE prev + 1

-----------------------------------------------------------------------------
(* The supervisor's loop.                                                  *)

List ==
  /\ rec.phase = "idle" /\ ticker.pending
  /\ rec' = [IdleReconcile("listed") EXCEPT !.wanted = desired]
  /\ ticker' = [ticker EXCEPT !.pending = FALSE]
  /\ UNCHANGED <<osVars, procVars, watch, states, latest, spawnAge, late, changes, failures>>

ListFails ==
  /\ rec.phase = "idle" /\ ticker.pending /\ failures < MaxFailures
  /\ failures' = failures + 1
  /\ ticker' = [ticker EXCEPT !.pending = FALSE, !.on = TRUE]
  /\ UNCHANGED <<osVars, procVars, watch, states, latest, rec, spawnAge, late, changes>>

Unwanted == {k \in Session : states[k] # Absent /\ k \notin rec.wanted}

\* Running states of gone sessions are forgotten like idle ones.
KilledByNobody == {}

\* The helpers of gone sessions.
Killed == {states[k].proc : k \in {u \in Unwanted : states[u].running}}

\* The first loop, under the lock; then the clock is read.
Sweep ==
  /\ rec.phase = "listed"
  /\ doomed' = doomed \cup Killed
  /\ states' = [k \in Session |->
       IF k \in Unwanted /\ ~states[k].running THEN Absent ELSE states[k]]
  /\ rec' = [rec EXCEPT !.phase = "starting", !.todo = rec.wanted]
  /\ UNCHANGED <<osVars, alive, home, watch, latest, ticker, spawnAge, late, changes, failures>>

NewState == [running |-> FALSE, proc |-> NoHelper, startAge |-> OldAge,
             exitAge |-> OldAge, quickFails |-> 0]

\* One round of the second loop, up to the spawn.
Consider(k) ==
  /\ rec.phase = "starting" /\ k \in rec.todo
  /\ LET st == IF states[k] = Absent THEN NewState ELSE states[k] IN
     /\ states' = [states EXCEPT ![k] = st]
     /\ rec' = IF st.running \/ TooSoon(st, rec.age)
               THEN [rec EXCEPT !.todo = @ \ {k}]
               ELSE [rec EXCEPT !.phase = "spawning", !.target = k, !.todo = @ \ {k}]
  /\ UNCHANGED <<osVars, procVars, watch, latest, ticker, spawnAge, late, changes, failures>>

NextTarget == [rec EXCEPT !.phase = "starting", !.target = NoSession]

\* start, when the spawn succeeds: the goroutine of the helper begins.
Spawn(h) ==
  /\ rec.phase = "spawning" /\ privileged
  /\ watch[h] = "none" /\ h \notin alive
  /\ alive' = alive \cup {h} /\ doomed' = doomed \ {h}
  /\ home' = [home EXCEPT ![h] = rec.target]
  /\ watch' = [watch EXCEPT ![h] = "reading"]
  /\ states' = [states EXCEPT ![rec.target].running = TRUE, ![rec.target].proc = h,
                              ![rec.target].startAge = rec.age]
  /\ spawnAge' = [spawnAge EXCEPT ![rec.target] = 0]
  /\ late' = [late EXCEPT ![rec.target] = rec.age]
  /\ rec' = NextTarget
  /\ UNCHANGED <<osVars, latest, ticker, changes, failures>>

SpawnFails ==
  /\ rec.phase = "spawning" /\ privileged /\ failures < MaxFailures
  /\ failures' = failures + 1
  /\ states' = [states EXCEPT
       ![rec.target].startAge = rec.age, ![rec.target].exitAge = rec.age,
       ![rec.target].quickFails = NextQuickFails(@, 0)]
  /\ rec' = NextTarget
  /\ UNCHANGED <<osVars, procVars, watch, latest, ticker, spawnAge, late, changes>>

\* errNoPrivilege: the supervisor is disabled, and Run returns at its next tick.
NotPrivileged ==
  /\ rec.phase = "spawning" /\ ~privileged
  /\ rec' = IdleReconcile("stopped")
  /\ UNCHANGED <<osVars, procVars, watch, states, latest, ticker, spawnAge, late, changes, failures>>

FinishReconcile ==
  /\ rec.phase = "starting" /\ rec.todo = {}
  /\ rec' = IdleReconcile("idle")
  /\ ticker' = [ticker EXCEPT !.on = TRUE]
  /\ UNCHANGED <<osVars, procVars, watch, states, latest, spawnAge, late, changes, failures>>

\* The context is cancelled: shutdown kills every helper.
Shutdown ==
  /\ rec.phase = "idle" /\ ticker.on
  /\ rec' = IdleReconcile("stopped")
  /\ doomed' = doomed \cup {states[k].proc :
                  k \in {s \in Session : states[s] # Absent /\ states[s].running}}
  /\ UNCHANGED <<osVars, alive, home, watch, states, latest, ticker, spawnAge, late,
                 changes, failures>>

-----------------------------------------------------------------------------
(* The watch goroutine.                                                    *)

Goto(h, phase) == watch' = [watch EXCEPT ![h] = phase]

\* A sample, which may have been in the pipe when the helper went.
Sample(h) ==
  /\ watch[h] = "reading"
  /\ latest' = [latest EXCEPT ![home[h]] = h]
  /\ UNCHANGED <<osVars, procVars, watch, supVars, spawnAge, late, changes, failures>>

\* The pipe is closed.
PipeCloses(h) ==
  /\ watch[h] = "reading" /\ h \notin alive
  /\ Goto(h, "killing")
  /\ UNCHANGED <<osVars, procVars, supVars, latest, spawnAge, late, changes, failures>>

\* A line over the limit ends the reading while the helper lives.
LineTooLong(h) ==
  /\ watch[h] = "reading" /\ failures < MaxFailures
  /\ failures' = failures + 1
  /\ Goto(h, "killing")
  /\ UNCHANGED <<osVars, procVars, supVars, latest, spawnAge, late, changes>>

Kill(h) ==
  /\ watch[h] = "killing"
  /\ doomed' = doomed \cup {h}
  /\ Goto(h, "waiting")
  /\ UNCHANGED <<osVars, alive, home, supVars, latest, spawnAge, late, changes, failures>>

\* The process is not waited for.
NoWait(h) == TRUE

Exited(h) == h \notin alive

Wait(h) ==
  /\ watch[h] = "waiting" /\ Exited(h)
  /\ Goto(h, "removing")
  /\ UNCHANGED <<osVars, procVars, supVars, latest, spawnAge, late, changes, failures>>

\* The hub is not told.
KeepSample(k) == latest

\* Hub.Remove.
Remove(k) == [latest EXCEPT ![k] = NoHelper]

RemoveSample(h) ==
  /\ watch[h] = "removing"
  /\ latest' = Remove(home[h])
  /\ Goto(h, "finishing")
  /\ UNCHANGED <<osVars, procVars, supVars, spawnAge, late, changes, failures>>

\* The state keeps running set.
StillRunning(st) ==
  [st EXCEPT !.proc = NoHelper, !.exitAge = 0,
             !.quickFails = NextQuickFails(@, st.startAge)]

ExitRecorded(st) ==
  [st EXCEPT !.running = FALSE, !.proc = NoHelper, !.exitAge = 0,
             !.quickFails = NextQuickFails(@, st.startAge)]

FinishWatch(h) ==
  /\ watch[h] = "finishing"
  /\ states' = [states EXCEPT ![home[h]] = ExitRecorded(@)]
  /\ Goto(h, "none")
  /\ home' = [home EXCEPT ![h] = NoSession]
  /\ UNCHANGED <<osVars, alive, doomed, latest, rec, ticker, spawnAge, late, changes, failures>>

Watch(h) ==
  PipeCloses(h) \/ Kill(h) \/ Wait(h) \/ RemoveSample(h) \/ FinishWatch(h)

Reconcile ==
  \/ List \/ Sweep \/ FinishReconcile \/ NotPrivileged
  \/ \E k \in Session : Consider(k)
  \/ \E h \in Helper : Spawn(h)

Next ==
  \/ \E k \in Session : SessionChanges(k)
  \/ \E h \in Helper : \/ HelperExits(h) \/ HelperDies(h)
                       \/ Sample(h) \/ LineTooLong(h) \/ Watch(h)
  \/ Reconcile \/ ListFails \/ SpawnFails \/ Shutdown
  \/ Tick

Spec == Init /\ [][Next]_vars

\* Both goroutines run, the system ends what was killed, and time passes.
FairSpec ==
  /\ Spec
  /\ WF_vars(Reconcile) /\ WF_vars(Tick)
  /\ \A h \in Helper : WF_vars(Watch(h)) /\ WF_vars(HelperDies(h))

-----------------------------------------------------------------------------
(* Properties.                                                             *)

Live(k) == {h \in alive : home[h] = k}

\* A session never has two helpers, and none runs unknown to the supervisor,
\* however the end of one and the next reconcile interleave: two would
\* overwrite each other's samples, and the exit of one would remove the
\* other's (supervisor.go: "keeps one session helper alive per desired
\* session").
OneHelper ==
  /\ \A g, h \in alive : home[g] = home[h] => g = h
  /\ \A h \in alive : home[h] # NoSession

\* A sample in the hub is from the helper that runs in the session now: what
\* a helper left is gone before its successor can start, and the successor's
\* is not removed with it (watch in supervisor.go).
HubOfRunningHelper ==
  \A k \in Session : latest[k] # NoHelper =>
    /\ home[latest[k]] = k
    /\ states[k] # Absent /\ states[k].running /\ states[k].proc = latest[k]

\* Two spawns in a session are a spawn interval apart, less the time by which
\* the former came later than its reconcile read the clock, even if the session
\* went and came back in between and its state was forgotten (backoff.go says "at
\* most one spawn per session per this long"; lastStart is the reconcile's now).
Spawns(k) == \E h \in alive' \ alive : home'[h] = k

SpawnsSpaced ==
  [][\A k \in Session : Spawns(k) => spawnAge[k] + late[k] >= MinSpawnInterval]_vars

\* The helper of a session that stays gone, or of a supervisor that has been
\* shut down, ends.
UnwantedHelpersEnd ==
  \A k \in Session :
    Live(k) # {} ~> Live(k) = {} \/ (k \in desired /\ rec.phase # "stopped")

\* A session that stays has a helper in the end, whatever failed before: the
\* back-off delays the restart and never gives up.
SessionsServed ==
  \A k \in Session :
    k \in desired ~> Live(k) # {} \/ k \notin desired \/ rec.phase = "stopped"
=============================================================================
