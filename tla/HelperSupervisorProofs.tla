----------------------- MODULE HelperSupervisorProofs -----------------------
(***************************************************************************)
(* For any sessions, helpers and back-off: a session has at most one       *)
(* helper, and the hub holds samples of running helpers only.  The link is *)
(* between the three parties: a helper that lives or is watched is the one *)
(* its session's state runs, and the state's is watched.  So a session     *)
(* whose state is not running has neither helper nor sample, which is what *)
(* a spawn needs.  And spawns in a session are apart: by the state while   *)
(* there is one, by the ticker when it was forgotten.                      *)
(***************************************************************************)
EXTENDS HelperSupervisor, TLAPS

Runs(k, h) == states[k] # Absent /\ states[k].running /\ states[k].proc = h

\* A helper that lives or is watched is the one of its session's state.
HelperKnown ==
  \A h \in Helper : h \in alive \/ watch[h] # "none" =>
    watch[h] # "none" /\ home[h] \in Session /\ Runs(home[h], h)

\* The helper of a running state is watched.
StateWatched ==
  \A k \in Session : states[k] # Absent /\ states[k].running =>
    LET h == states[k].proc IN h \in Helper /\ home[h] = k /\ watch[h] # "none"

\* A helper that has been waited for is gone.
WaitedFor == \A h \in Helper : watch[h] \in {"removing", "finishing"} => h \notin alive

\* A sample's helper is watched, and the watch has not yet removed it.
SampleWatched ==
  \A k \in Session : latest[k] # NoHelper =>
    home[latest[k]] = k /\ watch[latest[k]] \notin {"none", "finishing"}

\* A helper is only spawned for a state that is not running.
TargetIdle ==
  rec.phase = "spawning" =>
    rec.target \in Session /\ states[rec.target] # Absent /\ ~states[rec.target].running

Links == HelperKnown /\ StateWatched /\ WaitedFor /\ SampleWatched /\ TargetIdle

IndInv == TypeOK /\ Links

-----------------------------------------------------------------------------
(* Types.                                                                  *)

Phases == {"idle", "listed", "starting", "spawning", "stopped"}

RecType == [ phase : Phases, wanted : SUBSET Session, todo : SUBSET Session,
             target : Session \cup {NoSession}, age : Age ]

LEMMA Numbers ==
  /\ OldAge \in Nat /\ 0 \in Age /\ OldAge \in Age
  /\ ReconcileInterval \in Nat \ {0} /\ ReconcileInterval <= OldAge
  /\ QuickFailLimit \in Nat \ {0} /\ QuickExit \in Nat
  /\ \A a \in Age : Older(a) \in Age /\ a \in Nat
BY HelperAssumption DEF OldAge, Age, Older

LEMMA QuickFailsType ==
  ASSUME NEW prev \in 0 .. QuickFailLimit, NEW lifetime \in Nat
  PROVE  NextQuickFails(prev, lifetime) \in 0 .. QuickFailLimit
BY Numbers DEF NextQuickFails

LEMMA StateTypes ==
  ASSUME NEW st \in HelperState, NEW a \in Age, NEW h \in Helper
  PROVE  /\ [st EXCEPT !.running = TRUE, !.proc = h, !.startAge = a] \in HelperState
         /\ [st EXCEPT !.startAge = a, !.exitAge = a,
                       !.quickFails = NextQuickFails(@, 0)] \in HelperState
         /\ [st EXCEPT !.startAge = Older(@), !.exitAge = Older(@)] \in HelperState
         /\ ExitRecorded(st) \in HelperState
<1>1. /\ st.quickFails \in 0 .. QuickFailLimit /\ st.startAge \in Age
      /\ st.exitAge \in Age /\ 0 \in Nat
  BY DEF HelperState
<1>2. /\ NextQuickFails(st.quickFails, 0) \in 0 .. QuickFailLimit
      /\ NextQuickFails(st.quickFails, st.startAge) \in 0 .. QuickFailLimit
  BY <1>1, QuickFailsType, Numbers
<1>3. Older(st.startAge) \in Age /\ Older(st.exitAge) \in Age /\ 0 \in Age
  BY <1>1, Numbers
<1> QED
  BY <1>2, <1>3 DEF HelperState, ExitRecorded

LEMMA RecTypes ==
  ASSUME NEW phase \in Phases
  PROVE  IdleReconcile(phase) \in RecType
BY Numbers DEF IdleReconcile, RecType

LEMMA InitTypes == NewState \in HelperState
BY Numbers DEF NewState, HelperState

LEMMA TypeInit == Init => TypeOK
<1> SUFFICES ASSUME Init PROVE TypeOK
  OBVIOUS
<1>1. rec \in RecType
  BY RecTypes DEF Init, Phases
<1>2. ticker \in [on : BOOLEAN, elapsed : 0 .. ReconcileInterval, pending : BOOLEAN]
  BY Numbers DEF Init
<1>3. spawnAge \in [Session -> Age] /\ late \in [Session -> Age]
  BY Numbers DEF Init
<1> QED
  BY <1>1, <1>2, <1>3 DEF Init, TypeOK, RecType, Phases

LEMMA TypeStep == IndInv /\ [Next]_vars => TypeOK'
<1> SUFFICES ASSUME IndInv, [Next]_vars PROVE TypeOK'
  OBVIOUS
<1> USE DEF Goto
<1>0. TypeOK /\ rec \in RecType
  BY DEF IndInv, TypeOK, RecType, Phases
<1>1. ASSUME NEW k \in Session, SessionChanges(k) PROVE TypeOK'
  BY <1>0, <1>1 DEF SessionChanges, TypeOK, procVars, supVars
<1>2. ASSUME NEW h \in Helper, HelperExits(h) PROVE TypeOK'
  BY <1>0, <1>2 DEF HelperExits, TypeOK, osVars, supVars
<1>3. ASSUME NEW h \in Helper, HelperDies(h) PROVE TypeOK'
  BY <1>0, <1>3 DEF HelperDies, TypeOK, osVars, supVars
<1>4. ASSUME NEW h \in Helper, Sample(h) PROVE TypeOK'
  BY <1>0, <1>4 DEF Sample, TypeOK, osVars, procVars, supVars
<1>5. ASSUME NEW h \in Helper, LineTooLong(h) PROVE TypeOK'
  BY <1>0, <1>5 DEF LineTooLong, TypeOK, osVars, procVars, supVars
<1>6. ASSUME NEW h \in Helper, PipeCloses(h) PROVE TypeOK'
  BY <1>0, <1>6 DEF PipeCloses, TypeOK, osVars, procVars, supVars
<1>7. ASSUME NEW h \in Helper, Kill(h) PROVE TypeOK'
  BY <1>0, <1>7 DEF Kill, TypeOK, osVars, supVars
<1>8. ASSUME NEW h \in Helper, Wait(h) PROVE TypeOK'
  BY <1>0, <1>8 DEF Wait, TypeOK, osVars, procVars, supVars
<1>9. ASSUME NEW h \in Helper, RemoveSample(h) PROVE TypeOK'
  BY <1>0, <1>9 DEF RemoveSample, Remove, TypeOK, osVars, procVars, supVars
<1>10. ASSUME NEW h \in Helper, FinishWatch(h) PROVE TypeOK'
  <2>1. home[h] \in Session /\ states[home[h]] \in HelperState
    BY <1>0, <1>10 DEF FinishWatch, TypeOK, IndInv, Links, HelperKnown, Runs
  <2>2. ExitRecorded(states[home[h]]) \in HelperState
    BY <2>1, StateTypes, Numbers
  <2>3. states' \in [Session -> HelperState \cup {Absent}]
    BY <1>0, <1>10, <2>2 DEF FinishWatch, TypeOK
  <2> QED
    BY <1>0, <1>10, <2>3 DEF FinishWatch, TypeOK, osVars
<1>11. CASE List
  <2>1. rec' \in RecType
    BY <1>0, <1>11, RecTypes DEF List, TypeOK, RecType, Phases
  <2>2. ticker' \in [on : BOOLEAN, elapsed : 0 .. ReconcileInterval, pending : BOOLEAN]
    BY <1>0, <1>11 DEF List, TypeOK
  <2> QED
    BY <1>0, <1>11, <2>1, <2>2 DEF List, TypeOK, RecType, Phases, osVars, procVars
<1>12. CASE Sweep
  <2>1. Killed \in SUBSET Helper
    BY DEF Killed, Unwanted, IndInv, Links, StateWatched
  <2>2. rec' \in RecType
    BY <1>0, <1>12 DEF Sweep, RecType, Phases
  <2>3. states' \in [Session -> HelperState \cup {Absent}]
    BY <1>0, <1>12 DEF Sweep, TypeOK
  <2> QED
    BY <1>0, <1>12, <2>1, <2>2, <2>3 DEF Sweep, TypeOK, RecType, Phases, osVars
<1>13. ASSUME NEW k \in Session, Consider(k) PROVE TypeOK'
  <2>1. states' \in [Session -> HelperState \cup {Absent}]
    BY <1>0, <1>13, InitTypes DEF Consider, TypeOK
  <2>2. rec' \in RecType
    BY <1>0, <1>13 DEF Consider, RecType, Phases
  <2> QED
    BY <1>0, <1>13, <2>1, <2>2 DEF Consider, TypeOK, RecType, Phases, osVars, procVars
<1>14. ASSUME NEW h \in Helper, Spawn(h) PROVE TypeOK'
  <2>1. /\ rec.target \in Session /\ states[rec.target] \in HelperState
        /\ rec.age \in Age
    BY <1>0, <1>14 DEF Spawn, IndInv, Links, TargetIdle, TypeOK
  <2>2. [states[rec.target] EXCEPT !.running = TRUE, !.proc = h, !.startAge = rec.age]
          \in HelperState
    BY <2>1, StateTypes
  <2>3. states' = [states EXCEPT ![rec.target] =
           [states[rec.target] EXCEPT !.running = TRUE, !.proc = h, !.startAge = rec.age]]
    BY <1>0, <1>14, <2>1 DEF Spawn, TypeOK, HelperState
  <2>4. states' \in [Session -> HelperState \cup {Absent}]
    BY <1>0, <2>2, <2>3 DEF TypeOK
  <2>5. rec' \in RecType
    BY <1>0, <1>14 DEF Spawn, NextTarget, RecType, Phases
  <2>6. spawnAge' \in [Session -> Age] /\ late' \in [Session -> Age]
    BY <1>0, <1>14, Numbers DEF Spawn, TypeOK
  <2> QED
    BY <1>0, <1>14, <2>1, <2>4, <2>5, <2>6 DEF Spawn, TypeOK, RecType, Phases, osVars
<1>15. CASE SpawnFails
  <2>1. /\ rec.target \in Session /\ states[rec.target] \in HelperState
        /\ rec.age \in Age
    BY <1>0, <1>15 DEF SpawnFails, IndInv, Links, TargetIdle, TypeOK
  <2> DEFINE st == [states[rec.target] EXCEPT !.startAge = rec.age, !.exitAge = rec.age,
                      !.quickFails = NextQuickFails(@, 0)]
  <2>2. st \in HelperState
    <3>1. NextQuickFails(states[rec.target].quickFails, 0) \in 0 .. QuickFailLimit
      BY <2>1, QuickFailsType DEF HelperState
    <3> QED
      BY <2>1, <3>1 DEF HelperState
  <2>3. states' = [states EXCEPT ![rec.target] = st]
    BY <1>0, <1>15, <2>1 DEF SpawnFails, TypeOK, HelperState
  <2>4. states' \in [Session -> HelperState \cup {Absent}]
    BY <1>0, <2>2, <2>3 DEF TypeOK
  <2>5. rec' \in RecType
    BY <1>0, <1>15 DEF SpawnFails, NextTarget, RecType, Phases
  <2> QED
    BY <1>0, <1>15, <2>4, <2>5
       DEF SpawnFails, TypeOK, RecType, Phases, osVars, procVars
<1>16. CASE NotPrivileged
  <2>1. rec' \in RecType
    BY <1>16, RecTypes DEF NotPrivileged, Phases
  <2> QED
    BY <1>0, <1>16, <2>1 DEF NotPrivileged, TypeOK, RecType, Phases, osVars, procVars
<1>17. CASE FinishReconcile
  <2>1. rec' \in RecType
    BY <1>17, RecTypes DEF FinishReconcile, Phases
  <2> QED
    BY <1>0, <1>17, <2>1 DEF FinishReconcile, TypeOK, RecType, Phases, osVars, procVars
<1>18. CASE Shutdown
  <2>1. rec' \in RecType
    BY <1>18, RecTypes DEF Shutdown, Phases
  <2>2. {states[k].proc : k \in {s \in Session : states[s] # Absent /\ states[s].running}}
          \in SUBSET Helper
    BY DEF IndInv, Links, StateWatched
  <2> QED
    BY <1>0, <1>18, <2>1, <2>2 DEF Shutdown, TypeOK, RecType, Phases, osVars
<1>19. CASE ListFails
  <2>1. ticker' \in [on : BOOLEAN, elapsed : 0 .. ReconcileInterval, pending : BOOLEAN]
    BY <1>0, <1>19 DEF ListFails, TypeOK
  <2>2. /\ failures' \in Nat
        /\ UNCHANGED <<desired, privileged, alive, doomed, home, watch, states, latest,
                       rec, spawnAge, late, changes>>
    BY <1>0, <1>19 DEF ListFails, TypeOK, osVars, procVars
  <2> QED
    BY <1>0, <2>1, <2>2 DEF TypeOK
<1>20. CASE Tick
  <2>1. ticker' \in [on : BOOLEAN, elapsed : 0 .. ReconcileInterval, pending : BOOLEAN]
    <3>1. /\ ticker.elapsed \in 0 .. ReconcileInterval /\ 0 \in 0 .. ReconcileInterval
          /\ ticker.elapsed + 1 < ReconcileInterval =>
               ticker.elapsed + 1 \in 0 .. ReconcileInterval
      BY <1>0, Numbers DEF TypeOK
    <3>2. CASE ~ticker.on \/ rec.phase = "stopped"
      BY <1>0, <1>20, <3>2 DEF Tick, AdvanceTicker, TypeOK
    <3>3. CASE ~(~ticker.on \/ rec.phase = "stopped")
      <4>1. \/ /\ ticker.elapsed + 1 < ReconcileInterval
               /\ ticker' = [ticker EXCEPT !.elapsed = @ + 1]
            \/ ticker' = [ticker EXCEPT !.elapsed = 0, !.pending = TRUE]
        BY <1>20, <3>3 DEF Tick, AdvanceTicker
      <4> QED
        BY <1>0, <3>1, <4>1 DEF TypeOK
    <3> QED
      BY <3>2, <3>3
  <2>2. rec' \in RecType
    <3>0. rec.age \in Age
      BY <1>0 DEF RecType
    <3>1. rec.age \in Age /\ rec.age < ReconcileInterval
      BY <3>0, <1>20 DEF Tick
    <3>2. rec.age + 1 \in Age
      BY <3>1, Numbers DEF Age
    <3>3. [rec EXCEPT !.age = @ + 1] \in RecType
      BY <1>0, <3>2 DEF RecType
    <3> QED
      BY <1>0, <1>20, <3>3 DEF Tick
  <2>3. states' \in [Session -> HelperState \cup {Absent}]
    <3>1. ASSUME NEW k \in Session, states[k] # Absent
          PROVE  [states[k] EXCEPT !.startAge = Older(@), !.exitAge = Older(@)]
                   \in HelperState
      <4>1. states[k] \in HelperState
        BY <1>0, <3>1 DEF TypeOK
      <4>2. Older(states[k].startAge) \in Age /\ Older(states[k].exitAge) \in Age
        BY <4>1, Numbers DEF HelperState
      <4> QED
        BY <4>1, <4>2 DEF HelperState
    <3> QED
      BY <1>20, <3>1 DEF Tick
  <2>4. spawnAge' \in [Session -> Age] /\ late' = late
    BY <1>0, <1>20, Numbers DEF Tick, TypeOK
  <2> QED
    BY <1>0, <1>20, <2>1, <2>2, <2>3, <2>4
       DEF Tick, TypeOK, RecType, Phases, osVars, procVars
<1>21. CASE UNCHANGED vars
  BY <1>0, <1>21 DEF vars, osVars, procVars, supVars, TypeOK
<1> QED
  BY <1>1, <1>2, <1>3, <1>4, <1>5, <1>6, <1>7, <1>8, <1>9, <1>10, <1>11, <1>12,
     <1>13, <1>14, <1>15, <1>16, <1>17, <1>18, <1>19, <1>20, <1>21
     DEF Next, Reconcile, Watch

-----------------------------------------------------------------------------
(* Links.  Most steps leave the processes, the watches and the running     *)
(* states alone.                                                           *)

\* Running and proc of every state are kept, as are homes and watches.
KeepsRunning ==
  \A k \in Session :
    /\ states'[k] = Absent => states[k] = Absent \/ ~states[k].running
    /\ states'[k] # Absent =>
         /\ states[k] # Absent => /\ states'[k].running = states[k].running
                                 /\ states'[k].proc = states[k].proc
         /\ states[k] = Absent => ~states'[k].running

LEMMA LinksKept ==
  ASSUME IndInv, KeepsRunning, UNCHANGED <<alive, home, watch, latest>>
  PROVE  HelperKnown' /\ StateWatched' /\ WaitedFor' /\ SampleWatched'
<1>1. HelperKnown'
  BY DEF IndInv, Links, HelperKnown, KeepsRunning, Runs
<1>2. StateWatched'
  BY DEF IndInv, Links, StateWatched, KeepsRunning
<1>3. WaitedFor' /\ SampleWatched'
  BY DEF IndInv, Links, WaitedFor, SampleWatched
<1> QED
  BY <1>1, <1>2, <1>3

LEMMA LinksInit == Init => Links
BY HelperAssumption DEF Init, Links, HelperKnown, StateWatched, WaitedFor,
                        SampleWatched, TargetIdle, IdleReconcile

\* The steps of the operating system and of a watch before its last.
LEMMA LinksWatch ==
  ASSUME IndInv, NEW h \in Helper,
         HelperExits(h) \/ HelperDies(h) \/ Sample(h) \/ LineTooLong(h)
           \/ PipeCloses(h) \/ Kill(h) \/ Wait(h) \/ RemoveSample(h)
  PROVE  Links'
<1>0. /\ TypeOK /\ HelperKnown /\ StateWatched /\ WaitedFor /\ SampleWatched /\ TargetIdle
      /\ NoHelper \notin Helper
  BY HelperAssumption DEF IndInv, Links
<1>1. UNCHANGED <<states, rec, home>>
  BY DEF HelperExits, HelperDies, Sample, LineTooLong, PipeCloses, Kill, Wait,
         RemoveSample, supVars, procVars
<1>2. TargetIdle'
  BY <1>0, <1>1 DEF TargetIdle
<1>3. CASE HelperExits(h) \/ HelperDies(h)
  <2>1. alive' = alive \ {h} /\ UNCHANGED <<watch, latest>>
    BY <1>3 DEF HelperExits, HelperDies
  <2> QED
    BY <1>0, <1>1, <1>2, <2>1
       DEF Links, HelperKnown, StateWatched, WaitedFor, SampleWatched, Runs
<1>4. CASE Sample(h)
  <2>1. /\ watch[h] = "reading" /\ latest' = [latest EXCEPT ![home[h]] = h]
        /\ UNCHANGED <<alive, watch>>
    BY <1>4 DEF Sample, procVars
  <2>2. SampleWatched'
    <3>1. ASSUME NEW k \in Session, latest'[k] # NoHelper
          PROVE  home[latest'[k]] = k /\ watch[latest'[k]] \notin {"none", "finishing"}
      <4>1. CASE k = home[h]
        BY <1>0, <2>1, <4>1 DEF TypeOK
      <4>2. CASE k # home[h]
        BY <1>0, <2>1, <3>1, <4>2 DEF TypeOK, SampleWatched
      <4> QED
        BY <4>1, <4>2
    <3> QED
      BY <1>1, <2>1, <3>1 DEF SampleWatched
  <2> QED
    BY <1>0, <1>1, <1>2, <2>1, <2>2 DEF Links, HelperKnown, StateWatched, WaitedFor, Runs
<1>5. ASSUME NEW next \in {"killing", "waiting"},
             watch[h] \in {"reading", "killing"}, Goto(h, next),
             UNCHANGED <<alive, latest>>
      PROVE  Links'
  <2>1. /\ \A g \in Helper : watch'[g] = "none" <=> watch[g] = "none"
        /\ \A g \in Helper : watch'[g] = "finishing" <=> watch[g] = "finishing"
        /\ \A g \in Helper : watch'[g] = "removing" <=> watch[g] = "removing"
    BY <1>0, <1>5 DEF Goto, TypeOK
  <2>2. \A k \in Session : latest[k] # NoHelper => latest[k] \in Helper
    BY <1>0 DEF TypeOK
  <2>3. SampleWatched'
    BY <1>0, <1>1, <1>5, <2>1, <2>2 DEF SampleWatched
  <2>4. HelperKnown' /\ WaitedFor'
    BY <1>0, <1>1, <1>5, <2>1 DEF HelperKnown, WaitedFor, Runs
  <2>5. StateWatched'
    BY <1>0, <1>1, <2>1 DEF StateWatched
  <2> QED
    BY <1>2, <2>3, <2>4, <2>5 DEF Links
<1>6. CASE LineTooLong(h) \/ PipeCloses(h)
  BY <1>5, <1>6 DEF LineTooLong, PipeCloses, procVars
<1>7. CASE Kill(h)
  BY <1>5, <1>7 DEF Kill
<1>8. CASE Wait(h) \/ RemoveSample(h)
  <2>1. /\ h \notin alive /\ alive' = alive
        /\ watch[h] \in {"waiting", "removing"}
        /\ watch' = [watch EXCEPT ![h] = "removing"] \/ watch' = [watch EXCEPT ![h] = "finishing"]
    BY <1>0, <1>8 DEF Wait, Exited, RemoveSample, Goto, WaitedFor, procVars
  <2>2. \A g \in Helper : watch'[g] = "none" <=> watch[g] = "none"
    BY <1>0, <2>1 DEF TypeOK
  <2>3. WaitedFor'
    BY <1>0, <2>1 DEF WaitedFor, TypeOK
  <2>4. HelperKnown'
    BY <1>0, <1>1, <2>1, <2>2 DEF HelperKnown, Runs
  <2>5. StateWatched'
    BY <1>0, <1>1, <2>2 DEF StateWatched
  <2>6. SampleWatched'
    <3>1. CASE Wait(h)
      <4>1. watch' = [watch EXCEPT ![h] = "removing"] /\ latest' = latest
        BY <3>1 DEF Wait, Goto
      <4> QED
        BY <1>0, <1>1, <4>1 DEF SampleWatched, TypeOK
    <3>2. CASE RemoveSample(h)
      <4>1. /\ latest' = [latest EXCEPT ![home[h]] = NoHelper]
            /\ watch' = [watch EXCEPT ![h] = "finishing"]
        BY <3>2 DEF RemoveSample, Remove, Goto
      <4>2. ASSUME NEW k \in Session, latest'[k] # NoHelper
            PROVE  /\ home[latest'[k]] = k
                   /\ watch'[latest'[k]] \notin {"none", "finishing"}
        <5>1. k # home[h] /\ latest'[k] = latest[k]
          BY <1>0, <4>1, <4>2 DEF TypeOK
        <5>2. home[latest[k]] = k /\ watch[latest[k]] \notin {"none", "finishing"}
          BY <1>0, <4>2, <5>1 DEF SampleWatched
        <5>3. latest[k] # h
          BY <5>1, <5>2
        <5> QED
          BY <1>0, <4>1, <5>1, <5>2, <5>3 DEF TypeOK
      <4> QED
        BY <1>1, <4>2 DEF SampleWatched
    <3> QED
      BY <1>8, <3>1, <3>2
  <2> QED
    BY <1>2, <2>3, <2>4, <2>5, <2>6 DEF Links
<1> QED
  BY <1>3, <1>4, <1>6, <1>7, <1>8

\* The end of a watch: the state and the helper part.
LEMMA LinksFinish ==
  ASSUME IndInv, NEW h \in Helper, FinishWatch(h)
  PROVE  Links'
<1>0. /\ TypeOK /\ HelperKnown /\ StateWatched /\ WaitedFor /\ SampleWatched /\ TargetIdle
      /\ NoHelper \notin Helper /\ NoSession \notin Session
  BY HelperAssumption DEF IndInv, Links
<1> DEFINE k0 == home[h]
<1>1. /\ watch[h] = "finishing" /\ h \notin alive
      /\ k0 \in Session /\ Runs(k0, h)
  BY <1>0 DEF FinishWatch, WaitedFor, HelperKnown
<1>2. /\ states' = [states EXCEPT ![k0] = ExitRecorded(states[k0])]
      /\ watch' = [watch EXCEPT ![h] = "none"]
      /\ home' = [home EXCEPT ![h] = NoSession]
      /\ alive' = alive /\ latest' = latest /\ rec' = rec
  BY DEF FinishWatch, Goto
<1>3. ExitRecorded(states[k0]) \in HelperState /\ ~ExitRecorded(states[k0]).running
  <2>1. states[k0] \in HelperState
    BY <1>0, <1>1 DEF TypeOK, Runs
  <2> QED
    BY <2>1, StateTypes, Numbers DEF ExitRecorded, HelperState
<1>4. states'[k0] # Absent /\ ~states'[k0].running
  BY <1>0, <1>1, <1>2, <1>3, AbsentAssumption DEF TypeOK
<1>5. \A g \in Helper : g # h /\ (g \in alive \/ watch[g] # "none") => home[g] # k0
  BY <1>0, <1>1 DEF HelperKnown, Runs
<1>6. HelperKnown'
  <2>1. ASSUME NEW g \in Helper, g \in alive \/ watch'[g] # "none"
        PROVE  watch'[g] # "none" /\ home'[g] \in Session /\ Runs(home[g], g)
               /\ home'[g] = home[g] /\ home[g] # k0
    <3>1. g # h
      BY <1>0, <1>1, <1>2, <2>1 DEF TypeOK
    <3>2. watch'[g] = watch[g] /\ home'[g] = home[g]
      BY <1>0, <1>2, <3>1 DEF TypeOK
    <3> QED
      BY <1>0, <1>5, <2>1, <3>1, <3>2 DEF HelperKnown
  <2> QED
    BY <1>0, <1>2, <2>1 DEF HelperKnown, Runs, TypeOK
<1>7. StateWatched'
  <2>1. ASSUME NEW k \in Session, states'[k] # Absent, states'[k].running
        PROVE  /\ states'[k].proc \in Helper /\ home'[states'[k].proc] = k
               /\ watch'[states'[k].proc] # "none"
    <3>1. k # k0 /\ states'[k] = states[k]
      BY <1>0, <1>2, <1>4, <2>1 DEF TypeOK
    <3>2. /\ states[k].proc \in Helper /\ home[states[k].proc] = k
          /\ watch[states[k].proc] # "none"
      BY <1>0, <2>1, <3>1 DEF StateWatched
    <3>3. states[k].proc # h
      BY <3>1, <3>2
    <3> QED
      BY <1>0, <1>2, <3>1, <3>2, <3>3 DEF TypeOK
  <2> QED
    BY <2>1 DEF StateWatched
<1>8. WaitedFor'
  BY <1>0, <1>2 DEF WaitedFor, TypeOK
<1>9. SampleWatched'
  <2>1. ASSUME NEW k \in Session, latest[k] # NoHelper
        PROVE  /\ home'[latest[k]] = k
               /\ watch'[latest[k]] \notin {"none", "finishing"}
    <3>1. /\ home[latest[k]] = k /\ watch[latest[k]] \notin {"none", "finishing"}
          /\ latest[k] \in Helper
      BY <1>0, <2>1 DEF SampleWatched, TypeOK
    <3>2. latest[k] # h
      BY <1>1, <3>1
    <3> QED
      BY <1>0, <1>2, <3>1, <3>2 DEF TypeOK
  <2> QED
    BY <1>2, <2>1 DEF SampleWatched
<1>10. TargetIdle'
  BY <1>0, <1>1, <1>2 DEF TargetIdle, Runs, TypeOK
<1> QED
  BY <1>6, <1>7, <1>8, <1>9, <1>10 DEF Links

\* A spawn: the session's state is idle, so nothing else is at home there.
LEMMA LinksSpawn ==
  ASSUME IndInv, NEW h \in Helper, Spawn(h)
  PROVE  Links'
<1>0. /\ TypeOK /\ HelperKnown /\ StateWatched /\ WaitedFor /\ SampleWatched /\ TargetIdle
      /\ NoHelper \notin Helper
  BY HelperAssumption DEF IndInv, Links
<1> DEFINE k0 == rec.target
           st == [states[k0] EXCEPT !.running = TRUE, !.proc = h, !.startAge = rec.age]
<1>1. /\ watch[h] = "none" /\ h \notin alive
      /\ k0 \in Session /\ states[k0] # Absent /\ ~states[k0].running
      /\ states[k0] \in HelperState
  BY <1>0 DEF Spawn, TargetIdle, TypeOK
<1>2. /\ alive' = alive \cup {h} /\ home' = [home EXCEPT ![h] = k0]
      /\ watch' = [watch EXCEPT ![h] = "reading"]
      /\ latest' = latest /\ rec'.phase # "spawning"
  BY <1>0 DEF Spawn, NextTarget, TypeOK
<1>3. states' = [states EXCEPT ![k0] = st]
  BY <1>0, <1>1 DEF Spawn, TypeOK, HelperState
<1>4. st.running /\ st.proc = h /\ st # Absent
  <2>1. st \in HelperState
    <3>1. rec.age \in Age
      BY <1>0 DEF TypeOK
    <3> QED
      BY <1>1, <3>1 DEF HelperState
  <2> QED
    BY <1>1, <2>1, AbsentAssumption DEF HelperState
<1>5. \A g \in Helper : g \in alive \/ watch[g] # "none" => g # h /\ home[g] # k0
  BY <1>0, <1>1 DEF HelperKnown, Runs
<1>6. HelperKnown'
  <2>1. ASSUME NEW g \in Helper, g \in alive' \/ watch'[g] # "none"
        PROVE  watch'[g] # "none" /\ home'[g] \in Session
               /\ states'[home'[g]] # Absent /\ states'[home'[g]].running
               /\ states'[home'[g]].proc = g
    <3>1. CASE g = h
      BY <1>0, <1>1, <1>2, <1>3, <1>4, <3>1 DEF TypeOK
    <3>2. CASE g # h
      <4>1. watch'[g] = watch[g] /\ home'[g] = home[g] /\ (g \in alive' <=> g \in alive)
        BY <1>0, <1>2, <3>2 DEF TypeOK
      <4>2. home[g] # k0 /\ home[g] \in Session /\ watch[g] # "none" /\ Runs(home[g], g)
        BY <1>0, <1>5, <2>1, <4>1 DEF HelperKnown
      <4> QED
        BY <1>0, <1>3, <4>1, <4>2 DEF TypeOK, Runs
    <3> QED
      BY <3>1, <3>2
  <2> QED
    BY <2>1 DEF HelperKnown, Runs
<1>7. StateWatched'
  <2>1. ASSUME NEW k \in Session, states'[k] # Absent, states'[k].running
        PROVE  /\ states'[k].proc \in Helper /\ home'[states'[k].proc] = k
               /\ watch'[states'[k].proc] # "none"
    <3>1. CASE k = k0
      BY <1>0, <1>1, <1>2, <1>3, <1>4, <3>1 DEF TypeOK
    <3>2. CASE k # k0
      <4>1. states'[k] = states[k]
        BY <1>0, <1>3, <3>2 DEF TypeOK
      <4>2. /\ states[k].proc \in Helper /\ home[states[k].proc] = k
            /\ watch[states[k].proc] # "none"
        BY <1>0, <2>1, <4>1 DEF StateWatched
      <4>3. states[k].proc # h
        BY <1>1, <4>2
      <4> QED
        BY <1>0, <1>2, <4>1, <4>2, <4>3 DEF TypeOK
    <3> QED
      BY <3>1, <3>2
  <2> QED
    BY <2>1 DEF StateWatched
<1>8. WaitedFor'
  BY <1>0, <1>2 DEF WaitedFor, TypeOK
<1>9. SampleWatched'
  <2>1. ASSUME NEW k \in Session, latest[k] # NoHelper
        PROVE  /\ home'[latest[k]] = k
               /\ watch'[latest[k]] \notin {"none", "finishing"}
    <3>1. /\ home[latest[k]] = k /\ watch[latest[k]] \notin {"none", "finishing"}
          /\ latest[k] \in Helper
      BY <1>0, <2>1 DEF SampleWatched, TypeOK
    <3>2. latest[k] # h
      BY <1>1, <3>1
    <3> QED
      BY <1>0, <1>2, <3>1, <3>2 DEF TypeOK
  <2> QED
    BY <1>2, <2>1 DEF SampleWatched
<1>10. TargetIdle'
  BY <1>2 DEF TargetIdle
<1> QED
  BY <1>6, <1>7, <1>8, <1>9, <1>10 DEF Links

\* The other steps of the supervisor, and of time.
LEMMA LinksOther ==
  ASSUME IndInv,
         \/ \E k \in Session : SessionChanges(k) \/ Consider(k)
         \/ List \/ ListFails \/ Sweep \/ SpawnFails \/ NotPrivileged
         \/ FinishReconcile \/ Shutdown \/ Tick \/ UNCHANGED vars
  PROVE  Links'
<1>0. TypeOK /\ TargetIdle /\ TypeOK /\ NewState \in HelperState
  BY InitTypes DEF IndInv, Links
<1>1. ASSUME states' = states, rec' = rec \/ rec'.phase # "spawning",
             UNCHANGED <<alive, home, watch, latest>>
      PROVE  Links'
  <2>1. KeepsRunning
    BY <1>1 DEF KeepsRunning
  <2> QED
    BY <1>0, <1>1, <2>1, LinksKept DEF Links, TargetIdle
<1>2. ASSUME NEW k \in Session, SessionChanges(k) PROVE Links'
  BY <1>1, <1>2 DEF SessionChanges, procVars, supVars
<1>3. ASSUME NEW k \in Session, Consider(k) PROVE Links'
  <2> DEFINE st == IF states[k] = Absent THEN NewState ELSE states[k]
  <2>1. st \in HelperState /\ st # Absent
    BY <1>0, AbsentAssumption DEF TypeOK
  <2>2. /\ states' = [states EXCEPT ![k] = st]
        /\ UNCHANGED <<alive, home, watch, latest>>
        /\ rec'.phase = "spawning" => rec'.target = k /\ ~st.running
    BY <1>0, <1>3 DEF Consider, procVars, TypeOK
  <2>3. KeepsRunning
    BY <1>0, <2>1, <2>2 DEF KeepsRunning, NewState, TypeOK
  <2>4. TargetIdle'
    BY <1>0, <2>1, <2>2 DEF TargetIdle, TypeOK
  <2> QED
    BY <2>2, <2>3, <2>4, LinksKept DEF Links
<1>4. CASE List \/ ListFails \/ NotPrivileged \/ FinishReconcile \/ Shutdown
  <2>1. rec' = rec \/ rec'.phase # "spawning"
    BY <1>0, <1>4 DEF List, ListFails, NotPrivileged, FinishReconcile, Shutdown,
                      IdleReconcile
  <2>2. UNCHANGED <<states, alive, home, watch, latest>>
    BY <1>4 DEF List, ListFails, NotPrivileged, FinishReconcile, Shutdown, procVars
  <2> QED
    BY <1>1, <2>1, <2>2
<1>5. CASE Sweep
  <2>1. /\ states' = [k \in Session |->
               IF k \in Unwanted /\ ~states[k].running THEN Absent ELSE states[k]]
        /\ rec'.phase # "spawning"
        /\ UNCHANGED <<alive, home, watch, latest>>
    BY <1>0, <1>5 DEF Sweep, TypeOK
  <2>2. KeepsRunning
    BY <1>0, <2>1 DEF KeepsRunning
  <2> QED
    BY <2>1, <2>2, LinksKept DEF Links, TargetIdle
<1>6. CASE SpawnFails
  <2>1. states[rec.target] \in HelperState /\ rec.target \in Session
    BY <1>0, <1>6 DEF SpawnFails, TargetIdle, TypeOK
  <2> DEFINE st == [states[rec.target] EXCEPT !.startAge = rec.age, !.exitAge = rec.age,
                      !.quickFails = NextQuickFails(@, 0)]
  <2>2. /\ states' = [states EXCEPT ![rec.target] = st]
        /\ rec'.phase # "spawning"
        /\ UNCHANGED <<alive, home, watch, latest>>
    BY <1>0, <1>6, <2>1 DEF SpawnFails, NextTarget, TypeOK, HelperState, procVars
  <2>3. /\ st \in HelperState /\ st # Absent
        /\ st.running = states[rec.target].running /\ st.proc = states[rec.target].proc
    <3>1. rec.age \in Age
      BY <1>0 DEF TypeOK
    <3>2. NextQuickFails(states[rec.target].quickFails, 0) \in 0 .. QuickFailLimit
      BY <2>1, QuickFailsType DEF HelperState
    <3> QED
      BY <2>1, <3>1, <3>2, AbsentAssumption DEF HelperState
  <2>4. KeepsRunning
    BY <1>0, <2>1, <2>2, <2>3, AbsentAssumption DEF KeepsRunning, TypeOK
  <2> QED
    BY <2>2, <2>4, LinksKept DEF Links, TargetIdle
<1>7. CASE Tick
  <2>1. /\ states' = [k \in Session |->
               IF states[k] = Absent THEN Absent
               ELSE [states[k] EXCEPT !.startAge = Older(@), !.exitAge = Older(@)]]
        /\ UNCHANGED <<alive, home, watch, latest>>
        /\ rec'.phase = rec.phase /\ rec'.target = rec.target
    BY <1>0, <1>7 DEF Tick, procVars, TypeOK
  <2>2. ASSUME NEW k \in Session, states[k] # Absent
        PROVE  /\ states'[k] # Absent /\ states'[k].running = states[k].running
               /\ states'[k].proc = states[k].proc
    <3>1. states[k] \in HelperState
      BY <1>0, <2>2 DEF TypeOK
    <3>2. Older(states[k].startAge) \in Age /\ Older(states[k].exitAge) \in Age
      BY <3>1, Numbers DEF HelperState
    <3>3. [states[k] EXCEPT !.startAge = Older(@), !.exitAge = Older(@)] \in HelperState
      BY <3>1, <3>2 DEF HelperState
    <3> QED
      BY <2>1, <2>2, <3>1, <3>3, AbsentAssumption DEF HelperState
  <2>3. KeepsRunning
    BY <2>1, <2>2 DEF KeepsRunning
  <2>4. TargetIdle'
    BY <1>0, <2>1, <2>2 DEF TargetIdle
  <2> QED
    BY <2>1, <2>3, <2>4, LinksKept DEF Links
<1>8. CASE UNCHANGED vars
  BY <1>1, <1>8 DEF vars, procVars
<1> QED
  BY <1>2, <1>3, <1>4, <1>5, <1>6, <1>7, <1>8

-----------------------------------------------------------------------------

LEMMA IndInvStep == IndInv /\ [Next]_vars => IndInv'
<1> SUFFICES ASSUME IndInv, [Next]_vars PROVE Links'
  BY TypeStep DEF IndInv
<1> QED
  BY LinksWatch, LinksFinish, LinksSpawn, LinksOther DEF Next, Reconcile, Watch

\* The supervisor's states, the helpers and their goroutines, and the hub
\* agree (start and watch in supervisor.go).
THEOREM Invariance == Spec => []IndInv
<1>1. Init => IndInv
  BY TypeInit, LinksInit DEF IndInv
<1> QED
  BY <1>1, IndInvStep, PTL DEF Spec

\* A session has at most one helper, and none is unknown (supervisor.go).
THEOREM AtMostOneHelper == Spec => []OneHelper
<1>1. IndInv => OneHelper
  BY HelperAssumption DEF IndInv, Links, TypeOK, HelperKnown, Runs, OneHelper
<1> QED
  BY <1>1, Invariance, PTL

\* Samples in the hub are of running helpers (watch's order of Wait, Remove
\* and running = false).
THEOREM HubHoldsRunningOnly == Spec => []HubOfRunningHelper
<1>1. IndInv => HubOfRunningHelper
  <2> SUFFICES ASSUME IndInv, NEW k \in Session, latest[k] # NoHelper
               PROVE  home[latest[k]] = k /\ Runs(k, latest[k])
    BY DEF HubOfRunningHelper, Runs
  <2>1. /\ latest[k] \in Helper /\ home[latest[k]] = k
        /\ watch[latest[k]] # "none"
    BY DEF IndInv, Links, SampleWatched, TypeOK
  <2> QED
    BY <2>1 DEF IndInv, Links, HelperKnown
<1> QED
  BY <1>1, Invariance, PTL

\* The supervisor's variables keep their types; a running state always has
\* its process, so proc.Kill never meets a nil.
THEOREM TypeCorrect == Spec => []TypeOK
<1>1. IndInv => TypeOK
  BY DEF IndInv
<1> QED
  BY <1>1, Invariance, PTL

-----------------------------------------------------------------------------
(* The spacing of spawns.  A state remembers its session's last start; a   *)
(* state that was forgotten was not, and what keeps the next spawn apart   *)
(* then is the ticker: the reconcile that forgets a session came a tick    *)
(* after the one that last started a helper there, and the one that may    *)
(* start another comes yet a tick later.                                   *)

\* How long ago the clock was read for the last spawn.
Since == [k \in Session |-> spawnAge[k] + late[k]]

\* A tick has come and no helper has been started since.
Ticked == rec.phase = "listed" \/ (rec.phase = "idle" /\ ticker.pending)

ForgottenLongAgo ==
  /\ Ticked => \A k \in Session : Since[k] >= ticker.elapsed + 1
  /\ \A k \in Session : states[k] = Absent =>
       /\ Since[k] >= ticker.elapsed + 1
       /\ Ticked => Since[k] >= MinSpawnInterval
       /\ rec.phase \in {"starting", "spawning"} /\ k \in rec.todo =>
            Since[k] - rec.age >= MinSpawnInterval
  /\ rec.phase = "listed" => rec.age = 0
  /\ ticker.pending => rec.phase \in {"idle", "stopped"}

StartsRemembered ==
  /\ \A k \in Session :
       \/ rec.phase = "stopped" \/ states[k] = Absent \/ (rec.phase = "spawning" /\ rec.target = k)
       \/ states[k].startAge <= Since[k]
  /\ rec.phase = "spawning" => Since[rec.target] - rec.age >= MinSpawnInterval
  /\ rec.age <= ReconcileInterval

SpacedInv == IndInv /\ ForgottenLongAgo /\ StartsRemembered

LEMMA SpacedInit == Init => ForgottenLongAgo /\ StartsRemembered
<1>1. /\ OldAge >= 1 /\ OldAge >= MinSpawnInterval /\ OldAge \in Nat
      /\ 0 <= ReconcileInterval /\ MinSpawnInterval \in Nat
  BY HelperAssumption DEF OldAge
<1>2. Init => \A k \in Session : Since[k] = OldAge
  BY <1>1 DEF Init, Since
<1> QED
  BY <1>1, <1>2 DEF Init, IdleReconcile, ForgottenLongAgo, StartsRemembered, Ticked

\* What the steps below need to know of the types.
LEMMA Ages ==
  ASSUME IndInv
  PROVE  /\ rec.age \in Nat /\ ticker.elapsed \in Nat /\ ticker.elapsed <= ReconcileInterval
         /\ \A k \in Session : /\ Since[k] \in Nat /\ Since[k] = spawnAge[k] + late[k]
                               /\ spawnAge[k] \in Nat /\ spawnAge[k] <= OldAge /\ late[k] \in Nat
                               /\ states[k] # Absent => states[k] \in HelperState
                                                        /\ states[k].startAge \in Nat
                                                        /\ states[k].startAge <= OldAge
         /\ {MinSpawnInterval, LongBackoff, OldAge, ReconcileInterval} \subseteq Nat
         /\ OldAge = MinSpawnInterval + LongBackoff + ReconcileInterval /\ ReconcileInterval >= 1
<1>1. TypeOK
  BY DEF IndInv
<1>2. OldAge \in Nat /\ \A a \in Age : a \in Nat /\ a <= OldAge
  BY Numbers DEF Age
<1>3. \A k \in Session : states[k] # Absent => states[k] \in HelperState
  BY <1>1 DEF TypeOK
<1>4. \A st \in HelperState : st.startAge \in Age
  BY DEF HelperState
<1>5. rec.age \in Age /\ ticker.elapsed \in 0 .. ReconcileInterval /\ \A k \in Session : spawnAge[k] \in Age /\ late[k] \in Age
  BY <1>1 DEF TypeOK
<1> QED
  BY <1>2, <1>3, <1>4, <1>5, HelperAssumption DEF OldAge, Since

\* Steps of sessions, processes and goroutines.
LEMMA SpacedKept ==
  ASSUME SpacedInv, UNCHANGED <<rec, ticker, Since>>,
         \A k \in Session : /\ states'[k] = Absent <=> states[k] = Absent
                            /\ states[k] # Absent => states'[k].startAge = states[k].startAge
  PROVE  ForgottenLongAgo' /\ StartsRemembered'
BY DEF SpacedInv, ForgottenLongAgo, StartsRemembered, Ticked

LEMMA SpacedFinish ==
  ASSUME SpacedInv, NEW h \in Helper, FinishWatch(h)
  PROVE  ForgottenLongAgo' /\ StartsRemembered'
<1>1. states' = [states EXCEPT ![home[h]] = ExitRecorded(@)] /\ UNCHANGED <<rec, ticker, Since>>
  BY DEF FinishWatch, Since
<1>2. /\ home[h] \in Session /\ states[home[h]] # Absent /\ states[home[h]] \in HelperState
      /\ states \in [Session -> HelperState \cup {Absent}]
  BY DEF FinishWatch, SpacedInv, IndInv, TypeOK, Links, HelperKnown, Runs
<1>3. /\ ExitRecorded(states[home[h]]) \in HelperState
      /\ ExitRecorded(states[home[h]]).startAge = states[home[h]].startAge
  <2>1. ExitRecorded(states[home[h]]) \in HelperState
    <3>1. h \in Helper /\ 0 \in Age
      BY Numbers
    <3> QED
      BY <1>2, <3>1, StateTypes
  <2>2. ExitRecorded(states[home[h]]).startAge = states[home[h]].startAge
    BY <1>2 DEF ExitRecorded, HelperState
  <2> QED
    BY <2>1, <2>2
<1>4. ExitRecorded(states[home[h]]) # Absent
  BY <1>3, AbsentAssumption
<1> QED
  BY <1>1, <1>2, <1>3, <1>4, SpacedKept

LEMMA SpacedLoop ==
  ASSUME SpacedInv, List \/ ListFails \/ NotPrivileged \/ FinishReconcile \/ Shutdown
  PROVE  ForgottenLongAgo' /\ StartsRemembered'
<1>0. TypeOK /\ IndInv
  BY DEF SpacedInv, IndInv
<1>1. CASE List
  <2>1. /\ rec.phase = "idle" /\ ticker.pending /\ rec'.phase = "listed" /\ rec'.age = 0
        /\ ticker'.elapsed = ticker.elapsed /\ ~ticker'.pending /\ UNCHANGED <<states, Since>>
    BY <1>0, <1>1 DEF List, IdleReconcile, TypeOK, Since
  <2> QED
    BY <2>1, Numbers DEF SpacedInv, ForgottenLongAgo, StartsRemembered, Ticked
<1>2. CASE ListFails
  <2>1. /\ rec.phase = "idle" /\ ~ticker'.pending /\ ticker'.elapsed = ticker.elapsed
        /\ UNCHANGED <<rec, states, Since>>
    BY <1>0, <1>2 DEF ListFails, TypeOK, Since
  <2> QED
    BY <2>1, Numbers DEF SpacedInv, ForgottenLongAgo, StartsRemembered, Ticked
<1>3. CASE NotPrivileged \/ Shutdown
  <2>1. rec'.phase = "stopped" /\ rec'.age = 0 /\ UNCHANGED <<ticker, states, Since>>
    BY <1>3 DEF NotPrivileged, Shutdown, IdleReconcile, Since
  <2> QED
    BY <2>1, Numbers DEF SpacedInv, ForgottenLongAgo, StartsRemembered, Ticked
<1>4. CASE FinishReconcile
  <2>1. /\ rec.phase = "starting" /\ rec'.phase = "idle" /\ rec'.age = 0
        /\ ticker'.elapsed = ticker.elapsed /\ ticker'.pending = ticker.pending
        /\ UNCHANGED <<states, Since>>
    BY <1>0, <1>4 DEF FinishReconcile, IdleReconcile, TypeOK, Since
  <2> QED
    BY <2>1, Numbers DEF SpacedInv, ForgottenLongAgo, StartsRemembered, Ticked
<1> QED
  BY <1>1, <1>2, <1>3, <1>4

LEMMA SpacedSweep ==
  ASSUME SpacedInv, Sweep
  PROVE  ForgottenLongAgo' /\ StartsRemembered'
<1>0. TypeOK /\ IndInv
  BY DEF SpacedInv, IndInv
<1>1. /\ rec.phase = "listed" /\ rec'.phase = "starting" /\ rec'.todo = rec.wanted /\ rec'.age = 0
      /\ UNCHANGED <<ticker, Since>>
  BY <1>0 DEF Sweep, TypeOK, SpacedInv, ForgottenLongAgo, Since
<1>2. \A k \in Session :
        /\ states'[k] # Absent => states'[k] = states[k]
        /\ states'[k] = Absent => states[k] = Absent \/ k \notin rec.wanted
  BY <1>0 DEF Sweep, Unwanted, TypeOK
<1>3. \A k \in Session : Since[k] >= ticker.elapsed + 1 /\ Since[k] \in Nat
  BY <1>0, <1>1, Ages DEF SpacedInv, ForgottenLongAgo, Ticked
<1>4. \A k \in Session : states[k] = Absent => Since[k] >= MinSpawnInterval
  BY <1>1 DEF SpacedInv, ForgottenLongAgo, Ticked
<1>5. \A k \in Session : states[k] # Absent => states[k].startAge <= Since[k]
  BY <1>1 DEF SpacedInv, StartsRemembered
<1>6. MinSpawnInterval \in Nat
  BY HelperAssumption
<1>7. ForgottenLongAgo'
  BY <1>0, <1>1, <1>2, <1>3, <1>4, <1>6 DEF SpacedInv, ForgottenLongAgo, Ticked
<1>8. StartsRemembered'
  BY <1>1, <1>2, <1>5, Numbers DEF StartsRemembered
<1> QED
  BY <1>7, <1>8

LEMMA SpacedConsider ==
  ASSUME SpacedInv, NEW k \in Session, Consider(k)
  PROVE  ForgottenLongAgo' /\ StartsRemembered'
<1>0. TypeOK /\ IndInv
  BY DEF SpacedInv, IndInv
<1> DEFINE st == IF states[k] = Absent THEN NewState ELSE states[k]
<1>1. /\ rec.phase = "starting" /\ k \in rec.todo /\ UNCHANGED <<ticker, Since>>
      /\ states' = [states EXCEPT ![k] = st] /\ states \in [Session -> HelperState \cup {Absent}]
  BY <1>0 DEF Consider, TypeOK, Since
<1>2. /\ rec'.age = rec.age /\ rec'.todo = rec.todo \ {k}
      /\ \/ rec'.phase = "starting" /\ (st.running \/ TooSoon(st, rec.age))
         \/ rec'.phase = "spawning" /\ rec'.target = k /\ ~TooSoon(st, rec.age)
  BY <1>0 DEF Consider, TypeOK
<1>3. st \in HelperState /\ st # Absent
  BY <1>1, InitTypes, AbsentAssumption
<1>4. /\ states'[k] = st /\ \A l \in Session \ {k} : states'[l] = states[l]
  BY <1>1
<1>5. CASE states[k] # Absent
  <2>1. st = states[k]
    BY <1>5
  <2>2. st.startAge <= Since[k]
    BY <1>1, <1>5, <2>1 DEF SpacedInv, StartsRemembered
  <2>3. rec'.phase = "spawning" => Since[k] - rec.age >= MinSpawnInterval
    BY <1>0, <1>2, <1>5, <2>1, <2>2, Ages DEF TooSoon
  <2> QED
    BY <1>0, <1>1, <1>2, <1>3, <1>4, <2>1, <2>2, <2>3
       DEF SpacedInv, ForgottenLongAgo, StartsRemembered, Ticked
<1>6. CASE states[k] = Absent
  <2>1. Since[k] - rec.age >= MinSpawnInterval
    BY <1>1, <1>6 DEF SpacedInv, ForgottenLongAgo
  <2>2. ~NewState.running /\ ~TooSoon(NewState, rec.age)
    <3>1. /\ OldAge = MinSpawnInterval + LongBackoff + ReconcileInterval /\ LongBackoff \in Nat
          /\ rec.age \in Nat /\ rec.age <= ReconcileInterval /\ ReconcileInterval \in Nat
      BY <1>0, Ages DEF SpacedInv, StartsRemembered
    <3>2. MinSpawnInterval \in Nat /\ QuickFailLimit \in Nat \ {0}
      BY HelperAssumption
    <3>3. NewState.startAge = OldAge /\ NewState.quickFails = 0 /\ NewState.running = FALSE
      BY DEF NewState
    <3> QED
      BY <2>1, <3>1, <3>2, <3>3 DEF TooSoon
  <2>3. rec'.phase = "spawning" /\ rec'.target = k
    BY <1>2, <1>6, <2>2
  <2> QED
    BY <1>0, <1>1, <1>2, <1>3, <1>4, <2>1, <2>3
       DEF SpacedInv, ForgottenLongAgo, StartsRemembered, Ticked
<1> QED
  BY <1>5, <1>6

LEMMA SpacedSpawn ==
  ASSUME SpacedInv, SpawnFails \/ \E h \in Helper : Spawn(h)
  PROVE  ForgottenLongAgo' /\ StartsRemembered'
<1>0. TypeOK /\ IndInv
  BY DEF SpacedInv, IndInv
<1> DEFINE k0 == rec.target
<1>1. /\ rec.phase = "spawning" /\ k0 \in Session /\ states[k0] # Absent
      /\ Since[k0] - rec.age >= MinSpawnInterval /\ states[k0] \in HelperState
      /\ states \in [Session -> HelperState \cup {Absent}]
      /\ spawnAge \in [Session -> Age] /\ late \in [Session -> Age]
  BY <1>0 DEF Spawn, SpawnFails, TypeOK, IndInv, Links, TargetIdle, SpacedInv, StartsRemembered
<1>2. rec'.phase = "starting" /\ rec'.todo = rec.todo /\ rec'.age = rec.age /\ ticker' = ticker
  BY <1>0 DEF Spawn, SpawnFails, NextTarget, TypeOK
<1>3. /\ states'[k0].startAge = rec.age /\ states'[k0] # Absent
      /\ \A k \in Session \ {k0} : states'[k] = states[k]
      /\ Since'[k0] \in {rec.age, Since[k0]}
      /\ \A k \in Session \ {k0} : Since'[k] = Since[k]
  <2>0. rec.age \in Age
    BY <1>0 DEF TypeOK
  <2>1. CASE SpawnFails
    <3> DEFINE st == [states[k0] EXCEPT !.startAge = rec.age, !.exitAge = rec.age,
                        !.quickFails = NextQuickFails(@, 0)]
    <3>1. states' = [states EXCEPT ![k0] = st] /\ UNCHANGED <<Since>>
      BY <1>1, <2>1 DEF SpawnFails, HelperState, Since
    <3>2. st.startAge = rec.age
      BY <1>1 DEF HelperState
    <3>3. st \in HelperState
      <4>1. NextQuickFails(states[k0].quickFails, 0) \in 0 .. QuickFailLimit
        BY <1>1, QuickFailsType DEF HelperState
      <4> QED
        BY <1>1, <2>0, <4>1 DEF HelperState
    <3> HIDE DEF st
    <3> QED
      BY <1>1, <3>1, <3>2, <3>3, AbsentAssumption
  <2>2. ASSUME NEW h \in Helper, Spawn(h)
        PROVE  /\ states'[k0].startAge = rec.age /\ states'[k0] # Absent
               /\ \A k \in Session \ {k0} : states'[k] = states[k]
               /\ Since'[k0] = rec.age /\ \A k \in Session \ {k0} : Since'[k] = Since[k]
    <3> DEFINE st == [states[k0] EXCEPT !.running = TRUE, !.proc = h, !.startAge = rec.age]
    <3>1. states' = [states EXCEPT ![k0] = st] /\ spawnAge' = [spawnAge EXCEPT ![k0] = 0]
          /\ late' = [late EXCEPT ![k0] = rec.age]
      BY <1>1, <2>2 DEF Spawn, HelperState
    <3>2. st.startAge = rec.age
      BY <1>1 DEF HelperState
    <3>3. st \in HelperState
      BY <1>1, <2>0, StateTypes
    <3>4. rec.age \in Nat
      BY <1>0, Ages
    <3>5. Since'[k0] = rec.age /\ \A k \in Session \ {k0} : Since'[k] = Since[k]
      <4>1. \A k \in Session : /\ Since'[k] = spawnAge'[k] + late'[k]
                               /\ Since[k] = spawnAge[k] + late[k]
        BY DEF Since
      <4>2. /\ spawnAge'[k0] = 0 /\ late'[k0] = rec.age
            /\ \A k \in Session \ {k0} : spawnAge'[k] = spawnAge[k] /\ late'[k] = late[k]
        BY <1>1, <3>1
      <4> QED
        BY <1>1, <3>4, <4>1, <4>2
    <3> HIDE DEF st
    <3> QED
      BY <1>1, <3>1, <3>2, <3>3, <3>5, AbsentAssumption
  <2> QED
    BY <2>1, <2>2
<1>4. rec.age \in Nat /\ Since[k0] \in Nat /\ MinSpawnInterval \in Nat
  BY <1>0, <1>1, Ages
<1>5. states'[k0].startAge <= Since'[k0]
  BY <1>1, <1>3, <1>4
<1>6. ForgottenLongAgo'
  BY <1>1, <1>2, <1>3 DEF SpacedInv, ForgottenLongAgo, Ticked
<1>7. StartsRemembered'
  BY <1>1, <1>2, <1>3, <1>5 DEF SpacedInv, StartsRemembered
<1> QED
  BY <1>6, <1>7

LEMMA SpacedTick ==
  ASSUME SpacedInv, Tick
  PROVE  ForgottenLongAgo' /\ StartsRemembered'
<1>0. TypeOK /\ IndInv
  BY DEF SpacedInv, IndInv
<1>1. /\ \A a \in Nat : a <= OldAge => /\ Older(a) \in Nat /\ Older(a) <= OldAge /\ Older(a) >= a
                                       /\ Older(a) = OldAge \/ Older(a) = a + 1
      /\ \A a, b \in Nat : a <= b /\ b <= OldAge => Older(a) <= Older(b)
  BY Numbers DEF Older
<1>2. /\ \A k \in Session : /\ states'[k] = Absent <=> states[k] = Absent
                            /\ states[k] # Absent => states'[k].startAge = Older(states[k].startAge)
      /\ \A k \in Session : spawnAge'[k] = Older(spawnAge[k]) /\ late'[k] = late[k]
  <2>1. ASSUME NEW k \in Session, states[k] # Absent
        PROVE  states'[k] # Absent /\ states'[k].startAge = Older(states[k].startAge)
    <3> DEFINE st == [states[k] EXCEPT !.startAge = Older(@), !.exitAge = Older(@)]
    <3>1. states'[k] = st /\ states[k] \in HelperState
      BY <1>0, <2>1 DEF Tick, TypeOK
    <3>2. st.startAge = Older(states[k].startAge)
      BY <3>1 DEF HelperState
    <3>3. st \in HelperState
      <4>1. Older(states[k].startAge) \in Age /\ Older(states[k].exitAge) \in Age
        BY <3>1, Numbers DEF HelperState
      <4> QED
        BY <3>1, <4>1 DEF HelperState
    <3> HIDE DEF st
    <3> QED
      BY <3>1, <3>2, <3>3, AbsentAssumption
  <2> QED
    BY <2>1 DEF Tick
<1>3. /\ rec'.phase = rec.phase /\ rec'.todo = rec.todo /\ rec'.target = rec.target
      /\ rec'.age = IF rec.phase \in {"starting", "spawning"} THEN rec.age + 1 ELSE rec.age
      /\ rec.age + 1 <= ReconcileInterval
  <2>1. rec.age + 1 <= ReconcileInterval
    <3>1. rec.age \in Nat /\ ReconcileInterval \in Nat
      BY <1>0, Ages
    <3>2. rec.age < ReconcileInterval
      BY DEF Tick
    <3> QED
      BY <3>1, <3>2
  <2>2. CASE rec.phase \in {"starting", "spawning"}
    <3> DEFINE one == rec.age + 1
    <3>1. rec' = [rec EXCEPT !.age = one]
      BY <2>2 DEF Tick
    <3> HIDE DEF one
    <3>2. /\ rec'.phase = rec.phase /\ rec'.todo = rec.todo /\ rec'.target = rec.target
          /\ rec'.age = one
      BY <1>0, <3>1 DEF TypeOK
    <3> QED
      BY <2>1, <2>2, <3>2 DEF one
  <2>3. CASE ~(rec.phase \in {"starting", "spawning"})
    BY <2>1, <2>3 DEF Tick
  <2> QED
    BY <2>2, <2>3
<1>4. \/ ticker' = ticker
      \/ ticker'.elapsed = ticker.elapsed + 1 /\ ticker.elapsed + 1 < ReconcileInterval
         /\ ticker'.pending = ticker.pending
      \/ /\ rec.phase = "idle" /\ ~ticker.pending /\ ticker.elapsed + 1 >= ReconcileInterval
         /\ ticker'.elapsed = 0 /\ ticker'.pending
  <2> DEFINE one == ticker.elapsed + 1
  <2>1. one \in Nat /\ ReconcileInterval \in Nat
    BY <1>0, Ages
  <2>2. ticker \in [on : BOOLEAN, elapsed : 0 .. ReconcileInterval, pending : BOOLEAN]
    BY <1>0 DEF TypeOK
  <2>3. \/ ticker' = ticker
        \/ one < ReconcileInterval /\ ticker' = [ticker EXCEPT !.elapsed = one]
        \/ /\ ~(one < ReconcileInterval) /\ ~ticker.pending /\ rec.phase = "idle"
           /\ ticker' = [ticker EXCEPT !.elapsed = 0, !.pending = TRUE]
    BY DEF Tick, AdvanceTicker
  <2> HIDE DEF one
  <2>4. \/ ticker' = ticker
        \/ one < ReconcileInterval /\ ticker'.elapsed = one /\ ticker'.pending = ticker.pending
        \/ /\ one >= ReconcileInterval /\ ~ticker.pending /\ rec.phase = "idle"
           /\ ticker'.elapsed = 0 /\ ticker'.pending
    <3>1. CASE ticker' = ticker
      BY <3>1
    <3>2. CASE one < ReconcileInterval /\ ticker' = [ticker EXCEPT !.elapsed = one]
      BY <2>2, <3>2
    <3>3. CASE /\ ~(one < ReconcileInterval) /\ ~ticker.pending /\ rec.phase = "idle"
               /\ ticker' = [ticker EXCEPT !.elapsed = 0, !.pending = TRUE]
      <4>1. one >= ReconcileInterval
        BY <2>1, <3>3
      <4>2. ticker'.elapsed = 0 /\ ticker'.pending
        BY <2>2, <3>3
      <4> QED
        BY <3>3, <4>1, <4>2
    <3> QED
      BY <2>3, <3>1, <3>2, <3>3
  <2> QED
    BY <2>4 DEF one
<1>5. ASSUME NEW k \in Session
      PROVE  /\ Since[k] >= ticker.elapsed + 1 => Since'[k] >= ticker'.elapsed + 1
             /\ Since'[k] >= Since[k]
             /\ Since[k] - rec.age >= MinSpawnInterval => Since'[k] - rec'.age >= MinSpawnInterval
             /\ Since[k] >= ticker.elapsed + 1 /\ ticker.elapsed + 1 >= ReconcileInterval =>
                  Since'[k] >= MinSpawnInterval
             /\ ticker'.elapsed = 0 => Since'[k] >= ticker'.elapsed + 1
  <2>0. Since'[k] = spawnAge'[k] + late'[k] /\ Since[k] = spawnAge[k] + late[k]
    BY DEF Since
  <2>1. /\ Since[k] \in Nat /\ Since'[k] \in Nat
        /\ Since'[k] >= OldAge \/ Since'[k] = Since[k] + 1
        /\ Since'[k] >= Since[k]
    BY <1>0, <1>1, <1>2, <2>0, Ages
  <2>2. /\ rec.age \in Nat /\ ticker.elapsed \in Nat /\ ticker.elapsed <= ReconcileInterval
        /\ MinSpawnInterval \in Nat /\ LongBackoff \in Nat /\ ReconcileInterval \in Nat
        /\ OldAge = MinSpawnInterval + LongBackoff + ReconcileInterval /\ ReconcileInterval >= 1
    BY <1>0, Ages
  <2>3. MinSpawnInterval <= ReconcileInterval
    BY SpawnAssumption
  <2>4. rec'.age \in {rec.age, rec.age + 1}
    BY <1>3
  <2>5. ticker'.elapsed \in {0, ticker.elapsed} \/ (ticker'.elapsed = ticker.elapsed + 1
           /\ ticker.elapsed + 1 < ReconcileInterval)
    BY <1>4
  <2> QED
    BY <1>3, <2>1, <2>2, <2>3, <2>4, <2>5
<1>6. ForgottenLongAgo'
  <2>1. ASSUME NEW k \in Session, Ticked' PROVE Since'[k] >= ticker'.elapsed + 1
    BY <1>3, <1>4, <1>5, <2>1 DEF Ticked, SpacedInv, ForgottenLongAgo
  <2>2. ASSUME NEW k \in Session, states'[k] = Absent
        PROVE  /\ Since'[k] >= ticker'.elapsed + 1
               /\ Ticked' => Since'[k] >= MinSpawnInterval
               /\ rec'.phase \in {"starting", "spawning"} /\ k \in rec'.todo =>
                    Since'[k] - rec'.age >= MinSpawnInterval
    <3>1. /\ states[k] = Absent /\ Since[k] >= ticker.elapsed + 1
          /\ Ticked => Since[k] >= MinSpawnInterval
          /\ rec.phase \in {"starting", "spawning"} /\ k \in rec.todo =>
               Since[k] - rec.age >= MinSpawnInterval
      BY <1>2, <2>2 DEF SpacedInv, ForgottenLongAgo
    <3>2. Since[k] \in Nat /\ Since'[k] \in Nat /\ MinSpawnInterval \in Nat
      <4>1. Since'[k] = spawnAge'[k] + late'[k]
        BY DEF Since
      <4> QED
        BY <1>0, <1>1, <1>2, <4>1, Ages
    <3>3. Ticked' => Since'[k] >= MinSpawnInterval
      <4>1. Ticked' => Ticked \/ ticker.elapsed + 1 >= ReconcileInterval
        BY <1>3, <1>4 DEF Ticked
      <4> QED
        BY <1>5, <3>1, <3>2, <4>1
    <3> QED
      BY <1>3, <1>5, <3>1, <3>3
  <2>3. /\ rec'.phase = "listed" => rec'.age = 0
        /\ ticker'.pending => rec'.phase \in {"idle", "stopped"}
    BY <1>3, <1>4 DEF SpacedInv, ForgottenLongAgo
  <2> QED
    BY <2>1, <2>2, <2>3 DEF ForgottenLongAgo
<1>7. StartsRemembered'
  <2>1. ASSUME NEW k \in Session, states[k] # Absent, states[k].startAge <= Since[k]
        PROVE  states'[k].startAge <= Since'[k]
    <3>1. Since'[k] = spawnAge'[k] + late'[k] /\ Since[k] = spawnAge[k] + late[k]
      BY DEF Since
    <3> QED
      <4>1. /\ spawnAge'[k] = OldAge \/ spawnAge'[k] = spawnAge[k] + 1
            /\ late'[k] = late[k] /\ late[k] \in Nat /\ spawnAge[k] \in Nat
        BY <1>0, <1>1, <1>2, Ages
      <4>2. /\ states'[k].startAge <= OldAge /\ states'[k].startAge \in Nat /\ OldAge \in Nat
            /\ states'[k].startAge <= states[k].startAge + 1 /\ states[k].startAge \in Nat
        <5>1. /\ states[k].startAge \in Nat /\ states[k].startAge <= OldAge /\ OldAge \in Nat
              /\ states'[k].startAge = Older(states[k].startAge)
          BY <1>0, <1>2, <2>1, Ages
        <5> QED
          BY <5>1 DEF Older
      <4> QED
        BY <2>1, <3>1, <4>1, <4>2
  <2>2. rec.phase = "spawning" => rec.target \in Session
    BY <1>0 DEF IndInv, Links, TargetIdle
  <2> QED
    BY <1>2, <1>3, <1>5, <2>1, <2>2 DEF SpacedInv, StartsRemembered
<1> QED
  BY <1>6, <1>7

LEMMA SpacedStep == SpacedInv /\ [Next]_vars => SpacedInv'
<1> SUFFICES ASSUME SpacedInv, [Next]_vars PROVE ForgottenLongAgo' /\ StartsRemembered'
  BY IndInvStep DEF SpacedInv
<1>1. ASSUME \/ \E k \in Session : SessionChanges(k)
             \/ \E h \in Helper : \/ HelperExits(h) \/ HelperDies(h) \/ Sample(h) \/ LineTooLong(h)
                                  \/ PipeCloses(h) \/ Kill(h) \/ Wait(h) \/ RemoveSample(h)
             \/ UNCHANGED vars
      PROVE  ForgottenLongAgo' /\ StartsRemembered'
  <2>1. UNCHANGED <<rec, ticker, Since, states>>
    BY <1>1 DEF SessionChanges, HelperExits, HelperDies, Sample, LineTooLong, PipeCloses, Kill, Wait,
                RemoveSample, supVars, vars, Since
  <2> QED
    BY <2>1, SpacedKept
<1> QED
  BY <1>1, SpacedFinish, SpacedLoop, SpacedSweep, SpacedConsider, SpacedSpawn, SpacedTick
     DEF Next, Reconcile, Watch

\* Two spawns in a session are a spawn interval apart, less the time the former
\* was late in its reconcile, however sessions come and go and helpers end: even
\* one that is forgotten comes back a tick later at the earliest
\* (nextSpawnAllowed in backoff.go, reconcile and Run in supervisor.go).
THEOREM SpawnsAreSpaced == Spec => SpawnsSpaced
<1>1. Init => SpacedInv
  BY TypeInit, LinksInit, SpacedInit DEF SpacedInv, IndInv
<1>2. SpacedInv /\ [Next]_vars => SpacedInv'
  BY SpacedStep
<1>3. SpacedInv /\ [Next]_vars =>
        [\A k \in Session : Spawns(k) => spawnAge[k] + late[k] >= MinSpawnInterval]_vars
  <2> SUFFICES ASSUME SpacedInv, Next, NEW k \in Session, Spawns(k)
               PROVE  spawnAge[k] + late[k] >= MinSpawnInterval
    OBVIOUS
  <2>1. IndInv /\ TypeOK
    BY DEF SpacedInv, IndInv
  <2>2. PICK h \in alive' \ alive : home'[h] = k
    BY DEF Spawns
  <2>3. ASSUME NEW g \in Helper, Spawn(g) PROVE spawnAge[k] + late[k] >= MinSpawnInterval
    <3>1. /\ rec.phase = "spawning" /\ home' = [home EXCEPT ![g] = rec.target]
          /\ alive' = alive \cup {g} /\ home \in [Helper -> Session \cup {NoSession}]
      BY <2>1, <2>3 DEF Spawn, TypeOK
    <3>2. k = rec.target
      BY <2>2, <3>1
    <3>3. Since[k] - rec.age >= MinSpawnInterval
      BY <3>1, <3>2 DEF SpacedInv, StartsRemembered
    <3>4. Since[k] \in Nat /\ rec.age \in Nat /\ MinSpawnInterval \in Nat
      BY <2>1, Ages
    <3> QED
      BY <3>3, <3>4 DEF Since
  <2> QED
    BY <2>2, <2>3
       DEF Next, Reconcile, Watch, SessionChanges, HelperExits, HelperDies, Sample, LineTooLong,
           PipeCloses, Kill, Wait, RemoveSample, FinishWatch, List, Sweep, FinishReconcile,
           NotPrivileged, Consider, ListFails, SpawnFails, Shutdown, Tick, procVars
<1> QED
  BY <1>1, <1>2, <1>3, PTL DEF Spec, SpawnsSpaced
===============================================================================
