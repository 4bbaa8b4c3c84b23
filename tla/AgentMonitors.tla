---------------------------- MODULE AgentMonitors ----------------------------
(***************************************************************************)
(* What feeds an agent's usage counters.  runAgent starts the watcher of   *)
(* its platform - the event pipeline on Windows (ProcessMonitor), the      *)
(* polling watcher on macOS (MacMonitor) - and on both the foreground      *)
(* poller with its hub (ForegroundPoller).  To the watchers the poller is  *)
(* no more than the time it gives a pid (ProcessMonitor's ForegroundTick), *)
(* so a behaviour here is one of the three.                                *)
(***************************************************************************)
EXTENDS ProcessMonitor, MacMonitor, ForegroundPoller

VARIABLE monitor

monitorVars == <<vars, macVars, seatVars, monitor>>

MonitorsInit ==
  /\ Init /\ MacInit /\ SeatInit
  /\ monitor \in {"events", "polling", "foreground"}

OnWindows == monitor = "events" /\ Next /\ UNCHANGED <<macVars, seatVars, monitor>>
OnMac == monitor = "polling" /\ MacNext /\ UNCHANGED <<vars, seatVars, monitor>>
AtSeats == monitor = "foreground" /\ SeatNext /\ UNCHANGED <<vars, macVars, monitor>>

MonitorsNext == OnWindows \/ OnMac \/ AtSeats

MonitorsSpec == MonitorsInit /\ [][MonitorsNext]_monitorVars
=============================================================================
