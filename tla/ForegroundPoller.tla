--------------------------- MODULE ForegroundPoller ---------------------------
(***************************************************************************)
(* Foreground time: the hub of the session helpers' samples                *)
(* (agent/internal/session/hub.go, helper.go), the poller that credits     *)
(* them (agent/internal/monitor/foreground_poller.go) and the idle cutoff  *)
(* (idleThreshold in agent/cmd/agent/helpers.go).                          *)
(*                                                                         *)
(* A helper can stop without exiting: its last sample stays in the hub,    *)
(* says the user was at the keyboard, and nothing but its age stops the    *)
(* poller from crediting it.  Time passes in units of the poller's         *)
(* Interval, and ages are counted as far as they are told apart.  The      *)
(* helpers' processes are module HelperSupervisor.                         *)
(***************************************************************************)
EXTENDS Naturals

CONSTANTS
  Seat,        \* user sessions, each with at most one helper
  FreshFor,    \* FreshFor
  Cutoffs,     \* the cutoffs administrators choose from; 0 is no exclusion
  Configured,  \* the cutoff in the agent's own configuration
  MaxCutoffChanges  \* bound

ASSUME SeatAssumption ==
  /\ FreshFor \in Nat /\ Configured \in Cutoffs
  /\ Cutoffs \subseteq Nat /\ \E c \in Cutoffs : \A d \in Cutoffs : d <= c
  /\ MaxCutoffChanges \in Nat

VARIABLES
  input,    \* time since the last key or mouse event at each seat
  front,    \* whether a window of each seat is in the foreground
  helper,   \* "off", "on", or "hung": alive and silent
  latest,   \* Hub.latest: the last sample of each seat's helper
  cutoff,   \* idleThreshold.current
  changes,  \* changes of the cutoff
  elapsed,  \* time since the poller's last tick
  credit    \* what this instant's tick gave each seat: OnIdle, IncrementForeground

seatVars == <<input, front, helper, latest, cutoff, changes, elapsed, credit>>

\* Beyond this no age matters.
Longest == FreshFor + 1 + CHOOSE c \in Cutoffs : \A d \in Cutoffs : d <= c

Older(age) == IF age = Longest THEN age ELSE age + 1

\* A gap far beyond the interval: the machine slept.
Plausible == elapsed <= 4

NoSample == [window |-> FALSE, idle |-> 0, age |-> Longest, measured |-> FALSE]
Nothing == [s \in Seat |-> "nothing"]

SeatInit ==
  /\ input = [s \in Seat |-> 0]
  /\ front = [s \in Seat |-> FALSE]
  /\ helper = [s \in Seat |-> "off"]
  /\ latest = [s \in Seat |-> NoSample]
  /\ cutoff = Configured
  /\ changes = 0
  /\ elapsed = 0
  /\ credit = Nothing

-----------------------------------------------------------------------------
(* The users, their helpers and the administrator.                         *)

\* Time passes, whether or not the agent gets to run.
Pass ==
  /\ input' = [s \in Seat |-> Older(input[s])]
  /\ latest' = [s \in Seat |-> IF latest[s] = NoSample THEN NoSample
                               ELSE [latest[s] EXCEPT !.age = Older(@)]]
  /\ elapsed' = IF Plausible THEN elapsed + 1 ELSE elapsed
  /\ credit' = Nothing
  /\ UNCHANGED <<front, helper, cutoff, changes>>

Touch(s) ==
  /\ input' = [input EXCEPT ![s] = 0]
  /\ UNCHANGED <<front, helper, latest, cutoff, changes, elapsed, credit>>

SwitchWindow(s) ==
  /\ front' = [front EXCEPT ![s] = ~@]
  /\ UNCHANGED <<input, helper, latest, cutoff, changes, elapsed, credit>>

HelperStarts(s) ==
  /\ helper[s] = "off"
  /\ helper' = [helper EXCEPT ![s] = "on"]
  /\ UNCHANGED <<input, front, latest, cutoff, changes, elapsed, credit>>

HelperHangs(s) ==
  /\ helper[s] = "on"
  /\ helper' = [helper EXCEPT ![s] = "hung"]
  /\ UNCHANGED <<input, front, latest, cutoff, changes, elapsed, credit>>

\* Hub.Remove, when the helper has exited or was cut off for a bad line.
HelperExits(s) ==
  /\ helper[s] # "off"
  /\ helper' = [helper EXCEPT ![s] = "off"]
  /\ latest' = [latest EXCEPT ![s] = NoSample]
  /\ UNCHANGED <<input, front, cutoff, changes, elapsed, credit>>

\* RunHelper's emit, ReadSamples and Hub.Update.  An idle time that cannot be
\* determined is sent as 0.
Report(s, measured) ==
  /\ helper[s] = "on"
  /\ latest' = [latest EXCEPT ![s] =
       [window |-> front[s], idle |-> IF measured THEN input[s] ELSE 0,
        age |-> 0, measured |-> measured]]
  /\ UNCHANGED <<input, front, helper, cutoff, changes, elapsed, credit>>

\* idleThreshold.Apply, with each registration's settings.
ApplyCutoff(c) ==
  /\ c # cutoff /\ changes < MaxCutoffChanges
  /\ cutoff' = c /\ changes' = changes + 1
  /\ UNCHANGED <<input, front, helper, latest, elapsed, credit>>

-----------------------------------------------------------------------------
(* The poller.                                                             *)

AnySample == {s \in Seat : latest[s] # NoSample}

\* Hub.Fresh.
FreshSeats == {s \in Seat : latest[s] # NoSample /\ latest[s].age <= FreshFor}

IsIdle(s) == cutoff > 0 /\ latest[s].idle >= cutoff

\* tick for the samples of the seats S.
CreditOf(S) ==
  [s \in Seat |-> IF s \notin S \/ ~latest[s].window THEN "nothing"
                  ELSE IF IsIdle(s) THEN "idle" ELSE "foreground"]

\* tick when no helper delivers: the agent's own lookup, without idle time,
\* finds the window of one seat at most.
LegacyCredit(console) ==
  [s \in Seat |-> IF s = console /\ front[s] THEN "legacy" ELSE "nothing"]

PollTick ==
  /\ elapsed > 0 /\ elapsed' = 0
  /\ IF ~Plausible THEN credit' = Nothing
     ELSE IF FreshSeats # {} THEN credit' = CreditOf(FreshSeats)
     ELSE \E console \in Seat : credit' = LegacyCredit(console)
  /\ UNCHANGED <<input, front, helper, latest, cutoff, changes>>

SeatNext ==
  \/ Pass
  \/ \E s \in Seat : Touch(s) \/ SwitchWindow(s) \/ HelperStarts(s) \/ HelperHangs(s)
                     \/ HelperExits(s) \/ (\E m \in BOOLEAN : Report(s, m))
  \/ \E c \in Cutoffs : ApplyCutoff(c)
  \/ PollTick

-----------------------------------------------------------------------------
(* Properties.                                                             *)

\* A seat where idle time is measured earns foreground time only while its user
\* was active within the cutoff and FreshFor before the tick, also when its
\* helper hangs or restarts, or the cutoff changes between the sample and the
\* tick.  (The agent's own lookup knows no idle time.)
CreditFollowsInput ==
  [][PollTick => \A s \in Seat :
       credit'[s] = "foreground" /\ latest[s].measured /\ cutoff > 0
         => input[s] < cutoff + FreshFor]_seatVars
=============================================================================
