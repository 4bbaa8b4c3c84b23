---------------------------- MODULE UpdateRollout ----------------------------
(***************************************************************************)
(* The staggered self-update of the fleet.  An agent's heartbeat is        *)
(* answered with an update or without one (RegisterAgent in                *)
(* server/internal/api/agents.go, decideRolloutUpdate in rollout.go); the  *)
(* slots that bound how many agents update at once are two columns of the  *)
(* agents table, claimed under an advisory lock (ClaimUpdateSlot in        *)
(* server/internal/store/postgres.go).  The agent that is given an update  *)
(* installs it if its own window allows and no install is under way        *)
(* (RunHeartbeat and launchSelfUpdate in                                   *)
(* agent/internal/enrollment/client.go).                                   *)
(*                                                                         *)
(* Handlers of different agents run side by side and every statement of    *)
(* one is an action; an agent sends its next heartbeat when the previous   *)
(* request is over.  A version is a number and stands for its installer    *)
(* too; rollout is enabled; one platform.  Time only ages the offers.      *)
(***************************************************************************)
EXTENDS Integers, FiniteSets

CONSTANTS
  Agent,
  Override,       \* the setmaintenance marker of each agent: "on", "off", "auto"
  MaxConcurrent,  \* RolloutMaxConcurrent; 0 is unlimited
  Grace,          \* RolloutGraceSeconds, in clock units
  NoUpdate,       \* the empty URL
  NoPin,          \* the empty TargetAgentVersion
  NoOffer,        \* update_offered_at is NULL
  MaxVersion,     \* bound: the newest version ever published
  MaxWait,        \* bound: age of a claim's transaction, in clock units
  MaxFaults,      \* bound: lost answers, failed handlers, failed installs, crashes
  MaxChanges      \* bound: changes of the pin, closings of the window, forced updates

ASSUME RolloutAssumption ==
  /\ IsFiniteSet(Agent)
  /\ Override \in [Agent -> {"on", "off", "auto"}]
  /\ {MaxConcurrent, MaxVersion, MaxWait, MaxFaults, MaxChanges} \subseteq Nat
  /\ Grace \in Nat \ {0}
  /\ NoUpdate \notin Nat /\ NoPin \notin Nat /\ NoOffer \notin Nat

VARIABLES
  published,   \* the newest installer on the server
  pin,         \* TargetAgentVersion
  windowOpen,  \* whether the maintenance window is open now
  row,         \* the rollout columns of each agent's row
  request,     \* the heartbeat each agent has under way
  installed,   \* the version each agent runs
  updating,    \* the update each agent has under way
  faults, changes

fleetVars  == <<published, pin, windowOpen, changes>>
agentVars  == <<installed, updating>>
vars == <<fleetVars, row, request, agentVars, faults>>

Version == 0 .. MaxVersion
Oldest  == Grace + MaxWait   \* ages are told apart up to here

Row == [offered : 0 .. Oldest \cup {NoOffer},   \* age of update_offered_at
        target : Version \cup {NoPin},          \* update_target_version
        pending : Version \cup {NoUpdate}]

Request == [phase : {"idle", "decide", "claim", "locked", "answered"},
            version : Version,                  \* the version reported
            pin : Version \cup {NoPin},         \* the settings read
            target : Version \cup {NoPin},
            url : Version \cup {NoUpdate},      \* the answer
            wait : 0 .. MaxWait,                \* age of the transaction
            gone : BOOLEAN]                     \* the client no longer listens

TypeOK ==
  /\ published \in Version
  /\ pin \in Version \cup {NoPin}
  /\ windowOpen \in BOOLEAN
  /\ row \in [Agent -> Row]
  /\ request \in [Agent -> Request]
  /\ installed \in [Agent -> Version]
  /\ updating \in [Agent -> Version \cup {NoUpdate}]
  /\ faults \in 0 .. MaxFaults /\ changes \in 0 .. MaxChanges

EmptyRow == [offered |-> NoOffer, target |-> NoPin, pending |-> NoUpdate]
IdleRequest == [phase |-> "idle", version |-> 0, pin |-> NoPin, target |-> NoPin,
                url |-> NoUpdate, wait |-> 0, gone |-> FALSE]

Init ==
  /\ published = 0 /\ pin = NoPin
  /\ windowOpen = TRUE
  /\ row = [a \in Agent |-> EmptyRow]
  /\ request = [a \in Agent |-> IdleRequest]
  /\ installed = [a \in Agent |-> 0]
  /\ updating = [a \in Agent |-> NoUpdate]
  /\ faults = 0 /\ changes = 0

-----------------------------------------------------------------------------
(* The heartbeat on the server.                                            *)

\* The handler's other locals are dead then.
Answer(a, url) ==
  request' = [request EXCEPT ![a] = [IdleRequest EXCEPT
    !.phase = "answered", !.url = url, !.pin = request[a].pin, !.gone = request[a].gone]]

\* UPDATE ... SET pending_update = '' ... RETURNING pending_update.
TakePending(a) == [row[a] EXCEPT !.pending = NoUpdate]

\* RETURNING gives the columns of the row as updated.
Taken(a) == TakePending(a).pending

\* The settings are read, the row is upserted (its rollout columns keep their
\* values), and a pending update is taken.
RegisterAgent(a) ==
  /\ request[a].phase = "idle"
  /\ row' = [row EXCEPT ![a] = TakePending(a)]
  /\ request' = [request EXCEPT ![a] = [IdleRequest EXCEPT
       !.phase = IF Taken(a) = NoUpdate THEN "decide" ELSE "answered",
       !.url = Taken(a), !.version = installed[a], !.pin = pin]]
  /\ UNCHANGED <<fleetVars, agentVars, faults>>

Target(p) == IF p = NoPin THEN published ELSE p

\* isVersionBelow: the agent is only moved forward.
Candidate(a) == request[a].version < Target(request[a].pin)

ReleaseUpdateSlot(a) ==
  /\ request[a].phase = "decide" /\ ~Candidate(a)
  /\ row' = [row EXCEPT ![a].offered = NoOffer, ![a].target = NoPin]
  /\ Answer(a, NoUpdate)
  /\ UNCHANGED <<fleetVars, agentVars, faults>>

OutsideWindow(a) ==
  /\ request[a].phase = "decide" /\ Candidate(a)
  /\ ~windowOpen
  /\ Answer(a, NoUpdate)
  /\ UNCHANGED <<fleetVars, row, agentVars, faults>>

\* An offer counts until its agent reports the target.
NeverLapses(b, w) == row[b].offered # NoOffer

\* Whether b's offer is younger than the grace period at the start of a
\* transaction of age w: NOW() is that start.
InFlightAt(b, w) == row[b].offered # NoOffer /\ row[b].offered - w < Grace

\* The pre-check, before the lock: the agent holds a slot for this target.
RenewSlot(a) ==
  /\ request[a].phase = "decide" /\ Candidate(a) /\ windowOpen
  /\ InFlightAt(a, 0) /\ row[a].target = Target(request[a].pin)
  /\ Answer(a, NoUpdate)
  /\ UNCHANGED <<fleetVars, row, agentVars, faults>>

BeginClaim(a) ==
  /\ request[a].phase = "decide" /\ Candidate(a) /\ windowOpen
  /\ ~(InFlightAt(a, 0) /\ row[a].target = Target(request[a].pin))
  /\ request' = [request EXCEPT ![a].phase = "claim",
                                ![a].target = Target(request[a].pin)]
  /\ UNCHANGED <<fleetVars, row, agentVars, faults>>

\* The claims are not serialized.
NoLock == TRUE

\* pg_advisory_xact_lock is free.
LockFree == \A b \in Agent : request[b].phase # "locked"

Others(a) == {b \in Agent \ {a} : InFlightAt(b, request[a].wait)}

BudgetFull(a) == MaxConcurrent > 0 /\ Cardinality(Others(a)) >= MaxConcurrent

CountSlots(a) ==
  /\ request[a].phase = "claim" /\ LockFree
  /\ IF BudgetFull(a) THEN Answer(a, NoUpdate)
                      ELSE request' = [request EXCEPT ![a].phase = "locked"]
  /\ UNCHANGED <<fleetVars, row, agentVars, faults>>

\* The slot is stamped with NOW(), the transaction commits, and the newest
\* installer is the answer.
StampSlot(a) ==
  /\ request[a].phase = "locked"
  /\ row' = [row EXCEPT ![a].offered = request[a].wait,
                        ![a].target = request[a].target]
  /\ Answer(a, published)
  /\ UNCHANGED <<fleetVars, agentVars, faults>>

\* An error or a cancelled context ends the handler, whose transaction rolls back.
HandlerFails(a) ==
  /\ request[a].phase # "idle" /\ faults < MaxFaults
  /\ faults' = faults + 1
  /\ request' = [request EXCEPT ![a] = IdleRequest]
  /\ UNCHANGED <<fleetVars, row, agentVars>>

ForceAgentUpdate(a) ==
  /\ changes < MaxChanges
  /\ row' = [row EXCEPT ![a].pending = published]
  /\ changes' = changes + 1
  /\ UNCHANGED <<published, pin, windowOpen, request, agentVars, faults>>

-----------------------------------------------------------------------------
(* The agent.                                                              *)

InMaintenanceWindow(a) == Override[a] = "on" \/ (Override[a] = "auto" /\ windowOpen)

\* An update that comes outside the window or during another is dropped.
ReceiveAnswer(a) ==
  /\ request[a].phase = "answered" /\ ~request[a].gone
  /\ updating' = IF /\ request[a].url # NoUpdate
                    /\ InMaintenanceWindow(a) /\ updating[a] = NoUpdate
                 THEN [updating EXCEPT ![a] = request[a].url] ELSE updating
  /\ request' = [request EXCEPT ![a] = IdleRequest]
  /\ UNCHANGED <<fleetVars, row, installed, faults>>

\* The HTTP timeout passes: the server goes on with the request.
ClientGivesUp(a) ==
  /\ request[a].phase # "idle" /\ ~request[a].gone
  /\ faults < MaxFaults
  /\ faults' = faults + 1
  /\ request' = [request EXCEPT ![a].gone = TRUE]
  /\ UNCHANGED <<fleetVars, row, agentVars>>

AnswerUnheard(a) ==
  /\ request[a].phase = "answered" /\ request[a].gone
  /\ request' = [request EXCEPT ![a] = IdleRequest]
  /\ UNCHANGED <<fleetVars, row, agentVars, faults>>

\* The agent's process ends: the update it waited for and its request with it.
Hangup(a) == request' = IF request[a].phase = "idle" THEN request
                        ELSE [request EXCEPT ![a].gone = TRUE]

\* The installer stops the agent and starts the new one.
InstallSucceeds(a) ==
  /\ updating[a] # NoUpdate
  /\ installed' = [installed EXCEPT ![a] = updating[a]]
  /\ updating' = [updating EXCEPT ![a] = NoUpdate]
  /\ Hangup(a)
  /\ UNCHANGED <<fleetVars, row, faults>>

\* No checksum, a failed download, a mismatch, or an installer's error.
InstallFails(a) ==
  /\ updating[a] # NoUpdate /\ faults < MaxFaults
  /\ faults' = faults + 1
  /\ updating' = [updating EXCEPT ![a] = NoUpdate]
  /\ UNCHANGED <<fleetVars, row, request, installed>>

AgentRestarts(a) ==
  /\ faults < MaxFaults
  /\ faults' = faults + 1
  /\ updating' = [updating EXCEPT ![a] = NoUpdate]
  /\ Hangup(a)
  /\ UNCHANGED <<fleetVars, row, installed>>

-----------------------------------------------------------------------------
(* The administrator and the clock.                                        *)

Publish ==
  /\ published < MaxVersion
  /\ published' = published + 1
  /\ UNCHANGED <<pin, windowOpen, changes, row, request, agentVars, faults>>

\* Any version may be pinned, published or not.
SetPin(p) ==
  /\ changes < MaxChanges /\ p # pin
  /\ pin' = p
  /\ changes' = changes + 1
  /\ UNCHANGED <<published, windowOpen, row, request, agentVars, faults>>

WindowCloses ==
  /\ windowOpen /\ changes < MaxChanges
  /\ windowOpen' = FALSE
  /\ changes' = changes + 1
  /\ UNCHANGED <<published, pin, row, request, agentVars, faults>>

WindowOpens ==
  /\ ~windowOpen
  /\ windowOpen' = TRUE
  /\ UNCHANGED <<published, pin, changes, row, request, agentVars, faults>>

\* A transaction ends before it is older than MaxWait.
Tick ==
  /\ \A a \in Agent : request[a].phase \in {"claim", "locked"} => request[a].wait < MaxWait
  /\ row' = [a \in Agent |-> IF row[a].offered \in 0 .. Oldest - 1
                             THEN [row[a] EXCEPT !.offered = @ + 1] ELSE row[a]]
  /\ request' = [a \in Agent |-> IF request[a].phase \in {"claim", "locked"}
                                 THEN [request[a] EXCEPT !.wait = @ + 1] ELSE request[a]]
  /\ UNCHANGED <<fleetVars, agentVars, faults>>

\* One step of the heartbeat loop and of the handler it waits for.
Heartbeat(a) ==
  \/ RegisterAgent(a) \/ ReleaseUpdateSlot(a) \/ OutsideWindow(a)
  \/ RenewSlot(a) \/ BeginClaim(a) \/ CountSlots(a) \/ StampSlot(a)
  \/ ReceiveAnswer(a) \/ AnswerUnheard(a)

Next ==
  \/ \E a \in Agent : Heartbeat(a) \/ HandlerFails(a) \/ ClientGivesUp(a)
  \/ \E a \in Agent : InstallSucceeds(a) \/ InstallFails(a) \/ AgentRestarts(a)
  \/ \E a \in Agent : ForceAgentUpdate(a)
  \/ Publish \/ WindowCloses \/ WindowOpens
  \/ \E p \in Version \cup {NoPin} : SetPin(p)
  \/ Tick

Spec == Init /\ [][Next]_vars

\* The heartbeats of every agent go on, an install that does not fail ends,
\* the window opens again, time passes; faults and changes are never owed.
Fairness ==
  /\ \A a \in Agent : WF_vars(Heartbeat(a)) /\ WF_vars(InstallSucceeds(a))
  /\ WF_vars(WindowOpens) /\ WF_vars(Tick)

FairSpec == Spec /\ Fairness

-----------------------------------------------------------------------------
(* Properties.                                                             *)

InFlight == {a \in Agent : InFlightAt(a, 0)}

\* Never more agents hold a slot within its grace period than the setting
\* allows, whichever handlers run at once and however long a claim waits for
\* the lock (ClaimUpdateSlot: "serialize so the concurrency cap is exact").
BudgetHeld == MaxConcurrent > 0 => Cardinality(InFlight) <= MaxConcurrent

\* While a version is pinned, an answer carries that version's installer or
\* none (server.md: "the server rolls agents forward to the newest installer
\* for their platform ..., or a pinned target_agent_version").
PinRespected ==
  \A a \in Agent :
    request[a].phase = "answered" /\ request[a].url # NoUpdate /\ request[a].pin # NoPin
      => request[a].url = request[a].pin

\* A pending update leaves the row only with the answer that carries it
\* (TakeAgentPendingUpdate: "atomically clears and returns any pending update
\* URL in a single SQL statement").
ForcedUpdateTaken ==
  [][\A a \in Agent : row[a].pending # NoUpdate /\ row'[a].pending = NoUpdate
       => request'[a].url = row[a].pending]_vars

\* Once nothing fails any more, every agent reaches the target, or the newest
\* installer there is, though slots were held by answers that were lost and by
\* installs that failed.
RolloutCompletes ==
  <>[](\A a \in Agent : installed[a] >= Target(pin) \/ installed[a] = published)
=============================================================================
