-------------------------------- MODULE Fleet --------------------------------
(***************************************************************************)
(* The server's registry of agents and labs and what is derived from it:   *)
(* the target file Prometheus discovers agents by (discovery/file_sd.go)   *)
(* and the snapshots it serves of agents that push (api/metrics_store.go). *)
(* Heartbeats (RegisterAgent), pushes, an administrator's requests and the *)
(* stale checker (cmd/server/main.go) run at the same time; each of their  *)
(* SQL statements is one action, as is each use of the snapshot store and  *)
(* of the file.                                                            *)
(***************************************************************************)
EXTENDS Naturals, FiniteSets

CONSTANTS
  Agent,                     \* the agents
  Configurations,            \* which of them run, which of those push, and two
                             \* bounds: the administrator's requests (edits)
                             \* and the statements or writes that fail (failures)
  Room, NoRoom,              \* building and room; an agent may report none
  ReportedRoom,              \* what each agent is configured to report
  Lab, NoLab, Derived,       \* lab ids, and the one derived from each room
  Admin, Checker, Nobody,    \* who else may refresh the targets
  NoRow, Absent, Unlisted,   \* no such agent, lab, target
  OfflineAfter, DeleteAfter, \* the stale checker's two thresholds
  Staleness                  \* age at which a snapshot is no longer served

Row == [lab : Lab \cup {NoLab}, online : BOOLEAN, age : 0 .. DeleteAfter]

ASSUME FleetAssumption ==
  /\ Configurations \subseteq
       [on : SUBSET Agent, pushing : SUBSET Agent, edits : Nat, failures : Nat]
  /\ ReportedRoom \in [Agent -> Room \cup {NoRoom}]
  /\ Derived \in [Room -> Lab]
  /\ OfflineAfter \in Nat \ {0} /\ DeleteAfter \in Nat /\ DeleteAfter >= OfflineAfter
  /\ Staleness \in Nat \ {0}
  /\ NoRow \notin Row /\ NoRoom \notin Room /\ NoLab \notin Lab /\ Absent \notin Room /\ Unlisted \notin Room
  /\ Unlisted # NoRoom /\ Admin # Checker /\ {Admin, Checker} \cap Agent = {}
  /\ Nobody \notin Agent \cup {Admin, Checker}

VARIABLES
  fleet,     \* the configuration, fixed
  row,       \* table agents
  labs,      \* table labs: the room of each
  beat,      \* the UpsertAgent each agent's heartbeat is in
  push,      \* the push of each agent
  admin,     \* the request of the administrator that is between two steps
  sweep,     \* the stale checker has marked and not yet deleted
  waiting,   \* who has changed the tables and not yet refreshed the targets
  refresh,   \* FileSD.mu: who refreshes, and what the query returned
  targets,   \* the target file: the room label of each agent listed
  snapshot,  \* MetricsStore.snapshots: room label and age
  budget,    \* edits and failures so far
  raced,     \* history: rooms whose labs two writers changed at the same time, or
             \* that a failed lookup made look empty
  missed     \* history: a change no refresh has been started for since

tableVars == <<row, labs>>
fileVars  == <<waiting, refresh, targets>>
history   == <<raced, missed>>
vars == <<fleet, tableVars, beat, push, admin, sweep, fileVars, snapshot, budget, history>>

Proc == Agent \cup {Admin, Checker}
Label == Room \cup {NoRoom}
Targets == [Agent -> Label \cup {Unlisted}]
Snapshot == [room : Label, age : 0 .. Staleness]
NoRequest == [op |-> "none"]
NoTargets == [a \in Agent |-> Unlisted]
NoRefresh == [by |-> Nobody, targets |-> NoTargets]

TypeOK ==
  /\ fleet \in Configurations
  /\ row \in [Agent -> Row \cup {NoRow}]
  /\ labs \in [Lab -> Room \cup {Absent}]
  /\ beat \in [Agent -> [at : {"idle", "search", "create", "upsert"}, lab : Lab \cup {NoLab}]]
  /\ push \in [Agent -> [at : {"idle", "verified", "stamped"}, room : Label]]
  /\ admin \in {NoRequest} \cup [op : {"create", "update"}, lab : Lab, room : Room]
               \cup [op : {"delete"}, agent : Agent]
  /\ sweep \in BOOLEAN
  /\ waiting \in SUBSET Proc
  /\ refresh \in [by : waiting \cup {Nobody}, targets : Targets]
  /\ targets \in Targets
  /\ snapshot \in [Agent -> Snapshot \cup {Absent}]
  /\ budget \in [edits : 0 .. fleet.edits, failures : 0 .. fleet.failures]
  /\ raced \in SUBSET Room /\ missed \in BOOLEAN

RoomOf(a) == IF row[a] = NoRow \/ row[a].lab = NoLab THEN NoRoom ELSE labs[row[a].lab]

\* The query behind the target file: agents that are not offline, with their lab.
PrometheusTargets ==
  [a \in Agent |-> IF row[a] # NoRow /\ row[a].online THEN RoomOf(a) ELSE Unlisted]

LabsOf(r) == {l \in Lab : labs[l] = r}

Init ==
  /\ fleet \in Configurations
  /\ row = [a \in Agent |-> NoRow] /\ labs = [l \in Lab |-> Absent]
  /\ beat = [a \in Agent |-> [at |-> "idle", lab |-> NoLab]]
  /\ push = [a \in Agent |-> [at |-> "idle", room |-> NoRoom]]
  /\ admin = NoRequest /\ sweep = FALSE
  /\ waiting = {}
  /\ targets = NoTargets
  /\ refresh = NoRefresh
  /\ snapshot = [a \in Agent |-> Absent]
  /\ budget = [edits |-> 0, failures |-> 0]
  /\ raced = {} /\ missed = FALSE

Fail == budget.failures < fleet.failures /\ budget' = [budget EXCEPT !.failures = @ + 1]

-----------------------------------------------------------------------------
(* A heartbeat: RegisterAgent calls UpsertAgent, then refreshes.           *)

\* SELECT lab_id FROM agents.
BeginHeartbeat(a) ==
  /\ a \in fleet.on /\ beat[a].at = "idle" /\ a \notin waiting
  /\ beat' = [beat EXCEPT ![a] =
       IF row[a] # NoRow /\ row[a].lab # NoLab THEN [at |-> "upsert", lab |-> row[a].lab]
       ELSE [at |-> IF ReportedRoom[a] = NoRoom THEN "upsert" ELSE "search", lab |-> NoLab]]
  /\ UNCHANGED <<fleet, tableVars, push, admin, sweep, fileVars, snapshot, budget, history>>

\* SELECT id FROM labs; a lookup that fails is taken for one that found nothing.
FindLab(a) ==
  LET r == ReportedRoom[a]
  IN /\ beat[a].at = "search"
     /\ \/ /\ \E l \in LabsOf(r) : beat' = [beat EXCEPT ![a] = [at |-> "upsert", lab |-> l]]
           /\ UNCHANGED <<budget, raced>>
        \/ /\ LabsOf(r) = {}
           /\ beat' = [beat EXCEPT ![a].at = "create"]
           /\ UNCHANGED <<budget, raced>>
        \/ /\ Fail
           /\ beat' = [beat EXCEPT ![a].at = "create"]
           /\ raced' = raced \cup {r}
     /\ UNCHANGED <<fleet, tableVars, push, admin, sweep, fileVars, snapshot, missed>>

\* An INSERT that never fails: the lab's id is drawn, not derived from the room.
CreateAnotherLab(a) ==
  /\ beat[a].at = "create"
  /\ \E l \in Lab :
       /\ labs[l] = Absent
       /\ labs' = [labs EXCEPT ![l] = ReportedRoom[a]]
       /\ beat' = [beat EXCEPT ![a] = [at |-> "upsert", lab |-> l]]
  /\ UNCHANGED <<fleet, row, push, admin, sweep, fileVars, snapshot, budget, history>>

\* INSERT INTO labs under the derived id; on a conflict, whichever lab has the
\* room by now, or none.
CreateDerivedLab(a) ==
  LET r == ReportedRoom[a]
      l == Derived[r]
      Found(m) == beat' = [beat EXCEPT ![a] = [at |-> "upsert", lab |-> m]]
  IN /\ beat[a].at = "create"
     /\ \/ /\ labs[l] = Absent
           /\ labs' = [labs EXCEPT ![l] = r]
           /\ Found(l)
           /\ raced' = IF admin.op \in {"create", "update"} /\ admin.room = r
                       THEN raced \cup {r} ELSE raced
        \/ /\ labs[l] # Absent
           /\ IF LabsOf(r) = {} THEN Found(NoLab) ELSE \E m \in LabsOf(r) : Found(m)
           /\ UNCHANGED <<labs, raced>>
     /\ UNCHANGED <<fleet, row, push, admin, sweep, fileVars, snapshot, budget, missed>>

\* The foreign key refuses a lab that is gone.
Refused(l) == l # NoLab /\ labs[l] = Absent

\* The INSERT ON CONFLICT with the lab it leaves in the row; refused, the
\* heartbeat fails and does not refresh.
UpsertWith(a, lab) ==
  /\ beat[a].at = "upsert"
  /\ beat' = [beat EXCEPT ![a] = [at |-> "idle", lab |-> NoLab]]
  /\ IF Refused(lab) THEN UNCHANGED <<row, waiting>>
     ELSE /\ row' = [row EXCEPT ![a] = [lab |-> lab, online |-> TRUE, age |-> 0]]
          /\ waiting' = waiting \cup {a}
  /\ UNCHANGED <<fleet, labs, push, admin, sweep, refresh, targets, snapshot, budget, history>>

\* The statement without COALESCE: what the heartbeat found overwrites the row.
UpsertOverwriting(a) == UpsertWith(a, beat[a].lab)

\* A lab assigned since the heartbeat looked is kept.
Upsert(a) ==
  UpsertWith(a, IF row[a] # NoRow /\ row[a].lab # NoLab THEN row[a].lab ELSE beat[a].lab)

\* The agent gives up on the request, which cancels its context.
HeartbeatFails(a) ==
  /\ beat[a].at # "idle"
  /\ Fail
  /\ beat' = [beat EXCEPT ![a] = [at |-> "idle", lab |-> NoLab]]
  /\ UNCHANGED <<fleet, tableVars, push, admin, sweep, fileVars, snapshot, history>>

-----------------------------------------------------------------------------
(* A push: PushAgentMetrics reads the row, then the lab, then stores.      *)

\* GetAgent is left out: any caller's body is taken.
VerifyNothing(a) ==
  /\ a \in fleet.pushing /\ push[a].at = "idle"
  /\ push' = [push EXCEPT ![a].at = "verified"]
  /\ UNCHANGED <<fleet, tableVars, beat, admin, sweep, fileVars, snapshot, budget, history>>

VerifyPush(a) ==
  /\ a \in fleet.pushing /\ push[a].at = "idle" /\ row[a] # NoRow
  /\ push' = [push EXCEPT ![a].at = "verified"]
  /\ UNCHANGED <<fleet, tableVars, beat, admin, sweep, fileVars, snapshot, budget, history>>

\* GetAgentLabInfo reads nothing back: the label of the last push is kept.
StampAsBefore(a) ==
  /\ push[a].at = "verified"
  /\ push' = [push EXCEPT ![a].at = "stamped", ![a].room =
                IF snapshot[a] = Absent THEN RoomOf(a) ELSE snapshot[a].room]
  /\ UNCHANGED <<fleet, tableVars, beat, admin, sweep, fileVars, snapshot, budget, history>>

\* GetAgentLabInfo; if it fails the body is stored without lab labels.
StampServerLabels(a) ==
  /\ push[a].at = "verified"
  /\ \/ push' = [push EXCEPT ![a] = [at |-> "stamped", room |-> RoomOf(a)]] /\ UNCHANGED budget
     \/ push' = [push EXCEPT ![a] = [at |-> "stamped", room |-> NoRoom]] /\ Fail
  /\ UNCHANGED <<fleet, tableVars, beat, admin, sweep, fileVars, snapshot, history>>

StorePush(a) ==
  /\ push[a].at = "stamped"
  /\ snapshot' = [snapshot EXCEPT ![a] = [room |-> push[a].room, age |-> 0]]
  /\ push' = [push EXCEPT ![a] = [at |-> "idle", room |-> NoRoom]]
  /\ UNCHANGED <<fleet, tableVars, beat, admin, sweep, fileVars, budget, history>>

\* GetAll, and prune.
Served == {a \in Agent : snapshot[a] # Absent /\ snapshot[a].age < Staleness}

Prune ==
  /\ \E a \in Agent : snapshot[a] # Absent /\ snapshot[a].age >= Staleness
  /\ snapshot' = [a \in Agent |-> IF a \in Served THEN snapshot[a] ELSE Absent]
  /\ UNCHANGED <<fleet, tableVars, beat, push, admin, sweep, fileVars, budget, history>>

-----------------------------------------------------------------------------
(* The administrator.                                                      *)

Edit ==
  /\ admin = NoRequest /\ Admin \notin waiting
  /\ budget.edits < fleet.edits
  /\ budget' = [budget EXCEPT !.edits = @ + 1]

\* checkLabCollision: another lab of the room refuses the request; if ListLabs
\* fails there is no check, which counts as a race here.
CheckLabCollision(op, l, r) ==
  /\ \/ Edit /\ LabsOf(r) \subseteq {l} /\ UNCHANGED raced
     \/ /\ admin = NoRequest /\ Admin \notin waiting
        /\ budget.edits < fleet.edits /\ budget.failures < fleet.failures
        /\ budget' = [edits |-> budget.edits + 1, failures |-> budget.failures + 1]
        /\ raced' = raced \cup {r}
  /\ admin' = [op |-> op, lab |-> l, room |-> r]
  /\ UNCHANGED <<fleet, tableVars, beat, push, sweep, fileVars, snapshot, missed>>

\* A created lab has an id of its own.
CreateLab(l, r) == labs[l] = Absent /\ (\A s \in Room : l # Derived[s]) /\ CheckLabCollision("create", l, r)
UpdateLab(l, r) == labs[l] # Absent /\ CheckLabCollision("update", l, r)

\* The INSERT or UPDATE after the check.  Only the update refreshes: nobody is
\* in a lab that was just created.
WriteLab ==
  /\ admin.op \in {"create", "update"}
  /\ labs' = [labs EXCEPT ![admin.lab] = admin.room]
  /\ waiting' = IF admin.op = "update" THEN waiting \cup {Admin} ELSE waiting
  /\ raced' = IF \E a \in Agent : beat[a].at = "create" /\ ReportedRoom[a] = admin.room
              THEN raced \cup {admin.room} ELSE raced
  /\ admin' = NoRequest
  /\ UNCHANGED <<fleet, row, beat, push, sweep, refresh, targets, snapshot, budget, missed>>

\* ON DELETE SET NULL is part of the statement.
DeleteLab(l) ==
  /\ Edit /\ labs[l] # Absent
  /\ labs' = [labs EXCEPT ![l] = Absent]
  /\ row' = [a \in Agent |-> IF row[a] # NoRow /\ row[a].lab = l
                             THEN [row[a] EXCEPT !.lab = NoLab] ELSE row[a]]
  /\ waiting' = waiting \cup {Admin}
  /\ UNCHANGED <<fleet, beat, push, admin, sweep, refresh, targets, snapshot, history>>

AssignAgentToLab(a, l) ==
  /\ Edit /\ row[a] # NoRow
  /\ l # NoLab => labs[l] # Absent
  /\ row' = [row EXCEPT ![a].lab = l]
  /\ waiting' = waiting \cup {Admin}
  /\ UNCHANGED <<fleet, labs, beat, push, admin, sweep, refresh, targets, snapshot, history>>

\* DELETE FROM agents, then metricsStore.Delete and the refresh.
DeleteAgent(a) ==
  /\ Edit /\ row[a] # NoRow
  /\ row' = [row EXCEPT ![a] = NoRow]
  /\ admin' = [op |-> "delete", agent |-> a]
  /\ UNCHANGED <<fleet, labs, beat, push, sweep, fileVars, snapshot, history>>

DropSnapshot ==
  /\ admin.op = "delete"
  /\ snapshot' = [a \in Agent |-> IF a = admin.agent THEN Absent ELSE snapshot[a]]
  /\ admin' = NoRequest
  /\ waiting' = waiting \cup {Admin}
  /\ UNCHANGED <<fleet, tableVars, beat, push, sweep, refresh, targets, budget, history>>

-----------------------------------------------------------------------------
(* The stale checker: mark, refresh, delete.                               *)

\* Offline agents are marked without a refresh of the targets.
MarkSilently ==
  /\ ~sweep /\ Checker \notin waiting
  /\ sweep' = TRUE
  /\ row' = [a \in Agent |-> IF row[a] # NoRow /\ row[a].age >= OfflineAfter
                             THEN [row[a] EXCEPT !.online = FALSE] ELSE row[a]]
  /\ UNCHANGED <<fleet, labs, beat, push, admin, fileVars, snapshot, budget, history>>

\* If the UPDATE fails there is no refresh, and the DELETE follows all the same.
MarkStaleAgents ==
  /\ ~sweep /\ Checker \notin waiting
  /\ sweep' = TRUE
  /\ \/ /\ row' = [a \in Agent |-> IF row[a] # NoRow /\ row[a].age >= OfflineAfter
                                   THEN [row[a] EXCEPT !.online = FALSE] ELSE row[a]]
        /\ waiting' = waiting \cup {Checker}
        /\ UNCHANGED budget
     \/ Fail /\ UNCHANGED <<row, waiting>>
  /\ UNCHANGED <<fleet, labs, beat, push, admin, refresh, targets, snapshot, history>>

DeleteStaleAgents ==
  LET stale == {a \in Agent : row[a] # NoRow /\ row[a].age >= DeleteAfter}
  IN /\ sweep /\ Checker \notin waiting
     /\ sweep' = FALSE
     /\ row' = [a \in Agent |-> IF a \in stale THEN NoRow ELSE row[a]]
     /\ missed' = (missed \/ \E a \in stale : row[a].online)
     /\ UNCHANGED <<fleet, labs, beat, push, admin, fileVars, snapshot, budget, raced>>

-----------------------------------------------------------------------------
(* FileSD.Refresh: query and write under one mutex.                        *)

\* The mutex is only taken for the write.
QueryUnlocked(p) ==
  /\ p \in waiting
  /\ refresh' = [by |-> p, targets |-> IF refresh.by = Nobody THEN PrometheusTargets
                                       ELSE refresh.targets]
  /\ missed' = FALSE
  /\ UNCHANGED <<fleet, tableVars, beat, push, admin, sweep, waiting, targets, snapshot, budget, raced>>

BeginRefresh(p) ==
  /\ p \in waiting /\ refresh.by = Nobody
  /\ refresh' = [by |-> p, targets |-> PrometheusTargets]
  /\ missed' = FALSE
  /\ UNCHANGED <<fleet, tableVars, beat, push, admin, sweep, waiting, targets, snapshot, budget, raced>>

\* Temporary file and rename.
WriteTargets ==
  /\ refresh.by # Nobody
  /\ targets' = refresh.targets
  /\ waiting' = waiting \ {refresh.by}
  /\ refresh' = NoRefresh
  /\ UNCHANGED <<fleet, tableVars, beat, push, admin, sweep, snapshot, budget, history>>

\* The query or the write fails, or the request's context has ended: it is logged.
RefreshFails(p) ==
  /\ p \in waiting
  /\ Fail
  /\ waiting' = waiting \ {p}
  /\ refresh' = IF refresh.by = p THEN NoRefresh ELSE refresh
  /\ missed' = TRUE
  /\ UNCHANGED <<fleet, tableVars, beat, push, admin, sweep, targets, snapshot, raced>>

-----------------------------------------------------------------------------
Older(x, limit) == IF x < limit THEN x + 1 ELSE x

Tick ==
  /\ row' = [a \in Agent |-> IF row[a] = NoRow THEN NoRow
                             ELSE [row[a] EXCEPT !.age = Older(@, DeleteAfter)]]
  /\ snapshot' = [a \in Agent |-> IF snapshot[a] = Absent THEN Absent
                                    ELSE [snapshot[a] EXCEPT !.age = Older(@, Staleness)]]
  /\ UNCHANGED <<fleet, labs, beat, push, admin, sweep, fileVars, budget, history>>

Next ==
  \/ \E a \in Agent : \/ BeginHeartbeat(a) \/ FindLab(a) \/ CreateDerivedLab(a)
                      \/ Upsert(a) \/ HeartbeatFails(a)
                      \/ DeleteAgent(a)
                      \/ \E l \in Lab \cup {NoLab} : AssignAgentToLab(a, l)
  \/ \E a \in Agent : VerifyPush(a) \/ StampServerLabels(a) \/ StorePush(a)
  \/ \E l \in Lab : DeleteLab(l) \/ \E r \in Room : CreateLab(l, r) \/ UpdateLab(l, r)
  \/ WriteLab \/ DropSnapshot \/ Prune
  \/ MarkStaleAgents \/ DeleteStaleAgents
  \/ \E p \in Proc : BeginRefresh(p) \/ RefreshFails(p)
  \/ WriteTargets
  \/ Tick

Spec == Init /\ [][Next]_vars

\* The stale checker's ticker, requests that have begun, pushes and time go on.
\* Heartbeats owe nothing: an agent may be switched off.  The mutex goes to some
\* waiter, and any refresh writes the whole table.
FairSpec ==
  /\ Spec
  /\ WF_vars(MarkStaleAgents) /\ WF_vars(DeleteStaleAgents)
  /\ WF_vars(\E p \in Proc : BeginRefresh(p)) /\ WF_vars(WriteTargets)
  /\ WF_vars(DropSnapshot) /\ WF_vars(WriteLab)
  /\ \A a \in Agent :
       WF_vars(VerifyPush(a)) /\ WF_vars(StampServerLabels(a)) /\ WF_vars(StorePush(a))
  /\ WF_vars(Tick)

-----------------------------------------------------------------------------
(* Properties.                                                             *)

\* When every handler has done its refresh, and none has failed since, the
\* file says what the tables say, however the refreshes and the statements of
\* the handlers interleaved (FileSD.Refresh holds its mutex from the query on).
TargetsCurrent ==
  waiting = {} /\ ~missed /\ admin.op # "delete"
    => targets = PrometheusTargets

\* A room has two labs only where an administrator's request and another
\* writer overlapped, or a lookup failed; heartbeats that run at the same time
\* never split a room (checkLabCollision and UpsertAgent's derived id).
OneLabPerRoom == \A r \in Room : Cardinality(LabsOf(r)) > 1 => r \in raced

\* An agent leaves the lab it is in only by an assignment of the administrator
\* or because the lab is deleted: "Don't overwrite existing lab assignment if
\* already set manually" (postgres.go).
AssignmentKept ==
  [][\A a \in Agent :
       row[a] # NoRow /\ row[a].lab # NoLab /\ row'[a] # NoRow =>
         \/ row'[a].lab = row[a].lab
         \/ labs'[row[a].lab] = Absent
         \/ \E l \in Lab \cup {NoLab} : AssignAgentToLab(a, l)]_vars

\* What the tables say of an agent, and go on saying, the file says in the end:
\* failed refreshes and deletions without one are made up for.
TargetsFollow ==
  \A a \in Agent : \A t \in Label \cup {Unlisted} :
    <>[](PrometheusTargets[a] = t) => <>[](targets[a] = t)

\* An agent that is deleted and does not come back is no longer served in the
\* end, even if a push verified before the deletion stored its body after it.
DeletedUnserved ==
  \A a \in Agent : <>[](row[a] = NoRow) => <>[](a \notin Served)

\* The series of an agent bear its lab in the end, whatever labels a failed
\* lookup or an assignment under way gave an earlier body.
LabelsFollow ==
  \A a \in Agent : \A r \in Room :
    <>[](RoomOf(a) = r) => <>[](snapshot[a] # Absent => snapshot[a].room = r)
=============================================================================
