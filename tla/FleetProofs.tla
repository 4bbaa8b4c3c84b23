------------------------------ MODULE FleetProofs -----------------------------
(***************************************************************************)
(* For any agents, rooms, labs and configurations: a room is split only    *)
(* where a writer was overtaken, an agent keeps the lab it was given, and  *)
(* the file is up to date when nobody has still to refresh it.             *)
(* What a heartbeat or a request saw of the labs is kept true or counted   *)
(* as a race until it writes, and a change of the tables is followed by    *)
(* somebody who has not begun to refresh.                                  *)
(***************************************************************************)
EXTENDS Fleet, FiniteSetTheorems, TLAPS

\* The foreign key.
LabsExist == \A a \in Agent : row[a] # NoRow /\ row[a].lab # NoLab => labs[row[a].lab] # Absent

\* What the administrator's request saw of the labs.
RequestSound ==
  /\ admin.op \in {"create", "update"} /\ admin.room \notin raced
       => LabsOf(admin.room) \subseteq {admin.lab}
  /\ admin.op = "create" => labs[admin.lab] = Absent /\ \A r \in Room : admin.lab # Derived[r]

\* What a heartbeat saw of them.
BeatsSound ==
  \A a \in Agent :
    /\ beat[a].at \in {"search", "create"} => ReportedRoom[a] \in Room
    /\ beat[a].at = "create" /\ ReportedRoom[a] \notin raced
         => LabsOf(ReportedRoom[a]) \subseteq {Derived[ReportedRoom[a]]}

AtMostOne(S) == \A l, m \in S : l = m
OneLab == \A r \in Room \ raced : AtMostOne(LabsOf(r))

\* Whoever is in a request has no refresh left over from the one before.
Waiters ==
  /\ admin # NoRequest => Admin \notin waiting
  /\ \A a \in Agent : beat[a].at # "idle" => a \notin waiting

\* The file will have what the tables say.
FileSound ==
  \/ missed \/ admin.op = "delete"
  \/ \E p \in waiting : p # refresh.by
  \/ IF refresh.by = Nobody THEN targets = PrometheusTargets
     ELSE refresh.targets = PrometheusTargets

IndInv == TypeOK /\ LabsExist /\ RequestSound /\ BeatsSound /\ OneLab /\ Waiters /\ FileSound

LEMMA IndInvInit == Init => IndInv
<1> SUFFICES ASSUME Init PROVE IndInv
  OBVIOUS
<1> USE FleetAssumption
<1>1. PrometheusTargets = NoTargets
  BY DEF Init, PrometheusTargets, NoTargets
<1>2. TypeOK
  <2>1. NoTargets \in Targets
    BY DEF NoTargets, Targets
  <2>2. refresh \in [by : waiting \cup {Nobody}, targets : Targets]
    BY <2>1 DEF Init, NoRefresh
  <2>3. budget \in [edits : 0 .. fleet.edits, failures : 0 .. fleet.failures]
    BY DEF Init
  <2> QED
    BY <2>1, <2>2, <2>3 DEF Init, TypeOK, Label
<1>3. FileSound
  BY <1>1 DEF Init, FileSound, NoRefresh
<1> QED
  BY <1>2, <1>3 DEF Init, IndInv, LabsExist, RequestSound, BeatsSound, OneLab, AtMostOne, LabsOf,
                    Waiters, NoRequest

-----------------------------------------------------------------------------
(* Types.                                                                  *)

LEMMA RoomsAreLabels ==
  ASSUME TypeOK, LabsExist
  PROVE  PrometheusTargets \in Targets /\ \A a \in Agent : RoomOf(a) \in Label
BY FleetAssumption DEF TypeOK, LabsExist, PrometheusTargets, RoomOf, Targets, Label, Row

LEMMA AdminTypes ==
  ASSUME TypeOK
  PROVE  /\ admin.op \in {"none", "create", "update", "delete"}
         /\ admin.op = "none" <=> admin = NoRequest
         /\ admin.op \in {"create", "update"} => admin.lab \in Lab /\ admin.room \in Room
         /\ admin.op = "delete" => admin.agent \in Agent
BY DEF TypeOK, NoRequest

LEMMA FailKeepsBudget ==
  ASSUME TypeOK, Fail, fleet' = fleet
  PROVE  budget' \in [edits : 0 .. fleet'.edits, failures : 0 .. fleet'.failures]
BY FleetAssumption DEF TypeOK, Fail

LEMMA EditKeepsBudget ==
  ASSUME TypeOK, Edit, fleet' = fleet
  PROVE  budget' \in [edits : 0 .. fleet'.edits, failures : 0 .. fleet'.failures]
BY FleetAssumption DEF TypeOK, Edit

LEMMA RowsStayRows ==
  ASSUME NEW v \in Row
  PROVE  /\ \A l \in Lab \cup {NoLab} : [v EXCEPT !.lab = l] \in Row
         /\ [v EXCEPT !.online = FALSE] \in Row
         /\ \A n \in 0 .. DeleteAfter : [v EXCEPT !.age = n] \in Row
BY DEF Row

LEMMA Creates ==
  ASSUME NEW b \in [at : {"idle", "search", "create", "upsert"}, lab : Lab \cup {NoLab}]
  PROVE  [b EXCEPT !.at = "create"]
           \in [at : {"idle", "search", "create", "upsert"}, lab : Lab \cup {NoLab}]
OBVIOUS

LEMMA TypeStep == IndInv /\ [Next]_vars => TypeOK'
<1> SUFFICES ASSUME TypeOK, LabsExist, BeatsSound, Next PROVE TypeOK'
  BY DEF IndInv, TypeOK, vars, tableVars, fileVars, history
<1> USE FleetAssumption DEF TypeOK, tableVars, fileVars, history
<1>1. ASSUME NEW a \in Agent, BeginHeartbeat(a) PROVE TypeOK'
  BY <1>1 DEF BeginHeartbeat, Row
<1>2. ASSUME NEW a \in Agent, FindLab(a) PROVE TypeOK'
  <2>1. budget' \in [edits : 0 .. fleet'.edits, failures : 0 .. fleet'.failures]
    <3>1. UNCHANGED fleet /\ (Fail \/ UNCHANGED budget)
      BY <1>2 DEF FindLab
    <3> QED
      BY <3>1, FailKeepsBudget
  <2>2. beat' \in [Agent -> [at : {"idle", "search", "create", "upsert"}, lab : Lab \cup {NoLab}]]
    <3>1. \/ \E l \in Lab : beat' = [beat EXCEPT ![a] = [at |-> "upsert", lab |-> l]]
          \/ beat' = [beat EXCEPT ![a].at = "create"]
      BY <1>2 DEF FindLab, LabsOf
    <3>2. [beat[a] EXCEPT !.at = "create"]
            \in [at : {"idle", "search", "create", "upsert"}, lab : Lab \cup {NoLab}]
      <4>1. beat[a] \in [at : {"idle", "search", "create", "upsert"}, lab : Lab \cup {NoLab}]
        OBVIOUS
      <4> QED
        BY <4>1, Creates
    <3>3. CASE beat' = [beat EXCEPT ![a].at = "create"]
      BY <3>2, <3>3
    <3>4. CASE \E l \in Lab : beat' = [beat EXCEPT ![a] = [at |-> "upsert", lab |-> l]]
      BY <3>4
    <3> QED
      BY <3>1, <3>3, <3>4
  <2>3. raced' \in SUBSET Room
    <3>1. CASE ReportedRoom[a] \in Room
      BY <1>2, <3>1 DEF FindLab
    <3>2. CASE ReportedRoom[a] \notin Room
      BY <1>2, <3>2 DEF FindLab, BeatsSound
    <3> QED
      BY <3>1, <3>2
  <2> QED
    BY <1>2, <2>1, <2>2, <2>3 DEF FindLab
<1>3. ASSUME NEW a \in Agent, CreateDerivedLab(a) PROVE TypeOK'
  <2> DEFINE r == ReportedRoom[a]
  <2>1. r \in Room /\ Derived[r] \in Lab
    BY <1>3 DEF CreateDerivedLab, BeatsSound
  <2>2. CASE /\ labs' = [labs EXCEPT ![Derived[r]] = r]
             /\ beat' = [beat EXCEPT ![a] = [at |-> "upsert", lab |-> Derived[r]]]
             /\ raced' \in {raced, raced \cup {r}}
    BY <1>3, <2>1, <2>2 DEF CreateDerivedLab
  <2>3. ASSUME NEW l \in Lab \cup {NoLab},
               beat' = [beat EXCEPT ![a] = [at |-> "upsert", lab |-> l]], UNCHANGED <<labs, raced>>
        PROVE  TypeOK'
    BY <1>3, <2>3 DEF CreateDerivedLab
  <2> QED
    BY <1>3, <2>1, <2>2, <2>3 DEF CreateDerivedLab, LabsOf
<1>4. ASSUME NEW a \in Agent, Upsert(a) PROVE TypeOK'
  <2> DEFINE lab == IF row[a] # NoRow /\ row[a].lab # NoLab THEN row[a].lab ELSE beat[a].lab
  <2>1. lab \in Lab \cup {NoLab}
    BY DEF Row
  <2>2. [lab |-> lab, online |-> TRUE, age |-> 0] \in Row
    BY <2>1 DEF Row
  <2>3. UpsertWith(a, lab)
    BY <1>4 DEF Upsert
  <2> HIDE DEF lab
  <2>4. row' \in [Agent -> Row \cup {NoRow}] /\ waiting' \in SUBSET Proc /\ waiting \subseteq waiting'
    <3>1. CASE Refused(lab)
      BY <2>3, <3>1 DEF UpsertWith
    <3>2. CASE ~Refused(lab)
      <4>1. /\ row' = [row EXCEPT ![a] = [lab |-> lab, online |-> TRUE, age |-> 0]]
            /\ waiting' = waiting \cup {a}
        BY <2>3, <3>2 DEF UpsertWith
      <4> QED
        BY <2>2, <4>1 DEF Proc
    <3> QED
      BY <3>1, <3>2
  <2>5. beat' \in [Agent -> [at : {"idle", "search", "create", "upsert"}, lab : Lab \cup {NoLab}]]
    BY <2>3 DEF UpsertWith
  <2> QED
    BY <2>3, <2>4, <2>5 DEF UpsertWith
<1>5. ASSUME NEW a \in Agent, HeartbeatFails(a) PROVE TypeOK'
  BY <1>5, FailKeepsBudget DEF HeartbeatFails
<1>6. ASSUME NEW a \in Agent, DeleteAgent(a) PROVE TypeOK'
  BY <1>6, EditKeepsBudget DEF DeleteAgent
<1>7. ASSUME NEW a \in Agent, NEW l \in Lab \cup {NoLab}, AssignAgentToLab(a, l) PROVE TypeOK'
  <2>1. row' \in [Agent -> Row \cup {NoRow}]
    BY <1>7, RowsStayRows DEF AssignAgentToLab
  <2>2. waiting' \in SUBSET Proc /\ waiting \subseteq waiting'
    BY <1>7 DEF AssignAgentToLab, Proc
  <2> QED
    BY <1>7, <2>1, <2>2, EditKeepsBudget DEF AssignAgentToLab
<1>8. ASSUME NEW a \in Agent, VerifyPush(a) \/ StorePush(a) PROVE TypeOK'
  <2>1. CASE VerifyPush(a)
    <3> DEFINE Push == [at : {"idle", "verified", "stamped"}, room : Label]
    <3>1. push' \in [Agent -> Push]
      <4>1. push' = [push EXCEPT ![a].at = "verified"] /\ push[a] \in Push
        BY <2>1 DEF VerifyPush
      <4>2. [push[a] EXCEPT !.at = "verified"] \in Push
        BY <4>1
      <4> QED
        BY <4>1, <4>2
    <3> QED
      BY <2>1, <3>1 DEF VerifyPush
  <2>2. CASE StorePush(a)
    <3>1. [room |-> push[a].room, age |-> 0] \in Snapshot
      BY DEF Snapshot
    <3> QED
      BY <2>2, <3>1 DEF StorePush, Label
  <2> QED
    BY <1>8, <2>1, <2>2
<1>9. ASSUME NEW a \in Agent, StampServerLabels(a) PROVE TypeOK'
  <2>1. RoomOf(a) \in Label /\ NoRoom \in Label
    BY RoomsAreLabels DEF Label
  <2>2. push' \in [Agent -> [at : {"idle", "verified", "stamped"}, room : Label]]
    <3>1. \E room \in Label : push' = [push EXCEPT ![a] = [at |-> "stamped", room |-> room]]
      BY <1>9, <2>1 DEF StampServerLabels
    <3> QED
      BY <3>1
  <2>3. budget' \in [edits : 0 .. fleet'.edits, failures : 0 .. fleet'.failures]
    BY <1>9, FailKeepsBudget DEF StampServerLabels
  <2> QED
    BY <1>9, <2>2, <2>3 DEF StampServerLabels
<1>10. ASSUME NEW l \in Lab, DeleteLab(l) PROVE TypeOK'
  <2>1. row' \in [Agent -> Row \cup {NoRow}]
    BY <1>10, RowsStayRows DEF DeleteLab
  <2>2. waiting' \in SUBSET Proc /\ waiting \subseteq waiting'
    BY <1>10 DEF DeleteLab, Proc
  <2> QED
    BY <1>10, <2>1, <2>2, EditKeepsBudget DEF DeleteLab
<1>11. ASSUME NEW l \in Lab, NEW r \in Room, CreateLab(l, r) \/ UpdateLab(l, r) PROVE TypeOK'
  <2>1. budget' \in [edits : 0 .. fleet'.edits, failures : 0 .. fleet'.failures]
    BY <1>11, EditKeepsBudget DEF CreateLab, UpdateLab, CheckLabCollision
  <2> QED
    BY <1>11, <2>1 DEF CreateLab, UpdateLab, CheckLabCollision
<1>12. CASE WriteLab
  BY <1>12, AdminTypes DEF WriteLab, Proc
<1>13. CASE DropSnapshot \/ Prune
  BY <1>13 DEF DropSnapshot, Prune, Proc
<1>14. CASE MarkStaleAgents
  <2>1. row' \in [Agent -> Row \cup {NoRow}]
    <3>1. \/ UNCHANGED row
          \/ row' = [a \in Agent |-> IF row[a] # NoRow /\ row[a].age >= OfflineAfter
                                     THEN [row[a] EXCEPT !.online = FALSE] ELSE row[a]]
      BY <1>14 DEF MarkStaleAgents
    <3>2. \A a \in Agent : row[a] # NoRow => [row[a] EXCEPT !.online = FALSE] \in Row
      BY RowsStayRows
    <3>3. CASE UNCHANGED row
      BY <3>3
    <3>4. CASE row' = [a \in Agent |-> IF row[a] # NoRow /\ row[a].age >= OfflineAfter
                                      THEN [row[a] EXCEPT !.online = FALSE] ELSE row[a]]
      BY <3>2, <3>4
    <3> QED
      BY <3>1, <3>3, <3>4
  <2>2. waiting' \in SUBSET Proc /\ waiting \subseteq waiting'
    BY <1>14 DEF MarkStaleAgents, Proc
  <2>3. budget' \in [edits : 0 .. fleet'.edits, failures : 0 .. fleet'.failures]
    BY <1>14, FailKeepsBudget DEF MarkStaleAgents
  <2> QED
    BY <1>14, <2>1, <2>2, <2>3 DEF MarkStaleAgents
<1>15. CASE DeleteStaleAgents
  BY <1>15 DEF DeleteStaleAgents
<1>16. ASSUME NEW p \in Proc, BeginRefresh(p) PROVE TypeOK'
  BY <1>16, RoomsAreLabels DEF BeginRefresh
<1>17. ASSUME NEW p \in Proc, RefreshFails(p) PROVE TypeOK'
  <2>1. NoRefresh \in [by : {Nobody}, targets : Targets]
    BY DEF NoRefresh, NoTargets, Targets
  <2>2. refresh' \in [by : waiting' \cup {Nobody}, targets : Targets] /\ waiting' \in SUBSET Proc
    BY <1>17, <2>1 DEF RefreshFails
  <2> QED
    BY <1>17, <2>2, FailKeepsBudget DEF RefreshFails
<1>18. CASE WriteTargets
  BY <1>18 DEF WriteTargets, NoRefresh, NoTargets, Targets
<1>19. CASE Tick
  <2>1. \A x \in 0 .. DeleteAfter : Older(x, DeleteAfter) \in 0 .. DeleteAfter
    BY DEF Older
  <2>2. \A x \in 0 .. Staleness : Older(x, Staleness) \in 0 .. Staleness
    BY DEF Older
  <2>3. row' \in [Agent -> Row \cup {NoRow}]
    <3>1. ASSUME NEW a \in Agent, row[a] # NoRow
          PROVE  [row[a] EXCEPT !.age = Older(@, DeleteAfter)] \in Row
      <4>1. row[a] \in Row /\ Older(row[a].age, DeleteAfter) \in 0 .. DeleteAfter
        BY <2>1, <3>1 DEF Row
      <4> QED
        BY <4>1, RowsStayRows
    <3> QED
      BY <1>19, <3>1 DEF Tick
  <2>4. snapshot' \in [Agent -> Snapshot \cup {Absent}]
    BY <1>19, <2>2 DEF Tick, Snapshot
  <2> QED
    BY <1>19, <2>3, <2>4 DEF Tick
<1> QED
  BY <1>1, <1>2, <1>3, <1>4, <1>5, <1>6, <1>7, <1>8, <1>9, <1>10, <1>11, <1>12, <1>13, <1>14,
     <1>15, <1>16, <1>17, <1>18, <1>19 DEF Next

-----------------------------------------------------------------------------
(* Labs.                                                                   *)

\* Steps that write no lab, start no request and let no heartbeat get on.
LEMMA LabsUntouched ==
  ASSUME RequestSound, BeatsSound, OneLab, labs' = labs,
         raced \subseteq raced',
         admin'.op \in {"create", "update"} => admin' = admin,
         \A a \in Agent : beat'[a].at \in {"search", "create"} => beat'[a].at = beat[a].at
  PROVE  RequestSound' /\ BeatsSound' /\ OneLab'
BY DEF RequestSound, BeatsSound, OneLab, AtMostOne, LabsOf

LEMMA LabsStep == IndInv /\ [Next]_vars => RequestSound' /\ BeatsSound' /\ OneLab'
<1> SUFFICES ASSUME IndInv, Next PROVE RequestSound' /\ BeatsSound' /\ OneLab'
  <2>1. CASE UNCHANGED vars
    BY <2>1, LabsUntouched DEF IndInv, vars, tableVars, history
  <2> QED
    BY <2>1
<1>0. TypeOK /\ LabsExist /\ RequestSound /\ BeatsSound /\ OneLab
  BY DEF IndInv
<1> USE <1>0, FleetAssumption
<1>1. ASSUME NEW a \in Agent, BeginHeartbeat(a) PROVE RequestSound' /\ BeatsSound' /\ OneLab'
  <2>1. /\ UNCHANGED <<labs, admin, raced>>
        /\ ReportedRoom[a] # NoRoom => ReportedRoom[a] \in Room
        /\ beat'[a].at = "upsert" \/ (beat'[a].at = "search" /\ ReportedRoom[a] # NoRoom)
        /\ \A b \in Agent \ {a} : beat'[b] = beat[b]
    BY <1>1 DEF BeginHeartbeat, TypeOK, tableVars, history
  <2> QED
    BY <2>1 DEF RequestSound, BeatsSound, OneLab, AtMostOne, LabsOf
<1>2. ASSUME NEW a \in Agent, FindLab(a) PROVE RequestSound' /\ BeatsSound' /\ OneLab'
  <2> DEFINE r == ReportedRoom[a]
  <2>1. /\ UNCHANGED <<labs, admin>> /\ beat[a].at = "search" /\ raced \subseteq raced'
        /\ \A b \in Agent \ {a} : beat'[b] = beat[b]
    BY <1>2 DEF FindLab, TypeOK, tableVars
  <2>2. beat'[a].at = "upsert" \/ (beat'[a].at = "create" /\ (LabsOf(r) = {} \/ r \in raced'))
    BY <1>2 DEF FindLab, TypeOK
  <2> QED
    BY <2>1, <2>2 DEF RequestSound, BeatsSound, OneLab, AtMostOne, LabsOf
<1>3. ASSUME NEW a \in Agent, CreateDerivedLab(a) PROVE RequestSound' /\ BeatsSound' /\ OneLab'
  <2> DEFINE r == ReportedRoom[a]
  <2>1. /\ beat[a].at = "create" /\ beat'[a].at = "upsert" /\ r \in Room /\ UNCHANGED admin
        /\ \A b \in Agent \ {a} : beat'[b] = beat[b]
    BY <1>3 DEF CreateDerivedLab, TypeOK, BeatsSound
  <2>2. CASE UNCHANGED <<labs, raced>>
    BY <2>1, <2>2, LabsUntouched
  <2>3. CASE /\ labs[Derived[r]] = Absent /\ labs' = [labs EXCEPT ![Derived[r]] = r]
             /\ raced' = IF admin.op \in {"create", "update"} /\ admin.room = r
                         THEN raced \cup {r} ELSE raced
    <3>1. LabsOf(r)' = LabsOf(r) \cup {Derived[r]} /\ Derived[r] \in Lab
      BY <2>1, <2>3 DEF LabsOf, TypeOK
    <3>2. \A s \in Room \ {r} : LabsOf(s)' = LabsOf(s)
      BY <2>1, <2>3 DEF LabsOf, TypeOK
    <3>3. r \notin raced => LabsOf(r) = {}
      BY <2>1, <2>3 DEF BeatsSound, LabsOf
    <3>4. OneLab'
      BY <2>3, <3>1, <3>2, <3>3 DEF OneLab, AtMostOne
    <3>5. RequestSound'
      <4>1. admin.op \in {"create", "update"} => admin.room \in Room
        BY AdminTypes
      <4>2. admin.op = "create" => labs'[admin.lab] = Absent
        BY <2>1, <2>3, AdminTypes DEF RequestSound, TypeOK
      <4> QED
        BY <2>1, <2>3, <3>2, <4>1, <4>2 DEF RequestSound
    <3>6. BeatsSound'
      BY <2>1, <2>3, <3>1, <3>2, <3>3 DEF BeatsSound
    <3> QED
      BY <3>4, <3>5, <3>6
  <2> QED
    BY <1>3, <2>2, <2>3 DEF CreateDerivedLab
<1>4. ASSUME NEW a \in Agent, Upsert(a) \/ HeartbeatFails(a)
      PROVE  RequestSound' /\ BeatsSound' /\ OneLab'
  <2>1. /\ UNCHANGED <<labs, admin, raced>>
        /\ beat' = [beat EXCEPT ![a] = [at |-> "idle", lab |-> NoLab]]
    BY <1>4 DEF Upsert, UpsertWith, HeartbeatFails, tableVars, history
  <2>2. \A b \in Agent : beat'[b].at \in {"search", "create"} => beat'[b].at = beat[b].at
    BY <2>1 DEF TypeOK
  <2> QED
    BY <2>1, <2>2, LabsUntouched
<1>5. ASSUME NEW a \in Agent, DeleteAgent(a) PROVE RequestSound' /\ BeatsSound' /\ OneLab'
  BY <1>5, LabsUntouched DEF DeleteAgent, history
<1>6. ASSUME NEW a \in Agent, NEW l \in Lab \cup {NoLab}, AssignAgentToLab(a, l)
      PROVE  RequestSound' /\ BeatsSound' /\ OneLab'
  BY <1>6, LabsUntouched DEF AssignAgentToLab, history
<1>7. ASSUME NEW a \in Agent, VerifyPush(a) \/ StampServerLabels(a) \/ StorePush(a)
      PROVE  RequestSound' /\ BeatsSound' /\ OneLab'
  BY <1>7, LabsUntouched DEF VerifyPush, StampServerLabels, StorePush, tableVars, history
<1>8. ASSUME NEW l \in Lab, DeleteLab(l) PROVE RequestSound' /\ BeatsSound' /\ OneLab'
  <2>1. /\ UNCHANGED <<beat, admin, raced>> /\ admin = NoRequest
        /\ \A r \in Room : LabsOf(r)' \subseteq LabsOf(r)
    BY <1>8 DEF DeleteLab, Edit, LabsOf, history, TypeOK
  <2> QED
    BY <2>1 DEF RequestSound, BeatsSound, OneLab, AtMostOne, NoRequest
<1>9. ASSUME NEW l \in Lab, NEW r \in Room, CreateLab(l, r) \/ UpdateLab(l, r)
      PROVE  RequestSound' /\ BeatsSound' /\ OneLab'
  <2>1. /\ UNCHANGED <<labs, beat>> /\ raced \subseteq raced' /\ admin'.room = r /\ admin'.lab = l
        /\ LabsOf(r) \subseteq {l} \/ r \in raced'
        /\ admin'.op = "create" => labs[l] = Absent /\ \A s \in Room : l # Derived[s]
    BY <1>9 DEF CreateLab, UpdateLab, CheckLabCollision, tableVars
  <2> QED
    BY <2>1 DEF RequestSound, BeatsSound, OneLab, AtMostOne, LabsOf
<1>10. CASE WriteLab
  <2>0. PICK r \in Room, l \in Lab : r = admin.room /\ l = admin.lab
    BY <1>10, AdminTypes DEF WriteLab
  <2>1. /\ labs' = [labs EXCEPT ![l] = r] /\ UNCHANGED beat
        /\ admin' = NoRequest /\ raced \subseteq raced'
        /\ r \in raced \/ LabsOf(r) \subseteq {l}
        /\ \A a \in Agent : beat[a].at = "create" /\ ReportedRoom[a] = r => r \in raced'
    BY <1>10, <2>0 DEF WriteLab, RequestSound
  <2>2. /\ LabsOf(r)' = LabsOf(r) \cup {l}
        /\ \A s \in Room \ {r} : LabsOf(s)' \subseteq LabsOf(s)
    BY <2>1 DEF LabsOf, TypeOK
  <2>3. OneLab'
    BY <2>1, <2>2 DEF OneLab, AtMostOne
  <2>4. BeatsSound'
    BY <2>1, <2>2 DEF BeatsSound
  <2> QED
    BY <2>1, <2>3, <2>4 DEF RequestSound, NoRequest
<1>11. CASE DropSnapshot \/ Prune
  BY <1>11, LabsUntouched DEF DropSnapshot, Prune, NoRequest, tableVars, history
<1>12. CASE MarkStaleAgents \/ DeleteStaleAgents
  BY <1>12, LabsUntouched DEF MarkStaleAgents, DeleteStaleAgents, history
<1>13. ASSUME NEW p \in Proc, BeginRefresh(p) \/ RefreshFails(p)
       PROVE  RequestSound' /\ BeatsSound' /\ OneLab'
  BY <1>13, LabsUntouched DEF BeginRefresh, RefreshFails, tableVars
<1>14. CASE WriteTargets \/ Tick
  BY <1>14, LabsUntouched DEF WriteTargets, Tick, tableVars, history
<1> QED
  BY <1>1, <1>2, <1>3, <1>4, <1>5, <1>6, <1>7, <1>8, <1>9, <1>10, <1>11, <1>12, <1>13, <1>14
     DEF Next

LEMMA LabsExistStep == IndInv /\ [Next]_vars => LabsExist'
<1> SUFFICES ASSUME IndInv, Next PROVE LabsExist'
  BY DEF IndInv, LabsExist, vars, tableVars
<1>0. TypeOK /\ LabsExist /\ RequestSound /\ BeatsSound
  BY DEF IndInv
<1> USE <1>0, FleetAssumption
<1>1. CASE UNCHANGED tableVars
  BY <1>1 DEF LabsExist, tableVars
<1>2. ASSUME NEW a \in Agent, CreateDerivedLab(a) PROVE LabsExist'
  BY <1>2 DEF CreateDerivedLab, LabsExist, BeatsSound, TypeOK, Row
<1>3. ASSUME NEW a \in Agent, Upsert(a) PROVE LabsExist'
  <2> DEFINE lab == IF row[a] # NoRow /\ row[a].lab # NoLab THEN row[a].lab ELSE beat[a].lab
  <2>1. UpsertWith(a, lab) /\ UNCHANGED labs
    BY <1>3 DEF Upsert, UpsertWith
  <2>2. CASE Refused(lab)
    BY <2>1, <2>2 DEF UpsertWith, LabsExist
  <2>3. CASE ~Refused(lab)
    <3>1. row' = [row EXCEPT ![a] = [lab |-> lab, online |-> TRUE, age |-> 0]]
      BY <2>1, <2>3 DEF UpsertWith
    <3>2. row'[a].lab = lab /\ \A b \in Agent \ {a} : row'[b] = row[b]
      BY <3>1 DEF TypeOK
    <3> QED
      BY <2>1, <2>3, <3>2 DEF Refused, LabsExist
  <2> QED
    BY <2>2, <2>3
<1>4. ASSUME NEW a \in Agent, DeleteAgent(a) PROVE LabsExist'
  BY <1>4 DEF DeleteAgent, LabsExist, TypeOK
<1>5. ASSUME NEW a \in Agent, NEW l \in Lab \cup {NoLab}, AssignAgentToLab(a, l) PROVE LabsExist'
  <2>1. \A b \in Agent : row'[b] # NoRow => row'[b].lab = IF b = a THEN l ELSE row[b].lab
    BY <1>5 DEF AssignAgentToLab, TypeOK, Row
  <2> QED
    BY <1>5, <2>1 DEF AssignAgentToLab, LabsExist, TypeOK
<1>6. ASSUME NEW l \in Lab, DeleteLab(l) PROVE LabsExist'
  <2>1. \A b \in Agent : row'[b] # NoRow /\ row'[b].lab # NoLab =>
          row[b] # NoRow /\ row'[b].lab = row[b].lab /\ row[b].lab # l
    BY <1>6 DEF DeleteLab, TypeOK, Row
  <2> QED
    BY <1>6, <2>1 DEF DeleteLab, LabsExist, TypeOK, Row
<1>7. CASE WriteLab
  <2>1. PICK r \in Room, l \in Lab : labs' = [labs EXCEPT ![l] = r] /\ UNCHANGED row
    BY <1>7, AdminTypes DEF WriteLab
  <2> QED
    BY <2>1 DEF LabsExist, TypeOK, Row
<1>8. CASE MarkStaleAgents \/ DeleteStaleAgents \/ Tick
  <2>1. /\ UNCHANGED labs
        /\ \A b \in Agent : row'[b] # NoRow => row[b] # NoRow /\ row'[b].lab = row[b].lab
    BY <1>8 DEF MarkStaleAgents, DeleteStaleAgents, Tick, TypeOK, Row
  <2> QED
    BY <2>1 DEF LabsExist
<1> QED
  BY <1>1, <1>2, <1>3, <1>4, <1>5, <1>6, <1>7, <1>8
     DEF Next, BeginHeartbeat, FindLab, HeartbeatFails, VerifyPush, StampServerLabels, StorePush,
         CreateLab, UpdateLab, CheckLabCollision, DropSnapshot, Prune, BeginRefresh, RefreshFails,
         WriteTargets

-----------------------------------------------------------------------------
(* The file.                                                               *)

LEMMA WaitersStep == IndInv /\ [Next]_vars => Waiters'
<1> SUFFICES ASSUME IndInv, Next PROVE Waiters'
  BY DEF IndInv, Waiters, vars, fileVars
<1>0. TypeOK /\ Waiters
  BY DEF IndInv
<1> USE <1>0, FleetAssumption DEF Waiters
<1>1. CASE admin' = admin /\ waiting' \subseteq waiting /\ beat' = beat
  BY <1>1
<1>2. ASSUME NEW a \in Agent, BeginHeartbeat(a) PROVE Waiters'
  BY <1>2 DEF BeginHeartbeat, fileVars, TypeOK
<1>3. ASSUME NEW a \in Agent, FindLab(a) \/ CreateDerivedLab(a) PROVE Waiters'
  <2>1. UNCHANGED <<admin, waiting>> /\ beat[a].at # "idle"
    BY <1>3 DEF FindLab, CreateDerivedLab, fileVars
  <2>2. \A b \in Agent \ {a} : beat'[b] = beat[b]
    BY <1>3 DEF FindLab, CreateDerivedLab, TypeOK
  <2> QED
    BY <2>1, <2>2
<1>4. ASSUME NEW a \in Agent, Upsert(a) \/ HeartbeatFails(a) PROVE Waiters'
  <2>1. UNCHANGED admin /\ waiting' \in {waiting, waiting \cup {a}}
    BY <1>4 DEF Upsert, UpsertWith, HeartbeatFails, fileVars
  <2>2. beat'[a].at = "idle" /\ \A b \in Agent \ {a} : beat'[b] = beat[b]
    BY <1>4 DEF Upsert, UpsertWith, HeartbeatFails, TypeOK
  <2> QED
    BY <2>1, <2>2
<1>5. ASSUME NEW a \in Agent, DeleteAgent(a) PROVE Waiters'
  BY <1>5 DEF DeleteAgent, Edit, fileVars
<1>6. ASSUME NEW a \in Agent, NEW l \in Lab \cup {NoLab}, AssignAgentToLab(a, l) PROVE Waiters'
  BY <1>6 DEF AssignAgentToLab, Edit
<1>7. ASSUME NEW l \in Lab, DeleteLab(l) PROVE Waiters'
  BY <1>7 DEF DeleteLab, Edit
<1>8. ASSUME NEW l \in Lab, NEW r \in Room, CreateLab(l, r) \/ UpdateLab(l, r) PROVE Waiters'
  BY <1>8 DEF CreateLab, UpdateLab, CheckLabCollision, Edit, fileVars
<1>9. CASE WriteLab \/ DropSnapshot
  BY <1>9 DEF WriteLab, DropSnapshot
<1>10. CASE MarkStaleAgents
  BY <1>10 DEF MarkStaleAgents
<1> QED
  BY <1>1, <1>2, <1>3, <1>4, <1>5, <1>6, <1>7, <1>8, <1>9, <1>10
     DEF Next, VerifyPush, StampServerLabels, StorePush, Prune, DeleteStaleAgents, BeginRefresh,
         RefreshFails, WriteTargets, Tick, fileVars

\* Nobody's targets change unless the tables are written.
LEMMA NothingToRefresh ==
  ASSUME FileSound, UNCHANGED <<refresh, targets>>, missed \/ PrometheusTargets' = PrometheusTargets,
         missed => missed', waiting \subseteq waiting', admin.op = "delete" => admin'.op = "delete"
  PROVE  FileSound'
BY DEF FileSound

\* Whoever has written them will refresh.
LEMMA WillRefresh ==
  ASSUME TypeOK, NEW p \in Proc \ waiting, waiting' = waiting \cup {p}, refresh' = refresh
  PROVE  FileSound'
<1>1. refresh.by # p
  BY FleetAssumption DEF TypeOK, Proc
<1> QED
  BY <1>1 DEF FileSound

LEMMA FileStep == IndInv /\ [Next]_vars => FileSound'
<1> SUFFICES ASSUME IndInv, Next PROVE FileSound'
  BY DEF IndInv, FileSound, PrometheusTargets, RoomOf, vars, tableVars, fileVars, history
<1>0. TypeOK /\ LabsExist /\ RequestSound /\ BeatsSound /\ Waiters /\ FileSound
  BY DEF IndInv
<1> USE <1>0, FleetAssumption
<1>1. CASE UNCHANGED <<tableVars, fileVars, admin, missed>>
  BY <1>1, NothingToRefresh DEF PrometheusTargets, RoomOf, tableVars, fileVars
<1>2. ASSUME NEW a \in Agent, CreateDerivedLab(a) PROVE FileSound'
  <2>1. UNCHANGED <<fileVars, admin, missed, row>>
    BY <1>2 DEF CreateDerivedLab
  <2>2. \A l \in Lab : labs[l] # Absent => labs'[l] = labs[l]
    BY <1>2 DEF CreateDerivedLab, BeatsSound, TypeOK
  <2>3. \A b \in Agent : row[b] # NoRow => RoomOf(b)' = RoomOf(b)
    BY <2>1, <2>2 DEF RoomOf, LabsExist, TypeOK, Row
  <2>4. PrometheusTargets' = PrometheusTargets
    BY <2>1, <2>3 DEF PrometheusTargets
  <2> QED
    BY <2>1, <2>4, NothingToRefresh DEF fileVars
<1>3. ASSUME NEW a \in Agent, Upsert(a) PROVE FileSound'
  <2>1. CASE UNCHANGED <<row, waiting>>
    BY <1>3, <2>1, NothingToRefresh
       DEF Upsert, UpsertWith, PrometheusTargets, RoomOf, fileVars, history
  <2>2. CASE waiting' = waiting \cup {a}
    BY <1>3, <2>2, WillRefresh DEF Upsert, UpsertWith, Waiters, Proc
  <2> QED
    BY <1>3, <2>1, <2>2 DEF Upsert, UpsertWith
<1>4. ASSUME NEW a \in Agent, DeleteAgent(a) PROVE FileSound'
  BY <1>4 DEF DeleteAgent, FileSound
<1>5. ASSUME NEW a \in Agent, NEW l \in Lab \cup {NoLab}, AssignAgentToLab(a, l) PROVE FileSound'
  BY <1>5, WillRefresh DEF AssignAgentToLab, Edit, Proc
<1>6. ASSUME NEW l \in Lab, DeleteLab(l) PROVE FileSound'
  BY <1>6, WillRefresh DEF DeleteLab, Edit, Proc
<1>7. ASSUME NEW l \in Lab, NEW r \in Room, CreateLab(l, r) \/ UpdateLab(l, r) PROVE FileSound'
  <2>1. UNCHANGED <<tableVars, fileVars, missed>> /\ admin = NoRequest
    BY <1>7 DEF CreateLab, UpdateLab, CheckLabCollision, Edit
  <2> QED
    BY <2>1, NothingToRefresh DEF PrometheusTargets, RoomOf, tableVars, fileVars, NoRequest
<1>8. CASE WriteLab
  <2>1. CASE admin.op = "update"
    BY <1>8, <2>1, WillRefresh DEF WriteLab, Waiters, NoRequest, Proc
  <2>2. CASE admin.op = "create"
    <3>1. UNCHANGED <<row, waiting, refresh, targets, missed>>
      BY <1>8, <2>2 DEF WriteLab
    <3>2. \A l \in Lab : labs[l] # Absent => labs'[l] = labs[l]
      BY <1>8, <2>2 DEF WriteLab, RequestSound, TypeOK
    <3>3. \A b \in Agent : row[b] # NoRow => RoomOf(b)' = RoomOf(b)
      BY <3>1, <3>2 DEF RoomOf, LabsExist, TypeOK, Row
    <3>4. PrometheusTargets' = PrometheusTargets
      BY <3>1, <3>3 DEF PrometheusTargets
    <3> QED
      BY <2>2, <3>1, <3>4, NothingToRefresh
  <2> QED
    BY <1>8, <2>1, <2>2 DEF WriteLab
<1>9. CASE DropSnapshot
  BY <1>9, WillRefresh DEF DropSnapshot, Waiters, NoRequest, Proc
<1>10. CASE MarkStaleAgents
  <2>1. CASE UNCHANGED <<row, waiting>>
    BY <1>10, <2>1, NothingToRefresh DEF MarkStaleAgents, PrometheusTargets, RoomOf, history
  <2>2. CASE waiting' = waiting \cup {Checker}
    BY <1>10, <2>2, WillRefresh DEF MarkStaleAgents, Proc
  <2> QED
    BY <1>10, <2>1, <2>2 DEF MarkStaleAgents
<1>11. CASE DeleteStaleAgents
  <2>1. CASE missed'
    BY <2>1 DEF FileSound
  <2>2. CASE ~missed'
    <3>1. /\ UNCHANGED <<labs, fileVars, admin>>
          /\ \A a \in Agent : row'[a] = row[a] \/ (row[a] # NoRow /\ ~row[a].online /\ row'[a] = NoRow)
      BY <1>11, <2>2 DEF DeleteStaleAgents, TypeOK
    <3>2. PrometheusTargets' = PrometheusTargets
      BY <3>1 DEF PrometheusTargets, RoomOf
    <3> QED
      BY <1>11, <2>2, <3>1, <3>2, NothingToRefresh DEF DeleteStaleAgents, fileVars
  <2> QED
    BY <2>1, <2>2
<1>12. ASSUME NEW p \in Proc, BeginRefresh(p) PROVE FileSound'
  <2>1. refresh'.by = p /\ refresh'.targets = PrometheusTargets /\ p # Nobody
    BY <1>12 DEF BeginRefresh, Proc
  <2>2. PrometheusTargets' = PrometheusTargets
    BY <1>12 DEF BeginRefresh, PrometheusTargets, RoomOf, tableVars
  <2> QED
    BY <2>1, <2>2 DEF FileSound
<1>13. ASSUME NEW p \in Proc, RefreshFails(p) PROVE FileSound'
  BY <1>13 DEF RefreshFails, FileSound
<1>14. CASE WriteTargets
  <2>1. /\ refresh.by # Nobody /\ targets' = refresh.targets /\ refresh'.by = Nobody
        /\ waiting' = waiting \ {refresh.by} /\ UNCHANGED <<admin, missed>>
    BY <1>14 DEF WriteTargets, NoRefresh, history
  <2>2. PrometheusTargets' = PrometheusTargets
    BY <1>14 DEF WriteTargets, PrometheusTargets, RoomOf, tableVars
  <2>3. Nobody \notin Proc /\ waiting \subseteq Proc
    BY DEF Proc, TypeOK
  <2> QED
    BY <2>1, <2>2, <2>3 DEF FileSound
<1>15. CASE Tick
  <2>1. /\ UNCHANGED <<labs, fileVars, admin, missed>>
        /\ \A a \in Agent : IF row[a] = NoRow THEN row'[a] = NoRow
                            ELSE /\ row'[a] # NoRow /\ row'[a].lab = row[a].lab
                                 /\ row'[a].online = row[a].online
    <3>1. ASSUME NEW a \in Agent, row[a] # NoRow
          PROVE  row'[a] # NoRow /\ row'[a].lab = row[a].lab /\ row'[a].online = row[a].online
      <4>1. row[a] \in Row /\ row'[a] = [row[a] EXCEPT !.age = Older(@, DeleteAfter)]
        BY <1>15, <3>1 DEF Tick, TypeOK
      <4>2. Older(row[a].age, DeleteAfter) \in 0 .. DeleteAfter
        BY <4>1 DEF Row, Older
      <4>3. PICK n \in 0 .. DeleteAfter : row'[a] = [row[a] EXCEPT !.age = n]
        BY <4>1, <4>2
      <4>4. row'[a] \in Row
        <5>1. row[a] \in Row
          BY <4>1
        <5>2. \A k \in 0 .. DeleteAfter : [row[a] EXCEPT !.age = k] \in Row
          BY <5>1, RowsStayRows
        <5> QED
          BY <4>3, <5>2
      <4> QED
        BY <4>1, <4>3, <4>4 DEF Row
    <3> QED
      BY <1>15, <3>1 DEF Tick, history
  <2>2. PrometheusTargets' = PrometheusTargets
    BY <2>1 DEF PrometheusTargets, RoomOf
  <2> QED
    BY <2>1, <2>2, NothingToRefresh DEF fileVars
<1> QED
  BY <1>1, <1>2, <1>3, <1>4, <1>5, <1>6, <1>7, <1>8, <1>9, <1>10, <1>11, <1>12, <1>13, <1>14, <1>15
     DEF Next, BeginHeartbeat, FindLab, HeartbeatFails, VerifyPush, StampServerLabels, StorePush,
         Prune, history

-----------------------------------------------------------------------------

\* What requests saw of the labs, the foreign key and the file agree
\* (UpsertAgent, labs.go, FileSD.Refresh).
THEOREM Invariance == Spec => []IndInv
<1>1. IndInv /\ [Next]_vars => IndInv'
  BY TypeStep, LabsStep, LabsExistStep, WaitersStep, FileStep DEF IndInv
<1> QED
  BY <1>1, IndInvInit, PTL DEF Spec

\* The variables of the registry and of what is derived from it keep their
\* types; labels in the target file are of rooms, never of labs that are gone.
THEOREM TypeCorrect == Spec => []TypeOK
<1>1. IndInv => TypeOK
  BY DEF IndInv
<1> QED
  BY <1>1, Invariance, PTL

\* Two labs of one room come only from writers that overlapped or a lookup that
\* failed (checkLabCollision, UpsertAgent's derived id).
THEOREM RoomsStayWhole == Spec => []OneLabPerRoom
<1>1. IndInv => OneLabPerRoom
  <2> SUFFICES ASSUME IndInv, NEW r \in Room \ raced PROVE ~(Cardinality(LabsOf(r)) > 1)
    BY DEF OneLabPerRoom
  <2>1. AtMostOne(LabsOf(r))
    BY DEF IndInv, OneLab
  <2>2. CASE LabsOf(r) = {}
    <3>1. Cardinality(LabsOf(r)) = 0
      BY <2>2, FS_EmptySet, Zenon
    <3> QED
      BY <3>1
  <2>3. ASSUME NEW l \in LabsOf(r) PROVE ~(Cardinality(LabsOf(r)) > 1)
    <3>1. LabsOf(r) = {l}
      BY <2>1 DEF AtMostOne
    <3>2. Cardinality(LabsOf(r)) = 1
      BY <3>1, FS_Singleton, Zenon
    <3> QED
      BY <3>2
  <2> QED
    BY <2>2, <2>3
<1> QED
  BY <1>1, Invariance, PTL

\* With nobody left to refresh, the file says what the tables say, in whatever
\* order statements, queries and writes came (FileSD.Refresh, its callers).
THEOREM FileUpToDate == Spec => []TargetsCurrent
<1>1. IndInv => TargetsCurrent
  BY FleetAssumption DEF IndInv, TypeOK, FileSound, TargetsCurrent
<1> QED
  BY <1>1, Invariance, PTL

\* No heartbeat moves an agent out of the lab it is in, however it interleaves
\* with assignments and deletions (UpsertAgent's COALESCE).
THEOREM LabsAreKept == Spec => AssignmentKept
<1> DEFINE Kept(a) ==
      row[a] # NoRow /\ row[a].lab # NoLab /\ row'[a] # NoRow =>
        \/ row'[a].lab = row[a].lab
        \/ labs'[row[a].lab] = Absent
        \/ \E l \in Lab \cup {NoLab} : AssignAgentToLab(a, l)
<1>1. IndInv /\ [Next]_vars => [\A a \in Agent : Kept(a)]_vars
  <2> SUFFICES ASSUME TypeOK, LabsExist, Next, NEW a \in Agent PROVE Kept(a)
    BY DEF IndInv
  <2> USE FleetAssumption
  <2>1. CASE UNCHANGED row
    BY <2>1
  <2>2. ASSUME NEW b \in Agent, Upsert(b) PROVE Kept(a)
    <3>1. CASE a = b /\ row[a] # NoRow /\ row[a].lab # NoLab
      <4>1. UpsertWith(a, row[a].lab)
        BY <2>2, <3>1 DEF Upsert
      <4> QED
        BY <4>1 DEF UpsertWith, TypeOK
    <3>2. CASE a # b
      BY <2>2, <3>2 DEF Upsert, UpsertWith, TypeOK
    <3> QED
      BY <3>1, <3>2
  <2>3. ASSUME NEW b \in Agent, DeleteAgent(b) PROVE Kept(a)
    BY <2>3 DEF DeleteAgent, TypeOK
  <2>4. ASSUME NEW b \in Agent, NEW l \in Lab \cup {NoLab}, AssignAgentToLab(b, l) PROVE Kept(a)
    BY <2>4 DEF AssignAgentToLab, TypeOK
  <2>5. ASSUME NEW l \in Lab, DeleteLab(l) PROVE Kept(a)
    BY <2>5 DEF DeleteLab, TypeOK
  <2>6. CASE MarkStaleAgents \/ DeleteStaleAgents \/ Tick
    BY <2>6 DEF MarkStaleAgents, DeleteStaleAgents, Tick, TypeOK, Row
  <2> QED
    BY <2>1, <2>2, <2>3, <2>4, <2>5, <2>6
       DEF Next, BeginHeartbeat, FindLab, CreateDerivedLab, HeartbeatFails, VerifyPush,
           StampServerLabels, StorePush, CreateLab, UpdateLab, CheckLabCollision, WriteLab,
           DropSnapshot, Prune, BeginRefresh, RefreshFails, WriteTargets, tableVars
<1> QED
  BY <1>1, Invariance, PTL DEF Spec, AssignmentKept
===============================================================================
