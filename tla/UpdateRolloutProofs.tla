------------------------- MODULE UpdateRolloutProofs -------------------------
(***************************************************************************)
(* For any agents, cap, grace period and bounds, no more agents hold a     *)
(* slot than the cap allows.  BudgetHeld is not inductive: between the     *)
(* count and the stamp, the claim that holds the lock must still have room *)
(* for itself, so no offer may become younger behind its back.             *)
(***************************************************************************)
EXTENDS UpdateRollout, FiniteSetTheorems, TLAPS

\* Only one claim is past the count, and the others it counted leave it room.
LockSound ==
  \A a \in Agent : request[a].phase = "locked" =>
    /\ \A b \in Agent : request[b].phase = "locked" => b = a
    /\ MaxConcurrent > 0 => Cardinality(Others(a)) < MaxConcurrent

IndInv == TypeOK /\ LockSound /\ BudgetHeld

-----------------------------------------------------------------------------
(* Types.                                                                  *)

LEMMA AnswerType ==
  ASSUME TypeOK, NEW a \in Agent, NEW url \in Version \cup {NoUpdate}, Answer(a, url)
  PROVE  request' \in [Agent -> Request]
<1>1. request[a] \in Request /\ IdleRequest \in Request
  BY RolloutAssumption DEF TypeOK, Request, IdleRequest, Version
<1>2. [IdleRequest EXCEPT !.phase = "answered", !.url = url,
                          !.pin = request[a].pin, !.gone = request[a].gone] \in Request
  BY <1>1 DEF Request
<1> QED
  BY <1>2 DEF Answer, TypeOK

LEMMA TypeInit == Init => TypeOK
BY RolloutAssumption
   DEF Init, TypeOK, Row, Request, EmptyRow, IdleRequest, Version, Oldest

LEMMA HeartbeatType ==
  ASSUME TypeOK, NEW a \in Agent, Heartbeat(a)
  PROVE  TypeOK'
<1> USE DEF fleetVars, agentVars
<1>1. row[a] \in Row /\ request[a] \in Request /\ IdleRequest \in Request
  BY RolloutAssumption DEF TypeOK, Row, Request, IdleRequest, Version
<1>2. Target(request[a].pin) \in Version /\ NoUpdate \in Version \cup {NoUpdate}
  BY <1>1 DEF TypeOK, Target, Request
<1>3. CASE RegisterAgent(a)
  <2>1. TakePending(a) \in Row /\ Taken(a) \in Version \cup {NoUpdate}
    BY <1>1 DEF TakePending, Taken, Row
  <2>2. row' \in [Agent -> Row]
    BY <1>3, <2>1 DEF RegisterAgent, TypeOK
  <2>3. request' \in [Agent -> Request]
    BY <1>1, <1>3, <2>1 DEF RegisterAgent, TypeOK, Request
  <2> QED
    BY <1>3, <2>2, <2>3 DEF RegisterAgent, TypeOK
<1>4. CASE ReleaseUpdateSlot(a)
  <2>1. request' \in [Agent -> Request]
    BY <1>2, <1>4, AnswerType DEF ReleaseUpdateSlot
  <2>2. row' \in [Agent -> Row]
    BY <1>1, <1>4 DEF ReleaseUpdateSlot, TypeOK, Row
  <2> QED
    BY <1>4, <2>1, <2>2 DEF ReleaseUpdateSlot, TypeOK
<1>5. CASE OutsideWindow(a) \/ RenewSlot(a)
  <2>1. request' \in [Agent -> Request]
    BY <1>2, <1>5, AnswerType DEF OutsideWindow, RenewSlot
  <2> QED
    BY <1>5, <2>1 DEF OutsideWindow, RenewSlot, TypeOK
<1>6. CASE BeginClaim(a)
  <2>1. request' \in [Agent -> Request]
    BY <1>1, <1>2, <1>6 DEF BeginClaim, TypeOK, Request
  <2> QED
    BY <1>6, <2>1 DEF BeginClaim, TypeOK
<1>7. CASE CountSlots(a)
  <2>1. request' \in [Agent -> Request]
    <3>1. CASE BudgetFull(a)
      BY <1>2, <1>7, <3>1, AnswerType DEF CountSlots
    <3>2. CASE ~BudgetFull(a)
      BY <1>1, <1>7, <3>2 DEF CountSlots, TypeOK, Request
    <3> QED
      BY <3>1, <3>2
  <2> QED
    BY <1>7, <2>1 DEF CountSlots, TypeOK
<1>8. CASE StampSlot(a)
  <2>1. published \in Version \cup {NoUpdate}
    BY DEF TypeOK
  <2>2. request' \in [Agent -> Request]
    BY <1>8, <2>1, AnswerType DEF StampSlot
  <2>3. request[a].wait \in 0 .. Oldest
    BY <1>1, RolloutAssumption DEF Request, Oldest
  <2>4. row' \in [Agent -> Row]
    BY <1>1, <1>8, <2>3 DEF StampSlot, TypeOK, Row, Request
  <2> QED
    BY <1>8, <2>2, <2>4 DEF StampSlot, TypeOK
<1>9. CASE ReceiveAnswer(a) \/ AnswerUnheard(a)
  <2>1. request' \in [Agent -> Request]
    BY <1>1, <1>9 DEF ReceiveAnswer, AnswerUnheard, TypeOK
  <2>2. updating' \in [Agent -> Version \cup {NoUpdate}]
    BY <1>1, <1>9 DEF ReceiveAnswer, AnswerUnheard, TypeOK, Request
  <2> QED
    BY <1>9, <2>1, <2>2 DEF ReceiveAnswer, AnswerUnheard, TypeOK
<1> QED
  BY <1>3, <1>4, <1>5, <1>6, <1>7, <1>8, <1>9 DEF Heartbeat

LEMMA GoneType ==
  ASSUME TypeOK, NEW a \in Agent
  PROVE  [request EXCEPT ![a].gone = TRUE] \in [Agent -> Request]
<1>1. request[a] \in Request
  BY DEF TypeOK
<1>2. [request[a] EXCEPT !.gone = TRUE] \in Request
  BY <1>1, Zenon DEF Request
<1> QED
  BY <1>2 DEF TypeOK

LEMMA HangupType ==
  ASSUME TypeOK, NEW a \in Agent, Hangup(a)
  PROVE  request' \in [Agent -> Request]
BY GoneType DEF TypeOK, Hangup

LEMMA TypeStep == TypeOK /\ [Next]_vars => TypeOK'
<1> SUFFICES ASSUME TypeOK, [Next]_vars PROVE TypeOK'
  OBVIOUS
<1> USE DEF fleetVars, agentVars
<1>1. IdleRequest \in Request
  BY RolloutAssumption DEF Request, IdleRequest, Version
<1>2. ASSUME NEW a \in Agent, HandlerFails(a) PROVE TypeOK'
  BY <1>1, <1>2, RolloutAssumption DEF HandlerFails, TypeOK
<1>3. ASSUME NEW a \in Agent, ClientGivesUp(a) PROVE TypeOK'
  <2>1. request' \in [Agent -> Request]
    BY <1>3, GoneType DEF ClientGivesUp
  <2> QED
    BY <1>3, <2>1, RolloutAssumption DEF ClientGivesUp, TypeOK
<1>4. ASSUME NEW a \in Agent, InstallSucceeds(a) PROVE TypeOK'
  BY <1>4, HangupType DEF InstallSucceeds, TypeOK
<1>5. ASSUME NEW a \in Agent, InstallFails(a) PROVE TypeOK'
  BY <1>5, RolloutAssumption DEF InstallFails, TypeOK
<1>6. ASSUME NEW a \in Agent, AgentRestarts(a) PROVE TypeOK'
  BY <1>6, HangupType, RolloutAssumption DEF AgentRestarts, TypeOK
<1>7. ASSUME NEW a \in Agent, ForceAgentUpdate(a) PROVE TypeOK'
  <2>1. row' \in [Agent -> Row]
    BY <1>7 DEF ForceAgentUpdate, TypeOK, Row
  <2> QED
    BY <1>7, <2>1, RolloutAssumption DEF ForceAgentUpdate, TypeOK
<1>8. CASE Publish
  BY <1>8, RolloutAssumption DEF Publish, TypeOK, Version
<1>9. CASE WindowCloses \/ WindowOpens
  <2>1. windowOpen' \in BOOLEAN
    BY <1>9, Zenon DEF WindowCloses, WindowOpens
  <2>2. changes' \in 0 .. MaxChanges
    BY <1>9, RolloutAssumption DEF WindowCloses, WindowOpens, TypeOK
  <2> QED
    BY <1>9, <2>1, <2>2, Zenon DEF WindowCloses, WindowOpens, TypeOK
<1>10. ASSUME NEW p \in Version \cup {NoPin}, SetPin(p) PROVE TypeOK'
  BY <1>10, RolloutAssumption DEF SetPin, TypeOK
<1>11. CASE Tick
  <2>1. row' \in [Agent -> Row]
    BY <1>11, RolloutAssumption DEF Tick, TypeOK, Row, Oldest
  <2>2. request' \in [Agent -> Request]
    <3>1. ASSUME NEW a \in Agent, request[a].phase \in {"claim", "locked"}
          PROVE  [request[a] EXCEPT !.wait = @ + 1] \in Request
      <4>1. request[a] \in Request
        BY DEF TypeOK
      <4>2. request[a].wait + 1 \in 0 .. MaxWait
        BY <1>11, <3>1, <4>1, RolloutAssumption DEF Tick, Request
      <4> QED
        BY <4>1, <4>2, Zenon DEF Request
    <3> QED
      BY <1>11, <3>1 DEF Tick, TypeOK
  <2> QED
    BY <1>11, <2>1, <2>2 DEF Tick, TypeOK
<1>12. CASE UNCHANGED vars
  BY <1>12 DEF vars, TypeOK
<1> QED
  BY <1>2, <1>3, <1>4, <1>5, <1>6, <1>7, <1>8, <1>9, <1>10, <1>11, <1>12,
     HeartbeatType DEF Next

-----------------------------------------------------------------------------
(* Slots.                                                                  *)

LEMMA OthersFinite ==
  ASSUME NEW a \in Agent
  PROVE  /\ IsFiniteSet(Others(a)) /\ IsFiniteSet(InFlight)
         /\ Cardinality(Others(a)) \in Nat /\ Cardinality(InFlight) \in Nat
         /\ IsFiniteSet(Others(a)') /\ IsFiniteSet(InFlight')
<1>1. Others(a) \in SUBSET Agent /\ InFlight \in SUBSET Agent
  BY DEF Others, InFlight
<1>2. Others(a)' \in SUBSET Agent /\ InFlight' \in SUBSET Agent
  BY DEF Others, InFlight
<1> QED
  BY <1>1, <1>2, RolloutAssumption, FS_Subset, FS_CardinalityType

\* Where no offer gets younger for any claim, and no claim passes the count,
\* the slots stay sound.
LEMMA SlotsLapse ==
  ASSUME IndInv,
         InFlight' \subseteq InFlight,
         \A a \in Agent : request'[a].phase = "locked" =>
           request[a].phase = "locked" /\ Others(a)' \subseteq Others(a)
  PROVE  LockSound' /\ BudgetHeld'
<1>1. ASSUME NEW a \in Agent, request'[a].phase = "locked", MaxConcurrent > 0
      PROVE  Cardinality(Others(a)') < MaxConcurrent
  <2>1. Cardinality(Others(a)) < MaxConcurrent
    BY <1>1 DEF IndInv, LockSound
  <2>2. Cardinality(Others(a)') <= Cardinality(Others(a))
    BY <1>1, OthersFinite, FS_Subset
  <2>3. Cardinality(Others(a)') \in Nat
    BY OthersFinite, FS_CardinalityType
  <2> QED
    BY <2>1, <2>2, <2>3, OthersFinite, RolloutAssumption
<1>2. LockSound'
  BY <1>1 DEF IndInv, LockSound
<1>3. BudgetHeld'
  <2> SUFFICES ASSUME MaxConcurrent > 0, Agent # {}
               PROVE  Cardinality(InFlight') <= MaxConcurrent
    <3>1. CASE Agent = {}
      BY <3>1, FS_EmptySet, RolloutAssumption DEF BudgetHeld, InFlight
    <3> QED
      BY <3>1 DEF BudgetHeld
  <2>1. PICK a \in Agent : TRUE
    OBVIOUS
  <2>2. Cardinality(InFlight') <= Cardinality(InFlight)
    BY OthersFinite, FS_Subset
  <2>3. Cardinality(InFlight) <= MaxConcurrent
    BY DEF IndInv, BudgetHeld
  <2>4. Cardinality(InFlight') \in Nat
    BY OthersFinite, FS_CardinalityType
  <2> QED
    BY <2>2, <2>3, <2>4, OthersFinite, RolloutAssumption
<1> QED
  BY <1>2, <1>3

\* Every step but the count, the stamp and the clock lets each offer be or ends
\* it, and leaves the claims that are past the count alone.
LEMMA QuietStep ==
  ASSUME IndInv,
         \A b \in Agent : row'[b].offered \in {row[b].offered, NoOffer},
         \A a \in Agent : request'[a].phase = "locked" =>
           request[a].phase = "locked" /\ request'[a].wait = request[a].wait
  PROVE  LockSound' /\ BudgetHeld'
<1>1. InFlight' \subseteq InFlight
  BY DEF InFlight, InFlightAt
<1>2. ASSUME NEW a \in Agent, request'[a].phase = "locked"
      PROVE  Others(a)' \subseteq Others(a)
  BY <1>2 DEF Others, InFlightAt
<1> QED
  BY <1>1, <1>2, SlotsLapse

LEMMA AnswerUnlocks ==
  ASSUME TypeOK, NEW a \in Agent, NEW url, Answer(a, url)
  PROVE  /\ request'[a].phase # "locked"
         /\ \A b \in Agent : b # a => request'[b] = request[b]
BY DEF TypeOK, Answer, IdleRequest

LEMMA CountSlotsKeepsSlots ==
  ASSUME IndInv, NEW a \in Agent, CountSlots(a)
  PROVE  LockSound' /\ BudgetHeld'
<1>1. CASE BudgetFull(a)
  BY <1>1, QuietStep DEF CountSlots, Answer, IdleRequest, IndInv, TypeOK
<1>2. CASE ~BudgetFull(a)
  <2>1. /\ request' = [request EXCEPT ![a].phase = "locked"]
        /\ row' = row
    BY <1>2 DEF CountSlots
  <2>2. \A b \in Agent : request'[b].wait = request[b].wait
    BY <2>1 DEF IndInv, TypeOK, Request
  <2>3. \A b \in Agent : Others(b)' = Others(b)
    BY <2>1, <2>2 DEF Others, InFlightAt
  <2>4. \A b \in Agent : request'[b].phase = "locked" => b = a
    BY <2>1 DEF CountSlots, LockFree, IndInv, TypeOK, Request
  <2>5. MaxConcurrent > 0 => Cardinality(Others(a)) < MaxConcurrent
    BY <1>2, OthersFinite, RolloutAssumption DEF BudgetFull
  <2>6. LockSound'
    BY <2>3, <2>4, <2>5 DEF LockSound
  <2>7. BudgetHeld'
    BY <2>1 DEF IndInv, BudgetHeld, InFlight, InFlightAt
  <2> QED
    BY <2>6, <2>7
<1> QED
  BY <1>1, <1>2

\* The count was taken at the age the stamp has, so what holds a slot now was
\* counted: the offers have only aged since.
LEMMA StampSlotKeepsSlots ==
  ASSUME IndInv, NEW a \in Agent, StampSlot(a)
  PROVE  LockSound' /\ BudgetHeld'
<1>1. \A b \in Agent \ {a} : row'[b] = row[b] /\ request'[b] = request[b]
  BY DEF StampSlot, Answer, IndInv, TypeOK
<1>2. request'[a].phase # "locked" /\ request[a].phase = "locked"
  BY DEF StampSlot, Answer, IdleRequest, IndInv, TypeOK
<1>3. \A b \in Agent : request'[b].phase # "locked"
  BY <1>1, <1>2 DEF IndInv, LockSound
<1>4. LockSound'
  BY <1>3 DEF LockSound
<1>5. InFlight' \subseteq Others(a) \cup {a}
  <2>1. ASSUME NEW b \in Agent \ {a}, b \in InFlight' PROVE b \in Others(a)
    <3>1. row[b].offered \in 0 .. Oldest /\ request[a].wait \in 0 .. MaxWait
      BY <1>1, <2>1 DEF InFlight, InFlightAt, IndInv, TypeOK, Row, Request
    <3>2. row[b].offered < Grace
      BY <1>1, <2>1, <3>1, RolloutAssumption DEF InFlight, InFlightAt, Oldest
    <3> QED
      BY <1>1, <2>1, <3>1, <3>2, RolloutAssumption DEF Others, InFlight, InFlightAt, Oldest
  <2> QED
    BY <2>1 DEF InFlight
<1>6. ASSUME MaxConcurrent > 0 PROVE Cardinality(InFlight') <= MaxConcurrent
  <2>1. Cardinality(Others(a)) < MaxConcurrent
    BY <1>2, <1>6 DEF IndInv, LockSound
  <2>2. /\ IsFiniteSet(Others(a) \cup {a})
        /\ Cardinality(Others(a) \cup {a}) <= Cardinality(Others(a)) + 1
    <3>1. Cardinality(Others(a) \cup {a}) =
            IF a \in Others(a) THEN Cardinality(Others(a)) ELSE Cardinality(Others(a)) + 1
      BY OthersFinite, FS_AddElement
    <3> QED
      BY <3>1, OthersFinite, FS_AddElement
  <2>3. Cardinality(InFlight') <= Cardinality(Others(a) \cup {a})
    BY <1>5, <2>2, FS_Subset
  <2>4. Cardinality(InFlight') \in Nat /\ Cardinality(Others(a) \cup {a}) \in Nat
    BY <2>2, OthersFinite, FS_CardinalityType
  <2> QED
    BY <2>1, <2>2, <2>3, <2>4, OthersFinite, RolloutAssumption
<1> QED
  BY <1>4, <1>6 DEF BudgetHeld

\* Offers and claims age together; an age at the cap is past every grace period.
LEMMA TickKeepsSlots ==
  ASSUME IndInv, Tick
  PROVE  LockSound' /\ BudgetHeld'
<1>1. \A b \in Agent : row[b] \in Row /\ request[b] \in Request
  BY DEF IndInv, TypeOK
<1>2. \A b \in Agent :
        row'[b].offered = IF row[b].offered \in 0 .. Oldest - 1
                          THEN row[b].offered + 1 ELSE row[b].offered
  BY <1>1 DEF Tick, Row
<1>3. \A b \in Agent : request'[b].phase = request[b].phase
  BY <1>1 DEF Tick, Request
<1>4. \A b \in Agent : request[b].phase = "locked" =>
        request'[b].wait = request[b].wait + 1 /\ request[b].wait < MaxWait
  BY <1>1 DEF Tick, Request
<1>5. \A b \in Agent : row[b].offered \in 0 .. Oldest \cup {NoOffer}
  BY <1>1 DEF Row
<1>6. InFlight' \subseteq InFlight
  <2>1. ASSUME NEW b \in Agent, InFlightAt(b, 0)' PROVE InFlightAt(b, 0)
    BY <1>2, <1>5, <2>1, RolloutAssumption DEF InFlightAt, Oldest
  <2> QED
    BY <2>1 DEF InFlight
<1>7. ASSUME NEW a \in Agent, request'[a].phase = "locked"
      PROVE  request[a].phase = "locked" /\ Others(a)' \subseteq Others(a)
  <2>1. request[a].phase = "locked"
    BY <1>3, <1>7
  <2>2. request[a].wait \in Nat /\ request'[a].wait = request[a].wait + 1
        /\ request[a].wait < MaxWait
    BY <1>1, <1>4, <2>1, RolloutAssumption DEF Request
  <2>3. ASSUME NEW b \in Agent, b \in Others(a)' PROVE b \in Others(a)
    <3>1. row'[b].offered # NoOffer /\ row'[b].offered - (request[a].wait + 1) < Grace
      BY <2>2, <2>3 DEF Others, InFlightAt
    <3>2. row[b].offered # NoOffer /\ row[b].offered - request[a].wait < Grace
      BY <1>2, <1>5, <2>2, <3>1, RolloutAssumption DEF Oldest
    <3> QED
      BY <2>3, <3>2 DEF Others, InFlightAt
  <2> QED
    BY <2>1, <2>3 DEF Others
<1> QED
  BY <1>6, <1>7, SlotsLapse

-----------------------------------------------------------------------------
(* The theorems.                                                           *)

LEMMA IndInvInit == Init => IndInv
<1> SUFFICES ASSUME Init PROVE IndInv
  OBVIOUS
<1>1. TypeOK
  BY TypeInit
<1>2. LockSound
  BY DEF Init, LockSound, IdleRequest
<1>3. InFlight = {}
  BY DEF Init, InFlight, InFlightAt, EmptyRow
<1>4. BudgetHeld
  BY <1>3, FS_EmptySet, RolloutAssumption DEF BudgetHeld
<1> QED
  BY <1>1, <1>2, <1>4 DEF IndInv

LEMMA SlotsStep == IndInv /\ [Next]_vars => LockSound' /\ BudgetHeld'
<1> SUFFICES ASSUME IndInv, [Next]_vars PROVE LockSound' /\ BudgetHeld'
  OBVIOUS
<1> USE DEF fleetVars, agentVars
<1>1. \A a \in Agent : row[a] \in Row /\ request[a] \in Request
  BY DEF IndInv, TypeOK
<1>2. ASSUME NEW a \in Agent, Heartbeat(a) PROVE LockSound' /\ BudgetHeld'
  <2>1. CASE RegisterAgent(a)
    <3>1. \A b \in Agent : row'[b].offered = row[b].offered
      BY <1>1, <2>1 DEF RegisterAgent, TakePending, IndInv, TypeOK, Row
    <3>2. \A b \in Agent : b # a => request'[b] = request[b]
      BY <2>1 DEF RegisterAgent, IndInv, TypeOK
    <3>3. request'[a].phase # "locked"
      BY <2>1 DEF RegisterAgent, IdleRequest, IndInv, TypeOK
    <3> QED
      BY <3>1, <3>2, <3>3, QuietStep
  <2>2. CASE ReleaseUpdateSlot(a)
    <3>1. \A b \in Agent : row'[b].offered \in {row[b].offered, NoOffer}
      BY <1>1, <2>2 DEF ReleaseUpdateSlot, IndInv, TypeOK, Row
    <3> QED
      BY <2>2, <3>1, AnswerUnlocks, QuietStep DEF ReleaseUpdateSlot, IndInv
  <2>3. CASE OutsideWindow(a) \/ RenewSlot(a)
    BY <2>3, AnswerUnlocks, QuietStep DEF OutsideWindow, RenewSlot, IndInv
  <2>4. CASE BeginClaim(a)
    <3>1. request'[a].phase = "claim" /\ \A b \in Agent : b # a => request'[b] = request[b]
      BY <1>1, <2>4 DEF BeginClaim, IndInv, TypeOK, Request
    <3> QED
      BY <2>4, <3>1, QuietStep DEF BeginClaim
  <2>5. CASE ReceiveAnswer(a) \/ AnswerUnheard(a)
    BY <2>5, QuietStep DEF ReceiveAnswer, AnswerUnheard, IdleRequest, IndInv, TypeOK
  <2> QED
    BY <1>2, <2>1, <2>2, <2>3, <2>4, <2>5, CountSlotsKeepsSlots, StampSlotKeepsSlots DEF Heartbeat
<1>3. ASSUME NEW a \in Agent,
             HandlerFails(a) \/ ClientGivesUp(a) \/ InstallSucceeds(a)
               \/ InstallFails(a) \/ AgentRestarts(a)
      PROVE  LockSound' /\ BudgetHeld'
  <2>1. row' = row
    BY <1>3 DEF HandlerFails, ClientGivesUp, InstallSucceeds, InstallFails, AgentRestarts
  <2>2. \A b \in Agent : request'[b].phase = "locked" =>
          request[b].phase = "locked" /\ request'[b].wait = request[b].wait
    <3>1. CASE HandlerFails(a)
      BY <3>1 DEF HandlerFails, IdleRequest, IndInv, TypeOK
    <3>2. CASE ClientGivesUp(a)
      BY <1>1, <3>2 DEF ClientGivesUp, IndInv, TypeOK, Request
    <3>3. CASE InstallSucceeds(a) \/ AgentRestarts(a)
      BY <1>1, <3>3 DEF InstallSucceeds, AgentRestarts, Hangup, IndInv, TypeOK, Request
    <3>4. CASE InstallFails(a)
      BY <3>4 DEF InstallFails
    <3> QED
      BY <1>3, <3>1, <3>2, <3>3, <3>4
  <2> QED
    BY <2>1, <2>2, QuietStep
<1>4. ASSUME NEW a \in Agent, ForceAgentUpdate(a) PROVE LockSound' /\ BudgetHeld'
  <2>1. \A b \in Agent : row'[b].offered = row[b].offered
    BY <1>1, <1>4 DEF ForceAgentUpdate, IndInv, TypeOK, Row
  <2> QED
    BY <1>4, <2>1, QuietStep DEF ForceAgentUpdate
<1>5. CASE Publish \/ WindowCloses \/ WindowOpens
           \/ \E p \in Version \cup {NoPin} : SetPin(p)
  BY <1>5, QuietStep DEF Publish, WindowCloses, WindowOpens, SetPin
<1>6. CASE UNCHANGED vars
  BY <1>6, QuietStep DEF vars
<1> QED
  BY <1>2, <1>3, <1>4, <1>5, <1>6, TickKeepsSlots DEF Next

\* Types, the claim's room and the cap hold in every reachable state.
THEOREM Invariance == Spec => []IndInv
<1>1. IndInv /\ [Next]_vars => IndInv'
  BY TypeStep, SlotsStep DEF IndInv
<1> QED
  BY IndInvInit, <1>1, PTL DEF Spec

\* Never more agents hold a slot within its grace period than the cap allows:
\* ClaimUpdateSlot's count and stamp under the lock are exact even where a claim
\* waits so long that its NOW() is old.
THEOREM RolloutWithinBudget == Spec => []BudgetHeld
<1>1. IndInv => BudgetHeld
  BY DEF IndInv
<1> QED
  BY Invariance, <1>1, PTL

\* The rows, the requests and the agents' updates keep their types.
THEOREM TypeCorrect == Spec => []TypeOK
<1>1. IndInv => TypeOK
  BY DEF IndInv
<1> QED
  BY Invariance, <1>1, PTL
=============================================================================
