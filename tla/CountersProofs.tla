---------------------------- MODULE CountersProofs ----------------------------
(***************************************************************************)
(* For any label sets, readers, periods and hold: whatever fails between   *)
(* the agent, its server and Prometheus, and however scrapes overlap, the  *)
(* counters account for every amount added, and in scrape mode an amount   *)
(* is exposed only after a response that showed its zero; in push mode, if *)
(* the hold is longer than a scrape period and the server does not stop,   *)
(* Prometheus gets the zero before the amount.  Each mode has its          *)
(* inductive invariant; the mode never changes.                            *)
(***************************************************************************)
EXTENDS Counters, TLAPS

-----------------------------------------------------------------------------
(* What each method of a BaselineCounterVec does to its tables.            *)

CounterInv == CounterTypeOK /\ HeldOrExposed

LEMMA CounterInvInit == CounterInit => CounterInv
  BY NotPendingAssumption, BaselineAssumption
     DEF CounterInit, CounterInv, CounterTypeOK, HeldOrExposed, Pending

\* What a step must show of each label set it touches.
LEMMA CounterInvFromSeries ==
  ASSUME value' = [k \in Series |-> value'[k]],
         pending' = [k \in Series |-> pending'[k]],
         added' = [k \in Series |-> added'[k]],
         exposed' \in SUBSET Series,
         \A k \in Series :
           /\ value'[k] \in Nat \cup {NoSample}
           /\ pending'[k] \in Held \cup {NotPending}
           /\ added'[k] \in Nat
           /\ IF pending'[k] # NotPending
              THEN k \notin exposed' /\ value'[k] = 0 /\ pending'[k].amount = added'[k]
              ELSE IF k \in exposed' THEN value'[k] = added'[k] /\ value'[k] > 0
                                     ELSE value'[k] = NoSample /\ added'[k] = 0
  PROVE  CounterInv'
<1>1. CounterTypeOK'
  <2>1. value' \in [Series -> Nat \cup {NoSample}]
    OBVIOUS
  <2>2. pending' \in [Series -> Held \cup {NotPending}]
    OBVIOUS
  <2>3. added' \in [Series -> Nat]
    OBVIOUS
  <2> QED
    BY <2>1, <2>2, <2>3 DEF CounterTypeOK
<1>2. HeldOrExposed'
  BY DEF HeldOrExposed, Pending
<1> QED
  BY <1>1, <1>2 DEF CounterInv

\* Add holds back the first amounts of a label set and loses none.
LEMMA AddKeepsCounterInv ==
  ASSUME CounterInv, NEW l \in Series, NEW v \in Nat \ {0}, Add(l, v)
  PROVE  /\ CounterInv' /\ exposed' = exposed
         /\ \A k \in Series : value[k] # NoSample => value'[k] # NoSample
<1> USE DEF CounterInv
<1>1. added' = [added EXCEPT ![l] = @ + v] /\ exposed' = exposed
  BY DEF Add
<1>2. CASE l \in exposed
  <2>1. value' = [value EXCEPT ![l] = @ + v] /\ pending' = pending
    BY <1>2 DEF Add
  <2>2. pending[l] = NotPending /\ value[l] = added[l] /\ value[l] \in Nat
    BY <1>2 DEF HeldOrExposed, Pending, CounterTypeOK
  <2>3. CounterInv'
    BY <1>1, <1>2, <2>1, <2>2, CounterInvFromSeries
       DEF CounterTypeOK, HeldOrExposed, Pending
  <2> QED
    BY <1>1, <2>1, <2>2, <2>3, BaselineAssumption DEF CounterTypeOK
<1>3. CASE l \notin exposed /\ l \in Pending
  <2>1. value' = value /\ pending' = [pending EXCEPT ![l].amount = @ + v]
    BY <1>3 DEF Add
  <2>2. pending[l] \in Held /\ pending[l].amount = added[l] /\ value[l] = 0
    BY <1>3 DEF HeldOrExposed, Pending, CounterTypeOK
  <2>3. /\ [pending[l] EXCEPT !.amount = @ + v] \in Held
        /\ [pending[l] EXCEPT !.amount = @ + v].amount = added[l] + v
    BY <2>2 DEF Held
  <2>4. CounterInv'
    BY <1>1, <1>3, <2>1, <2>2, <2>3, NotPendingAssumption, CounterInvFromSeries
       DEF CounterTypeOK, HeldOrExposed, Pending
  <2> QED
    BY <1>1, <2>1, <2>4
<1>4. CASE l \notin exposed /\ l \notin Pending
  <2> DEFINE held == [amount |-> v, since |-> Undelivered]
  <2>1. value' = [value EXCEPT ![l] = 0] /\ pending' = [pending EXCEPT ![l] = held]
    BY <1>4 DEF Add
  <2>2. held \in Held /\ held.amount = v
    BY DEF Held
  <2>3. added[l] = 0
    BY <1>4 DEF HeldOrExposed
  <2> HIDE DEF held
  <2>4. CounterInv'
    BY <1>1, <1>4, <2>1, <2>2, <2>3, NotPendingAssumption, CounterInvFromSeries
       DEF CounterTypeOK, HeldOrExposed, Pending
  <2> QED
    BY <1>1, <2>1, <2>4, BaselineAssumption DEF CounterTypeOK
<1> QED
  BY <1>2, <1>3, <1>4

\* Releasing held amounts exposes each of them once.
LEMMA ReleaseKeepsCounterInv ==
  ASSUME CounterInv, NEW token \in SUBSET Series, Release(token)
  PROVE  /\ CounterInv' /\ exposed' = exposed \cup (token \cap Pending)
         /\ \A k \in Series : value[k] # NoSample => value'[k] # NoSample
<1> USE DEF CounterInv
<1>1. /\ \A k \in Series : value'[k] = IF k \in token \cap Pending
                                       THEN value[k] + pending[k].amount ELSE value[k]
      /\ exposed' = exposed \cup (token \cap Pending)
      /\ \A k \in Series : pending'[k] = IF k \in token THEN NotPending ELSE pending[k]
      /\ added' = added
  BY DEF Release, Expose
<1>2. \A k \in Pending : /\ pending[k].amount \in Nat \ {0} /\ value[k] = 0
                        /\ pending[k].amount = added[k] /\ k \in Series
  BY DEF Pending, HeldOrExposed, CounterTypeOK, Held
<1>3. CounterInv'
  <2>1. value' = [k \in Series |-> value'[k]] /\ pending' = [k \in Series |-> pending'[k]]
    BY DEF Release, Expose
  <2>2. added' = [k \in Series |-> added'[k]] /\ exposed' \in SUBSET Series
    BY <1>1 DEF CounterTypeOK
  <2> QED
    BY <1>1, <1>2, <2>1, <2>2, CounterInvFromSeries
       DEF CounterTypeOK, HeldOrExposed, Pending
<1> QED
  BY <1>1, <1>2, <1>3, BaselineAssumption

\* So does a delivery, of the amounts whose zero has stood long enough.
LEMMA DeliveredKeepsCounterInv ==
  ASSUME CounterInv, NEW token \in SUBSET Series, Delivered(token)
  PROVE  CounterInv'
<1> USE DEF CounterInv
<1>1. /\ \A k \in Series : value'[k] = IF k \in Due(token)
                                       THEN value[k] + pending[k].amount ELSE value[k]
      /\ exposed' = exposed \cup Due(token)
      /\ added' = added
  BY DEF Delivered, Expose
<1>2. \A k \in Pending : /\ pending[k] \in Held /\ value[k] = 0
                        /\ pending[k].amount = added[k] /\ k \in Series
  BY DEF Pending, HeldOrExposed, CounterTypeOK
<1>3. Due(token) \subseteq Pending
  BY DEF Due
<1>4. ASSUME NEW k \in Series
      PROVE  \/ k \in Due(token) /\ pending'[k] = NotPending
             \/ /\ k \in Pending \ Due(token) /\ pending'[k] \in Held
                /\ pending'[k].amount = pending[k].amount
             \/ k \notin Pending /\ pending'[k] = NotPending
  <2>1. CASE k \in Due(token)
    BY <2>1 DEF Delivered
  <2>2. CASE k \notin Due(token) /\ k \in token \cap Pending /\ pending[k].since = Undelivered
    <3>1. pending'[k] = [pending[k] EXCEPT !.since = 0]
      BY <2>2 DEF Delivered
    <3>2. 0 \in 0 .. Hold
      BY BaselineAssumption
    <3> QED
      BY <1>2, <2>2, <3>1, <3>2 DEF Held
  <2>3. CASE k \notin Due(token) /\ ~(k \in token \cap Pending /\ pending[k].since = Undelivered)
    <3>1. pending'[k] = pending[k]
      BY <2>3 DEF Delivered
    <3> QED
      BY <1>2, <2>3, <3>1 DEF Pending
  <2> QED
    BY <2>1, <2>2, <2>3
<1>5. value' = [k \in Series |-> value'[k]] /\ pending' = [k \in Series |-> pending'[k]]
  BY DEF Delivered, Expose
<1>6. added' = [k \in Series |-> added'[k]] /\ exposed' \in SUBSET Series
  BY <1>1, <1>3 DEF CounterTypeOK, Pending
<1> SUFFICES ASSUME NEW k \in Series
             PROVE  /\ value'[k] \in Nat \cup {NoSample}
                    /\ pending'[k] \in Held \cup {NotPending}
                    /\ added'[k] \in Nat
                    /\ IF pending'[k] # NotPending
                       THEN /\ k \notin exposed' /\ value'[k] = 0
                            /\ pending'[k].amount = added'[k]
                       ELSE IF k \in exposed' THEN value'[k] = added'[k] /\ value'[k] > 0
                                              ELSE value'[k] = NoSample /\ added'[k] = 0
  BY <1>5, <1>6, CounterInvFromSeries
<1>7. CASE k \in Due(token)
  <2>1. pending[k].amount \in Nat \ {0}
    BY <1>2, <1>3, <1>7 DEF Held
  <2> QED
    BY <1>1, <1>2, <1>3, <1>4, <1>7, <2>1 DEF CounterTypeOK, Pending
<1>8. CASE k \in Pending \ Due(token)
  BY <1>1, <1>2, <1>4, <1>8, NotPendingAssumption DEF CounterTypeOK, HeldOrExposed
<1>9. CASE k \notin Pending
  BY <1>1, <1>3, <1>4, <1>9 DEF CounterTypeOK, HeldOrExposed
<1> QED
  BY <1>3, <1>7, <1>8, <1>9

\* Time passing changes no amount.
LEMMA AgeKeepsCounterInv == ASSUME CounterInv, Age PROVE CounterInv'
<1> USE DEF CounterInv
<1>1. value' = value /\ exposed' = exposed /\ added' = added
  BY DEF Age
<1>2. ASSUME NEW k \in Series
      PROVE  IF k \in Pending THEN /\ pending'[k] \in Held
                                   /\ pending'[k].amount = pending[k].amount
                              ELSE pending'[k] = NotPending
  <2>1. CASE k \in Pending /\ pending[k].since \in 0 .. Hold - 1
    <3>1. pending'[k] = [pending[k] EXCEPT !.since = @ + 1]
      BY <2>1 DEF Age
    <3>2. pending[k] \in Held
      BY <2>1 DEF Pending, CounterTypeOK
    <3>3. pending[k].since + 1 \in 0 .. Hold
      BY <2>1, BaselineAssumption
    <3> QED
      BY <2>1, <3>1, <3>2, <3>3 DEF Held
  <2>2. CASE ~(k \in Pending /\ pending[k].since \in 0 .. Hold - 1)
    BY <2>2 DEF Age, Pending, CounterTypeOK
  <2> QED
    BY <2>1, <2>2
<1>3. pending' = [k \in Series |-> pending'[k]]
  BY DEF Age
<1> QED
  BY <1>1, <1>2, <1>3, NotPendingAssumption, CounterInvFromSeries
     DEF CounterTypeOK, HeldOrExposed, Pending

-----------------------------------------------------------------------------
(* Scrape mode.  ZeroShownFirst is not inductive: what a request is about  *)
(* to release must be tied to what its body shows.                         *)

\* A token names label sets that existed when the request began, and a body
\* gathered since shows each of them at 0 unless another request has
\* released it.
TokenSound ==
  \A r \in Reader : \A l \in request[r].token :
    /\ request[r].phase # "idle"
    /\ value[l] # NoSample
    /\ request[r].phase = "gathered" => request[r].body[l] = 0 \/ l \in exposed

ScrapeInv ==
  /\ CounterInv
  /\ request \in [Reader -> Request]
  /\ shown \in SUBSET Series
  /\ TokenSound
  /\ exposed \subseteq shown

LEMMA ScrapeInvInit == ScrapeInit => ScrapeInv
<1> SUFFICES ASSUME ScrapeInit PROVE ScrapeInv
  OBVIOUS
<1>1. CounterInv
  BY CounterInvInit DEF ScrapeInit
<1>2. IdleRequest \in Request
  BY DEF IdleRequest, Request, ScrapeBody
<1> QED
  BY <1>1, <1>2 DEF ScrapeInit, ScrapeInv, TokenSound, IdleRequest, CounterInit

LEMMA ScrapeInvStep == ScrapeInv /\ [ScrapeNext]_scrapeVars => ScrapeInv'
<1> SUFFICES ASSUME ScrapeInv, [ScrapeNext]_scrapeVars PROVE ScrapeInv'
  OBVIOUS
<1> USE DEF ScrapeInv
<1>1. ASSUME NEW l \in Series, CountLocally(l) PROVE ScrapeInv'
  <2>1. /\ CounterInv' /\ exposed' = exposed
        /\ \A k \in Series : value[k] # NoSample => value'[k] # NoSample
    BY <1>1, AddKeepsCounterInv DEF CountLocally
  <2>2. request' = request /\ shown' = shown
    BY <1>1 DEF CountLocally
  <2>3. TokenSound'
    BY <2>1, <2>2 DEF TokenSound, Request
  <2> QED
    BY <2>1, <2>2, <2>3
<1>2. ASSUME NEW r \in Reader, BeginRequest(r) PROVE ScrapeInv'
  <2>1. UNCHANGED <<value, exposed, pending, added, shown>>
    BY <1>2 DEF BeginRequest, counterVars
  <2>2. CounterInv'
    BY <2>1 DEF CounterInv, CounterTypeOK, HeldOrExposed, Pending
  <2>3. request' = [request EXCEPT ![r].phase = "begun", ![r].token = Pending]
    BY <1>2 DEF BeginRequest, BeginScrape
  <2>4. Pending \in SUBSET Series /\ \A l \in Pending : value[l] # NoSample
    BY BaselineAssumption DEF CounterInv, HeldOrExposed, Pending
  <2>5. request' \in [Reader -> Request]
    BY <2>3, <2>4 DEF Request
  <2>6. TokenSound'
    BY <2>1, <2>3, <2>4 DEF TokenSound, Request
  <2> QED
    BY <2>1, <2>2, <2>5, <2>6
<1>3. ASSUME NEW r \in Reader, GatherRequest(r) PROVE ScrapeInv'
  <2>1. UNCHANGED <<value, exposed, pending, added, shown>>
    BY <1>3 DEF GatherRequest, counterVars
  <2>2. CounterInv'
    BY <2>1 DEF CounterInv, CounterTypeOK, HeldOrExposed, Pending
  <2>3. request' = [request EXCEPT ![r].phase = "gathered", ![r].body = value]
    BY <1>3 DEF GatherRequest
  <2>4. request' \in [Reader -> Request]
    BY <2>3 DEF Request, ScrapeBody, CounterInv, CounterTypeOK
  <2>5. \A l \in Series : value[l] # NoSample => value[l] = 0 \/ l \in exposed
    BY DEF CounterInv, HeldOrExposed, Pending
  <2>6. TokenSound'
    BY <2>1, <2>3, <2>5 DEF TokenSound, Request
  <2> QED
    BY <2>1, <2>2, <2>4, <2>6
<1>4. ASSUME NEW r \in Reader, FinishRequest(r) PROVE ScrapeInv'
  <2> DEFINE token == request[r].token
  <2>1. token \in SUBSET Series
    BY DEF Request
  <2>2. /\ CounterInv' /\ exposed' = exposed \cup (token \cap Pending)
        /\ \A k \in Series : value[k] # NoSample => value'[k] # NoSample
    BY <1>4, <2>1, ReleaseKeepsCounterInv DEF FinishRequest
  <2>3. /\ request' = [request EXCEPT ![r] = IdleRequest]
        /\ shown' = shown \cup {l \in Series : request[r].body[l] = 0}
    BY <1>4 DEF FinishRequest
  <2>4. IdleRequest \in Request /\ IdleRequest.token = {}
    BY DEF IdleRequest, Request, ScrapeBody
  <2>5. TokenSound'
    BY <2>2, <2>3, <2>4 DEF TokenSound, Request
  <2>6. \A l \in token \cap Pending : request[r].body[l] = 0
    BY <1>4, <2>1 DEF FinishRequest, TokenSound, CounterInv, HeldOrExposed, Pending
  <2> QED
    BY <2>2, <2>3, <2>4, <2>5, <2>6 DEF Pending
<1>5. CASE UNCHANGED scrapeVars
  <2>1. CounterInv'
    BY <1>5 DEF scrapeVars, counterVars, CounterInv, CounterTypeOK, HeldOrExposed, Pending
  <2> QED
    BY <1>5, <2>1 DEF scrapeVars, counterVars, TokenSound
<1> QED
  BY <1>1, <1>2, <1>3, <1>4, <1>5 DEF ScrapeNext

-----------------------------------------------------------------------------
(* Push mode.                                                              *)

PushTypeOK ==
  /\ push \in Push /\ pushIn \in 0 .. PushEvery
  /\ snapshot \in Snapshot \cup {NoSnapshot} /\ serverUp \in BOOLEAN
  /\ scrapeIn \in 0 .. ScrapeEvery
  /\ seen \in [Series -> [first : Sample, last : Sample]]
  /\ faults \in [failures : 0 .. MaxFailures, stops : 0 .. MaxStops,
                 down : 0 .. MaxDown, restarts : 0 .. MaxRestarts]

PushInv == CounterInv /\ PushTypeOK

LEMMA Idle == IdlePush \in Push
  BY PushAssumption DEF IdlePush, Push, Body, Sample, Nothing

LEMMA PushInvInit == Init => PushInv
<1> SUFFICES ASSUME Init PROVE PushInv
  OBVIOUS
<1>1. faults \in [failures : 0 .. MaxFailures, stops : 0 .. MaxStops,
                 down : 0 .. MaxDown, restarts : 0 .. MaxRestarts]
  BY PushAssumption DEF Init
<1>2. pushIn \in 0 .. PushEvery /\ scrapeIn \in 0 .. ScrapeEvery
  BY PushAssumption DEF Init
<1>3. seen \in [Series -> [first : Sample, last : Sample]]
  BY DEF Init, Unseen, Sample
<1> QED
  BY <1>1, <1>2, <1>3, Idle, CounterInvInit DEF Init, PushInv, PushTypeOK

LEMMA PushInvStep == PushInv /\ [Next]_vars => PushInv'
<1> SUFFICES ASSUME PushInv, [Next]_vars PROVE PushInv'
  OBVIOUS
<1> USE DEF PushInv, PushTypeOK
<1>1. UNCHANGED counterVars => CounterInv'
  BY DEF counterVars, CounterInv, CounterTypeOK, HeldOrExposed, Pending
<1>2. ASSUME NEW l \in Series, Count(l) PROVE PushInv'
  BY <1>2, AddKeepsCounterInv DEF Count, pushVars, serverVars, promVars
<1>3. CASE BeginPush
  <2>1. push' \in Push
    BY Idle, <1>3 DEF BeginPush, BeginScrape, Pending, Push
  <2>2. pushIn' \in 0 .. PushEvery
    BY <1>3, PushAssumption DEF BeginPush
  <2> QED
    BY <1>1, <1>3, <2>1, <2>2 DEF BeginPush, serverVars, promVars
<1>4. CASE Gather
  <2>1. push' \in Push
    BY <1>4 DEF Gather, Push, Body, CounterInv, CounterTypeOK, Sample
  <2> QED
    BY <1>1, <1>4, <2>1 DEF Gather, serverVars, promVars
<1>5. CASE PushAgentMetrics
  <2>1. push' \in Push
    BY <1>5 DEF PushAgentMetrics, Push
  <2>2. snapshot' \in Snapshot
    BY <1>5, PushAssumption DEF PushAgentMetrics, Snapshot, Push
  <2> QED
    BY <1>1, <1>5, <2>1, <2>2 DEF PushAgentMetrics, promVars
<1>6. CASE PushDelivered
  <2>1. push.token \in SUBSET Series
    BY DEF Push
  <2> QED
    BY Idle, <1>6, <2>1, DeliveredKeepsCounterInv DEF PushDelivered, serverVars, promVars
<1>7. CASE PushFails
  <2>1. faults.failures + 1 \in 0 .. MaxFailures
    BY <1>7, PushAssumption DEF PushFails
  <2> QED
    BY Idle, <1>1, <1>7, <2>1 DEF PushFails, serverVars, promVars
<1>8. CASE PushRefused
  BY Idle, <1>1, <1>8 DEF PushRefused, serverVars, promVars
<1>9. CASE AgentRestarts
  <2>1. CounterInit'
    BY <1>9 DEF AgentRestarts, ResetCounters, CounterInit
  <2>2. CounterInv'
    BY <2>1, NotPendingAssumption, BaselineAssumption
       DEF CounterInit, CounterInv, CounterTypeOK, HeldOrExposed, Pending
  <2>3. faults.restarts + 1 \in 0 .. MaxRestarts /\ pushIn' \in 0 .. PushEvery
    BY <1>9, PushAssumption DEF AgentRestarts
  <2>4. snapshot' \in Snapshot \cup {NoSnapshot}
    BY <1>9 DEF AgentRestarts, Snapshot
  <2>5. seen' \in [Series -> [first : Sample, last : Sample]]
    BY <1>9 DEF AgentRestarts, Unseen, Sample
  <2> QED
    BY Idle, <1>9, <2>2, <2>3, <2>4, <2>5 DEF AgentRestarts
<1>10. CASE ServerStops
  <2>1. faults.stops + 1 \in 0 .. MaxStops /\ 0 \in 0 .. MaxDown
    BY <1>10, PushAssumption DEF ServerStops
  <2> QED
    BY <1>1, <1>10, <2>1 DEF ServerStops, pushVars, promVars
<1>11. CASE ServerStarts
  BY <1>1, <1>11 DEF ServerStarts, pushVars, promVars
<1>12. CASE Scrape
  <2>1. Served \in Body
    BY DEF Served, Nothing, Body, Sample, Snapshot
  <2>2. seen' \in [Series -> [first : Sample, last : Sample]]
    BY <1>12, <2>1 DEF Scrape, Observe, Body, Sample
  <2>3. scrapeIn' \in 0 .. ScrapeEvery
    BY <1>12, PushAssumption DEF Scrape
  <2> QED
    BY <1>1, <1>12, <2>2, <2>3 DEF Scrape, pushVars, serverVars
<1>13. CASE Tick
  <2>1. CounterInv'
    BY <1>13, AgeKeepsCounterInv DEF Tick
  <2>2. push' \in Push
    <3>1. CASE push.phase = "idle"
      BY <1>13, <3>1 DEF Tick
    <3>2. CASE push.phase # "idle"
      <4>1. push' = [push EXCEPT !.age = @ + 1] /\ push.age < PushLate
        BY <1>13, <3>2 DEF Tick
      <4>2. push.age + 1 \in 0 .. PushLate
        BY <4>1, PushAssumption DEF Push
      <4> QED
        BY <4>1, <4>2 DEF Push
    <3> QED
      BY <3>1, <3>2
  <2>3. pushIn' \in 0 .. PushEvery /\ scrapeIn' \in 0 .. ScrapeEvery
    BY <1>13, PushAssumption DEF Tick
  <2>4. snapshot' \in Snapshot \cup {NoSnapshot}
    <3>1. CASE snapshot = NoSnapshot \/ snapshot.age = Staleness
      BY <1>13, <3>1 DEF Tick
    <3>2. CASE ~(snapshot = NoSnapshot \/ snapshot.age = Staleness)
      <4>1. snapshot \in Snapshot /\ snapshot' = [snapshot EXCEPT !.age = @ + 1]
        BY <1>13, <3>2 DEF Tick
      <4>2. snapshot.age + 1 \in 0 .. Staleness
        BY <3>2, <4>1, PushAssumption DEF Snapshot
      <4> QED
        BY <4>1, <4>2 DEF Snapshot
    <3> QED
      BY <3>1, <3>2
  <2>5. faults' \in [failures : 0 .. MaxFailures, stops : 0 .. MaxStops,
                     down : 0 .. MaxDown, restarts : 0 .. MaxRestarts]
    <3>1. serverUp \/ faults.down + 1 \in 0 .. MaxDown
      BY <1>13, PushAssumption DEF Tick
    <3> QED
      BY <1>13, <3>1 DEF Tick
  <2> QED
    BY <1>13, <2>1, <2>2, <2>3, <2>4, <2>5 DEF Tick
<1>14. CASE UNCHANGED vars
  BY <1>1, <1>14 DEF vars, pushVars, serverVars, promVars
<1> QED
  BY <1>2, <1>3, <1>4, <1>5, <1>6, <1>7, <1>8, <1>9, <1>10, <1>11, <1>12, <1>13, <1>14
     DEF Next

-----------------------------------------------------------------------------
(* The first sample.  While the server has not stopped, a series whose     *)
(* first sample is not 0 has none, and whatever may still be scraped shows *)
(* it at 0 or not at all.  A zero that was delivered is scraped before it  *)
(* has stood for Hold: the store has a body that shows it, no older than   *)
(* PushLate more than the zero has stood, and the next scrape is due       *)
(* ScrapeEvery after the delivery at the latest.                           *)

Shows(body, l) == body[l] = 0
MayShow(body, l) == body[l] \in {0, NoSample}

\* What a push under way carries of a series that has no sample yet.
PushSound(l) ==
  /\ l \in push.token => value[l] # NoSample
  /\ push.phase \in {"gathered", "accepted"} =>
       /\ MayShow(push.body, l)
       /\ l \in push.token => Shows(push.body, l)
       /\ l \in Pending /\ pending[l].since # Undelivered => Shows(push.body, l)
  /\ push.phase = "accepted" /\ l \in push.token =>
       /\ snapshot # NoSnapshot /\ snapshot.fresh /\ Shows(snapshot.body, l)
       /\ snapshot.age <= push.age

\* A delivered zero waits for a scrape that is due before the hold ends.
ZeroStands(l) ==
  l \in Pending /\ pending[l].since # Undelivered =>
    /\ snapshot # NoSnapshot /\ snapshot.fresh /\ Shows(snapshot.body, l)
    /\ snapshot.age <= pending[l].since + PushLate
    /\ pending[l].since + scrapeIn <= ScrapeEvery

Unshown(l) ==
  /\ seen[l].first = NoSample
  /\ l \notin exposed
  /\ PushSound(l)
  /\ snapshot # NoSnapshot /\ snapshot.fresh => MayShow(snapshot.body, l)
  /\ ZeroStands(l)

SampleInv ==
  faults.stops = 0 => \A l \in Series : seen[l].first = 0 \/ Unshown(l)

LEMMA SampleInvInit == Init => SampleInv
<1> SUFFICES ASSUME Init, NEW l \in Series PROVE Unshown(l)
  BY DEF SampleInv
<1> QED
  BY DEF Init, CounterInit, Unseen, Unshown, PushSound, ZeroStands, IdlePush, Pending

\* Nothing that is read of a series here changes.
LEMMA UnshownFramed ==
  ASSUME NEW l \in Series, Unshown(l),
         UNCHANGED <<value, exposed, pending, push, snapshot, scrapeIn, seen>>
  PROVE  Unshown(l)'
  BY DEF Unshown, PushSound, ZeroStands, Pending

\* A push that is idle carries nothing.
LEMMA UnshownWithoutPush ==
  ASSUME NEW l \in Series, Unshown(l), push' = IdlePush,
         UNCHANGED <<value, exposed, pending, snapshot, scrapeIn, seen>>
  PROVE  Unshown(l)'
  BY DEF Unshown, PushSound, ZeroStands, Pending, IdlePush

\* What a delivery does to a label set whose zero has not stood for Hold.
LEMMA DeliveryOfYoung ==
  ASSUME CounterInv, NEW token \in SUBSET Series, Delivered(token),
         NEW l \in Series, l \in Pending => pending[l].since # Hold
  PROVE  /\ value'[l] = value[l] /\ (l \in exposed' <=> l \in exposed)
         /\ \/ pending'[l] = pending[l]
            \/ l \in token /\ l \in Pending /\ pending'[l].since = 0
<1>1. l \notin Due(token)
  BY DEF Due
<1>2. value'[l] = value[l] /\ (l \in exposed' <=> l \in exposed)
  BY <1>1 DEF Delivered, Expose
<1>3. CASE l \in token \cap Pending /\ pending[l].since = Undelivered
  <2>1. pending'[l] = [pending[l] EXCEPT !.since = 0]
    BY <1>1, <1>3 DEF Delivered
  <2>2. pending[l] \in Held
    BY <1>3 DEF CounterInv, CounterTypeOK, Pending
  <2> QED
    BY <1>2, <1>3, <2>1, <2>2 DEF Held
<1>4. CASE ~(l \in token \cap Pending /\ pending[l].since = Undelivered)
  BY <1>1, <1>2, <1>4 DEF Delivered
<1> QED
  BY <1>3, <1>4

LEMMA SampleInvStep == PushInv /\ SampleInv /\ [Next]_vars => SampleInv'
<1> SUFFICES ASSUME PushInv, SampleInv, [Next]_vars, faults'.stops = 0,
                    NEW l \in Series
             PROVE  seen'[l].first = 0 \/ Unshown(l)'
  BY DEF SampleInv
<1>a. PushInv'
  BY PushInvStep
<1>b. faults.stops = 0
  <2>1. CASE ServerStops
    <3>1. faults'.stops = faults.stops + 1 /\ faults.stops \in Nat
      BY <2>1 DEF ServerStops, PushInv, PushTypeOK
    <3> QED
      BY <3>1
  <2>2. CASE ~ServerStops
    <3>1. faults' = faults \/ faults'.stops = faults.stops
      BY <2>2 DEF Next, vars, Count, BeginPush, Gather, PushAgentMetrics, PushDelivered,
                  PushFails, PushRefused, AgentRestarts, ServerStarts, Scrape, Tick,
                  PushInv, PushTypeOK
    <3> QED
      BY <3>1
  <2> QED
    BY <2>1, <2>2
<1>c. seen[l].first = 0 \/ Unshown(l)
  BY <1>b DEF SampleInv
<1>d. NoSample # 0
  BY BaselineAssumption
<1>e. /\ value[l] # NoSample => value[l] = 0 \/ l \in exposed
      /\ l \in Pending => value[l] = 0 /\ l \notin exposed /\ pending[l] \in Held
      /\ l \notin Pending /\ l \notin exposed => value[l] = NoSample
  BY DEF PushInv, CounterInv, CounterTypeOK, HeldOrExposed, Pending
<1>1. ASSUME NEW k \in Series, Count(k) PROVE seen'[l].first = 0 \/ Unshown(l)'
  <2>1. UNCHANGED <<push, snapshot, serverUp, scrapeIn, seen>>
    BY <1>1 DEF Count, pushVars, serverVars, promVars
  <2>2. CASE Unshown(l)
    <3>1. /\ exposed' = exposed
          /\ value[l] # NoSample => value'[l] # NoSample
      BY <1>1, AddKeepsCounterInv DEF Count, PushInv
    <3>2. \/ l \in Pending' /\ l \in Pending /\ pending'[l].since = pending[l].since
          \/ l \notin Pending'
          \/ l \in Pending' /\ pending'[l].since = Undelivered
      <4>1. pending \in [Series -> Held \cup {NotPending}]
        BY DEF PushInv, CounterInv, CounterTypeOK
      <4>2. CASE k # l \/ k \in exposed
        <5>1. pending'[l] = pending[l]
          BY <1>1, <2>2, <4>1, <4>2 DEF Count, Add, Unshown
        <5> QED
          BY <5>1 DEF Pending
      <4>3. CASE k = l /\ k \notin exposed /\ k \in Pending
        <5>1. pending' = [pending EXCEPT ![l].amount = @ + 1]
          BY <1>1, <4>3 DEF Count, Add
        <5> QED
          BY <4>1, <4>3, <5>1, <1>e DEF Held, Pending
      <4>4. CASE k = l /\ k \notin exposed /\ k \notin Pending
        <5>1. pending' = [pending EXCEPT ![l] = [amount |-> 1, since |-> Undelivered]]
          BY <1>1, <4>4 DEF Count, Add
        <5> QED
          BY <4>1, <5>1
      <4> QED
        BY <4>2, <4>3, <4>4
    <3>3. PushSound(l)'
      BY <2>1, <2>2, <3>1, <3>2 DEF Unshown, PushSound
    <3>4. ZeroStands(l)'
      BY <2>1, <2>2, <3>2 DEF Unshown, ZeroStands
    <3> QED
      BY <1>c, <2>1, <2>2, <3>1, <3>3, <3>4 DEF Unshown
  <2> QED
    BY <1>c, <2>1, <2>2
<1>2. CASE BeginPush
  <2>1. /\ UNCHANGED <<value, exposed, pending, snapshot, serverUp, scrapeIn, seen>>
        /\ push' = [IdlePush EXCEPT !.phase = "begun", !.token = Pending]
    BY <1>2 DEF BeginPush, BeginScrape, counterVars, serverVars, promVars
  <2>2. push'.phase = "begun" /\ push'.token = Pending
    BY <2>1 DEF IdlePush
  <2>3. CASE Unshown(l)
    BY <1>c, <1>d, <1>e, <2>1, <2>2, <2>3 DEF Unshown, PushSound, ZeroStands, Pending
  <2> QED
    BY <1>c, <2>1, <2>3
<1>3. CASE Gather
  <2>1. /\ UNCHANGED <<value, exposed, pending, snapshot, serverUp, scrapeIn, seen>>
        /\ push' = [push EXCEPT !.phase = "gathered", !.body = value]
    BY <1>3 DEF Gather, counterVars, serverVars, promVars
  <2>2. push'.phase = "gathered" /\ push'.token = push.token /\ push'.body = value
    BY <2>1 DEF PushInv, PushTypeOK, Push
  <2>3. CASE Unshown(l)
    BY <1>c, <1>d, <1>e, <2>1, <2>2, <2>3
       DEF Unshown, PushSound, ZeroStands, Pending, Shows, MayShow
  <2> QED
    BY <1>c, <2>1, <2>3
<1>4. CASE PushAgentMetrics
  <2>1. /\ UNCHANGED <<value, exposed, pending, serverUp, scrapeIn, seen>>
        /\ push' = [push EXCEPT !.phase = "accepted"] /\ push.phase = "gathered"
        /\ snapshot' = [body |-> push.body, age |-> 0, fresh |-> TRUE]
    BY <1>4 DEF PushAgentMetrics, counterVars, promVars
  <2>2. /\ push'.phase = "accepted" /\ push'.token = push.token /\ push'.body = push.body
        /\ push'.age = push.age /\ push.age \in Nat
    BY <2>1 DEF PushInv, PushTypeOK, Push
  <2>3. /\ snapshot'.body = push.body /\ snapshot'.age = 0 /\ snapshot'.fresh
        /\ snapshot' # NoSnapshot
    <3>1. snapshot' \in Snapshot
      BY <2>1, PushAssumption DEF PushInv, PushTypeOK, Push, Snapshot
    <3> QED
      BY <2>1, <3>1, NoSnapshotAssumption
  <2>4. CASE Unshown(l)
    <3>1. PushSound(l)'
      BY <2>1, <2>2, <2>3, <2>4 DEF Unshown, PushSound, Pending
    <3>2. ZeroStands(l)'
      BY <1>e, <2>1, <2>3, <2>4, PushAssumption DEF Unshown, PushSound, ZeroStands, Pending, Held,
         Undelivered
    <3> QED
      BY <1>c, <2>1, <2>3, <2>4, <3>1, <3>2 DEF Unshown, PushSound
  <2> QED
    BY <1>c, <2>1, <2>4
<1>5. CASE PushDelivered
  <2>1. /\ UNCHANGED <<snapshot, serverUp, scrapeIn, seen>>
        /\ push.phase = "accepted" /\ push' = IdlePush /\ Delivered(push.token)
    BY <1>5 DEF PushDelivered, serverVars, promVars
  <2>2. CASE Unshown(l)
    <3>1. l \in Pending => pending[l].since # Hold
      <4> SUFFICES ASSUME l \in Pending, pending[l].since = Hold PROVE FALSE
        OBVIOUS
      <4>1. Hold + scrapeIn <= ScrapeEvery
        BY <2>2, BaselineAssumption DEF Unshown, ZeroStands, Undelivered
      <4>2. scrapeIn \in Nat /\ Hold \in Nat /\ ScrapeEvery \in Nat /\ ScrapeEvery < Hold
        BY BaselineAssumption, PushAssumption, HoldAssumption DEF PushInv, PushTypeOK
      <4> QED
        BY <4>1, <4>2
    <3>2. /\ value'[l] = value[l] /\ (l \in exposed' <=> l \in exposed)
          /\ \/ pending'[l] = pending[l]
             \/ l \in push.token /\ l \in Pending /\ pending'[l].since = 0
      <4>1. push.token \in SUBSET Series /\ CounterInv
        BY DEF PushInv, PushTypeOK, Push
      <4> QED
        BY <2>1, <3>1, <4>1, DeliveryOfYoung
    <3>3. PushSound(l)'
      BY <2>1 DEF PushSound, IdlePush
    <3>4. ZeroStands(l)'
      <4>1. CASE pending'[l] = pending[l]
        BY <2>1, <2>2, <4>1 DEF Unshown, ZeroStands, Pending
      <4>2. CASE l \in push.token /\ pending'[l].since = 0
        <5>1. /\ snapshot # NoSnapshot /\ snapshot.fresh /\ Shows(snapshot.body, l)
              /\ snapshot.age <= push.age
          BY <2>1, <2>2, <4>2 DEF Unshown, PushSound
        <5>2. /\ push.age \in 0 .. PushLate /\ PushLate \in Nat /\ scrapeIn \in 0 .. ScrapeEvery
              /\ snapshot.age \in Nat
          BY <5>1, PushAssumption DEF PushInv, PushTypeOK, Push, Snapshot
        <5> QED
          BY <2>1, <4>2, <5>1, <5>2, PushAssumption DEF ZeroStands, Shows
      <4> QED
        BY <3>2, <4>1, <4>2
    <3> QED
      BY <2>1, <2>2, <3>2, <3>3, <3>4 DEF Unshown
  <2> QED
    BY <1>c, <2>1, <2>2
<1>6. CASE PushFails \/ PushRefused
  BY <1>6, <1>c, UnshownWithoutPush
     DEF PushFails, PushRefused, counterVars, serverVars, promVars
<1>7. CASE AgentRestarts
  <2>1. /\ value' = [k \in Series |-> NoSample] /\ exposed' = {}
        /\ pending' = [k \in Series |-> NotPending]
        /\ push' = IdlePush /\ seen' = Unseen
        /\ snapshot' = IF snapshot = NoSnapshot THEN NoSnapshot
                       ELSE [snapshot EXCEPT !.fresh = FALSE]
    BY <1>7 DEF AgentRestarts, ResetCounters
  <2>2. snapshot' # NoSnapshot => ~snapshot'.fresh
    BY <2>1 DEF PushInv, PushTypeOK, Snapshot
  <2> QED
    BY <2>1, <2>2 DEF Unshown, PushSound, ZeroStands, IdlePush, Unseen, Pending
<1>8. CASE ServerStops
  BY <1>8, <1>b DEF ServerStops, PushInv, PushTypeOK
<1>9. CASE ServerStarts
  BY <1>9, <1>c, UnshownFramed DEF ServerStarts, counterVars, pushVars, promVars
<1>10. CASE Scrape
  <2>1. /\ UNCHANGED <<value, exposed, pending, push, snapshot>>
        /\ scrapeIn = 0 /\ seen' = [k \in Series |-> Observe(seen[k], Served[k])]
    BY <1>10 DEF Scrape, counterVars, pushVars, serverVars
  <2>2. seen'[l] = Observe(seen[l], Served[l])
    BY <2>1
  <2>3. CASE seen[l].first = 0
    BY <1>d, <2>2, <2>3 DEF Observe
  <2>4. CASE Unshown(l)
    <3>1. Served[l] \in {0, NoSample}
      BY <2>4 DEF Unshown, Served, MayShow, Nothing
    <3>2. CASE Served[l] = 0
      BY <1>d, <2>2, <2>4, <3>2 DEF Observe, Unshown
    <3>3. CASE Served[l] = NoSample
      <4>1. seen'[l] = seen[l]
        BY <2>2, <3>3 DEF Observe
      <4>2. ~(l \in Pending /\ pending[l].since # Undelivered)
        <5> SUFFICES ASSUME l \in Pending, pending[l].since # Undelivered PROVE FALSE
          OBVIOUS
        <5>1. /\ snapshot # NoSnapshot /\ snapshot.fresh /\ snapshot.body[l] = 0
              /\ snapshot.age <= pending[l].since + PushLate
              /\ pending[l].since + scrapeIn <= ScrapeEvery
          BY <2>4 DEF Unshown, ZeroStands, Shows
        <5>2. /\ snapshot.age \in Nat /\ pending[l].since \in Nat
              /\ PushLate \in Nat /\ ScrapeEvery \in Nat /\ Staleness \in Nat
          BY <1>e, <5>1, PushAssumption, BaselineAssumption
             DEF PushInv, PushTypeOK, Snapshot, Held
        <5>3. snapshot.age < Staleness
          BY <2>1, <5>1, <5>2, HoldAssumption
        <5> QED
          BY <1>d, <3>3, <5>1, <5>3 DEF Served
      <4> QED
        BY <2>1, <2>4, <4>1, <4>2 DEF Unshown, PushSound, ZeroStands, Pending
    <3> QED
      BY <3>1, <3>2, <3>3
  <2> QED
    BY <1>c, <2>3, <2>4
<1>11. CASE Tick
  <2>1. /\ UNCHANGED <<value, exposed, seen>> /\ Age
        /\ scrapeIn > 0 /\ scrapeIn' = scrapeIn - 1
        /\ push' = IF push.phase = "idle" THEN push ELSE [push EXCEPT !.age = @ + 1]
        /\ snapshot' = IF snapshot = NoSnapshot \/ snapshot.age = Staleness THEN snapshot
                       ELSE [snapshot EXCEPT !.age = @ + 1]
    BY <1>11 DEF Tick, Age
  <2>2. /\ push'.phase = push.phase /\ push'.token = push.token /\ push'.body = push.body
        /\ push.phase # "idle" => push'.age = push.age + 1
        /\ push.age \in Nat
    BY <2>1 DEF PushInv, PushTypeOK, Push
  <2>3. snapshot # NoSnapshot =>
          /\ snapshot' # NoSnapshot /\ snapshot'.fresh = snapshot.fresh
          /\ snapshot'.body = snapshot.body
          /\ snapshot.age \in Nat /\ snapshot'.age \in Nat
          /\ snapshot'.age <= snapshot.age + 1
    <3> SUFFICES ASSUME snapshot # NoSnapshot
                 PROVE  /\ snapshot' # NoSnapshot /\ snapshot'.fresh = snapshot.fresh
                        /\ snapshot'.body = snapshot.body
                        /\ snapshot.age \in Nat /\ snapshot'.age \in Nat
                        /\ snapshot'.age <= snapshot.age + 1
      OBVIOUS
    <3>1. snapshot \in Snapshot /\ snapshot.age \in 0 .. Staleness /\ Staleness \in Nat
      BY PushAssumption DEF PushInv, PushTypeOK, Snapshot
    <3>2. CASE snapshot.age = Staleness
      BY <2>1, <3>1, <3>2
    <3>3. CASE snapshot.age # Staleness
      <4>1. snapshot' = [snapshot EXCEPT !.age = @ + 1] /\ snapshot.age + 1 \in 0 .. Staleness
        BY <2>1, <3>1, <3>3
      <4>2. /\ snapshot' \in Snapshot /\ snapshot'.fresh = snapshot.fresh
            /\ snapshot'.body = snapshot.body /\ snapshot'.age = snapshot.age + 1
        BY <3>1, <4>1 DEF Snapshot
      <4> QED
        BY <3>1, <4>2, NoSnapshotAssumption
    <3> QED
      BY <3>2, <3>3
  <2>4. snapshot = NoSnapshot => snapshot' = NoSnapshot
    BY <2>1
  <2>5. CASE Unshown(l)
    <3>1. PushSound(l)' /\ ZeroStands(l)'
      <4>1. pending'[l] = IF l \in Pending /\ pending[l].since \in 0 .. Hold - 1
                          THEN [pending[l] EXCEPT !.since = @ + 1] ELSE pending[l]
        BY <2>1 DEF Age
      <4>2. CASE l \in Pending /\ pending[l].since # Undelivered
        <5>1. /\ snapshot # NoSnapshot /\ snapshot.fresh /\ Shows(snapshot.body, l)
              /\ snapshot.age <= pending[l].since + PushLate
              /\ pending[l].since + scrapeIn <= ScrapeEvery
          BY <2>5, <4>2 DEF Unshown, ZeroStands
        <5>2. /\ pending[l].since \in 0 .. Hold /\ Hold \in Nat /\ PushLate \in Nat
              /\ scrapeIn \in Nat /\ ScrapeEvery \in Nat /\ ScrapeEvery < Hold
          BY <1>e, <4>2, PushAssumption, BaselineAssumption, HoldAssumption
             DEF PushInv, PushTypeOK, Held
        <5>3. pending[l].since \in 0 .. Hold - 1
          BY <2>1, <5>1, <5>2
        <5>4. pending'[l] = [pending[l] EXCEPT !.since = @ + 1]
          BY <4>1, <4>2, <5>3
        <5>5. pending'[l].since = pending[l].since + 1
          BY <1>e, <4>2, <5>4 DEF Held
        <5>6. ZeroStands(l)'
          <6>1. snapshot'.age <= pending'[l].since + PushLate
            BY <2>3, <5>1, <5>2, <5>5
          <6>2. pending'[l].since + scrapeIn' <= ScrapeEvery
            BY <2>1, <5>1, <5>2, <5>5
          <6> QED
            BY <2>3, <5>1, <6>1, <6>2 DEF ZeroStands, Shows
        <5>7. PushSound(l)'
          BY <2>1, <2>2, <2>3, <2>5, <4>2, <5>1 DEF Unshown, PushSound, Shows, MayShow
        <5> QED
          BY <5>6, <5>7
      <4>3. CASE ~(l \in Pending /\ pending[l].since # Undelivered)
        <5>1. pending'[l] = pending[l]
          BY <4>1, <4>3 DEF Undelivered
        <5>2. PushSound(l)'
          BY <2>1, <2>2, <2>3, <2>5, <4>3, <5>1
             DEF Unshown, PushSound, Shows, MayShow, Pending
        <5>3. ZeroStands(l)'
          BY <4>3, <5>1 DEF ZeroStands, Pending
        <5> QED
          BY <5>2, <5>3
      <4> QED
        BY <4>2, <4>3
    <3> QED
      BY <2>1, <2>3, <2>4, <2>5, <3>1 DEF Unshown, MayShow
  <2> QED
    BY <1>c, <2>1, <2>5
<1>12. CASE UNCHANGED vars
  BY <1>12, <1>c, UnshownFramed DEF vars, counterVars, pushVars, serverVars, promVars
<1> QED
  BY <1>1, <1>2, <1>3, <1>4, <1>5, <1>6, <1>7, <1>8, <1>9, <1>10, <1>11, <1>12 DEF Next

-----------------------------------------------------------------------------
(* Both modes.                                                             *)

IndInv ==
  /\ TypeOK /\ ScrapeTypeOK /\ HeldOrExposed
  /\ mode = "scrape" => ScrapeInv /\ seen = Unseen
  /\ mode = "push" => SampleInv
  /\ mode \in {"push", "scrape"}

LEMMA IndInvInit == CountersInit => IndInv
<1> SUFFICES ASSUME CountersInit PROVE IndInv
  OBVIOUS
<1>1. PushInv /\ ScrapeInv /\ SampleInv
  BY PushInvInit, ScrapeInvInit, SampleInvInit DEF CountersInit
<1> QED
  BY <1>1 DEF CountersInit, Init, IndInv, PushInv, PushTypeOK, TypeOK, CounterInv,
              ScrapeInv, ScrapeTypeOK

LEMMA IndInvStep == IndInv /\ [CountersNext]_countersVars => IndInv'
<1> SUFFICES ASSUME IndInv, [CountersNext]_countersVars PROVE IndInv'
  OBVIOUS
<1>1. PushInv
  BY DEF IndInv, PushInv, PushTypeOK, TypeOK, CounterInv
<1>2. CASE Pushing(Next)
  <2>1. PushInv' /\ mode' = mode /\ mode = "push" /\ request' = request /\ shown' = shown
    BY <1>1, <1>2, PushInvStep DEF Pushing
  <2>2. ScrapeTypeOK'
    BY <2>1 DEF IndInv, ScrapeTypeOK, PushInv, CounterInv
  <2>3. SampleInv'
    BY <1>1, <1>2, SampleInvStep DEF Pushing, IndInv
  <2> QED
    BY <2>1, <2>2, <2>3 DEF IndInv, PushInv, PushTypeOK, TypeOK, CounterInv
<1>3. CASE Scraped(ScrapeNext)
  <2>1. ScrapeInv'
    BY <1>3, ScrapeInvStep DEF Scraped, IndInv
  <2>2. UNCHANGED <<push, pushIn, snapshot, serverUp, scrapeIn, seen, faults, mode>>
    BY <1>3 DEF Scraped, pushVars, serverVars, promVars
  <2>3. mode = "scrape" /\ Unseen' = Unseen
    BY <1>3 DEF Scraped, Unseen
  <2> QED
    BY <2>1, <2>2, <2>3 DEF IndInv, ScrapeInv, ScrapeTypeOK, TypeOK, CounterInv
<1>4. CASE UNCHANGED countersVars
  <2>1. PushInv' /\ UNCHANGED <<request, shown, mode, counterVars>>
    BY <1>1, <1>4, PushInvStep DEF countersVars, vars
  <2>2. mode = "scrape" => ScrapeInv'
    BY <2>1, ScrapeInvStep DEF IndInv, scrapeVars
  <2>3. ScrapeTypeOK'
    BY <2>1 DEF IndInv, ScrapeTypeOK, PushInv, CounterInv
  <2>4. mode = "push" => SampleInv'
    BY <1>1, <1>4, SampleInvStep DEF countersVars, IndInv
  <2>5. seen' = seen /\ Unseen' = Unseen
    BY <1>4 DEF countersVars, vars, promVars, Unseen
  <2> QED
    BY <2>1, <2>2, <2>3, <2>4, <2>5 DEF IndInv, PushInv, PushTypeOK, TypeOK, CounterInv
<1> QED
  BY <1>2, <1>3, <1>4 DEF CountersNext

THEOREM Invariance == CountersSpec => []IndInv
  BY IndInvInit, IndInvStep, PTL DEF CountersSpec

\* However requests and additions interleave, an amount is exposed only after a
\* written response that showed its label set at 0 (beginScrape and release in
\* baseline.go).
THEOREM BaselineBeforeAmount == CountersSpec => []ZeroShownWhenScraped
<1>1. IndInv => ZeroShownWhenScraped
  BY DEF IndInv, ScrapeInv, CounterInv, HeldOrExposed, ZeroShownFirst, ZeroShownWhenScraped
<1> QED
  BY <1>1, Invariance, PTL

\* Failed pushes, lost answers, stops of the server, restarts of the agent and
\* overlapping scrapes neither lose an amount held by the running agent nor
\* release one twice (Add, delivered and release in baseline.go).
THEOREM NothingLost == CountersSpec => []HeldOrExposed
<1>1. IndInv => HeldOrExposed
  BY DEF IndInv
<1> QED
  BY <1>1, Invariance, PTL

\* Whatever pushes fail, are late or lose their answer, and whenever they and the
\* scrapes fall, the first sample Prometheus gets of a series is 0 as long as the
\* server has not stopped: the hold outlasts a scrape period (delivered in
\* baseline.go, "guarantees at least one full scrape interval saw the zero").
THEOREM ZeroIsScrapedFirst == CountersSpec => []FirstSampleZeroUnlessStopped
<1>1. IndInv => FirstSampleZeroUnlessStopped
  BY DEF IndInv, SampleInv, Unshown, Unseen, FirstSampleZero, FirstSampleZeroUnlessStopped
<1> QED
  BY <1>1, Invariance, PTL

\* Every variable of both modes keeps its type, the phases, ages and timers of
\* pushes and snapshots included.
THEOREM TypeCorrect == CountersSpec => []CountersTypeOK
<1>1. IndInv => CountersTypeOK
  BY DEF IndInv, CountersTypeOK
<1> QED
  BY <1>1, Invariance, PTL
=============================================================================
