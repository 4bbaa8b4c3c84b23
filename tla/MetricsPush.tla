----------------------------- MODULE MetricsPush -----------------------------
(***************************************************************************)
(* How a counter of the agent reaches Prometheus in push mode.  The agent  *)
(* posts its /metrics body to the server (PushMetrics in                   *)
(* agent/internal/enrollment/client.go), the server keeps the last body of *)
(* each agent in memory (server/internal/api/metrics_store.go), and        *)
(* Prometheus scrapes that store.  Pushes and scrapes have the same period *)
(* and no common phase; pushes fail before or after the server took them,  *)
(* the server and the agent restart.                                       *)
(*                                                                         *)
(* Time is counted down, never up, so that runs have no end.  A push takes *)
(* up to PushLate clock units; the two HTTP timeouts of 10 s keep it within *)
(* the 30 s period, so pushes of one agent do not overlap, and a request   *)
(* the agent gave up on is taken by the server before the next push or not *)
(* at all.                                                                 *)
(***************************************************************************)
EXTENDS BaselineCounter

CONSTANTS
  PushEvery, ScrapeEvery,  \* the periods
  PushLate,                \* how long a push may take
  Staleness,               \* age at which the server stops serving a body
  NoSnapshot,              \* the store has no entry for the agent
  MaxAdded,                \* bound: additions to one label set
  MaxFailures,             \* bound: pushes that fail while the server is up
  MaxStops,                \* bound: stops of the server
  MaxDown,                 \* bound: length of one stop, in clock units
  MaxRestarts              \* bound: restarts of the agent

ASSUME PushAssumption ==
  /\ PushEvery \in Nat \ {0} /\ ScrapeEvery \in Nat \ {0}
  /\ PushLate \in Nat /\ PushLate < PushEvery
  /\ Staleness \in Nat \ {0}
  /\ {MaxAdded, MaxFailures, MaxStops, MaxDown, MaxRestarts} \subseteq Nat

\* A zero is held for 75 s of 30 s intervals, which "guarantees at least one
\* full scrape interval saw the zero" (baseline.go), and the store serves a
\* body for five minutes.
ASSUME HoldAssumption ==
  /\ ScrapeEvery < Hold
  /\ PushLate + ScrapeEvery < Staleness

VARIABLES
  push,      \* the push under way
  pushIn,    \* time to the next tick of RunMetricsPush
  snapshot,  \* the server's entry for the agent
  serverUp,
  scrapeIn,  \* time to the next scrape
  seen,      \* the first and the latest sample Prometheus has of each series
             \* of this run of the agent
  faults     \* faults so far

pushVars   == <<push, pushIn>>
serverVars == <<snapshot, serverUp>>
promVars   == <<scrapeIn, seen>>
vars == <<counterVars, pushVars, serverVars, promVars, faults>>

Sample == Nat \cup {NoSample}
Body == [Series -> Sample]
Push == [phase : {"idle", "begun", "gathered", "accepted"},
         token : SUBSET Series, body : Body, age : 0 .. PushLate]
Snapshot == [body : Body, age : 0 .. Staleness, fresh : BOOLEAN]

TypeOK ==
  /\ CounterTypeOK
  /\ push \in Push /\ pushIn \in 0 .. PushEvery
  /\ snapshot \in Snapshot \cup {NoSnapshot} /\ serverUp \in BOOLEAN
  /\ scrapeIn \in 0 .. ScrapeEvery
  /\ seen \in [Series -> [first : Sample, last : Sample]]
  /\ faults \in [failures : 0 .. MaxFailures, stops : 0 .. MaxStops,
                 down : 0 .. MaxDown, restarts : 0 .. MaxRestarts]

ASSUME NoSnapshotAssumption == NoSnapshot \notin Snapshot

Nothing == [l \in Series |-> NoSample]
IdlePush == [phase |-> "idle", token |-> {}, body |-> Nothing, age |-> 0]
Unseen == [l \in Series |-> [first |-> NoSample, last |-> NoSample]]

Init ==
  /\ CounterInit
  /\ push = IdlePush /\ pushIn = PushEvery
  /\ snapshot = NoSnapshot /\ serverUp = TRUE
  /\ scrapeIn \in 1 .. ScrapeEvery
  /\ seen = Unseen
  /\ faults = [failures |-> 0, stops |-> 0, down |-> 0, restarts |-> 0]

-----------------------------------------------------------------------------
(* The agent.                                                              *)

Count(l) ==
  /\ added[l] < MaxAdded
  /\ Add(l, 1)
  /\ UNCHANGED <<pushVars, serverVars, promVars, faults>>

BeginPush ==
  /\ push.phase = "idle" /\ pushIn = 0
  /\ push' = [IdlePush EXCEPT !.phase = "begun", !.token = BeginScrape]
  /\ pushIn' = PushEvery
  /\ UNCHANGED <<counterVars, serverVars, promVars, faults>>

\* The local GET of /metrics.
Gather ==
  /\ push.phase = "begun"
  /\ push' = [push EXCEPT !.phase = "gathered", !.body = value]
  /\ UNCHANGED <<counterVars, pushIn, serverVars, promVars, faults>>

\* The server answers 2xx and the answer arrives.
PushDelivered ==
  /\ push.phase = "accepted"
  /\ Delivered(push.token)
  /\ push' = IdlePush
  /\ UNCHANGED <<pushIn, serverVars, promVars, faults>>

\* The GET fails, the POST does not reach a server that is up, or its answer
\* is an error or is lost.
PushFails ==
  /\ push.phase # "idle"
  /\ faults.failures < MaxFailures
  /\ push' = IdlePush
  /\ faults' = [faults EXCEPT !.failures = @ + 1]
  /\ UNCHANGED <<counterVars, pushIn, serverVars, promVars>>

PushRefused ==
  /\ push.phase = "gathered" /\ ~serverUp
  /\ push' = IdlePush
  /\ UNCHANGED <<counterVars, pushIn, serverVars, promVars, faults>>

\* What the server still holds is then of the previous run.
AgentRestarts ==
  /\ faults.restarts < MaxRestarts
  /\ faults' = [faults EXCEPT !.restarts = @ + 1]
  /\ ResetCounters
  /\ push' = IdlePush /\ pushIn' = PushEvery
  /\ snapshot' = IF snapshot = NoSnapshot THEN NoSnapshot
                 ELSE [snapshot EXCEPT !.fresh = FALSE]
  /\ seen' = Unseen
  /\ UNCHANGED <<serverUp, scrapeIn>>

-----------------------------------------------------------------------------
(* The server.                                                             *)

\* The store keeps a body only if it has none of the agent.
KeepFirstPush ==
  /\ push.phase = "gathered" /\ serverUp
  /\ snapshot' = IF snapshot = NoSnapshot
                 THEN [body |-> push.body, age |-> 0, fresh |-> TRUE] ELSE snapshot
  /\ push' = [push EXCEPT !.phase = "accepted"]
  /\ UNCHANGED <<counterVars, pushIn, serverUp, promVars, faults>>

PushAgentMetrics ==
  /\ push.phase = "gathered" /\ serverUp
  /\ snapshot' = [body |-> push.body, age |-> 0, fresh |-> TRUE]
  /\ push' = [push EXCEPT !.phase = "accepted"]
  /\ UNCHANGED <<counterVars, pushIn, serverUp, promVars, faults>>

\* The store is in memory: a stop loses it.
ServerStops ==
  /\ serverUp /\ faults.stops < MaxStops
  /\ serverUp' = FALSE /\ snapshot' = NoSnapshot
  /\ faults' = [faults EXCEPT !.stops = @ + 1, !.down = 0]
  /\ UNCHANGED <<counterVars, pushVars, promVars>>

ServerStarts ==
  /\ ~serverUp
  /\ serverUp' = TRUE
  /\ UNCHANGED <<counterVars, pushVars, snapshot, promVars, faults>>

-----------------------------------------------------------------------------
(* Prometheus.                                                             *)

\* GetAll leaves out what is too old to serve.
Served == IF snapshot # NoSnapshot /\ snapshot.age < Staleness /\ snapshot.fresh
          THEN snapshot.body ELSE Nothing

Observe(s, v) == IF v = NoSample THEN s
                 ELSE [first |-> IF s.first = NoSample THEN v ELSE s.first, last |-> v]

Scrape ==
  /\ scrapeIn = 0
  /\ scrapeIn' = ScrapeEvery
  /\ seen' = [l \in Series |-> Observe(seen[l], Served[l])]
  /\ UNCHANGED <<counterVars, pushVars, serverVars, faults>>

-----------------------------------------------------------------------------
(* The clock.  A tick or a scrape that is due, a push that has taken as    *)
(* long as it may, and a stop that has lasted as long as it may come first. *)

Tick ==
  /\ scrapeIn > 0
  /\ pushIn > 0 /\ (push.phase = "idle" \/ push.age < PushLate)
  /\ serverUp \/ faults.down < MaxDown
  /\ Age
  /\ scrapeIn' = scrapeIn - 1 /\ pushIn' = pushIn - 1
  /\ push' = IF push.phase = "idle" THEN push ELSE [push EXCEPT !.age = @ + 1]
  /\ snapshot' = IF snapshot = NoSnapshot \/ snapshot.age = Staleness THEN snapshot
                 ELSE [snapshot EXCEPT !.age = @ + 1]
  /\ faults' = IF serverUp THEN faults ELSE [faults EXCEPT !.down = @ + 1]
  /\ UNCHANGED <<serverUp, seen>>

Next ==
  \/ \E l \in Series : Count(l)
  \/ BeginPush \/ Gather \/ PushAgentMetrics \/ PushDelivered
  \/ PushFails \/ PushRefused
  \/ AgentRestarts \/ ServerStops \/ ServerStarts
  \/ Scrape \/ Tick

Spec == Init /\ [][Next]_vars

-----------------------------------------------------------------------------
(* Properties.                                                             *)

\* The first sample Prometheus gets of a series is 0, so that increase() can
\* count everything added to it (baseline.go: "a new label set is created at 0
\* and the amount is held back until something downstream has demonstrably
\* seen that 0; then the full value is exposed and the delta is visible").
FirstSampleZero == \A l \in Series : seen[l].first \in {0, NoSample}

\* The same while the server has not stopped: a snapshot lost with a delivered
\* zero is outside what the hold allows for (MetricsPush_restart).
FirstSampleZeroUnlessStopped == faults.stops = 0 => FirstSampleZero
=============================================================================
