----------------------------- MODULE LocalScrape -----------------------------
(***************************************************************************)
(* The counters in local-scrape mode: no server is configured and readers  *)
(* take /metrics from the agent itself (wrapScrape in                      *)
(* agent/internal/metrics/baseline.go).  Prometheus is one reader; an      *)
(* administrator's browser or a second Prometheus are others, and net/http *)
(* serves them at the same time.  A request takes its token, gathers,      *)
(* writes the response and releases what its token covers, also when the   *)
(* reader is gone by then.                                                 *)
(***************************************************************************)
EXTENDS BaselineCounter

CONSTANTS
  Reader,     \* requests that may be served at the same time
  MaxScraped    \* bound: additions to one label set

ASSUME ScrapeAssumption == MaxScraped \in Nat

VARIABLES
  request,   \* the request each reader has under way
  shown      \* history: label sets some written response showed at 0

scrapeVars == <<counterVars, request, shown>>

ScrapeBody == [Series -> Nat \cup {NoSample}]
Request == [phase : {"idle", "begun", "gathered"}, token : SUBSET Series, body : ScrapeBody]

ScrapeTypeOK ==
  /\ CounterTypeOK
  /\ request \in [Reader -> Request]
  /\ shown \in SUBSET Series

IdleRequest == [phase |-> "idle", token |-> {}, body |-> [l \in Series |-> NoSample]]

ScrapeInit ==
  /\ CounterInit
  /\ request = [r \in Reader |-> IdleRequest]
  /\ shown = {}

CountLocally(l) ==
  /\ added[l] < MaxScraped
  /\ Add(l, 1)
  /\ UNCHANGED <<request, shown>>

BeginRequest(r) ==
  /\ request[r].phase = "idle"
  /\ request' = [request EXCEPT ![r].phase = "begun", ![r].token = BeginScrape]
  /\ UNCHANGED <<counterVars, shown>>

\* The token is taken when the gather is over.
GatherThenBegin(r) ==
  /\ request[r].phase = "begun"
  /\ request' = [request EXCEPT ![r].phase = "gathered", ![r].body = value,
                                ![r].token = Series]
  /\ UNCHANGED <<counterVars, shown>>

GatherRequest(r) ==
  /\ request[r].phase = "begun"
  /\ request' = [request EXCEPT ![r].phase = "gathered", ![r].body = value]
  /\ UNCHANGED <<counterVars, shown>>

\* The response is written and the covered amounts are released.
FinishRequest(r) ==
  /\ request[r].phase = "gathered"
  /\ shown' = shown \cup {l \in Series : request[r].body[l] = 0}
  /\ Release(request[r].token)
  /\ request' = [request EXCEPT ![r] = IdleRequest]

ScrapeNext ==
  \/ \E l \in Series : CountLocally(l)
  \/ \E r \in Reader : BeginRequest(r) \/ GatherRequest(r) \/ FinishRequest(r)

-----------------------------------------------------------------------------
(* Properties.                                                             *)

\* An amount is exposed only after a response that showed its zero, whichever
\* requests overlap and whenever the label set was created (beginScrape:
\* "Anything created after this call carries a later epoch and waits for the
\* next scrape").
ZeroShownFirst == \A l \in Series : value[l] \notin {0, NoSample} => l \in shown
=============================================================================
