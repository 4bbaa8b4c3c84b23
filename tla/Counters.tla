------------------------------ MODULE Counters ------------------------------
(***************************************************************************)
(* The agent's counters on their way to Prometheus.  An agent with a       *)
(* server configured pushes them (MetricsPush), one without is scraped     *)
(* (LocalScrape).  runAgent decides once, before it serves /metrics        *)
(* (EnablePushMode), and the same vectors serve either.                    *)
(***************************************************************************)
EXTENDS MetricsPush, LocalScrape

VARIABLE mode

countersVars == <<vars, request, shown, mode>>

CountersTypeOK == TypeOK /\ ScrapeTypeOK /\ mode \in {"push", "scrape"}

CountersInit ==
  /\ Init /\ ScrapeInit
  /\ mode \in {"push", "scrape"}

Pushing(A) == mode = "push" /\ A /\ UNCHANGED <<request, shown, mode>>
Scraped(A) == mode = "scrape" /\ A /\ UNCHANGED <<pushVars, serverVars, promVars, faults, mode>>

CountersNext == Pushing(Next) \/ Scraped(ScrapeNext)

CountersSpec == CountersInit /\ [][CountersNext]_countersVars

\* The push loop, the HTTP exchange, Prometheus and the clock go on; faults are
\* never owed, and MaxFailures bounds them.
FairCountersSpec ==
  /\ CountersSpec
  /\ WF_countersVars(Pushing(BeginPush)) /\ WF_countersVars(Pushing(Gather))
  /\ WF_countersVars(Pushing(PushAgentMetrics)) /\ WF_countersVars(Pushing(PushDelivered))
  /\ WF_countersVars(Pushing(PushRefused)) /\ WF_countersVars(Pushing(ServerStarts))
  /\ WF_countersVars(Pushing(Scrape)) /\ WF_countersVars(Pushing(Tick))

-----------------------------------------------------------------------------
(* Properties of both modes.                                               *)

\* In scrape mode an amount is exposed only after a response that showed its
\* zero, whichever requests overlap and whenever the label set was created.
ZeroShownWhenScraped == mode = "scrape" => ZeroShownFirst

\* What increase() makes of the samples of this run of the agent.
Counted(l) == IF seen[l].first = NoSample THEN 0 ELSE seen[l].last - seen[l].first

\* Everything added to a series of an agent that pushes is counted in the end,
\* however pushes fail and are late, unless the agent or the server restarts.
EventuallyCounted ==
  \A l \in Series : added[l] > 0 /\ mode = "push" ~>
                    Counted(l) = added[l] \/ faults.stops > 0
=============================================================================
