SPECIFICATION FairCountersSpec
CONSTANTS
  s1 = s1
  prometheus = prometheus
  browser = browser
  Series = {s1}
  Reader = {prometheus, browser}
  Hold = 7
  NoSample = NoSample
  NotPending = NotPending
  PushEvery = 3
  ScrapeEvery = 3
  PushLate = 2
  Staleness = 9
  NoSnapshot = NoSnapshot
  MaxAdded = 2
  MaxScraped = 2
  MaxFailures = 2
  MaxStops = 1
  MaxDown = 2
  MaxRestarts = 1
INVARIANTS HeldOrExposed FirstSampleZeroUnlessStopped ZeroShownWhenScraped
PROPERTY EventuallyCounted
