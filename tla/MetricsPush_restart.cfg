SPECIFICATION Spec
CONSTANTS
  s1 = s1
  s2 = s2
  Series = {s1}
  Hold = 15
  NoSample = NoSample
  NotPending = NotPending
  PushEvery = 6
  ScrapeEvery = 6
  PushLate = 4
  Staleness = 60
  NoSnapshot = NoSnapshot
  MaxAdded = 1
  MaxFailures = 0
  MaxStops = 1
  MaxDown = 0
  MaxRestarts = 0
INVARIANT FirstSampleZero
