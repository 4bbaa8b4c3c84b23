SPECIFICATION FairSpec
CONSTANTS
  s1 = s1
  s2 = s2
  h1 = h1
  h2 = h2
  h3 = h3
  Session = {s1}
  Helper = {h1, h2}
  NoSession = NoSession
  NoHelper = NoHelper
  Absent = Absent
  MinSpawnInterval = 2
  QuickExit = 1
  QuickFailLimit = 2
  LongBackoff = 3
  ReconcileInterval = 2
  MaxChanges = 2
  MaxFailures = 2
INVARIANTS OneHelper HubOfRunningHelper
PROPERTIES SpawnsSpaced UnwantedHelpersEnd SessionsServed
