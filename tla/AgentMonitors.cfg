SPECIFICATION MonitorsSpec
CONSTANTS
  p1 = p1
  p2 = p2
  p3 = p3
  alice = alice
  bob = bob
  nobody = nobody
  editor = editor
  shell = shell
  office = office
  Pid = {p1, p2}
  User = {alice, nobody}
  App = {editor, shell}
  Family = {office}
  FamilyOf <- MCFamilyOf
  NoPid = NoPid
  NoFamily = NoFamily
  NoGroup = NoGroup
  NoUser = nobody
  Person <- MCPerson
  NoPerson = NoPerson
  Canonical <- MCCanonical
  MinLifetime = 1
  Reuse = FALSE
  MaxTime = 2
  MaxForeground = 1
  MaxFailures = 1
  m1 = m1
  m2 = m2
  carol = carol
  seat = seat
  MacPid = {m1, m2}
  Launchd = launchd
  Account = {carol}
  Root = root
  MaxAncestorHops = 8
  MaxSeconds = 1
  MaxMissed = 1
  Seat = {seat}
  FreshFor = 3
  Cutoffs = {0, 2, 3}
  Configured = 3
  MaxCutoffChanges = 1
SYMMETRY MonitorSymmetry
INVARIANTS TrackerConsistent LiveTracked UsageWithinWallClock ForegroundConserved ElevationsOnce SessionsOfListed
PROPERTIES ReconcileReapsGhosts CreditFollowsInput
CHECK_DEADLOCK FALSE
