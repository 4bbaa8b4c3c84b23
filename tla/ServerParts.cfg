SPECIFICATION PartsSpec
CONSTANTS
  c1 = c1
  c2 = c2
  q1 = q1
  q2 = q2
  Client = {c1, c2}
  Query = {q1, q2}
  NoQuery = NoQuery
  Limit = 1
  TTL = 2
  Timeout = 2
  u1 = u1
  u2 = u2
  u3 = u3
  k1 = k1
  k2 = k2
  Update = {u1, u2, u3}
  Key = {k1, k2}
  Idle = k1
  Initial = Initial
  Nobody = Nobody
  Failing = {u1}
  a1 = a1
  e1 = e1
  e2 = e2
  x = x
  X1 = X1
  x1 = x1
  t1 = t1
  none = none
  Pusher = {a1}
  Exe = {x}
  NoExe = none
  Name = {X1, x1, t1}
  ExeOf <- MCExeOf
  Lower <- MCLower
  Rank <- MCRank
  Title = {"own", "new"}
  OwnTitle <- MCOwnTitle
  NameFor <- MCNameFor
  BuiltIn = {}
  Editor = {e1, e2}
  NoRow = NoRow
  Unknown = Unknown
  MaxEdits = 2
  MaxFailures = 1
  s1 = s1
  Station = {s1}
  RawName <- MCRawName
  Pattern <- MCPattern
  Target <- MCTarget
  Precedence <- MCPrecedence
  BuiltInIgnores <- MCBuiltInIgnores
  Short = {"", "x"}
  Underscored = {"_d"}
  Suffixed = {"pc$"}
  Reserved = {"nt authority"}
  NoRule = NoRule
  MaxRuleEdits = 2
  MaxFetchFailures = 1
  Machine = {"m1", "m2"}
  Lab = {"r1", "r2"}
  LabName = {"l1", "l2"}
  RawUser = {"corp jd", "ja"}
  Person = {"corp jd", "jd", "ja"}
  Program = {"editor", "viewer"}
  Sample <- MCSample
  Ruleset <- MCRuleset
  NoRules = "no rules"
  StandsFor <- MCStandsFor
  FirstLab <- MCFirstLab
  FirstName <- MCFirstName
  MinLogins = 2
  Kind = {"usersByLogins", "usersByElevations", "usersBySessionTime", "averageSession", "devicesBySessions", "topAppsByLaunches", "topAppsByForeground", "topApps", "topAppsByElevations", "bottomAppsByLaunches", "bottomAppsByForeground", "bottomAppsWithZeros", "usageByLab", "activeUsers", "utilization", "labsByUtilization"}
  Limits = {1}
  MaxChanges <- MCMaxChanges
  o1 = o1
  o2 = o2
  File <- MCFile
  Oversized <- MCOversized
  NameOrder <- MCNameOrder
  Offerer = {o1, o2}
  NoFile = NoFile
  MaxReleases = 1
  MaxCopies = 1
INVARIANTS OneRowPerExe CountedUsersShown MatcherAgrees LabReportsAgree RowsWereTrue ChecksumsCurrent
PROPERTIES ProxyIsService UpdatesAreAtomic SnapshotsComeToFollow AgentsAgree OffersWholeAndNewest
CHECK_DEADLOCK FALSE
