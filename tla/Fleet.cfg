SPECIFICATION FairSpec
CONSTANTS
  a1 = a1
  a2 = a2
  r1 = r1
  r2 = r2
  d1 = d1
  d2 = d2
  g1 = g1
  Agent = {a1, a2}
  Configurations <- Scenarios
  Room = {r1, r2}
  NoRoom = NoRoom
  ReportedRoom <- Reported
  Lab = {d1, d2, g1}
  NoLab = NoLab
  Derived <- DerivedId
  Admin = Admin
  Checker = Checker
  Nobody = Nobody
  NoRow = NoRow
  Absent = Absent
  Unlisted = Unlisted
  OfflineAfter = 1
  DeleteAfter = 1
  Staleness = 1
INVARIANTS TargetsCurrent OneLabPerRoom
PROPERTIES AssignmentKept TargetsFollow DeletedUnserved LabelsFollow
CHECK_DEADLOCK TRUE
