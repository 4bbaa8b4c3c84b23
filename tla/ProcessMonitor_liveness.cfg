SPECIFICATION FairSpec
CONSTANTS
  p1 = p1
  p2 = p2
  p3 = p3
  alice = alice
  bob = bob
  nobody = nobody
  editor = editor
  shell = shell
  office = office
  Pid = {p1, p2}
  User = {alice, nobody}
  App = {editor}
  Family = {office}
  FamilyOf <- MCFamilyOf
  NoPid = NoPid
  NoFamily = NoFamily
  NoGroup = NoGroup
  NoUser = nobody
  Person <- MCPerson
  NoPerson = NoPerson
  Canonical <- MCCanonical
  MinLifetime = 1
  Reuse = FALSE
  MaxTime = 1
  MaxForeground = 1
  MaxFailures = 1


PROPERTY GhostsReaped
CHECK_DEADLOCK FALSE
