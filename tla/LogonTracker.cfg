SPECIFICATION Spec
CONSTANTS
  l1 = l1
  l2 = l2
  ann = ann
  bob = bob
  corpbob = corpbob
  Line = {l1, l2}
  Account = {ann, bob, corpbob}
  Key <- MCKey
  Person <- MCPerson
  NoPerson = NoPerson
  Policies <- MCPolicies
  Vacant = Vacant
  Never = Never
  MaxGap = 1
  Naps = {1, 2}
  MaxTime = 3
  MaxSignIns = 1
  MaxChanges = 1
  MaxFailures = 1
INVARIANTS OccupancyAgrees LoginsNotInflated SecondsWithinAwake
