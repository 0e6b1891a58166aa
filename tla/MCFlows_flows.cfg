\* Every flow the simulation drives, whatever the clock reads meanwhile.
SPECIFICATION FlowsSpec
CONSTANTS
  NONE = NONE
  j1 = j1
  j2 = j2
  Jobs = {j1, j2}
  Ids = {"a", "b"}
  Tenants = {"t1"}
  Workspaces = {"w1"}
  Principals <- People
  Deadlines = {0, 1}
  Citations <- Nothing
  HandBuilt <- Nothing
  MaxTime = 1
  MaxHistory = 12
  Payloads <- Nothing
  Answers <- Nothing
  Placeholders <- Nothing
  Malformed <- Nothing
  MaxOutside = 0
  MaxLate = 0
  first = j1
  second = j2
  TENANT = "t1"
  WORKSPACE = "w1"
  owner <- alice
  reviewer <- bob
  Past = 0
INVARIANTS RouteWalked ReadBack
PROPERTIES FlowsFinish
CHECK_DEADLOCK FALSE
