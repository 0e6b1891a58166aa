\* A deadline that passes while the job works: which ways out are left.
SPECIFICATION Spec
CONSTANTS
  NONE = NONE
  j1 = j1
  j2 = j2
  Jobs = {j1}
  Ids = {"a"}
  Tenants = {"t1"}
  Workspaces = {"w1"}
  Principals <- OnePerson
  Deadlines = {1}
  Citations <- NoCitations
  HandBuilt <- NoHandBuilt
  MaxTime = 1
  MaxHistory = 5
PROPERTIES LapsedLeavesAsDocumented
CHECK_DEADLOCK FALSE
