\* A deadline that passes between the guard and the record it let through.
SPECIFICATION Spec
CONSTANTS
  NONE = NONE
  j1 = j1
  Jobs = {j1}
  Ids = {"a", "b"}
  Tenants = {"t1"}
  Workspaces = {"w1"}
  Principals <- OnePerson
  Deadlines = {1}
  Citations = {"b"}
  HandBuilt <- NoHandBuilt
  MaxTime = 1
  MaxHistory = 4
INVARIANTS EngineTrailReplays
CHECK_DEADLOCK FALSE
