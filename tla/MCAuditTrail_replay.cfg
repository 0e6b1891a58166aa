\* Every trail the engine writes, read back whole and damaged.
SPECIFICATION Spec
CONSTANTS
  NONE = NONE
  j1 = j1
  Jobs = {j1}
  Ids = {"a", "b"}
  Tenants = {"t1"}
  Workspaces = {"w1"}
  Principals <- OnePerson
  Deadlines = {1}
  Citations = {"b"}
  HandBuilt <- NoHandBuilt
  MaxTime = 1
  MaxHistory = 7
INVARIANTS ReplayAgrees SettledGapRefused OpenGapRefused SettledRepeatRefused ReorderTellsNoLie EditedTrailsRefused
CHECK_DEADLOCK FALSE
