\* One job through its whole life, a deadline that can pass at any moment.
SPECIFICATION Spec
CONSTANTS
  NONE = NONE
  j1 = j1
  j2 = j2
  Jobs = {j1}
  Ids = {"a", "b"}
  Tenants = {"t1"}
  Workspaces = {"w1"}
  Principals <- OnePerson
  Deadlines = {1}
  Citations <- NoCitations
  HandBuilt <- NoHandBuilt
  MaxTime = 1
  MaxHistory = 9
INVARIANTS TypeOK ExecutionLock ReturnAddress TrailExplainsState TrailClosed CitationsHoldUp BackstopNeverFires RemedyIsOpen
PROPERTIES AppendOnly ResumesWherePaused LapsedOnlySettles KeepsTheGate
CHECK_DEADLOCK FALSE
