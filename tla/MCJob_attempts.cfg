\* Two jobs, the second filed while or after the first runs: the chain of attempts.
SPECIFICATION Spec
CONSTANTS
  NONE = NONE
  j1 = j1
  j2 = j2
  Jobs = {j1, j2}
  Ids = {"a", "b"}
  Tenants = {"t1", "t2"}
  Workspaces = {"w1"}
  Principals <- OnePerson
  Deadlines = {}
  Citations <- NoCitations
  HandBuilt <- NoHandBuilt
  MaxTime = 0
  MaxHistory = 7
SYMMETRY Interchangeable
INVARIANTS AttemptChain
PROPERTIES SettledIsFinal
CHECK_DEADLOCK FALSE
