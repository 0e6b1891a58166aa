\* One job, decided on by hand-built verdicts too, filed in whatever order its
\* callers manage, and not all of it.
SPECIFICATION LedgerSpec
CONSTANTS
  NONE = NONE
  j1 = j1
  j2 = j2
  Jobs = {j1}
  Ids = {"a", "b"}
  Tenants = {"t1", "t2"}
  Workspaces = {"w1", "w2"}
  Principals <- MCPrincipals
  Deadlines = {}
  Citations <- NoCitations
  HandBuilt <- MCHandBuilt
  MaxTime = 0
  MaxHistory = 3
  Payloads <- NoPayloads
  Answers = {NONE}
  Placeholders = {"n/a"}
  Malformed = {"?"}
  MaxOutside = 0
  MaxLate = 2
INVARIANTS SettledReadingIsTrue SeparationOfDuties
CHECK_DEADLOCK FALSE
