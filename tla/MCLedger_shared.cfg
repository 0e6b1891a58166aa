\* Two jobs, of one tenant or of two, and an outside event between their records.
SPECIFICATION LedgerSpec
CONSTANTS
  NONE = NONE
  j1 = j1
  j2 = j2
  Jobs = {j1, j2}
  Ids = {"a", "b"}
  Tenants = {"t1", "t2"}
  Workspaces = {"w1"}
  Principals <- OnePerson
  Deadlines = {}
  Citations <- NoCitations
  HandBuilt <- NoHandBuilt
  MaxTime = 0
  MaxHistory = 1
  Payloads <- MCPayloads
  Answers = {NONE, "t1", "n/a"}
  Placeholders = {"n/a"}
  Malformed = {"?"}
  MaxOutside = 1
  MaxLate = 1
SYMMETRY Interchangeable
INVARIANTS EveryJobReads NothingInvented ChainReadsBack SharedIdNeverSettles
CHECK_DEADLOCK FALSE
