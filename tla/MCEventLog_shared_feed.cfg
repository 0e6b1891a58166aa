\* Two threads writing the same record to one tenant.
SPECIFICATION Spec
CONSTANTS
  NONE = NONE
  w1 = w1
  w2 = w2
  Tenants = {"t1", "t2"}
  Writers = {w1, w2}
  Feeds <- SharedFeed
  MaxBatch = 2
INVARIANTS EachOnce
CHECK_DEADLOCK FALSE
