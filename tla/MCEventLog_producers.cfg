\* Two writers, each with its own producer, sharing a tenant and an id.
SPECIFICATION Spec
CONSTANTS
  NONE = NONE
  w1 = w1
  w2 = w2
  Tenants = {"t1", "t2"}
  Writers = {w1, w2}
  Feeds <- TwoProducers
  MaxBatch = 2
INVARIANTS TypeOK EachOnce RefusedByItsOwn BatchInOrder
PROPERTIES MeetsContract
CHECK_DEADLOCK FALSE
