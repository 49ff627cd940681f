SPECIFICATION FairSpec
CONSTANTS
  m1 = m1
  m2 = m2
  m3 = m3
  Messages = {m1, m2, m3}
  MaxQueue = 1
  MaxRows = 2
  MaxRing = 2
  MaxRetries = 1
  Batch = 2
INVARIANTS TypeOK DurableUntilDelivered
PROPERTIES Promise RowsDrain
ACTION_CONSTRAINT ComeInOrder
