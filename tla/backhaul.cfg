SPECIFICATION FairSpec
CONSTANTS
  m1 = m1
  m2 = m2
  h1 = h1
  h2 = h2
  Messages = {m1, m2}
  Handlers = {h1, h2}
  MaxRecords = 1
  MaxFallback = 1
  MaxRetries = 1
  MaxFailures = 2
  Batch = 2
INVARIANTS TypeOK OnceUnlessUnsure
PROPERTIES Promise QueueDrains
