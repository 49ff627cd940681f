SPECIFICATION Spec
CONSTANTS
  a1 = a1
  a2 = a2
  a3 = a3
  s1 = s1
  s2 = s2
  h1 = h1
  t1 = t1
  t2 = t2
  d1 = d1
  None = None
  Alarms = {a1, a2}
  Data = {d1}
  Subscribers = {s1}
  SubscriberSeq <- MCOneSubscriber
  Handlers = {h1}
  HandlerSeq <- MCHandlers
  Tasks = {t1, t2}
  MaxQueue = 1
  MaxDedup = 1
  MaxRecorded = 3
  MaxCommits = 2
  MaxCrashes = 1
INVARIANTS TypeOK DedupWindow CrashSafe
PROPERTIES WriteAheadSpec
SYMMETRY Symmetry
CHECK_DEADLOCK FALSE
