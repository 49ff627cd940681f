SPECIFICATION FairSpec
CONSTANTS
  a1 = a1
  a2 = a2
  a3 = a3
  s1 = s1
  s2 = s2
  h1 = h1
  t1 = t1
  t2 = t2
  d1 = d1
  None = None
  Alarms = {a1, a2}
  Data = {d1}
  Subscribers = {s1, s2}
  SubscriberSeq <- MCTwoSubscribers
  Handlers = {h1}
  HandlerSeq <- MCHandlers
  Tasks = {t1, t2}
  MaxQueue = 1
  MaxDedup = 1
  MaxRecorded = 2
  MaxCommits = 2
  MaxCrashes = 0
PROPERTIES PublishTerminates
CHECK_DEADLOCK FALSE
