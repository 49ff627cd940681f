SPECIFICATION FairSpec
CONSTANTS
  a1 = a1
  a2 = a2
  u1 = u1
  u2 = u2
  Evaluator = Evaluator
  NoAlarm = NoAlarm
  Unknown = Unknown
  RuleSeverity = 1
CONSTANTS
  Alarms = {a1}
  Users = {u1, u2}
  Top = 3
INVARIANTS TypeOK SeverityComesBack RaisedIsRemembered
PROPERTIES AcknowledgedStaysPut EscalationReachesTop ActiveEnds
