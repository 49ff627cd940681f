SPECIFICATION Spec
CONSTANTS
  a1 = a1
  a2 = a2
  u1 = u1
  u2 = u2
  Evaluator = Evaluator
  NoAlarm = NoAlarm
  Unknown = Unknown
  RuleSeverity = 1
CONSTANTS
  Alarms = {a1, a2}
  Users = {u1}
  Top = 1
INVARIANTS OneActive

