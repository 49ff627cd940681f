SPECIFICATION FairBreakerSpec
CONSTANTS
  c1 = c1
  c2 = c2
  c3 = c3
  r1 = r1
  Callers = {c1, c2, c3}
  Reporters = {r1}
  FailureThreshold = 2
  SuccessThreshold = 2
  HalfOpenMax = 3
  MaxAbandoned = 1
INVARIANTS BreakerTypeOK ThresholdsActedOn NeverWedged
PROPERTIES TripsOnStreak ClosesOnTrial Recovers
