SPECIFICATION FairSpec
CONSTANTS
  c1 = c1  c2 = c2  c3 = c3  c4 = c4
  Tasks = {c1, c2, c3, c4}
  FailureThreshold = 3
  MaxAttempts = 3
INVARIANTS TypeOK BreakerAtRest
PROPERTY ChargeEnds
CHECK_DEADLOCK FALSE
