SPECIFICATION FairSpec
CONSTANTS
  Keys = {k1}
  Unhandled = {}
  Scheduled = {}
  Workers = {w1}
  Stoppable = {w1}
  MaxAttempts = 2
  Faults = {"crash"}
  MaxFaults = 1
  MaxRequeues = 0
  MaxTicks = 0
  Horizon = 0
PROPERTY JobsSettle
CHECK_DEADLOCK FALSE
