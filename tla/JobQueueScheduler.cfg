SPECIFICATION FairSpec
CONSTANTS
  Keys = {k1}
  Unhandled = {}
  Scheduled = {k1}
  Workers = {w1}
  Stoppable = {w1}
  MaxAttempts = 2
  Faults = {}
  MaxFaults = 0
  MaxRequeues = 0
  MaxTicks = 2
  Horizon = 0
PROPERTY ScheduledWorkRuns
CHECK_DEADLOCK FALSE
