SPECIFICATION FairSpec
CONSTANTS
  Keys = {k1, k2}
  Unhandled = {k2}
  Scheduled = {k1}
  Workers = {w1, w2}
  Stoppable = {w1}
  MaxAttempts = 2
  Faults = {"claim_timeout", "finish_timeout", "finish_lost", "statement", "panic", "crash"}
  MaxFaults = 1
  MaxRequeues = 1
  MaxTicks = 1
  Horizon = 0
INVARIANTS OnlyHolderFinishes OutcomesAreEarned DlqAgrees
PROPERTIES BackoffRespected JobsSettleOrOrphan WorkersStop
CHECK_DEADLOCK FALSE
