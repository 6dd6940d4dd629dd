SPECIFICATION FairSpec
CONSTANTS
  Clients = {c1, c2}
  Workers = {w1, w2}
  Sizes = {2}
  Room = 3
  Window = 2
  Ceiling = 2
  MaxCost = 1
  MaxCandidates = 1
  MaxAttempts = 2
  Faults = {"client_crash", "enqueue", "read", "ledger", "mark", "worker_crash"}
  MaxSessions = 1
  MaxTurns = 3
  MaxFaults = 2
  MaxRequeues = 1
INVARIANTS OneExtraction ShortSessionsAreSeen SpendingIsBounded RecordedSpendingIsCapped
PROPERTIES ExtractedOnce ClosedSettles
