SPECIFICATION FairSpec
CONSTANTS
  MaxMemories = 2
  Expiring = {1, 2}
  Users = {u1}
  Ttl = 1
  Grace = 1
  Faults = {"statement", "vacuum", "timeout", "crash"}
  MaxFaults = 1
  MaxOps = 2
INVARIANTS TombstonesAreTrue LedgerAgrees
PROPERTIES PurgesAreDueAndFinal RunSettlesItsRows
CHECK_DEADLOCK FALSE
