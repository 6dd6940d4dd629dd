SPECIFICATION FairSpec
CONSTANTS
  Reads = {r1, r2, r3, r4}
  Timed = {r1, r2}
  Spurious = {r1, r2, r3, r4}
  Size = 2
  Workers = 3
INVARIANTS ConnectionsConserved NoLostWakeup
PROPERTY ReadsEnd
CHECK_DEADLOCK FALSE
