SPECIFICATION Spec
CONSTANTS
  MaxMemories = 1
  Expiring = {1}
  Users = {u1}
  Ttl = 1
  Grace = 1
  Faults = {}
  MaxFaults = 0
  MaxOps = 1
PROPERTY GraceRespected
CHECK_DEADLOCK FALSE
