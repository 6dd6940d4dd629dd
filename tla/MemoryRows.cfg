SPECIFICATION Spec
CONSTANTS
  a1 = a1
  a2 = a2
  b = b
  NoText = NoText
  Texts <- MCTexts
  Topic <- MCTopic
  Outages = TRUE
  MaxRows = 2
  MaxOps = 4
  MaxRuns = 1
  Faults = {"statement", "lookup"}
  MaxFaults = 1
INVARIANTS TaintIsUntrusted NoDuplicateVectors VersionsAgree MetadataAgrees
PROPERTY ChainIsKept
CHECK_DEADLOCK FALSE
