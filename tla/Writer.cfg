SPECIFICATION FairSpec
CONSTANTS
  Jobs = {j1, j2}
  NoJob = NoJob
  Shutdowns = {s1, s2}
  QueueSize = 2
INVARIANTS TypeOK RejectionIsFinal Fifo DrainedWhenStopped PanicIsVisible
PROPERTIES ImplementsWriteService QueuedJobsLeave CallsReturn
