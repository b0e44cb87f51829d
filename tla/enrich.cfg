SPECIFICATION Spec
CONSTANTS
  m1 = m1
  p1 = p1
  w1 = w1
  w2 = w2
  none = none
  Docs <- Memo
  Webpages <- Nothing
  Workers <- Two
  None = none
  InlineContent = TRUE
  MaxVersion = 3
  Reissues = 0
  MaxSendAttempts = 1
  MaxEnrichAttempts = 3
  MaxCleanupAttempts = 0
  MaxScrapes = 1
  MaxReceives = 1
  MaxFaults = 3
CHECK_DEADLOCK FALSE
SYMMETRY WorkerSymmetry
INVARIANTS
  ServedIsCurrent
PROPERTIES
  LifecycleSpec
