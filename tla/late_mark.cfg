SPECIFICATION Spec
CONSTANTS
  m1 = m1
  p1 = p1
  w1 = w1
  w2 = w2
  none = none
  Docs <- Page
  Webpages <- Page
  Workers <- One
  None = none
  InlineContent = TRUE
  MaxVersion = 1
  Reissues = 0
  MaxSendAttempts = 1
  MaxEnrichAttempts = 0
  MaxCleanupAttempts = 0
  MaxScrapes = 2
  MaxReceives = 1
  MaxFaults = 0
CHECK_DEADLOCK FALSE
INVARIANTS
  LastFailureRejects
