SPECIFICATION Spec
CONSTANTS
  m1 = m1
  p1 = p1
  w1 = w1
  w2 = w2
  none = none
  Docs <- Page
  Webpages <- Page
  Workers <- One
  None = none
  InlineContent = FALSE
  MaxVersion = 2
  Reissues = 0
  MaxSendAttempts = 1
  MaxEnrichAttempts = 1
  MaxCleanupAttempts = 2
  MaxScrapes = 1
  MaxReceives = 2
  MaxFaults = 1
CHECK_DEADLOCK FALSE
INVARIANTS
  TypeOK
  ServedIsCurrent
PROPERTIES
  LifecycleSpec
  CleanupSeesCurrentKeys
