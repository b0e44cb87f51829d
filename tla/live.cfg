SPECIFICATION FairSpec
CONSTANTS
  m1 = m1
  p1 = p1
  w1 = w1
  w2 = w2
  none = none
  Docs <- Page
  Webpages <- Page
  Workers <- One
  None = none
  InlineContent = FALSE
  MaxVersion = 1
  Reissues = 0
  MaxSendAttempts = 2
  MaxEnrichAttempts = 3
  MaxCleanupAttempts = 2
  MaxScrapes = 2
  MaxReceives = 3
  MaxFaults = 1
CHECK_DEADLOCK FALSE
PROPERTIES
  MessagesArrive
  EnrichmentFinishes
  CleanupFinishes
