SPECIFICATION Spec
CONSTANTS
  m1 = m1
  p1 = p1
  w1 = w1
  w2 = w2
  none = none
  Docs <- Page
  Webpages <- Page
  Workers <- Two
  None = none
  InlineContent = TRUE
  MaxVersion = 2
  Reissues = 1
  MaxSendAttempts = 1
  MaxEnrichAttempts = 0
  MaxCleanupAttempts = 0
  MaxScrapes = 1
  MaxReceives = 1
  MaxFaults = 1
CHECK_DEADLOCK FALSE
SYMMETRY WorkerSymmetry
INVARIANTS
  EnrichesOwnText
  ScrapedStaysScraped
PROPERTIES
  SucceededIsTerminal
