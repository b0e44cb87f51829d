SPECIFICATION Spec
CONSTANTS
  f1 = f1
  f2 = f2
  p1 = p1
  u1 = u1
  u2 = u2
  w1 = w1
  none = none
  Docs = {f1, f2, p1}
  Webpages = {p1}
  Workers = {w1}
  None = none
  InlineContent = FALSE
  MaxVersion = 1
  Reissues = 0
  MaxSendAttempts = 1
  MaxEnrichAttempts = 0
  MaxCleanupAttempts = 2
  MaxScrapes = 1
  MaxReceives = 1
  MaxFaults = 2
  Uploads = {u1, u2}
  FilesOf <- MCFilesOf
  Bytes <- MCBytes
  MaxFileBytes = 2
  StorageLimit = 3
SYMMETRY UploadSymmetry
CHECK_DEADLOCK FALSE
INVARIANTS
  AccountsTypeOK
  FilesWithinLimit
  UploadIsAllOrNothing
  WithdrawnOwnsNothing
  RemovalStaysPossible
PROPERTIES
  KeysOutliveObjects
