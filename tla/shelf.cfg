SPECIFICATION Spec
CONSTANTS
  c1 = c1
  c2 = c2
  n1 = n1
  n2 = n2
  r1 = r1
  r2 = r2
  None = None
  LastDoc = 2
  Collections = {c1, c2}
  Names = {n1, n2}
  Requests = {r1, r2}
  MaxBatch = 1
  MaxPage = 2
CONSTRAINT OneRequestBesideReader
SYMMETRY Symmetry
CHECK_DEADLOCK FALSE
INVARIANTS
  ListingTypeOK
  RelationsOnlyByOverlap
PROPERTIES
  ListedOnce
