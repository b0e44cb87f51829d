SPECIFICATION Spec
CONSTANTS
  r1 = r1
  r2 = r2
  c1 = c1
  c2 = c2
  c3 = c3
  a1 = a1
  a2 = a2
  s1 = s1
  s2 = s2
  s3 = s3
  none = none
  Requests = {r1, r2}
  Challenges = {c1, c2, c3}
  Accounts = {a1, a2}
  Sessions = {s1, s2}
  MaxAttempts = 1
  HourlyLimit = 1
  None = none
SYMMETRY IdentitySymmetry
CHECK_DEADLOCK FALSE
INVARIANTS
  IdentityTypeOK
  HourlyLimitSlack
  RotationSlack
  SessionsEndWithPassword
PROPERTIES
  TicketSpec
