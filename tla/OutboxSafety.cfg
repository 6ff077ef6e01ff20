SPECIFICATION Spec
CONSTANTS
  q1 = q1
  q2 = q2
  q3 = q3
  e1 = e1
  e2 = e1
  k1 = k1
  NoKey = NoKey
  Requests = {q1, q3}
  Workers = {w1, w2}
  Admins = {a1, a2}
  Events = {e1}
  EventOf <- MCEventOf
  Keys = {k1}
  KeyOf <- MCKeyOf
  Poison = {q3}
  MaxAttempts = 2
  Batch = 2
  SmtpConfigured = TRUE
  MaxCrashes = 1
SYMMETRY Symmetry
CHECK_DEADLOCK FALSE
INVARIANTS
  TypeOK
  ClaimsAreExclusive
  AtMostOnce
  StatusTellsDelivery
PROPERTIES
  MailsDelivered
