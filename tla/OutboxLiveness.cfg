SPECIFICATION FairSpec
CONSTANTS
  q1 = q1
  q2 = q2
  q3 = q3
  e1 = e1
  e2 = e2
  k1 = k1
  NoKey = NoKey
  Requests = {q1, q2}
  Workers = {w1, w2}
  Admins = {}
  Events = {e1, e2}
  EventOf <- MCEventOf
  Keys = {k1}
  KeyOf <- MCKeyOf
  Poison = {}
  MaxAttempts = 2
  Batch = 1
  SmtpConfigured = TRUE
  MaxCrashes = 1
CHECK_DEADLOCK FALSE
INVARIANTS
  FailedMeansExhausted
PROPERTIES
  QueuedIsSettled
  SentStaysSent
