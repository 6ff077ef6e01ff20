SPECIFICATION Spec
CONSTANTS
  s1 = s1
  s2 = s2
  a1 = a1
  a2 = a2
  Sheets = {s1, s2}
  Actors = {a1, a2}
  Serves <- Overlapping
  Operations = {"create", "upsert", "submit", "approve", "reject", "delete", "invoice"}
  Opening = 1
  MaxGranted = 1
  MaxLeave = 2
  MaxWork = 0
CHECK_DEADLOCK FALSE
INVARIANTS
  PaidLeaveConserved
