SPECIFICATION Spec
CONSTANTS
  s1 = s1
  s2 = s2
  a1 = a1
  a2 = a2
  Sheets = {s1, s2}
  Actors = {a1}
  Serves <- Shared
  Operations <- AllOperations
  Opening = 1
  MaxGranted = 2
  MaxLeave = 2
  MaxWork = 2
CHECK_DEADLOCK FALSE
INVARIANTS
  TypeOK
  EachDayChargedOnce
  CompOffCreditedOnce
  CompOffConserved
  CompOffWithinWork
