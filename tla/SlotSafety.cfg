SPECIFICATION Spec
CONSTANTS
  s1 = s1
  s2 = s2
  Slots = {s1, s2}
  Resumes = {b1, b2}
  Clients = {c1, c2}
  Recruiters = {t1}
  Capacity <- MCCapacity
  Deletable = {b1, b2}
  MaxSessions = 2
  NoSlot = NoSlot
  NoResume = NoResume
SYMMETRY Symmetry
CHECK_DEADLOCK FALSE
INVARIANTS
  TypeOK
  NeverOversold
  ConfirmedSlotExists
  
PROPERTIES
  SeatsAllocated
