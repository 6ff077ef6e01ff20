SPECIFICATION Spec
CONSTANTS
    Tokens = {t1}
    NoRow = NoRow
    InMemory = InMemory
    NumQuestions = 2
    RecoveryBatch = 1
    Resends = TRUE
    MaxReturns = 0
    MaxCrashes = 0
    MaxVisits = 2
    MaxSubmits = 1
    MaxSweeps = 0
INVARIANTS AnswersInPlace
CHECK_DEADLOCK FALSE
