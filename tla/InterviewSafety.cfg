SPECIFICATION FairSpec
CONSTANTS
    Tokens = {t1}
    NoRow = NoRow
    InMemory = InMemory
    NumQuestions = 1
    RecoveryBatch = 1
    Resends = TRUE
    MaxReturns = 0
    MaxCrashes = 1
    MaxVisits = 1
    MaxSubmits = 1
    MaxSweeps = 1
INVARIANTS TypeOK ReadyMeansReport 
PROPERTIES EveryInterviewSettled
CHECK_DEADLOCK FALSE
