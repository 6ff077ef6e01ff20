SPECIFICATION Spec
CONSTANTS
    Reqs = {r1}
    Candidates = {c1}
    Interviews = {i1}
    Positions = 1
    Targets <- Ladder
    Earlier = 1
    NoRow = NoRow
    Idle = Idle
INVARIANTS TypeOK OfferBeforeApproval  ForwardedOnMerit
PROPERTIES RejectedStaysOut 
CHECK_DEADLOCK FALSE
