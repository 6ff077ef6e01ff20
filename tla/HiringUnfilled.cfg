SPECIFICATION Spec
CONSTANTS
    Reqs = {r1}
    Candidates = {c1}
    Interviews = {}
    Positions = 1
    Targets <- Ladder
    Earlier = 0
    NoRow = NoRow
    Idle = Idle
PROPERTIES FilledIsFulfilled
CHECK_DEADLOCK FALSE
