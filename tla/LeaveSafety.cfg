SPECIFICATION Spec
CONSTANTS
    monthly = monthly
    yearly = yearly
    upfront = upfront
    compoff = compoff
    PEs = {yearly, upfront}
    Runners = {loop}
    Policy <- MCPolicy
    NoLimit = NoLimit
    NoDay = NoDay
    Decembers = {1}
    QuarterStarts = {2}
    Horizon = 4
    Lookback = 12
    StampGaps = 1
    MaxFailures = 1
    CompOffPEs = {yearly}
    Applicants = {yearly}
    StartMonths = {0, 1}
    MaxTaken = 1
    MaxEarned = 1
INVARIANTS TypeOK GrantedOnce  MissedMonthCredited
CHECK_DEADLOCK FALSE
