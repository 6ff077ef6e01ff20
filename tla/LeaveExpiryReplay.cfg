SPECIFICATION Spec
CONSTANTS
    monthly = monthly
    yearly = yearly
    upfront = upfront
    compoff = compoff
    PEs = {monthly, upfront}
    Runners = {loop}
    Policy <- MCPolicy
    NoLimit = NoLimit
    NoDay = NoDay
    Decembers = {1}
    QuarterStarts = {2}
    Horizon = 4
    Lookback = 12
    StampGaps = 1
    MaxFailures = 0
    CompOffPEs = {}
    Applicants = {}
    StartMonths = {0, 1, 2}
    MaxTaken = 0
    MaxEarned = 0
PROPERTIES ExpiryTakesOnlyPrior
CHECK_DEADLOCK FALSE
