CONSTANTS
    TaskCount = 2
    Workers = {w1}
    Permits = 2
    Procs = {p1}
    MaxAttempts = 2
    LeaseTTL = 1
    Deadline = 2
    ResultTries = 2
    MaxClaims = 2
    MaxPauses = 1
    MaxCrashes = 0
    MaxDeaths = 0
    MaxLosses = 0
    MaxBans = 0
SPECIFICATION FairSpec
INVARIANTS ScoresMatchVerdicts
PROPERTIES JudgePromise AllJudged
CHECK_DEADLOCK FALSE
