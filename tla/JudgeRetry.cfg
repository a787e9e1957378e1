CONSTANTS
    TaskCount = 1
    Workers = {w1, w2}
    Permits = 1
    Procs = {p1}
    MaxAttempts = 2
    LeaseTTL = 1
    Deadline = 2
    ResultTries = 2
    MaxClaims = 3
    MaxPauses = 0
    MaxCrashes = 1
    MaxDeaths = 1
    MaxLosses = 2
    MaxBans = 1
SPECIFICATION Spec
INVARIANTS TypeOK AttemptsBounded VerdictFromWorker PenaltyFromWorker
PROPERTIES NothingTakenBack
CHECK_DEADLOCK FALSE
