CONSTANTS
    Teams = {t1, t2}
    Templates = {e1}
    RoundCount = 2
    Procs = {p1, p2}
    MaxPauses = 1
    MaxBans = 1
    MaxCrashes = 1
    MaxAdjustments = 1
SPECIFICATION SceneSpec
INVARIANTS TypeOK FirstBloodIsFirst NoCaptureLost FlagsCountOnce
PROPERTIES RulesHold Answered
CHECK_DEADLOCK FALSE
