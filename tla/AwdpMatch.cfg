CONSTANTS
    Threads = {t1, t2}
    MatchRuns = {1}
    Boxes = {b1}
    MaxGen = 3
    MaxCrashes = 1
    MaxFails = 1
    Api = {"a"}
    Js = {"i", "j"}
    Runs = {1, 2}
    PracticeRounds = {1}
    Events = {"d", "e"}
    Practice = "p"
    Subnets = {1, 2}
SPECIFICATION MatchSpec
INVARIANTS MatchScores
PROPERTIES FixStartsPristine MatchEnds
CHECK_DEADLOCK FALSE
