CONSTANTS
    RoundCount = 2
    RoundDuration = 2
    JudgeGrace = 1
    Boxes = {b1}
    p1 = p1
    p2 = p2
    Procs = {p1, p2}
    Slots = {1, 2, 3, 4, 5, 6}
    Copies = {1, 2}
    Window = 1
    MaxTries = 2
    RetryDelay = 1
    Setups <- LiveSetups
SPECIFICATION FairSpec
PROPERTIES MatchGoesOn
