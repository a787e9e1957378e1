CONSTANTS
    Threads = {"t1", "t2"}
    Records = {1, 2, 3}
    Free = 1
    Members = {"u", "v"}
    PlayingTeams = {"a", "b", "c"}
    PlayingEvents = {"e1", "e2"}
    PlaysIn <- TwoEvents
    PlaysFor <- OneTeam
    Teams = {"x", "y"}
    Events = {"e1", "e2", "e3"}
    Width = 6
SPECIFICATION Spec
INVARIANTS ResetsFair DeployedAsRecorded AccessHolds AddressesDisjoint
PROPERTIES StartsAsChecked OperationsSettle
CHECK_DEADLOCK FALSE
