CONSTANTS
    Threads = {"t1", "t2"}
    Subjects = {"s"}
    Ids = {"i1", "i2", "i3"}
    Cleaner = "cleaner"
    Once = {"once"}
    Cron = {"cron"}
    Startup = {"startup"}
    Dispatches = {"j1", "j2"}
    MaxAttempts = 2
    Revisions = {1, 2, 3}
    KeepReleases = 2
    Devices = {"s1", "s2"}
    Apps = {"p", "q"}
    Batches = {"b1", "b2"}
    Sockets = {"s1", "s2"}
    Tickets = {"t1", "t2"}
SPECIFICATION Spec
INVARIANTS BackgroundHolds
PROPERTIES BackgroundSettles
CHECK_DEADLOCK FALSE
