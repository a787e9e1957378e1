CONSTANTS
    Threads = {"t1", "t2"}
    Players = {"u", "v", "w"}
    Teams = {"a", "b"}
    Users = {"u", "v"}
    Scopes = {"openid", "email"}
    Txns = {"x", "y"}
    MaxOps = 7
    Tabs = {"t1", "t2"}
    Containers = {"c1", "c2"}
    Sessions = {"s1", "s2", "s3"}
    Staff = {"a", "b", "d"}
    Roles = {"super", "mgr", "aud", "adm", "new"}
    Permissions = {"roles.manage", "users.manage", "p", "q"}
    Super = "super"
    OtherBoxes = {"o1", "o2"}
    LastOffset = 3
    Nodes = {"n", "m"}
    Events = {"e1", "e2", "e3"}
    Streams = {"s"}
    Capacity = 1
    Readers = {"r1", "r2"}
    Writers = {"w1", "w2"}
    TTL = 2
    Slow = 1
    MaxFaults = 1
    MaxWrites = 2
    Window = 4
    DefaultLimit = 2
    MaxTime = 10
    MaxCalls = 5
    MaxDelay = 1
    Skews = {0, 1}
    MaxAttempts = 12
    TotalDeadline = 90
    InitialBackoff = 1
    MaxBackoff = 8
    Jitter = 1
    Durations = {0, 30}
    MaxBoots = 2
    Rulesets = {1, 2}
    Names = {"a", "b"}
SPECIFICATION Spec
INVARIANTS CompetitionsHold IdentityHolds ContentHolds PlatformHolds HelperHolds
PROPERTIES StepsHold
CHECK_DEADLOCK FALSE
