CONSTANTS
    c1 = c1
    c2 = c2
    c3 = c3
    Client = {c1, c2, c3}
    Server = {"s1", "s2", "s3"}
    Settings <- SomeSettings
    MaxBacklog = 2
SPECIFICATION FairSpec
CHECK_DEADLOCK FALSE
INVARIANTS
    TypeOK
    ServerReachable
    SessionKept
    NoLitter
PROPERTIES
    EveryoneEnds
