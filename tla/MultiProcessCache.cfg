\* One cooker with two parsers, or two cookers; any process may be killed once.
CONSTANTS
    k1 = k1
    k2 = k2
    k3 = k3
    p1 = p1
    p2 = p2
    Cooker = {k1, k2, k3}
    Parser = {p1, p2}
    Entry = {"code", "file"}
    MaxSlot = 5
    Finds <- Finders
    Pid <- Pids
    Users <- OneOrTwo
    MaxKills = 1
    MaxLeft = 1
SPECIFICATION FairSpec
INVARIANTS
    TypeOK
    NothingLost
    IncompleteOnlyAfterKill
PROPERTIES
    SavedGetsMerged
