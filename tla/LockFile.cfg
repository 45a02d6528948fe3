\* Three processes; one of them may be killed at any step.
CONSTANTS
    p1 = p1
    p2 = p2
    p3 = p3
    Procs = {p1, p2, p3}
    i1 = i1
    i2 = i2
    i3 = i3
    Inodes = {i1, i2, i3}
    Calls <- MCCalls
    MaxCrashes = 1
SPECIFICATION FairSpec
INVARIANTS
    MutualExclusion
    HolderOnDisk
PROPERTIES
    NoLitter
    LockSpec
    Progress
