CONSTANTS
    image = image
    pkg1 = pkg1
    comp1 = comp1
    prep1 = prep1
    pkg2 = pkg2
    comp2 = comp2
    sys = sys
    tool = tool
    comp3 = comp3
    doc = doc
    all = all
    p1 = p1
    l1 = l1
    c1 = c1
    p2 = p2
    l2 = l2
    c2 = c2
    q = q
    pnew = pnew
    lnew = lnew
    sysold = sysold
    pkg1old = pkg1old
    pkg2old = pkg2old
    docold = docold
    Tasks <- GuestTasks
    Depends <- GuestDepends
    SceneTasks <- GuestTasks
    HardDeps <- GuestDepends
    Hashes = {p1, l1, q}
    NewHashes <- GuestNone
    Reporting = {}
    Stamps <- GuestNone
    Hash <- GuestHash
    Config <- GuestConfig
    Targets = {p1, p2, q}
    NoExec = {}
    Cached = {p1, l1, q}
    Built = {}
    Droppable = {}
    NumberTasks = 2
    HaltOnFailure = FALSE
    Failing = {}
    SceneFailing = {p1, l1, p2, l2, q}
SPECIFICATION Spec
INVARIANTS
    Disjoint
