CONSTANTS
    image = image
    pkg1 = pkg1
    comp1 = comp1
    prep1 = prep1
    pkg2 = pkg2
    comp2 = comp2
    sys = sys
    tool = tool
    comp3 = comp3
    doc = doc
    all = all
    p1 = p1
    l1 = l1
    c1 = c1
    p2 = p2
    l2 = l2
    c2 = c2
    q = q
    pnew = pnew
    lnew = lnew
    sysold = sysold
    pkg1old = pkg1old
    pkg2old = pkg2old
    docold = docold
    Tasks <- TwinTasks
    Depends <- TwinDepends
    SceneTasks <- TwinScene
    HardDeps <- TwinHardDeps
    Hashes <- TwinHashes
    NewHashes <- TwinNewHashes
    Reporting = {l1, l2}
    Stamps <- TwinStamps
    Hash <- TwinHash
    Config <- TwinConfig
    Targets = {all}
    NoExec = {all}
    Cached = {p1, l1, pnew}
    Built = {}
    Droppable = {l1, l2}
    NumberTasks = 2
    HaltOnFailure = FALSE
    Failing = {p1, l1, c1, p2, l2, c2}
    SceneFailing = {}
SPECIFICATION FairSpec
INVARIANTS
    BuiltOnce
    ResultRight
PROPERTIES
    Termination
