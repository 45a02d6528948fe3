CONSTANTS
    image = image
    pkg1 = pkg1
    comp1 = comp1
    prep1 = prep1
    pkg2 = pkg2
    comp2 = comp2
    sys = sys
    tool = tool
    comp3 = comp3
    doc = doc
    all = all
    p1 = p1
    l1 = l1
    c1 = c1
    p2 = p2
    l2 = l2
    c2 = c2
    q = q
    pnew = pnew
    lnew = lnew
    sysold = sysold
    pkg1old = pkg1old
    pkg2old = pkg2old
    docold = docold
    Tasks <- ImageTasks
    Depends <- ImageDepends
    SceneTasks <- ImageScene
    HardDeps <- ImageHardDeps
    Hashes <- ImageHashes
    NewHashes <- ImageNewHashes
    Reporting = {sys}
    Stamps <- ImageStamps
    Hash <- ImageHash
    Config <- ImageConfig
    Targets = {image, prep1}
    NoExec = {image}
    Cached = {pkg1, pkg2, sys, pkg1old}
    Built = {comp3}
    Droppable = {sys, tool}
    NumberTasks = 2
    HaltOnFailure = TRUE
    Failing = {sys, comp1}
    SceneFailing = {pkg1, sys}
SPECIFICATION Spec
INVARIANTS
    TypeOK
    Disjoint
    InputsThere
    InputsSettled
    NoOverlap
    HardDepsThere
PROPERTIES
    GraphSpec
