\* bitbake -k: tasks fail and the queue goes on with what does not need them.
CONSTANTS
    unpack1 = unpack1
    unpack2 = unpack2
    build1 = build1
    build2 = build2
    configure3 = configure3
    build3 = build3
    main = main
    fake = fake
    r1 = r1
    r2 = r2
    r3 = r3
    TaskName <- MCTaskName
    Recipe <- TwinRecipe
    Tasks <- SixTasks
    Depends <- TwinDepends
    NumberTasks = 2
    HaltOnFailure = FALSE
    NumberThreads <- Unlimited
    Stamp <- TwinStamp
    Stamped <- MCStamped
    NoExec = {build3}
    MainWorkers = {main}
    FakeWorkers = {}
    WorkerOf <- AllMain
    Faults = {"taskfail", "pressure", "shutdown", "stoptasks"}
SPECIFICATION Spec
INVARIANTS
    TypeOK
    Accounting
    StampExclusion
    UpToDate
    ResultRight
    AsMuchAsPossible
    NoOrphans
PROPERTIES
    GraphSpec
