\* The user has asked the build to stop (Ctrl-C once) when a disk set to HALT fills up.
CONSTANTS
    unpack1 = unpack1
    unpack2 = unpack2
    build1 = build1
    build2 = build2
    configure3 = configure3
    build3 = build3
    main = main
    fake = fake
    r1 = r1
    r2 = r2
    r3 = r3
    TaskName <- MCTaskName
    Recipe <- MCRecipe
    Tasks <- FourTasks
    Depends <- FourDepends
    NumberTasks = 2
    HaltOnFailure = FALSE
    NumberThreads <- Unlimited
    Stamp <- OwnStamp
    Stamped = {}
    NoExec = {}
    MainWorkers = {main}
    FakeWorkers = {}
    WorkerOf <- FourMain
    Faults = {"taskfail", "shutdown", "halt"}
SPECIFICATION FairSpec
PROPERTIES
    HaltStops
