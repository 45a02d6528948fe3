\* A build that stops at the first failure, with two workers that may die or not start,
\* a user who forces it to stop and a disk that fills up.
CONSTANTS
    unpack1 = unpack1
    unpack2 = unpack2
    build1 = build1
    build2 = build2
    configure3 = configure3
    build3 = build3
    main = main
    fake = fake
    r1 = r1
    r2 = r2
    r3 = r3
    TaskName <- MCTaskName
    Recipe <- MCRecipe
    Tasks <- WideTasks
    Depends <- WideDepends
    NumberTasks = 2
    HaltOnFailure = TRUE
    NumberThreads <- OneUnpack
    Stamp <- OwnStamp
    Stamped = {}
    NoExec = {}
    MainWorkers = {main}
    FakeWorkers = {fake}
    WorkerOf <- BuildFake
    Faults = {"taskfail", "workerdie", "spawnfail", "forceshutdown", "halt"}
SPECIFICATION FairSpec
INVARIANTS
    ConcurrencyLimit
    ThreadLimit
PROPERTIES
    Termination
