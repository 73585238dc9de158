SPECIFICATION FairSpec
CONSTANTS
    t1 = t1
    t2 = t2
    main = main
    Threads = {t1, t2}
    Main = main
    RingSize = 3
    PipeCap = 2
    MaxPending = 2
    MaxAwakes = 6
    MaxNest = 2
INVARIANTS NoHandlerLost NoStrandedHandler
PROPERTIES EveryHandlerRuns QueueSpec
