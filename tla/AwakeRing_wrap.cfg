SPECIFICATION Spec
CONSTANTS
    t1 = t1
    t2 = t2
    main = main
    Threads = {t1, t2}
    Main = main
    RingSize = 3
    PipeCap = 2
    MaxPending = 4
    MaxAwakes = 6
    MaxNest = 2
INVARIANT NoHandlerLost
