SPECIFICATION FairLockSpec
CONSTANTS
    main = main
    t1 = t1
    t2 = t2
    none = none
    Threads = {main, t1, t2}
    Main = main
    NoThread = none
    MaxDepth = 2
    MaxMainDepth = 1
INVARIANTS MutualExclusion ReleasedByHolder
PROPERTIES EveryLockGranted
