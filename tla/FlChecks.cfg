SPECIFICATION ChecksSpec
CONSTANTS
    c = c
    d = d
    n1 = n1
    n2 = n2
    n3 = n3
    n4 = n4
    null = null
    Cbs = {c, d}
    Nodes = {n1, n2, n3, n4}
    Null = null
    MaxCheckNest = 3
INVARIANTS ChecksTypeOK RestsAtFirst EveryCheckCalled
PROPERTIES NoneTwice PassEnds
