SPECIFICATION IdleSpec
CONSTANTS
    c = c
    d = d
    e = e
    n1 = n1
    n2 = n2
    n3 = n3
    n4 = n4
    nil = nil
    IdleCbs = {c, d, e}
    IdleNodes = {n1, n2, n3, n4}
    Nil = nil
INVARIANT OneRing
PROPERTIES Implements NoStarvation
