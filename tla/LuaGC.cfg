SPECIFICATION Spec
CONSTANTS
    Main = Main
    Registry = Registry
    WeakTable = WeakTable
    t1 = t1
    u1 = u1
    u2 = u2
    str = str
    Tables = {t1}
    Udata = {u1, u2}
    Strings = {str}
    MaxStack = 2
    MaxFields = 1
INVARIANTS ReachableAlive TriColour ListsApart FullCollects
PROPERTIES FinalizersInOrder CyclesComplete
