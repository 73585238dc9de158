SPECIFICATION Spec
CONSTANTS
    a = a
    b = b
    c = c
    none = none
    ev = ev
    fo = fo
    m1 = m1
    w1 = w1
    Tables = {a, b, c}
    NoTable = none
    Handlers = {ev, fo}
    MenuItems = {m1}
    Widgets = {w1}
    Misuse = {}
    MaxRepeat = 2
    MaxNest = 2
INVARIANTS ScheduledAsAsked NothingDangles
PROPERTY Disciplined
