SPECIFICATION TimeoutsSpec
CONSTANTS
    a = a
    b = b
    any = any
    Args = {a, b}
    AnyArg = any
    Delays = {0, 1, 2}
    MaxList = 2
    MaxLag = 3
    MaxLate = 2
    MaxTimeoutNest = 2
INVARIANTS SortedList RepeatNotEarly
PROPERTIES WaitReturns TimeoutCalled
