SPECIFICATION Spec
CONSTANTS
    win = win
    grp = grp
    inner = inner
    btn = btn
    Null = null
    Widgets = {win, grp, inner, btn}
    Groups = {win, grp}
    Windows = {win}
    FirstParent <- MCFirstParent
    Trackers = {t1}
    Programs = {{"refocuses"}, {"reschedules"}}
    Uses <- MCUses
    MaxNested = 2
    MaxScheduled = 2
INVARIANTS TypeOK PointersAlive SavedFocusIsChild TrackersTell NoDoubleDelete
PROPERTY NoneForgotten
