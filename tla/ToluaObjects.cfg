SPECIFICATION Spec
CONSTANTS
    a1 = a1
    a2 = a2
    u1 = u1
    u2 = u2
    None = None
    Addresses = {a1, a2}
    Uds = {u1, u2}
    Classes <- ClassesValue
    Super <- SuperValue
    Root <- RootValue
INVARIANTS OwnedExist OneUserdata
PROPERTIES HeldNotDeleted LostDeleted
CHECK_DEADLOCK FALSE
