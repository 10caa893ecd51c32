SPECIFICATION Spec
CONSTANTS
    s1 = s1
    a1 = a1
    c1 = c1
    c2 = c2
    PlainServices = {s1}
    Actions = {a1}
    Callers = {c1, c2}
    CallersOf <- MCCallersOf
    MaxCalls = 3
    OtherType <- MCOtherType
    NoEntry = NoEntry
PROPERTIES
    RevokedActionIsStopped
CONSTRAINTS
    MCOneAtATime
SYMMETRY MCSymmetry
CHECK_DEADLOCK FALSE
